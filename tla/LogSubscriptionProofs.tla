------------------------- MODULE LogSubscriptionProofs -------------------------
(***************************************************************************)
(* Proof that SubscribeFilterLogs' flattening goroutine hands the consumer *)
(* the logs in the order the event system produced them, none twice and    *)
(* none skipped, for every batch size and every number of logs Commit      *)
(* emits, whatever the backend does in between.                            *)
(***************************************************************************)
EXTENDS SimulatedChain, SequenceTheorems, TLAPS

(***************************************************************************)
(* The strengthening.  StreamIsFlattening alone is not inductive: SendLog  *)
(* takes Head(cur), so the inner loop must hold a non-empty batch, and     *)
(* RecvBatch overwrites cur, so the outer select must hold none.  The      *)
(* sequences are sequences of log numbers, which the concatenation lemmas  *)
(* need.                                                                   *)
(***************************************************************************)
SubInv ==
    /\ produced \in Seq(Nat)
    /\ pending \in Seq(Nat)
    /\ cur \in Seq(Nat)
    /\ delivered \in Seq(Nat)
    /\ fpc \in {"outer", "inner", "done"}
    /\ fpc = "outer" => cur = << >>
    /\ fpc = "inner" => cur # << >>
    /\ StreamIsFlattening

(***************************************************************************)
(* Sending the head of a non-empty batch moves it from the batch to the    *)
(* end of what was delivered, and leaves their concatenation as it was.    *)
(***************************************************************************)
LEMMA SendHeadKeepsConcat ==
    ASSUME NEW S, NEW d \in Seq(S), NEW c \in Seq(S), c # << >>
    PROVE  Append(d, Head(c)) \o Tail(c) = d \o c
<1>1. Head(c) \in S /\ Tail(c) \in Seq(S)
    BY HeadTailProperties
<1>2. c = << Head(c) >> \o Tail(c)
    BY <1>1, SeqEqual, HeadTailProperties, ConcatProperties
<1>3. Append(d, Head(c)) = d \o << Head(c) >>
    BY <1>1, AppendIsConcat
<1>4. (d \o << Head(c) >>) \o Tail(c) = d \o (<< Head(c) >> \o Tail(c))
    BY <1>1, ConcatAssociative
<1>5. QED
    BY <1>2, <1>3, <1>4

(* The initial state satisfies the strengthening. *)
LEMMA SubInitInv == SubInit => SubInv
BY ConcatEmptySeq DEF SubInit, SubInv, StreamIsFlattening

(***************************************************************************)
(* Every step of the subscription keeps it, whatever the number of logs    *)
(* the backend has emitted.                                                *)
(***************************************************************************)
LEMMA SubStepInv ==
    ASSUME NEW emitted, SubInv, SubNext(emitted)
    PROVE  SubInv'
<1> USE DEF SubInv
<1>1. CASE \E k \in BatchSizes : Produce(k, emitted)
    <2>1. PICK k \in BatchSizes : Produce(k, emitted)
        BY <1>1
    <2> DEFINE batch == [i \in 1..k |-> Len(produced) + i]
    <2>2. k \in Nat /\ batch \in Seq(Nat)
        BY <2>1, SubscriptionConstantsAssumption
    <2>3. pending' = batch /\ produced' = produced \o batch /\ pending = << >>
        BY <2>1 DEF Produce
    <2>4. (delivered \o cur) \o pending = produced
        BY <2>1 DEF Produce, StreamIsFlattening
    <2>5. delivered \o cur = produced
        BY <2>3, <2>4, ConcatProperties, ConcatEmptySeq
    <2>6. (delivered \o cur) \o batch = produced \o batch
        BY <2>5
    <2>7. produced' \in Seq(Nat) /\ pending' \in Seq(Nat)
        BY <2>2, <2>3, ConcatProperties
    <2>8. UNCHANGED <<cur, fpc, delivered>>
        BY <2>1 DEF Produce
    <2>9. StreamIsFlattening'
        BY <2>3, <2>6, <2>8 DEF StreamIsFlattening
    <2>10. QED
        BY <2>7, <2>8, <2>9
<1>2. CASE SubFails
    BY <1>2 DEF SubFails, StreamIsFlattening
<1>3. CASE Drain
    BY <1>3 DEF Drain, StreamIsFlattening
<1>4. CASE RecvBatch
    <2>1. cur = << >>
        BY <1>4 DEF RecvBatch
    <2>2. delivered \o cur = delivered /\ delivered \o pending \in Seq(Nat)
        BY <2>1, ConcatEmptySeq, ConcatProperties
    <2>3. (delivered \o pending) \o << >> = delivered \o pending
        BY <2>2, ConcatEmptySeq
    <2>4. QED
        BY <1>4, <2>2, <2>3 DEF RecvBatch, StreamIsFlattening
<1>5. CASE SendLog
    <2>1. cur # << >>
        BY <1>5 DEF SendLog
    <2>2. Append(delivered, Head(cur)) \o Tail(cur) = delivered \o cur
        BY <2>1, SendHeadKeepsConcat
    <2>3. Head(cur) \in Nat /\ Tail(cur) \in Seq(Nat)
        BY <2>1, HeadTailProperties
    <2>4. QED
        BY <1>5, <2>2, <2>3, AppendProperties DEF SendLog, StreamIsFlattening
<1>6. CASE Return
    BY <1>6 DEF Return, StreamIsFlattening
<1>7. CASE Unsubscribe
    BY <1>7 DEF Unsubscribe, StreamIsFlattening
<1>8. QED
    BY <1>1, <1>2, <1>3, <1>4, <1>5, <1>6, <1>7 DEF SubNext

(***************************************************************************)
(* The backend's own steps leave the subscription's variables alone.       *)
(***************************************************************************)
LEMMA ChainStepInv == SubInv /\ [ChainNext]_chainVars => SubInv'
<1> SUFFICES ASSUME SubInv, [ChainNext]_chainVars PROVE SubInv'
    OBVIOUS
<1>1. CASE Next /\ UNCHANGED subVars
    BY <1>1 DEF SubInv, StreamIsFlattening, subVars
<1>2. CASE SubNext(logsEmitted) /\ UNCHANGED vars
    BY <1>2, SubStepInv
<1>3. CASE UNCHANGED chainVars
    BY <1>3 DEF SubInv, StreamIsFlattening, chainVars, subVars
<1>4. QED
    BY <1>1, <1>2, <1>3 DEF ChainNext

(***************************************************************************)
(* Whatever the backend's callers, the event system and the consumer do,   *)
(* as long as the flattening goroutine runs, what the consumer received,   *)
(* followed by the batch in hand and the batch being offered, is exactly   *)
(* the sequence of logs produced: the theorem behind the run               *)
(* simulated_backend.                                                      *)
(***************************************************************************)
THEOREM StreamIsFlatteningHolds == ChainSpec => []StreamIsFlattening
<1>1. ChainInit => SubInv
    BY SubInitInv DEF ChainInit
<1>2. SubInv /\ [ChainNext]_chainVars => SubInv'
    BY ChainStepInv
<1>3. SubInv => StreamIsFlattening
    BY DEF SubInv
<1>4. QED
    BY <1>1, <1>2, <1>3, PTL DEF ChainSpec

=============================================================================
