----------------------- MODULE SimulatedBackendProofs -----------------------
(***************************************************************************)
(* Proof that whatever the callers of SimulatedBackend do, in any order,   *)
(* the pending block stays one InsertChain accepts and PendingNonceAt      *)
(* agrees with NonceAt, for every set of senders, gas uses, gas limit and  *)
(* bound, with a log subscription open on the backend or not.              *)
(*                                                                         *)
(* TxsOf and GasOf are recursive functions over the pending transactions.  *)
(* The lemmas below show, by a least-counterexample argument over the      *)
(* naturals, that each has exactly one solution of its defining equation, *)
(* and from that what it gives for << >> and for an Append.                *)
(***************************************************************************)
EXTENDS SimulatedChain, SequenceTheorems, WellFoundedInduction, TLAPS

(* Every non-empty set of naturals has a least element. *)
LEMMA LeastNat ==
    ASSUME NEW T \in SUBSET Nat, T # {}
    PROVE  \E m \in T : \A j \in T : m <= j
<1>1. PICK x \in T : \A y \in T : ~(<<y, x>> \in OpToRel(<, Nat))
    BY NatLessThanWellFounded, WFMin
<1>2. ASSUME NEW y \in T PROVE x <= y
    <2>1. ~(<<y, x>> \in {ss \in Nat \X Nat : ss[1] < ss[2]})
        BY <1>1 DEF OpToRel
    <2>2. QED
        BY <2>1
<1>3. QED
    BY <1>2

-----------------------------------------------------------------------------
(***************************************************************************)
(* The defining equations of TxsOf's and GasOf's functions, for the first  *)
(* k transactions of t.                                                    *)
(***************************************************************************)
KeepTx(t, s, x, i) == IF t[i].from = s THEN Append(x, t[i]) ELSE x

AddGas(t, x, i) == x + t[i].gas

TxsEq(t, s, k, f) ==
    f = [i \in 0..k |-> IF i = 0 THEN << >> ELSE KeepTx(t, s, f[i - 1], i)]

GasEq(t, k, f) ==
    f = [i \in 0..k |-> IF i = 0 THEN 0 ELSE AddGas(t, f[i - 1], i)]

(* TxsOf's equation has a solution for every length. *)
LEMMA TxsEqExists ==
    ASSUME NEW t, NEW s, NEW n \in Nat
    PROVE  \E f : TxsEq(t, s, n, f)
<1> HIDE DEF KeepTx, AddGas
<1> DEFINE T == {k \in Nat : ~\E f : TxsEq(t, s, k, f)}
<1> SUFFICES ASSUME T # {} PROVE FALSE
    OBVIOUS
<1>1. PICK m \in T : \A j \in T : m <= j
    BY LeastNat
<1>2. CASE m = 0
    <2>1. TxsEq(t, s, 0, [i \in 0..0 |-> << >>])
        BY DEF TxsEq
    <2>2. QED
        BY <1>1, <1>2, <2>1
<1>3. CASE m # 0
    <2>0. m \in Nat
        BY <1>1
    <2>1. m - 1 \in Nat /\ m - 1 \notin T
        BY <1>1, <1>3
    <2>2. PICK g : TxsEq(t, s, m - 1, g)
        BY <2>1
    <2> HIDE DEF T
    <2> DEFINE w == [i \in 0..m |-> IF i < m THEN g[i] ELSE KeepTx(t, s, g[m - 1], m)]
    <2>3. ASSUME NEW i \in 0..m
          PROVE  w[i] = IF i = 0 THEN << >> ELSE KeepTx(t, s, w[i - 1], i)
        <3>1. CASE i = 0
            BY <2>0, <1>3, <2>2, <3>1 DEF TxsEq
        <3>2. CASE i # 0 /\ i < m
            <4>0. i \in 0..(m - 1) /\ i - 1 \in 0..m /\ i - 1 < m
                BY <2>0, <3>2
            <4>1. w[i] = g[i] /\ w[i - 1] = g[i - 1]
                BY <2>0, <4>0
            <4>2. g[i] = KeepTx(t, s, g[i - 1], i)
                BY <2>2, <4>0, <3>2 DEF TxsEq
            <4>3. QED
                BY <3>2, <4>1, <4>2
        <3>3. CASE i = m
            BY <2>0, <1>3, <3>3
        <3>4. QED
            BY <2>0, <3>1, <3>2, <3>3
    <2>4. TxsEq(t, s, m, w)
        BY <2>3 DEF TxsEq
    <2>5. QED
        BY <1>1, <2>4 DEF T
<1>4. QED
    BY <1>2, <1>3

(* TxsOf's equation has at most one solution. *)
LEMMA TxsEqUnique ==
    ASSUME NEW t, NEW s, NEW n \in Nat, NEW f, NEW g,
           TxsEq(t, s, n, f), TxsEq(t, s, n, g)
    PROVE  f = g
<1> HIDE DEF KeepTx, AddGas
<1> DEFINE D == {i \in 0..n : f[i] # g[i]}
<1>1. CASE D = {}
    <2>1. f = [i \in 0..n |-> f[i]] /\ g = [i \in 0..n |-> g[i]]
        BY DEF TxsEq
    <2>2. \A i \in 0..n : f[i] = g[i]
        BY <1>1
    <2>3. QED
        BY <2>1, <2>2
<1>2. CASE D # {}
    <2>0. D \in SUBSET Nat
        OBVIOUS
    <2>1. PICK m \in D : \A j \in D : m <= j
        BY <1>2, <2>0, LeastNat
    <2>2. m # 0
        BY <2>1 DEF TxsEq
    <2>3. f[m - 1] = g[m - 1]
        BY <2>1, <2>2
    <2>4. QED
        BY <2>1, <2>2, <2>3 DEF TxsEq
<1>3. QED
    BY <1>1, <1>2

(* GasOf's equation has a solution for every length. *)
LEMMA GasEqExists ==
    ASSUME NEW t, NEW n \in Nat
    PROVE  \E f : GasEq(t, n, f)
<1> HIDE DEF KeepTx, AddGas
<1> DEFINE T == {k \in Nat : ~\E f : GasEq(t, k, f)}
<1> SUFFICES ASSUME T # {} PROVE FALSE
    OBVIOUS
<1>1. PICK m \in T : \A j \in T : m <= j
    BY LeastNat
<1>2. CASE m = 0
    <2>1. GasEq(t, 0, [i \in 0..0 |-> 0])
        BY DEF GasEq
    <2>2. QED
        BY <1>1, <1>2, <2>1
<1>3. CASE m # 0
    <2>0. m \in Nat
        BY <1>1
    <2>1. m - 1 \in Nat /\ m - 1 \notin T
        BY <1>1, <1>3
    <2>2. PICK g : GasEq(t, m - 1, g)
        BY <2>1
    <2> HIDE DEF T
    <2> DEFINE w == [i \in 0..m |-> IF i < m THEN g[i] ELSE AddGas(t, g[m - 1], m)]
    <2>3. ASSUME NEW i \in 0..m
          PROVE  w[i] = IF i = 0 THEN 0 ELSE AddGas(t, w[i - 1], i)
        <3>1. CASE i = 0
            BY <2>0, <1>3, <2>2, <3>1 DEF GasEq
        <3>2. CASE i # 0 /\ i < m
            <4>0. i \in 0..(m - 1) /\ i - 1 \in 0..m /\ i - 1 < m
                BY <2>0, <3>2
            <4>1. w[i] = g[i] /\ w[i - 1] = g[i - 1]
                BY <2>0, <4>0
            <4>2. g[i] = AddGas(t, g[i - 1], i)
                BY <2>2, <4>0, <3>2 DEF GasEq
            <4>3. QED
                BY <3>2, <4>1, <4>2
        <3>3. CASE i = m
            BY <2>0, <1>3, <3>3
        <3>4. QED
            BY <2>0, <3>1, <3>2, <3>3
    <2>4. GasEq(t, m, w)
        BY <2>3 DEF GasEq
    <2>5. QED
        BY <1>1, <2>4 DEF T
<1>4. QED
    BY <1>2, <1>3

(* GasOf's equation has at most one solution. *)
LEMMA GasEqUnique ==
    ASSUME NEW t, NEW n \in Nat, NEW f, NEW g, GasEq(t, n, f), GasEq(t, n, g)
    PROVE  f = g
<1> HIDE DEF KeepTx, AddGas
<1> DEFINE D == {i \in 0..n : f[i] # g[i]}
<1>1. CASE D = {}
    <2>1. f = [i \in 0..n |-> f[i]] /\ g = [i \in 0..n |-> g[i]]
        BY DEF GasEq
    <2>2. \A i \in 0..n : f[i] = g[i]
        BY <1>1
    <2>3. QED
        BY <2>1, <2>2
<1>2. CASE D # {}
    <2>0. D \in SUBSET Nat
        OBVIOUS
    <2>1. PICK m \in D : \A j \in D : m <= j
        BY <1>2, <2>0, LeastNat
    <2>2. m # 0
        BY <2>1 DEF GasEq
    <2>3. f[m - 1] = g[m - 1]
        BY <2>1, <2>2
    <2>4. QED
        BY <2>1, <2>2, <2>3 DEF GasEq
<1>3. QED
    BY <1>1, <1>2


-----------------------------------------------------------------------------
(***************************************************************************)
(* TxsOf of a sequence is the last value of the solution of its equation.  *)
(***************************************************************************)
LEMMA TxsOfDef ==
    ASSUME NEW S, NEW t \in Seq(S), NEW s
    PROVE  LET F == CHOOSE f : TxsEq(t, s, Len(t), f)
           IN  TxsEq(t, s, Len(t), F) /\ TxsOf(t, s) = F[Len(t)]
<1>0. Len(t) \in Nat
    BY LenProperties
<1>1. \E f : TxsEq(t, s, Len(t), f)
    BY <1>0, TxsEqExists
<1>2. TxsOf(t, s) = (CHOOSE f : TxsEq(t, s, Len(t), f))[Len(t)]
    BY DEF TxsOf, TxsEq, KeepTx
<1>3. QED
    BY <1>1, <1>2

(* The same for GasOf. *)
LEMMA GasOfDef ==
    ASSUME NEW S, NEW t \in Seq(S)
    PROVE  LET F == CHOOSE f : GasEq(t, Len(t), f)
           IN  GasEq(t, Len(t), F) /\ GasOf(t) = F[Len(t)]
<1>0. Len(t) \in Nat
    BY LenProperties
<1>1. \E f : GasEq(t, Len(t), f)
    BY <1>0, GasEqExists
<1>2. GasOf(t) = (CHOOSE f : GasEq(t, Len(t), f))[Len(t)]
    BY DEF GasOf, GasEq, AddGas
<1>3. QED
    BY <1>1, <1>2

(* A block without transactions has none of any sender and uses no gas. *)
LEMMA EmptyBlock ==
    ASSUME NEW s
    PROVE  TxsOf(<< >>, s) = << >> /\ GasOf(<< >>) = 0
<1>1. TxsOf(<< >>, s) = << >>
    <2> DEFINE F == CHOOSE f : TxsEq(<< >>, s, 0, f)
    <2>1. TxsEq(<< >>, s, 0, F) /\ TxsOf(<< >>, s) = F[0]
        BY TxsOfDef, EmptySeq
    <2>2. QED
        BY <2>1 DEF TxsEq
<1>2. GasOf(<< >>) = 0
    <2> DEFINE F == CHOOSE f : GasEq(<< >>, 0, f)
    <2>1. GasEq(<< >>, 0, F) /\ GasOf(<< >>) = F[0]
        BY GasOfDef, EmptySeq
    <2>2. QED
        BY <2>1 DEF GasEq
<1>3. QED
    BY <1>1, <1>2

(***************************************************************************)
(* Appending a transaction appends it to its sender's transactions and     *)
(* leaves the others' alone.                                               *)
(***************************************************************************)
LEMMA TxsOfAppend ==
    ASSUME NEW S, NEW t \in Seq(S), NEW x \in S, NEW s
    PROVE  TxsOf(Append(t, x), s) = IF x.from = s THEN Append(TxsOf(t, s), x) ELSE TxsOf(t, s)
<1> DEFINE u  == Append(t, x)
           n  == Len(t)
           F1 == CHOOSE f : TxsEq(u, s, Len(u), f)
           F0 == CHOOSE f : TxsEq(t, s, n, f)
           r  == [i \in 0..n |-> F1[i]]
<1>1. u \in Seq(S) /\ Len(u) = n + 1 /\ n \in Nat /\ u[n + 1] = x
      /\ \A i \in 1..n : u[i] = t[i]
    BY AppendProperties
<1>2. TxsEq(u, s, n + 1, F1) /\ TxsOf(u, s) = F1[n + 1]
    BY <1>1, TxsOfDef
<1>3. TxsEq(t, s, n, F0) /\ TxsOf(t, s) = F0[n]
    BY TxsOfDef
<1> HIDE DEF F1, F0, u
<1>4. TxsEq(t, s, n, r)
    <2>1. ASSUME NEW i \in 0..n
          PROVE  r[i] = IF i = 0 THEN << >> ELSE KeepTx(t, s, r[i - 1], i)
        <3>1. r[i] = F1[i] /\ (i # 0 => r[i - 1] = F1[i - 1])
            BY <1>1
        <3>2. F1[i] = IF i = 0 THEN << >> ELSE KeepTx(u, s, F1[i - 1], i)
            <4>1. i \in 0..(n + 1)
                BY <1>1
            <4>2. QED
                BY <4>1, <1>2, Zenon DEF TxsEq
        <3>3. i # 0 => KeepTx(u, s, F1[i - 1], i) = KeepTx(t, s, F1[i - 1], i)
            BY <1>1 DEF KeepTx
        <3> HIDE DEF r
        <3>4. QED
            BY <3>1, <3>2, <3>3
    <2>2. QED
        BY <2>1 DEF TxsEq
<1> HIDE DEF r
<1>5. r = F0
    BY <1>1, <1>3, <1>4, TxsEqUnique
<1>6. F1[n + 1] = KeepTx(u, s, F1[n], n + 1)
    BY <1>1, <1>2 DEF TxsEq
<1>7. F1[n] = TxsOf(t, s)
    BY <1>1, <1>3, <1>5 DEF r
<1>8. QED
    BY <1>1, <1>2, <1>6, <1>7 DEF KeepTx, u

(* Appending a transaction adds its gas to the block's. *)
LEMMA GasOfAppend ==
    ASSUME NEW S, NEW t \in Seq(S), NEW x \in S
    PROVE  GasOf(Append(t, x)) = GasOf(t) + x.gas
<1> DEFINE u  == Append(t, x)
           n  == Len(t)
           F1 == CHOOSE f : GasEq(u, Len(u), f)
           F0 == CHOOSE f : GasEq(t, n, f)
           r  == [i \in 0..n |-> F1[i]]
<1>1. u \in Seq(S) /\ Len(u) = n + 1 /\ n \in Nat /\ u[n + 1] = x
      /\ \A i \in 1..n : u[i] = t[i]
    BY AppendProperties
<1>2. GasEq(u, n + 1, F1) /\ GasOf(u) = F1[n + 1]
    BY <1>1, GasOfDef
<1>3. GasEq(t, n, F0) /\ GasOf(t) = F0[n]
    BY GasOfDef
<1> HIDE DEF F1, F0, u
<1>4. GasEq(t, n, r)
    <2>1. ASSUME NEW i \in 0..n
          PROVE  r[i] = IF i = 0 THEN 0 ELSE AddGas(t, r[i - 1], i)
        <3>1. r[i] = F1[i] /\ (i # 0 => r[i - 1] = F1[i - 1])
            BY <1>1
        <3>2. F1[i] = IF i = 0 THEN 0 ELSE AddGas(u, F1[i - 1], i)
            <4>1. i \in 0..(n + 1)
                BY <1>1
            <4>2. QED
                BY <4>1, <1>2, Zenon DEF GasEq
        <3>3. i # 0 => AddGas(u, F1[i - 1], i) = AddGas(t, F1[i - 1], i)
            BY <1>1 DEF AddGas
        <3> HIDE DEF r
        <3>4. QED
            BY <3>1, <3>2, <3>3
    <2>2. QED
        BY <2>1 DEF GasEq
<1> HIDE DEF r
<1>5. r = F0
    BY <1>1, <1>3, <1>4, GasEqUnique
<1>6. F1[n + 1] = AddGas(u, F1[n], n + 1)
    BY <1>1, <1>2 DEF GasEq
<1>7. F1[n] = GasOf(t)
    BY <1>1, <1>3, <1>5 DEF r
<1>8. QED
    BY <1>1, <1>2, <1>6, <1>7 DEF AddGas, u


-----------------------------------------------------------------------------
(***************************************************************************)
(* The strengthening.  PendingBlockValid and TypeOK are not inductive as   *)
(* they stand: Commit adds Len(pendingTxs) logs, so the pending block must *)
(* hold at most MaxPending transactions and the logs at most MaxPending a  *)
(* block; and the per-sender transactions and the gas used must be a       *)
(* sequence of transactions and a number, which the lemmas above carry     *)
(* over an Append.                                                         *)
(***************************************************************************)
BackendInv ==
    /\ TypeOK
    /\ Len(pendingTxs) <= MaxPending
    /\ logsEmitted <= height * MaxPending
    /\ \A s \in Senders : TxsOf(pendingTxs, s) \in Seq(Tx)
    /\ GasOf(pendingTxs) \in Nat
    /\ PendingBlockValid


(* NewSimulatedBackend's state satisfies it. *)
LEMMA BackendInitInv == Init => BackendInv
<1> SUFFICES ASSUME Init PROVE BackendInv
    OBVIOUS
<1>1. /\ \A s \in Senders : TxsOf(pendingTxs, s) = << >>
      /\ GasOf(pendingTxs) = 0
    BY EmptyBlock DEF Init
<1>2. \A s \in Senders : TxsOf(pendingTxs, s) \in Seq(Tx) /\ Len(TxsOf(pendingTxs, s)) = 0
    BY <1>1, EmptySeq
<1>3. TypeOK
    BY BackendConstantsAssumption DEF Init, TypeOK
<1>4. PendingBlockValid
    BY <1>1, <1>2, BackendConstantsAssumption
       DEF Init, PendingBlockValid, NonceAt, PendingNonceAt
<1>5. QED
    BY <1>1, <1>2, <1>3, <1>4, BackendConstantsAssumption DEF Init, BackendInv

(***************************************************************************)
(* Commit and Rollback both end in emptyPendingBlock: the new pending      *)
(* block is empty, its gas pool full, and pendingState is the state the    *)
(* head was given.  Commit gives the head the nonces moved past each       *)
(* sender's pending transactions and adds the block's logs.                *)
(***************************************************************************)
LEMMA CommitInv == ASSUME BackendInv, Commit PROVE BackendInv'
<1> DEFINE newNonce == [s \in Senders |-> headNonce[s] + Len(TxsOf(pendingTxs, s))]
<1>1. /\ headNonce' = newNonce /\ pendingNonce' = newNonce
      /\ headTime' = pendingTime /\ pendingTime' = pendingTime + BlockPeriod
      /\ height < MaxHeight /\ height' = height + 1
      /\ logsEmitted' = logsEmitted + Len(pendingTxs)
      /\ pendingTxs' = << >> /\ gasPool' = BlockGasLimit /\ adjusted' = 0
    BY DEF Commit, emptyPendingBlock
<1>2. newNonce \in [Senders -> Nat]
    BY LenProperties DEF BackendInv, TypeOK
<1>3. /\ \A s \in Senders : TxsOf(pendingTxs', s) = << >>
      /\ GasOf(pendingTxs') = 0
    BY <1>1, EmptyBlock
<1>4. logsEmitted' \in 0..MaxHeight * MaxPending /\ logsEmitted' <= height' * MaxPending
    <2>1. height \in Nat /\ MaxPending \in Nat /\ logsEmitted \in Nat /\ Len(pendingTxs) \in Nat
        BY BackendConstantsAssumption, LenProperties DEF BackendInv, TypeOK
    <2>2. logsEmitted' <= (height + 1) * MaxPending
        BY <1>1, <2>1 DEF BackendInv
    <2>3. (height + 1) * MaxPending <= MaxHeight * MaxPending
        BY <1>1, <2>1, BackendConstantsAssumption
    <2>4. QED
        BY <1>1, <2>1, <2>2, <2>3, BackendConstantsAssumption
<1>5. TypeOK'
    <2>1. height' \in 0..MaxHeight /\ pendingTime' \in Nat /\ headTime' \in Nat
        BY <1>1, BackendConstantsAssumption DEF BackendInv, TypeOK
    <2>2. QED
        BY <1>1, <1>2, <1>4, <2>1, BackendConstantsAssumption DEF TypeOK
<1>6. \A s \in Senders : TxsOf(pendingTxs', s) \in Seq(Tx) /\ Len(TxsOf(pendingTxs', s)) = 0
    BY <1>3, EmptySeq
<1>7. PendingBlockValid'
    BY <1>1, <1>2, <1>3, <1>6, BackendConstantsAssumption
       DEF PendingBlockValid, NonceAt, PendingNonceAt
<1>8. QED
    BY <1>1, <1>3, <1>4, <1>5, <1>6, <1>7, BackendConstantsAssumption DEF BackendInv

(* Rollback: emptyPendingBlock from the head's state and time. *)
LEMMA RollbackInv == ASSUME BackendInv, Rollback PROVE BackendInv'
<1>1. /\ pendingNonce' = headNonce /\ pendingTime' = headTime + BlockPeriod
      /\ pendingTxs' = << >> /\ gasPool' = BlockGasLimit /\ adjusted' = 0
      /\ UNCHANGED <<headNonce, headTime, height, logsEmitted>>
    BY DEF Rollback, emptyPendingBlock
<1>2. /\ \A s \in Senders : TxsOf(pendingTxs', s) = << >>
      /\ GasOf(pendingTxs') = 0
    BY <1>1, EmptyBlock
<1>3. TypeOK'
    BY <1>1, BackendConstantsAssumption DEF BackendInv, TypeOK
<1>4. \A s \in Senders : TxsOf(pendingTxs', s) \in Seq(Tx) /\ Len(TxsOf(pendingTxs', s)) = 0
    BY <1>2, EmptySeq
<1>5. PendingBlockValid'
    <2>1. headNonce \in [Senders -> Nat]
        BY DEF BackendInv, TypeOK
    <2>2. QED
        BY <1>1, <1>2, <1>4, <2>1, BackendConstantsAssumption
           DEF PendingBlockValid, NonceAt, PendingNonceAt
<1>6. QED
    BY <1>1, <1>2, <1>3, <1>4, <1>5, BackendConstantsAssumption DEF BackendInv

(***************************************************************************)
(* SendTransaction: tx goes at the end of the pending block.  Its sender's *)
(* transactions grow by tx, whose nonce the guard makes pendingState's     *)
(* nonce, which is the head's nonce plus the sender's earlier pending      *)
(* transactions; the other senders' are as they were.  The gas tx uses     *)
(* moves from the pool to the block, and the guard keeps the pool at or    *)
(* above zero.                                                             *)
(***************************************************************************)
LEMMA SendTransactionInv ==
    ASSUME BackendInv, NEW s0 \in Senders, NEW n0 \in 0..MaxPending, NEW g0 \in GasUses,
           SendTransaction([from |-> s0, nonce |-> n0, gas |-> g0])
    PROVE  BackendInv'
<1> DEFINE tx == [from |-> s0, nonce |-> n0, gas |-> g0]
<1>1. tx \in Tx /\ g0 \in Nat
    BY BackendConstantsAssumption DEF Tx
<1>2. /\ Len(pendingTxs) < MaxPending /\ n0 = pendingNonce[s0] /\ g0 <= gasPool
      /\ gasPool' = gasPool - g0
      /\ pendingNonce' = [pendingNonce EXCEPT ![s0] = @ + 1]
      /\ pendingTxs' = Append(pendingTxs, tx)
      /\ pendingTime' = headTime + BlockPeriod
      /\ UNCHANGED <<headNonce, headTime, height, adjusted, logsEmitted>>
    BY DEF SendTransaction
<1>3. /\ pendingTxs \in Seq(Tx)
      /\ pendingNonce \in [Senders -> Nat]
      /\ headNonce \in [Senders -> Nat]
      /\ gasPool \in 0..BlockGasLimit
      /\ headTime \in Nat
    BY DEF BackendInv, TypeOK
<1>4. pendingTxs' \in Seq(Tx) /\ Len(pendingTxs') = Len(pendingTxs) + 1
    BY <1>1, <1>2, <1>3, AppendProperties
<1>5. ASSUME NEW s \in Senders
      PROVE  TxsOf(pendingTxs', s) =
                IF s = s0 THEN Append(TxsOf(pendingTxs, s), tx) ELSE TxsOf(pendingTxs, s)
    <2>1. TxsOf(Append(pendingTxs, tx), s) =
             IF tx.from = s THEN Append(TxsOf(pendingTxs, s), tx) ELSE TxsOf(pendingTxs, s)
        BY <1>1, <1>3, TxsOfAppend
    <2>2. QED
        BY <1>2, <2>1
<1>6. GasOf(pendingTxs') = GasOf(pendingTxs) + g0
    <2>1. GasOf(Append(pendingTxs, tx)) = GasOf(pendingTxs) + tx.gas
        BY <1>1, <1>3, GasOfAppend
    <2>2. QED
        BY <1>2, <2>1
<1>7. \A s \in Senders : TxsOf(pendingTxs', s) \in Seq(Tx)
    BY <1>1, <1>5, AppendProperties DEF BackendInv
<1>8. GasOf(pendingTxs') \in Nat /\ gasPool' \in 0..BlockGasLimit
    BY <1>1, <1>2, <1>3, <1>6, BackendConstantsAssumption DEF BackendInv
<1>9. TypeOK'
    BY <1>1, <1>2, <1>3, <1>4, <1>8, BackendConstantsAssumption DEF BackendInv, TypeOK
<1>10. Len(pendingTxs') <= MaxPending
    BY <1>2, <1>3, <1>4, LenProperties, BackendConstantsAssumption
<1>11. ASSUME NEW s \in Senders
       PROVE  LET mine == TxsOf(pendingTxs', s) IN
              /\ \A i \in 1..Len(mine) : mine[i].nonce = headNonce'[s] + i - 1
              /\ pendingNonce'[s] = headNonce'[s] + Len(mine)
    <2> DEFINE old == TxsOf(pendingTxs, s)
    <2>1. /\ old \in Seq(Tx)
          /\ \A i \in 1..Len(old) : old[i].nonce = headNonce[s] + i - 1
          /\ pendingNonce[s] = headNonce[s] + Len(old)
        BY DEF BackendInv, PendingBlockValid, NonceAt, PendingNonceAt
    <2>2. CASE s = s0
        <3> DEFINE new == Append(old, tx)
        <3>1. TxsOf(pendingTxs', s) = new
            BY <1>5, <2>2
        <3>2. Len(new) = Len(old) + 1 /\ Len(old) \in Nat
              /\ \A i \in 1..Len(old) : new[i] = old[i]
              /\ new[Len(old) + 1] = tx
            BY <1>1, <2>1, AppendProperties, LenProperties
        <3>3. pendingNonce'[s] = pendingNonce[s] + 1
            BY <1>2, <1>3, <2>2
        <3>4. ASSUME NEW i \in 1..Len(new) PROVE new[i].nonce = headNonce[s] + i - 1
            <4>1. CASE i \in 1..Len(old)
                BY <2>1, <3>2, <4>1
            <4>2. CASE i = Len(old) + 1
                BY <1>2, <2>1, <2>2, <3>2, <4>2
            <4>3. QED
                BY <3>2, <4>1, <4>2
        <3>5. headNonce'[s] = headNonce[s] /\ headNonce[s] \in Nat
            BY <1>2, <1>3
        <3>6. pendingNonce'[s] = headNonce[s] + Len(new)
            <4>1. pendingNonce[s] = headNonce[s] + Len(old)
                BY <2>1
            <4>2. Len(new) = Len(old) + 1 /\ Len(old) \in Nat
                BY <3>2
            <4>3. QED
                BY <3>3, <3>5, <4>1, <4>2
        <3>7. QED
            BY <3>1, <3>4, <3>5, <3>6
    <2>3. CASE s # s0
        <3>1. TxsOf(pendingTxs', s) = old
            BY <1>5, <2>3
        <3>2. pendingNonce'[s] = pendingNonce[s]
            BY <1>2, <1>3, <2>3
        <3>3. QED
            BY <1>2, <2>1, <3>1, <3>2
    <2>4. QED
        BY <2>2, <2>3
<1>12. PendingBlockValid'
    <2>1. GasOf(pendingTxs') + gasPool' = BlockGasLimit
        BY <1>1, <1>2, <1>3, <1>6, BackendConstantsAssumption DEF BackendInv, PendingBlockValid
    <2>2. GasOf(pendingTxs') <= BlockGasLimit
        BY <1>8, <2>1
    <2>3. QED
        BY <1>11, <2>1, <2>2 DEF PendingBlockValid, NonceAt, PendingNonceAt
<1>13. QED
    BY <1>2, <1>7, <1>8, <1>9, <1>10, <1>12 DEF BackendInv

(* AdjustTime moves only the pending block's time and the ghost shift.   *)
LEMMA AdjustTimeInv ==
    ASSUME BackendInv, NEW a \in Adjustments, AdjustTime(a)
    PROVE  BackendInv'
<1>1. /\ adjusted + a <= MaxAdjusted
      /\ pendingTime' = headTime + BlockPeriod + a
      /\ adjusted' = adjusted + a
      /\ UNCHANGED <<headNonce, headTime, height, pendingTxs, pendingNonce, gasPool, logsEmitted>>
    BY DEF AdjustTime
<1>2. TypeOK'
    BY <1>1, BackendConstantsAssumption DEF BackendInv, TypeOK
<1>3. QED
    BY <1>1, <1>2 DEF BackendInv, PendingBlockValid, NonceAt, PendingNonceAt

(***************************************************************************)
(* PendingCallContract: the call's nonce increment is reverted to the      *)
(* snapshot, so pendingState's nonces are as they were.                    *)
(***************************************************************************)
LEMMA PendingCallContractInv ==
    ASSUME BackendInv, NEW s \in Senders, PendingCallContract(s)
    PROVE  BackendInv'
<1>1. UNCHANGED vars
    BY DEF PendingCallContract, vars
<1>2. QED
    BY <1>1 DEF vars, BackendInv, TypeOK, PendingBlockValid, NonceAt, PendingNonceAt

(* Every step of the backend, and a stutter, keeps BackendInv. *)
LEMMA BackendStepInv == BackendInv /\ [Next]_vars => BackendInv'
<1> SUFFICES ASSUME BackendInv, [Next]_vars PROVE BackendInv'
    OBVIOUS
<1>1. CASE Commit
    BY <1>1, CommitInv
<1>2. CASE Rollback
    BY <1>2, RollbackInv
<1>3. CASE \E s \in Senders, n \in 0..MaxPending, g \in GasUses :
              SendTransaction([from |-> s, nonce |-> n, gas |-> g])
    BY <1>3, SendTransactionInv
<1>4. CASE \E a \in Adjustments : AdjustTime(a)
    BY <1>4, AdjustTimeInv
<1>5. CASE \E s \in Senders : PendingCallContract(s)
    BY <1>5, PendingCallContractInv
<1>6. CASE UNCHANGED vars
    BY <1>6 DEF vars, BackendInv, TypeOK, PendingBlockValid, NonceAt, PendingNonceAt
<1>7. QED
    BY <1>1, <1>2, <1>3, <1>4, <1>5, <1>6 DEF Next

(***************************************************************************)
(* In the composed system the subscription's steps leave the backend's     *)
(* variables alone, so BackendInv holds throughout ChainSpec.              *)
(***************************************************************************)
LEMMA ChainBackendInv == ChainSpec => []BackendInv
<1>1. ChainInit => BackendInv
    BY BackendInitInv DEF ChainInit
<1>2. BackendInv /\ [ChainNext]_chainVars => BackendInv'
    <2> SUFFICES ASSUME BackendInv, [ChainNext]_chainVars PROVE BackendInv'
        OBVIOUS
    <2>1. CASE Next /\ UNCHANGED subVars
        BY <2>1, BackendStepInv
    <2>2. CASE SubNext(logsEmitted) /\ UNCHANGED vars
        BY <2>2, BackendStepInv
    <2>3. CASE UNCHANGED chainVars
        BY <2>3, BackendStepInv DEF chainVars
    <2>4. QED
        BY <2>1, <2>2, <2>3 DEF ChainNext
<1>3. QED
    BY <1>1, <1>2, PTL DEF ChainSpec

(***************************************************************************)
(* Commit never panics on the pending block and PendingNonceAt agrees with *)
(* NonceAt and the pending transactions (PendingBlockValid), whatever the  *)
(* backend's callers and the log subscription do, for every value of the   *)
(* constants that satisfies BackendConstantsAssumption.                    *)
(***************************************************************************)
THEOREM PendingBlockValidHolds == ChainSpec => []PendingBlockValid
BY ChainBackendInv, PTL DEF BackendInv

(* The backend's variables keep their types (TypeOK) in every behaviour.   *)
THEOREM BackendTypeOKHolds == ChainSpec => []TypeOK
BY ChainBackendInv, PTL DEF BackendInv

=============================================================================
