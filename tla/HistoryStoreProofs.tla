------------------------ MODULE HistoryStoreProofs ------------------------
(***************************************************************************)
(* Proofs about HistoryStore: the type invariant, and, for a store whose   *)
(* UnwindTo deletes the history above its target, that the live buckets    *)
(* always hold the chain's state at blockNr and that every as-of read     *)
(* returns the chain's state at the block it asks for.                    *)
(***************************************************************************)
EXTENDS HistoryStore, WellFoundedInduction, TLAPS

USE ConstantsAssumption

(***************************************************************************)
(* GetAsOf never returns NoEntry: it returns the live value or a record.   *)
(***************************************************************************)
(***************************************************************************)
(* The history record GetAsOf reads is the earliest one at or after ts.    *)
(***************************************************************************)
Earliest(k, ts) ==
    CHOOSE t \in EntryBlocks(k, ts) : \A u \in EntryBlocks(k, ts) : t <= u

LEMMA EarliestEntry ==
    ASSUME NEW k, NEW ts, EntryBlocks(k, ts) # {}
    PROVE  /\ Earliest(k, ts) \in EntryBlocks(k, ts)
           /\ \A u \in EntryBlocks(k, ts) : Earliest(k, ts) <= u
<1>1. EntryBlocks(k, ts) \subseteq Nat
  BY DEF EntryBlocks, Blocks
<1>2. \E x \in EntryBlocks(k, ts) : \A y \in EntryBlocks(k, ts) :
          ~(<<y, x>> \in OpToRel(<, Nat))
  BY <1>1, NatLessThanWellFounded, WFMin, Zenon
<1>3. ASSUME NEW x \in Nat, NEW y \in Nat, ~(<<y, x>> \in OpToRel(<, Nat))
      PROVE  x <= y
  <2>1. y < x => <<y, x>> \in OpToRel(<, Nat)
    BY Zenon DEF OpToRel
  <2>2. ~(y < x)
    BY <1>3, <2>1, Zenon
  <2>3. QED
    BY <2>2
<1>4. \E x \in EntryBlocks(k, ts) : \A y \in EntryBlocks(k, ts) : x <= y
  BY <1>1, <1>2, <1>3
<1>5. QED
  BY <1>4 DEF Earliest

(***************************************************************************)
(* GetAsOf never returns NoEntry: it returns the live value or a record.   *)
(***************************************************************************)
LEMMA GetAsOfType ==
    ASSUME TypeOK, NEW k \in Keys, NEW ts \in Nat
    PROVE  GetAsOf(k, ts) \in Val
<1>1. CASE EntryBlocks(k, ts) = {}
  BY <1>1 DEF GetAsOf, TypeOK
<1>2. CASE EntryBlocks(k, ts) # {}
  <2>1. GetAsOf(k, ts) = hist[k][Earliest(k, ts)]
    BY <1>2 DEF GetAsOf, Earliest
  <2>2. Earliest(k, ts) \in EntryBlocks(k, ts)
    BY <1>2, EarliestEntry
  <2>3. QED
    BY <2>1, <2>2 DEF EntryBlocks, TypeOK, Blocks
<1>3. QED
  BY <1>1, <1>2

THEOREM TypeInit == Init => TypeOK
  BY DEF Init, TypeOK, Blocks

THEOREM TypeStep == TypeOK /\ [Next]_vars => TypeOK'
<1> SUFFICES ASSUME TypeOK, [Next]_vars PROVE TypeOK'
  OBVIOUS
<1>1. ASSUME NEW D \in SUBSET Keys, NEW W \in [D -> Val], CommitBlock(W)
      PROVE  TypeOK'
  BY <1>1 DEF CommitBlock, TypeOK, Blocks
<1>2. ASSUME NEW target \in 0..MaxTs, UnwindTo(target)
      PROVE  TypeOK'
  <2>1. \A k \in RewindKeys(blockNr, target) : rewindData(blockNr, target)[k] \in Val
    <3>1. RewindKeys(blockNr, target) \subseteq Keys
      BY DEF RewindKeys, TypeOK
    <3>2. TAKE k \in RewindKeys(blockNr, target)
    <3>3. GetAsOf(k, target + 1) \in Val
      BY <3>1, GetAsOfType
    <3>4. QED
      BY <3>3 DEF rewindData
  <2>2. live' = [k \in Keys |-> IF k \in RewindKeys(blockNr, target)
                                THEN rewindData(blockNr, target)[k] ELSE live[k]]
    <3>1. DOMAIN rewindData(blockNr, target) = RewindKeys(blockNr, target)
      BY DEF rewindData
    <3>2. QED
      BY <1>2, <3>1 DEF UnwindTo
  <2>3. live' \in [Keys -> Val]
    BY <2>1, <2>2 DEF TypeOK
  <2>4. QED
    BY <1>2, <2>3 DEF UnwindTo, TypeOK, Blocks
<1>3. CASE UNCHANGED vars
  BY <1>3 DEF vars, TypeOK
<1>4. QED
  BY <1>1, <1>2, <1>3 DEF Next

(***************************************************************************)
(* Every reachable state of the store is well typed: GetAsOf and the       *)
(* rewind built on it only ever write values into the live buckets.       *)
(***************************************************************************)
THEOREM TypeCorrect == Spec => []TypeOK
  BY TypeInit, TypeStep, PTL DEF Spec

-----------------------------------------------------------------------------
(***************************************************************************)
(* Under the inductive invariant an as-of read at t + 1 returns the        *)
(* chain's state at t: the earliest record at or after t + 1 lies at most  *)
(* at blockNr and holds the value from just before its block, and no       *)
(* record lies between t + 1 and it; with no record at all, the key kept  *)
(* its value from t up to blockNr, which the live bucket holds.           *)
(***************************************************************************)
LEMMA AsOfFromInv ==
    ASSUME HistoryInv, NEW k \in Keys, NEW t \in 0..blockNr
    PROVE  GetAsOf(k, t + 1) = snap[t][k]
<1> USE DEF HistoryInv, TypeOK
<1>1. CASE EntryBlocks(k, t + 1) = {}
  <2>1. \A u \in t + 1..blockNr : hist[k][u] = NoEntry
    BY <1>1 DEF EntryBlocks, Blocks
  <2>2. snap[blockNr][k] = snap[t][k]
    BY <2>1 DEF UnrecordedIsUnchanged
  <2>3. GetAsOf(k, t + 1) = live[k]
    BY <1>1 DEF GetAsOf
  <2>4. QED
    BY <2>2, <2>3 DEF LiveIsCanonical
<1>2. CASE EntryBlocks(k, t + 1) # {}
  <2> DEFINE m == Earliest(k, t + 1)
  <2>1. /\ m \in EntryBlocks(k, t + 1)
        /\ \A u \in EntryBlocks(k, t + 1) : m <= u
    BY <1>2, EarliestEntry
  <2>2. GetAsOf(k, t + 1) = hist[k][m]
    BY <1>2 DEF GetAsOf, Earliest
  <2>3. m \in t + 1..blockNr
    BY <2>1 DEF EntryBlocks, Blocks, NoRecordAbove
  <2>4. hist[k][m] = snap[m - 1][k]
    BY <2>1, <2>3 DEF EntryBlocks, Blocks, RecordIsPrevious
  <2>5. \A u \in t + 1..m - 1 : hist[k][u] = NoEntry
    BY <2>1, <2>3 DEF EntryBlocks, Blocks
  <2>6. snap[m - 1][k] = snap[t][k]
    <3>1. m - 1 \in t..blockNr
      BY <2>3
    <3>2. QED
      BY <2>5, <3>1 DEF UnrecordedIsUnchanged
  <2>7. QED
    BY <2>2, <2>4, <2>6
<1>3. QED
  BY <1>1, <1>2

THEOREM InvInit == Init => HistoryInv
  BY TypeInit DEF Init, HistoryInv, NoRecordAbove, RecordIsPrevious,
                  ChangesMatchRecords, UnrecordedIsUnchanged, LiveIsCanonical, Blocks

(***************************************************************************)
(* A commit keeps the invariant: its records go to block blockNr + 1,      *)
(* where none lay before, and hold the live values, which are the chain's *)
(* state at blockNr.                                                       *)
(***************************************************************************)
LEMMA InvCommit ==
    ASSUME HistoryInv, NEW D \in SUBSET Keys, NEW W \in [D -> Val], CommitBlock(W)
    PROVE  HistoryInv'
<1> DEFINE t == blockNr + 1
<1> USE DEF HistoryInv, TypeOK, t
<1>1. /\ t \in Blocks
      /\ blockNr' = t
      /\ DOMAIN W = D
  BY DEF CommitBlock, Blocks
<1>2. \A k \in Keys : \A u \in Blocks :
          hist'[k][u] = IF u = t /\ k \in D THEN live[k] ELSE hist[k][u]
  BY <1>1 DEF CommitBlock
<1>3. /\ \A u \in 0..MaxTs : snap'[u] = IF u >= t THEN live' ELSE snap[u]
      /\ live' = [k \in Keys |-> IF k \in D THEN W[k] ELSE live[k]]
      /\ changes' = [changes EXCEPT ![t] = D]
  BY <1>1 DEF CommitBlock
<1>4. TypeOK'
  BY TypeStep DEF Next
<1>5. NoRecordAbove'
  <2> SUFFICES ASSUME NEW k \in Keys, NEW u \in Blocks, u > t
               PROVE  hist'[k][u] = NoEntry
    BY <1>1 DEF NoRecordAbove
  <2>1. hist'[k][u] = hist[k][u] /\ u > blockNr
    BY <1>2 DEF Blocks
  <2>2. QED
    BY <2>1 DEF NoRecordAbove
<1>6. RecordIsPrevious'
  <2> SUFFICES ASSUME NEW k \in Keys, NEW u \in Blocks, u <= t, hist'[k][u] # NoEntry
               PROVE  hist'[k][u] = snap'[u - 1][k]
    BY <1>1 DEF RecordIsPrevious
  <2>1. CASE u = t
    <3>1. k \in D
      BY <2>1, <1>2 DEF NoRecordAbove
    <3>2. QED
      BY <2>1, <3>1, <1>1, <1>2, <1>3 DEF LiveIsCanonical, Blocks
  <2>2. CASE u < t
    <3>1. hist'[k][u] = hist[k][u]
      BY <2>2, <1>2
    <3>2. /\ u - 1 \in 0..MaxTs
          /\ ~(u - 1 >= t)
      BY <2>2 DEF Blocks
    <3>3. snap'[u - 1] = snap[u - 1]
      BY <3>2, <1>3
    <3>4. hist[k][u] = snap[u - 1][k]
      <4>1. u <= blockNr /\ hist[k][u] # NoEntry
        BY <2>2, <3>1 DEF Blocks
      <4>2. QED
        BY <4>1 DEF RecordIsPrevious
    <3>5. QED
      BY <3>1, <3>3, <3>4
  <2>3. QED
    BY <2>1, <2>2 DEF Blocks
<1>7. ChangesMatchRecords'
  <2> SUFFICES ASSUME NEW u \in Blocks, NEW k \in Keys
               PROVE  k \in changes'[u] <=> hist'[k][u] # NoEntry
    BY DEF ChangesMatchRecords
  <2>1. CASE u = t
    <3>1. changes'[u] = D
      BY <2>1, <1>1, <1>3
    <3>2. hist[k][u] = NoEntry
      BY <2>1 DEF NoRecordAbove
    <3>3. live[k] # NoEntry
      OBVIOUS
    <3>4. QED
      BY <2>1, <3>1, <3>2, <3>3, <1>2
  <2>2. CASE u # t
    <3>1. changes'[u] = changes[u]
      BY <2>2, <1>3
    <3>2. hist'[k][u] = hist[k][u]
      BY <2>2, <1>2
    <3>3. QED
      BY <3>1, <3>2 DEF ChangesMatchRecords
  <2>3. QED
    BY <2>1, <2>2
<1>8. UnrecordedIsUnchanged'
  <2> SUFFICES ASSUME NEW k \in Keys, NEW t1 \in 0..t, NEW t2 \in t1..t,
                      \A u \in t1 + 1..t2 : hist'[k][u] = NoEntry
               PROVE  snap'[t2][k] = snap'[t1][k]
    BY <1>1 DEF UnrecordedIsUnchanged
  <2>1. CASE t2 < t
    <3>1. \A u \in t1 + 1..t2 : hist[k][u] = NoEntry
      <4> TAKE u \in t1 + 1..t2
      <4>1. u \in Blocks /\ u # t
        BY <2>1, <1>1 DEF Blocks
      <4>2. hist'[k][u] = hist[k][u]
        BY <4>1, <1>2
      <4>3. hist'[k][u] = NoEntry
        OBVIOUS
      <4>4. QED
        BY <4>2, <4>3
    <3>2. /\ t1 \in 0..blockNr
          /\ t2 \in t1..blockNr
      BY <2>1
    <3>3. snap[t2][k] = snap[t1][k]
      BY <3>1, <3>2 DEF UnrecordedIsUnchanged
    <3>4. /\ snap'[t2] = snap[t2]
          /\ snap'[t1] = snap[t1]
      BY <2>1, <1>3
    <3>5. QED
      BY <3>3, <3>4
  <2>2. CASE t2 = t /\ t1 = t
    BY <2>2
  <2>3. CASE t2 = t /\ t1 < t
    <3>1. k \notin D
      <4>1. hist'[k][t] = NoEntry
        BY <2>3
      <4>2. live[k] # NoEntry
        OBVIOUS
      <4>3. QED
        BY <4>1, <4>2, <1>1, <1>2
    <3>2. snap'[t2][k] = live[k]
      <4>1. snap'[t2] = live'
        BY <2>3, <1>1, <1>3 DEF Blocks
      <4>2. live'[k] = live[k]
        BY <3>1, <1>3
      <4>3. QED
        BY <4>1, <4>2
    <3>3. \A u \in t1 + 1..blockNr : hist[k][u] = NoEntry
      <4> TAKE u \in t1 + 1..blockNr
      <4>1. /\ u \in Blocks
            /\ u # t
            /\ u \in t1 + 1..t2
        BY <2>3 DEF Blocks
      <4>2. QED
        BY <4>1, <1>2
    <3>4. snap[blockNr][k] = snap[t1][k]
      BY <2>3, <3>3 DEF UnrecordedIsUnchanged
    <3>5. QED
      BY <2>3, <3>2, <3>4, <1>3 DEF LiveIsCanonical
  <2>4. QED
    BY <2>1, <2>2, <2>3
<1>9. LiveIsCanonical'
  <2>1. t \in 0..MaxTs
    BY <1>1 DEF Blocks
  <2>2. snap'[t] = IF t >= t THEN live' ELSE snap[t]
    BY <2>1, <1>3
  <2>3. QED
    BY <2>2, <1>1 DEF LiveIsCanonical
<1>10. QED
  BY <1>4, <1>5, <1>6, <1>7, <1>8, <1>9

(***************************************************************************)
(* An unwind that deletes the history above its target keeps the          *)
(* invariant: below the target nothing changes, and rewindData restores    *)
(* every key that changed above the target to its value at the target;    *)
(* the keys it does not list changed in no block above the target.        *)
(***************************************************************************)
LEMMA InvUnwind ==
    ASSUME HistoryInv, PruneOnUnwind, NEW target \in 0..MaxTs, UnwindTo(target)
    PROVE  HistoryInv'
<1> USE DEF HistoryInv, TypeOK
<1> DEFINE RK == RewindKeys(blockNr, target)
<1>1. /\ target < blockNr
      /\ blockNr' = target
      /\ live' = [k \in Keys |-> IF k \in RK THEN GetAsOf(k, target + 1) ELSE live[k]]
      /\ snap' = [u \in 0..MaxTs |-> IF u > target THEN snap[target] ELSE snap[u]]
  <2>1. DOMAIN rewindData(blockNr, target) = RK
    BY DEF rewindData, RK
  <2>2. \A k \in RK : rewindData(blockNr, target)[k] = GetAsOf(k, target + 1)
    BY DEF rewindData, RK
  <2>3. QED
    BY <2>1, <2>2 DEF UnwindTo
<1>2. \A k \in Keys : \A u \in Blocks :
          hist'[k][u] = IF u > target THEN NoEntry ELSE hist[k][u]
  BY DEF UnwindTo
<1>3. changes' = [u \in Blocks |-> IF u > target THEN {} ELSE changes[u]]
  BY DEF UnwindTo
<1>4. TypeOK'
  BY TypeStep DEF Next
<1>5. NoRecordAbove'
  BY <1>1, <1>2 DEF NoRecordAbove
<1>6. RecordIsPrevious'
  <2> SUFFICES ASSUME NEW k \in Keys, NEW u \in Blocks, u <= target, hist'[k][u] # NoEntry
               PROVE  hist'[k][u] = snap'[u - 1][k]
    BY <1>1 DEF RecordIsPrevious
  <2>1. hist'[k][u] = hist[k][u]
    BY <1>2
  <2>2. snap'[u - 1] = snap[u - 1]
    BY <1>1 DEF Blocks
  <2>3. u <= blockNr /\ hist[k][u] # NoEntry
    BY <1>1, <2>1 DEF Blocks
  <2>4. QED
    BY <2>1, <2>2, <2>3 DEF RecordIsPrevious
<1>7. ChangesMatchRecords'
  <2> SUFFICES ASSUME NEW u \in Blocks, NEW k \in Keys
               PROVE  k \in changes'[u] <=> hist'[k][u] # NoEntry
    BY DEF ChangesMatchRecords
  <2>1. CASE u > target
    BY <2>1, <1>2, <1>3
  <2>2. CASE ~(u > target)
    BY <2>2, <1>2, <1>3 DEF ChangesMatchRecords
  <2>3. QED
    BY <2>1, <2>2
<1>8. UnrecordedIsUnchanged'
  <2> SUFFICES ASSUME NEW k \in Keys, NEW t1 \in 0..target, NEW t2 \in t1..target,
                      \A u \in t1 + 1..t2 : hist'[k][u] = NoEntry
               PROVE  snap'[t2][k] = snap'[t1][k]
    BY <1>1 DEF UnrecordedIsUnchanged
  <2>1. \A u \in t1 + 1..t2 : hist[k][u] = NoEntry
    BY <1>2 DEF Blocks
  <2>2. /\ t1 \in 0..blockNr
        /\ t2 \in t1..blockNr
    BY <1>1
  <2>3. snap[t2][k] = snap[t1][k]
    BY <2>1, <2>2 DEF UnrecordedIsUnchanged
  <2>4. snap'[t2] = snap[t2] /\ snap'[t1] = snap[t1]
    BY <1>1
  <2>5. QED
    BY <2>3, <2>4
<1>9. LiveIsCanonical'
  <2>1. snap'[target] = snap[target]
    BY <1>1
  <2>2. SUFFICES ASSUME NEW k \in Keys PROVE live'[k] = snap[target][k]
    <3>1. live' \in [Keys -> Val] /\ snap[target] \in [Keys -> Val]
      BY <1>4
    <3>2. QED
      BY <2>1, <3>1, <1>1 DEF LiveIsCanonical
  <2>3. CASE k \in RK
    <3>1. live'[k] = GetAsOf(k, target + 1)
      BY <2>3, <1>1
    <3>2. GetAsOf(k, target + 1) = snap[target][k]
      BY <1>1, AsOfFromInv
    <3>3. QED
      BY <3>1, <3>2
  <2>4. CASE k \notin RK
    <3>1. live'[k] = live[k]
      BY <2>4, <1>1
    <3>2. \A u \in target + 1..blockNr : hist[k][u] = NoEntry
      <4> TAKE u \in target + 1..blockNr
      <4>1. u \in Blocks
        BY DEF Blocks
      <4>2. k \notin changes[u]
        BY <2>4, <4>1 DEF RK, RewindKeys
      <4>3. QED
        BY <4>1, <4>2 DEF ChangesMatchRecords
    <3>3. snap[blockNr][k] = snap[target][k]
      BY <1>1, <3>2 DEF UnrecordedIsUnchanged
    <3>4. QED
      BY <3>1, <3>3 DEF LiveIsCanonical
  <2>5. QED
    BY <2>3, <2>4
<1>10. QED
  BY <1>4, <1>5, <1>6, <1>7, <1>8, <1>9

THEOREM InvStep == PruneOnUnwind => (HistoryInv /\ [Next]_vars => HistoryInv')
<1> SUFFICES ASSUME PruneOnUnwind, HistoryInv, [Next]_vars PROVE HistoryInv'
  OBVIOUS
<1>1. CASE \E D \in SUBSET Keys : \E W \in [D -> Val] : CommitBlock(W)
  BY <1>1, InvCommit
<1>2. CASE \E target \in 0..MaxTs : UnwindTo(target)
  BY <1>2, InvUnwind
<1>3. CASE UNCHANGED vars
  BY <1>3 DEF vars, HistoryInv, TypeOK, NoRecordAbove, RecordIsPrevious,
              ChangesMatchRecords, UnrecordedIsUnchanged, LiveIsCanonical
<1>4. QED
  BY <1>1, <1>2, <1>3 DEF Next

(***************************************************************************)
(* The inductive invariant holds in every reachable state of a store whose *)
(* UnwindTo deletes the history above its target.                         *)
(***************************************************************************)
THEOREM InvHolds == PruneOnUnwind => (Spec => []HistoryInv)
<1> SUFFICES ASSUME PruneOnUnwind PROVE Spec => []HistoryInv
  OBVIOUS
<1>1. HistoryInv /\ [Next]_vars => HistoryInv'
  BY InvStep
<1>2. QED
  BY InvInit, <1>1, PTL DEF Spec

(***************************************************************************)
(* When UnwindTo deletes the history above its target, the live buckets   *)
(* always hold the chain's state at blockNr, whatever sequence of commits  *)
(* and unwinds (rewindData + apply) led there.                            *)
(***************************************************************************)
THEOREM LiveIsCanonicalHolds == PruneOnUnwind => (Spec => []LiveIsCanonical)
<1> SUFFICES ASSUME PruneOnUnwind PROVE Spec => []LiveIsCanonical
  OBVIOUS
<1>1. Spec => []HistoryInv
  BY InvHolds
<1>2. HistoryInv => LiveIsCanonical
  BY DEF HistoryInv
<1>3. QED
  BY <1>1, <1>2, PTL

(***************************************************************************)
(* When UnwindTo deletes the history above its target, every as-of read    *)
(* (GetAsOf(..., t + 1), as DbState and rewindData issue it) of a block t  *)
(* up to the current one returns the chain's state at t.                   *)
(***************************************************************************)
THEOREM AsOfConsistentHolds == PruneOnUnwind => (Spec => []AsOfConsistent)
<1> SUFFICES ASSUME PruneOnUnwind PROVE Spec => []AsOfConsistent
  OBVIOUS
<1>1. Spec => []HistoryInv
  BY InvHolds
<1>2. HistoryInv => AsOfConsistent
  BY AsOfFromInv DEF AsOfConsistent, ReadAccountData, ReadAccountStorage
<1>3. QED
  BY <1>1, <1>2, PTL

(***************************************************************************)
(* Under the inductive invariant an account whose value at e differs from  *)
(* its value before s has a history record in some block of s..e, and so   *)
(* is listed in that block's SuffixBucket record, which the walk of        *)
(* GetModifiedAccounts(s, e) visits.                                       *)
(***************************************************************************)
LEMMA ModifiedFromInv == HistoryInv => ModifiedAccountsComplete
<1> SUFFICES ASSUME HistoryInv,
                    NEW s \in 1..blockNr, NEW e \in s..blockNr, NEW k \in Keys,
                    Bucket[k] = AccountsHBucket, snap[s - 1][k] # snap[e][k]
             PROVE  k \in GetModifiedAccounts(s, e)
  BY DEF ModifiedAccountsComplete
<1> USE DEF HistoryInv, TypeOK
<1>1. PICK u \in s..e : hist[k][u] # NoEntry
  <2>1. s - 1 \in 0..blockNr /\ e \in (s - 1)..blockNr
    OBVIOUS
  <2>2. (\A u \in (s - 1) + 1..e : hist[k][u] = NoEntry) => snap[e][k] = snap[s - 1][k]
    BY <2>1 DEF UnrecordedIsUnchanged
  <2>3. QED
    BY <2>2
<1>2. u \in Blocks /\ k \in changes[u]
  BY <1>1 DEF Blocks, ChangesMatchRecords
<1>3. QED
  BY <1>1, <1>2 DEF GetModifiedAccounts

(***************************************************************************)
(* When UnwindTo deletes the history above its target,                     *)
(* GetModifiedAccounts(s, e) lists every account whose value changed       *)
(* between the state before block s and the state after block e, for all  *)
(* s <= e up to the current block, also after unwinds and re-execution.    *)
(***************************************************************************)
THEOREM ModifiedAccountsCompleteHolds ==
    PruneOnUnwind => (Spec => []ModifiedAccountsComplete)
<1> SUFFICES ASSUME PruneOnUnwind PROVE Spec => []ModifiedAccountsComplete
  OBVIOUS
<1>1. Spec => []HistoryInv
  BY InvHolds
<1>2. QED
  BY <1>1, ModifiedFromInv, PTL


-----------------------------------------------------------------------------
(***************************************************************************)
(* Refinement.  Under the inductive invariant the mapping PastStates, the  *)
(* states the history buckets reconstruct, is the ghost snap cut at        *)
(* blockNr; a commit extends snap by the new live state and an unwind      *)
(* cuts it at the target, which are VersionedStore's Commit and Unwind.    *)
(***************************************************************************)
PastIsSnap == PastStates = [t \in 0..blockNr |-> snap[t]]

LEMMA PastFromInv == HistoryInv => PastIsSnap
<1> SUFFICES ASSUME HistoryInv PROVE PastIsSnap
  OBVIOUS
<1>1. ASSUME NEW t \in 0..blockNr
      PROVE  [k \in Keys |-> GetAsOf(k, t + 1)] = snap[t]
  <2>1. snap[t] \in [Keys -> Val]
    BY DEF HistoryInv, TypeOK
  <2>2. \A k \in Keys : GetAsOf(k, t + 1) = snap[t][k]
    BY AsOfFromInv
  <2>3. QED
    BY <2>1, <2>2
<1>2. QED
  BY <1>1 DEF PastIsSnap, PastStates

LEMMA RefineInit == Init => Store!Init
<1> SUFFICES ASSUME Init PROVE Store!Init
  OBVIOUS
<1>1. \A k \in Keys : EntryBlocks(k, 1) = {}
  BY DEF Init, EntryBlocks
<1>2. PastStates = [t \in {0} |-> live]
  <2>1. 0..blockNr = {0}
    BY DEF Init
  <2>2. \A k \in Keys : GetAsOf(k, 0 + 1) = live[k]
    BY <1>1 DEF GetAsOf
  <2>3. [k \in Keys |-> GetAsOf(k, 0 + 1)] = live
    BY <2>2 DEF Init
  <2>4. QED
    BY <2>1, <2>3 DEF PastStates
<1>3. QED
  BY <1>2 DEF Init, Store!Init

(***************************************************************************)
(* Every step of the history store is a VersionedStore step (or leaves    *)
(* the mapped state as it is): a commit appends the new live state, and   *)
(* UnwindTo brings back the state of the target and forgets those above.  *)
(***************************************************************************)
LEMMA RefineStep ==
    ASSUME PruneOnUnwind, HistoryInv, HistoryInv', PastIsSnap, PastIsSnap', [Next]_vars
    PROVE  [Store!Next]_<<live, PastStates, blockNr>>
<1>1. ASSUME NEW D \in SUBSET Keys, NEW W \in [D -> Val], CommitBlock(W)
      PROVE  Store!Commit(W)
  <2>1. /\ blockNr < MaxTs
        /\ blockNr' = blockNr + 1
        /\ live' = [k \in Keys |-> IF k \in DOMAIN W THEN W[k] ELSE live[k]]
        /\ snap' = [u \in 0..MaxTs |-> IF u >= blockNr + 1 THEN live' ELSE snap[u]]
    BY <1>1 DEF CommitBlock
  <2>2. PastStates' = [t \in 0..blockNr + 1 |-> IF t = blockNr + 1 THEN live' ELSE PastStates[t]]
    <3>1. blockNr \in 0..MaxTs
      BY DEF HistoryInv, TypeOK
    <3>2. \A t \in 0..blockNr + 1 :
             snap'[t] = IF t = blockNr + 1 THEN live' ELSE PastStates[t]
      BY <2>1, <3>1 DEF PastIsSnap
    <3>3. PastStates' = [t \in 0..blockNr + 1 |-> snap'[t]]
      BY <2>1 DEF PastIsSnap
    <3>4. QED
      BY <3>2, <3>3
  <2>3. QED
    BY <2>1, <2>2 DEF Store!Commit
<1>2. ASSUME NEW target \in 0..MaxTs, UnwindTo(target)
      PROVE  Store!Unwind(target)
  <2>1. /\ target < blockNr
        /\ blockNr' = target
        /\ snap' = [u \in 0..MaxTs |-> IF u > target THEN snap[target] ELSE snap[u]]
    BY <1>2 DEF UnwindTo
  <2>2. blockNr \in 0..MaxTs
    BY DEF HistoryInv, TypeOK
  <2>3. live' = PastStates[target]
    <3>1. live' = snap'[blockNr']
      BY DEF HistoryInv, LiveIsCanonical
    <3>2. QED
      BY <2>1, <2>2, <3>1 DEF PastIsSnap
  <2>4. PastStates' = [t \in 0..target |-> PastStates[t]]
    BY <2>1, <2>2 DEF PastIsSnap
  <2>5. QED
    BY <2>1, <2>3, <2>4 DEF Store!Unwind
<1>3. CASE UNCHANGED vars
  BY <1>3 DEF vars, PastIsSnap
<1>4. QED
  BY <1>1, <1>2, <1>3 DEF Next, Store!Next

(***************************************************************************)
(* When UnwindTo deletes the history above its target, the history store   *)
(* implements VersionedStore under the mapping that reads past states      *)
(* from the history buckets.                                               *)
(***************************************************************************)
THEOREM StoreRefinement == PruneOnUnwind => (Spec => StoreSpec)
<1> SUFFICES ASSUME PruneOnUnwind PROVE Spec => Store!Spec
  BY DEF StoreSpec
<1>1. Spec => [](HistoryInv /\ PastIsSnap)
  <2>1. Spec => []HistoryInv
    BY InvHolds
  <2>2. HistoryInv => PastIsSnap
    BY PastFromInv
  <2>3. QED
    BY <2>1, <2>2, PTL
<1>2. (HistoryInv /\ PastIsSnap) /\ (HistoryInv /\ PastIsSnap)' /\ [Next]_vars
        => [Store!Next]_<<live, PastStates, blockNr>>
  BY RefineStep
<1>3. QED
  BY RefineInit, <1>1, <1>2, PTL DEF Spec, Store!Spec, Store!avars

=============================================================================
