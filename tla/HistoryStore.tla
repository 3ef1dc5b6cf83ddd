--------------------------- MODULE HistoryStore ---------------------------
(***************************************************************************)
(* The timestamp-indexed versioned store of turbo-geth and the rewind that *)
(* reverts it to an earlier block.                                         *)
(*                                                                         *)
(* State kept by the store (one bolt database, several buckets):           *)
(*   live     the current value of every (bucket, key) pair, Nil if absent *)
(*   hist     the history buckets ("hAT", "hST"): for key k and block t,   *)
(*            the value k had just BEFORE block t changed it, or NoEntry   *)
(*   changes  the SuffixBucket: for block t, the keys changed by block t   *)
(*            (stored under encodeTimestamp(t) ++ historyBucket)           *)
(*   blockNr  the block the live state is at (TrieDbState.blockNr)         *)
(*   snap     a ghost: snap[t] is the state the chain had after block t,   *)
(*            for t \in 0..blockNr (and snap[blockNr] above it); nothing  *)
(*            in the code keeps it                                         *)
(*                                                                         *)
(* Keys stand for (bucket, secure key) pairs; Bucket[k] is the history     *)
(* bucket k is tracked in, AccountsHBucket the one for accounts ("hAT").   *)
(***************************************************************************)
EXTENDS Naturals, FiniteSets

CONSTANTS
    Keys,             \* (bucket, key) pairs, model values
    HBuckets,         \* the history buckets
    Bucket,           \* Bucket[k]: the history bucket of key k
    AccountsHBucket,  \* "hAT"
    Vals,             \* the values a key can hold
    Nil,              \* the value of an absent key (a nil []byte)
    NoEntry,          \* no history record for this key at this block
    MaxTs,            \* the last block number the model reaches
    PruneOnUnwind     \* whether UnwindTo deletes the history above the target

Val == Vals \cup {Nil}

ASSUME ConstantsAssumption ==
    /\ Nil \notin Vals
    /\ NoEntry \notin Val
    /\ Bucket \in [Keys -> HBuckets]
    /\ AccountsHBucket \in HBuckets
    /\ MaxTs \in Nat \ {0}
    /\ PruneOnUnwind \in BOOLEAN

Blocks == 1..MaxTs

VARIABLES live, hist, changes, blockNr, snap

vars == <<live, hist, changes, blockNr, snap>>

(***************************************************************************)
(* GetAsOf(bucket, hBucket, key, ts): the value key had just before block  *)
(* ts, i.e. after every block < ts.  The first history record of key at a  *)
(* block >= ts holds the value from before that block; with no such record *)
(* the key has not changed since, and the live value is returned.  An      *)
(* absent key comes back as Nil (the code's ErrKeyNotFound).              *)
(***************************************************************************)
EntryBlocks(k, ts) == {t \in Blocks : t >= ts /\ hist[k][t] # NoEntry}

\* Mutant: a point lookup of the record at exactly ts instead of a seek to
\* the first record at or after ts (NoEntry leaks out as a value).
GetAsOfPointLookup(k, ts) ==
    IF ts \in Blocks /\ ts <= MaxTs THEN hist[k][ts] ELSE live[k]

GetAsOf(k, ts) ==
    IF EntryBlocks(k, ts) = {}
    THEN live[k]
    ELSE hist[k][CHOOSE t \in EntryBlocks(k, ts) :
                   \A u \in EntryBlocks(k, ts) : t <= u]

(***************************************************************************)
(* The first loop of rewindData: a walk over the SuffixBucket from         *)
(* encodeTimestamp(timestampDst + 1) that stops at the first timestamp     *)
(* above timestampSrc and gathers the keys of every record it passes.      *)
(***************************************************************************)
\* Mutant: the walk starts one block too late (suffixDst = encodeTimestamp(timestampDst + 2)).
RewindKeysLateStart(timestampSrc, timestampDst) ==
    UNION {changes[t] : t \in {u \in Blocks : u >= timestampDst + 2 /\ u <= timestampSrc}}

RewindKeys(timestampSrc, timestampDst) ==
    UNION {changes[t] : t \in {u \in Blocks : u >= timestampDst + 1 /\ u <= timestampSrc}}

(***************************************************************************)
(* rewindData: the callback df is called once for every gathered key with  *)
(* GetAsOf(..., timestampDst + 1), an error (key not found) passing nil.   *)
(* The calls are given as the function key |-> value they deliver.         *)
(***************************************************************************)
\* Mutant: the values are read as of timestampDst instead of timestampDst + 1.
rewindDataAsOfDst(timestampSrc, timestampDst) ==
    [k \in RewindKeys(timestampSrc, timestampDst) |-> GetAsOf(k, timestampDst)]

rewindData(timestampSrc, timestampDst) ==
    [k \in RewindKeys(timestampSrc, timestampDst) |-> GetAsOf(k, timestampDst + 1)]

(***************************************************************************)
(* GetModifiedAccounts(start, end): walk the SuffixBucket from             *)
(* encodeTimestamp(start), skip the records of other buckets, stop at the  *)
(* first timestamp above end, and return the accounts bucket keys met      *)
(* (the preimage lookup maps each secure key back to its address).         *)
(***************************************************************************)
\* Mutant: the walk starts after starttimestamp instead of at it.
GetModifiedAccountsExclusive(starttimestamp, endtimestamp) ==
    {k \in UNION {changes[t] : t \in {u \in Blocks : u > starttimestamp /\ u <= endtimestamp}} :
        Bucket[k] = AccountsHBucket}

GetModifiedAccounts(starttimestamp, endtimestamp) ==
    {k \in UNION {changes[t] : t \in {u \in Blocks : u >= starttimestamp /\ u <= endtimestamp}} :
        Bucket[k] = AccountsHBucket}

(***************************************************************************)
(* DbState, the history-only StateReader bound to a block number: account  *)
(* data and storage are read as of blockNr + 1, i.e. after block blockNr;  *)
(* an error, a nil or (for accounts) an empty encoding reads as absent.    *)
(***************************************************************************)
ReadAccountData(k, dbsBlockNr) == GetAsOf(k, dbsBlockNr + 1)

ReadAccountStorage(k, dbsBlockNr) == GetAsOf(k, dbsBlockNr + 1)

-----------------------------------------------------------------------------

Init ==
    /\ live \in [Keys -> Val]
    /\ hist = [k \in Keys |-> [t \in Blocks |-> NoEntry]]
    /\ changes = [t \in Blocks |-> {}]
    /\ blockNr = 0
    /\ snap = [t \in 0..MaxTs |-> live]

(***************************************************************************)
(* A block is committed: for every key it writes, the value before the     *)
(* block goes to the history bucket under the block's timestamp, the       *)
(* written value to the live bucket, and the block's key list to the       *)
(* SuffixBucket (overwriting what was there for that timestamp).           *)
(***************************************************************************)
CommitBlock(W) ==
    LET t == blockNr + 1 IN
    /\ blockNr < MaxTs
    /\ hist' = [k \in Keys |-> IF k \in DOMAIN W
                               THEN [hist[k] EXCEPT ![t] = live[k]]
                               ELSE hist[k]]
    /\ live' = [k \in Keys |-> IF k \in DOMAIN W THEN W[k] ELSE live[k]]
    /\ changes' = [changes EXCEPT ![t] = DOMAIN W]
    /\ blockNr' = t
    /\ snap' = [u \in 0..MaxTs |-> IF u >= t THEN live' ELSE snap[u]]

(***************************************************************************)
(* TrieDbState.UnwindTo(target): drive rewindData from the current block   *)
(* to target, apply every value it yields (Nil: delete), and move to the   *)
(* target block.  With PruneOnUnwind the history and change records of the *)
(* blocks above target are deleted as well.                                *)
(***************************************************************************)
\* Mutant: UnwindTo that leaves the history above the target in place.
UnwindToNoPrune(target) ==
    LET rd == rewindData(blockNr, target) IN
    /\ target < blockNr
    /\ live' = [k \in Keys |-> IF k \in DOMAIN rd THEN rd[k] ELSE live[k]]
    /\ UNCHANGED <<hist, changes>>
    /\ blockNr' = target
    /\ snap' = [u \in 0..MaxTs |-> IF u > target THEN snap[target] ELSE snap[u]]

UnwindTo(target) ==
    LET rd == rewindData(blockNr, target) IN
    /\ target < blockNr
    /\ live' = [k \in Keys |-> IF k \in DOMAIN rd THEN rd[k] ELSE live[k]]
    /\ hist' = IF PruneOnUnwind
               THEN [k \in Keys |-> [t \in Blocks |-> IF t > target THEN NoEntry ELSE hist[k][t]]]
               ELSE hist
    /\ changes' = IF PruneOnUnwind
                  THEN [t \in Blocks |-> IF t > target THEN {} ELSE changes[t]]
                  ELSE changes
    /\ blockNr' = target
    /\ snap' = [u \in 0..MaxTs |-> IF u > target THEN snap[target] ELSE snap[u]]

Next ==
    \/ \E D \in SUBSET Keys : \E W \in [D -> Val] : CommitBlock(W)
    \/ \E target \in 0..MaxTs : UnwindTo(target)

Spec == Init /\ [][Next]_vars

-----------------------------------------------------------------------------

TypeOK ==
    /\ live \in [Keys -> Val]
    /\ hist \in [Keys -> [Blocks -> Val \cup {NoEntry}]]
    /\ changes \in [Blocks -> SUBSET Keys]
    /\ blockNr \in 0..MaxTs
    /\ snap \in [0..MaxTs -> [Keys -> Val]]

(***************************************************************************)
(* After any sequence of commits and unwinds the live buckets hold exactly *)
(* the state of the chain at blockNr: UnwindTo, through rewindData, puts   *)
(* back every key changed above the target with its value at the target.   *)
(***************************************************************************)
LiveIsCanonical == live = snap[blockNr]

(***************************************************************************)
(* An as-of read (DbState.ReadAccountData/ReadAccountStorage read          *)
(* GetAsOf(..., blockNr + 1)) of any key at any block up to the current    *)
(* one returns the value the chain had at that block, also after unwinds   *)
(* and the re-execution of other blocks on top of them.                    *)
(***************************************************************************)
AsOfConsistent ==
    \A t \in 0..blockNr : \A k \in Keys :
        IF Bucket[k] = AccountsHBucket
        THEN ReadAccountData(k, t) = snap[t][k]
        ELSE ReadAccountStorage(k, t) = snap[t][k]

(***************************************************************************)
(* GetModifiedAccounts(start, end) misses no account whose value at end    *)
(* differs from its value before start.                                    *)
(***************************************************************************)
ModifiedAccountsComplete ==
    \A s \in 1..blockNr : \A e \in s..blockNr : \A k \in Keys :
        (Bucket[k] = AccountsHBucket /\ snap[s - 1][k] # snap[e][k])
            => k \in GetModifiedAccounts(s, e)

(***************************************************************************)
(* The inductive invariant behind LiveIsCanonical and AsOfConsistent, for  *)
(* a store whose UnwindTo deletes the history above its target: no history *)
(* record lies above blockNr, a record at block t holds the value of the   *)
(* chain at t - 1, the SuffixBucket lists exactly the keys with a record,  *)
(* a key with no record in t1+1..t2 kept its value from t1 to t2, and the  *)
(* live buckets are the chain's state at blockNr.                          *)
(***************************************************************************)
NoRecordAbove ==
    \A k \in Keys : \A t \in Blocks : t > blockNr => hist[k][t] = NoEntry

RecordIsPrevious ==
    \A k \in Keys : \A t \in Blocks :
        (t <= blockNr /\ hist[k][t] # NoEntry) => hist[k][t] = snap[t - 1][k]

ChangesMatchRecords ==
    \A t \in Blocks : \A k \in Keys : k \in changes[t] <=> hist[k][t] # NoEntry

UnrecordedIsUnchanged ==
    \A k \in Keys : \A t1 \in 0..blockNr : \A t2 \in t1..blockNr :
        (\A u \in t1 + 1..t2 : hist[k][u] = NoEntry) => snap[t2][k] = snap[t1][k]

HistoryInv ==
    /\ TypeOK
    /\ NoRecordAbove
    /\ RecordIsPrevious
    /\ ChangesMatchRecords
    /\ UnrecordedIsUnchanged
    /\ LiveIsCanonical

(***************************************************************************)
(* The refinement mapping to VersionedStore: the current state is the live *)
(* buckets, and the state after block t is what the as-of reads of the     *)
(* history buckets (GetAsOf(..., t + 1)) give for every key.               *)
(***************************************************************************)
PastStates == [t \in 0..blockNr |-> [k \in Keys |-> GetAsOf(k, t + 1)]]

Store == INSTANCE VersionedStore
            WITH state <- live, past <- PastStates, height <- blockNr,
                 Val <- Val, Keys <- Keys, MaxTs <- MaxTs

(***************************************************************************)
(* The history store implements the versioned store: every commit and     *)
(* every UnwindTo (rewindData and the apply of its values) is, read       *)
(* through the history buckets, a commit or an unwind of VersionedStore,  *)
(* so the state an as-of read reconstructs for a block never changes      *)
(* while the block stays on the chain.                                     *)
(***************************************************************************)
StoreSpec == Store!Spec

=============================================================================
