--------------------------- MODULE StorageRange ---------------------------
(***************************************************************************)
(* DbState (core/state, the history-only StateReader) and its              *)
(* ForEachStorage: a page of a contract's storage, in secure-key order     *)
(* from a start key, as of the DbState's block, with the writes made       *)
(* through this DbState (WriteAccountStorage) laid over the database.     *)
(*                                                                         *)
(* State, for one contract address:                                        *)
(*   db       the storage as WalkAsOf(..., blockNr + 1) yields it: every   *)
(*            secure key has a value, Zero for an absent or deleted slot   *)
(*   storage  dbs.storage[addr], the llrb tree of overrides: secure key -> *)
(*            value, Zero for a slot written to zero (a deletion)          *)
(* Secure keys are numbers, their order the byte order of the hashes;      *)
(* secure key 0 (the all-zero hash, lastSecKey's initial value) is never   *)
(* a slot.                                                                 *)
(***************************************************************************)
EXTENDS Integers, Sequences, SequencesExt

CONSTANTS
    NumSecKeys,   \* secure keys are 1..NumSecKeys
    Vals,         \* the non-zero slot values
    Zero,         \* the zero hash: an empty slot
    MaxPage       \* the largest maxResults the model asks for

ASSUME StorageConstantsAssumption ==
    /\ NumSecKeys \in Nat \ {0}
    /\ Zero \notin Vals
    /\ MaxPage \in Nat \ {0}

SecKeys == 1..NumSecKeys

Val == Vals \cup {Zero}

VARIABLES db, storage

vars == <<db, storage>>

Ascending(S) == SetToSortSeq(S, <)

-----------------------------------------------------------------------------
(***************************************************************************)
(* ForEachStorage, first loop: walk the overrides from start upwards,      *)
(* copying each into st; lastSecKey is the last non-zero one and           *)
(* overrideCounter counts them; the walk stops once overrideCounter        *)
(* reaches maxResults (the callback checks after copying).                 *)
(***************************************************************************)
RECURSIVE OverridePass(_, _, _, _, _)
OverridePass(ks, st, lastSecKey, overrideCounter, maxResults) ==
    IF ks = <<>>
    THEN [st |-> st, last |-> lastSecKey, cnt |-> overrideCounter]
    ELSE LET sk   == Head(ks)
             st2  == st @@ (sk :> storage[sk])
             last == IF storage[sk] # Zero THEN sk ELSE lastSecKey
             cnt  == IF storage[sk] # Zero THEN overrideCounter + 1 ELSE overrideCounter
         IN  IF cnt < maxResults
             THEN OverridePass(Tail(ks), st2, last, cnt, maxResults)
             ELSE [st |-> st2, last |-> last, cnt |-> cnt]

(***************************************************************************)
(* ForEachStorage, second loop: WalkAsOf from start.  An empty value is    *)
(* skipped, and so is a key st already has (an override shadows the db).  *)
(* A new key is copied into st; the walk goes on while st holds fewer than *)
(* maxResults + numDeletes items beyond lastSecKey, or fewer than          *)
(* maxResults + overrideCounter + numDeletes up to it.                     *)
(***************************************************************************)
\* Mutant: the stop test beyond the overrides forgets the zero-valued overrides.
DbPassNoDeletes(ks, st, p1, numDeletes, maxResults) ==
    LET RECURSIVE Pass(_, _)
        Pass(rest, acc) ==
            IF rest = <<>> THEN acc
            ELSE LET sk == Head(rest) IN
                 IF db[sk] = Zero \/ sk \in DOMAIN acc THEN Pass(Tail(rest), acc)
                 ELSE LET acc2 == acc @@ (sk :> db[sk])
                          n    == Cardinality(DOMAIN acc2)
                      IN  IF IF sk > p1.last THEN n < maxResults
                                             ELSE n < maxResults + p1.cnt + numDeletes
                          THEN Pass(Tail(rest), acc2) ELSE acc2
    IN Pass(ks, st)

RECURSIVE DbPass(_, _, _, _, _)
DbPass(ks, st, p1, numDeletes, maxResults) ==
    IF ks = <<>> THEN st
    ELSE LET sk == Head(ks) IN
         IF db[sk] = Zero \/ sk \in DOMAIN st
         THEN DbPass(Tail(ks), st, p1, numDeletes, maxResults)
         ELSE LET st2 == st @@ (sk :> db[sk])
                  n   == Cardinality(DOMAIN st2)
              IN  IF IF sk > p1.last THEN n < maxResults + numDeletes
                                     ELSE n < maxResults + p1.cnt + numDeletes
                  THEN DbPass(Tail(ks), st2, p1, numDeletes, maxResults)
                  ELSE st2

(***************************************************************************)
(* ForEachStorage, third loop: walk st from start, pass every non-zero     *)
(* item to the callback, and stop once results reaches maxResults (the    *)
(* callback checks after each item, zero or not).                          *)
(***************************************************************************)
RECURSIVE Emit(_, _, _, _)
Emit(ks, st, results, maxResults) ==
    IF ks = <<>> THEN <<>>
    ELSE LET sk == Head(ks) IN
         IF st[sk] # Zero
         THEN <<[seckey |-> sk, value |-> st[sk]]>> \o
                (IF results + 1 < maxResults
                 THEN Emit(Tail(ks), st, results + 1, maxResults) ELSE <<>>)
         ELSE IF results < maxResults
              THEN Emit(Tail(ks), st, results, maxResults) ELSE <<>>

(***************************************************************************)
(* DbState.ForEachStorage(addr, start, cb, maxResults): the sequence of    *)
(* (seckey, value) pairs the callback receives.                            *)
(***************************************************************************)
ForEachStorage(start, maxResults) ==
    LET p1 == OverridePass(Ascending({sk \in DOMAIN storage : sk >= start}),
                           <<>>, 0, 0, maxResults)
        numDeletes == Cardinality(DOMAIN p1.st) - p1.cnt
        st == DbPass(Ascending({sk \in SecKeys : sk >= start}), p1.st, p1,
                     numDeletes, maxResults)
    IN  Emit(Ascending(DOMAIN st), st, 0, maxResults)

-----------------------------------------------------------------------------

(***************************************************************************)
(* NewDbState(db, blockNr): no overrides; the database as of any block.    *)
(***************************************************************************)
Init ==
    /\ db \in [SecKeys -> Val]
    /\ storage = <<>>

(***************************************************************************)
(* WriteAccountStorage(address, key, original, value): ReplaceOrInsert of  *)
(* (key, seckey = sha3(key), value) into the address's override tree.     *)
(***************************************************************************)
WriteAccountStorage(sk, value) ==
    /\ storage' = (sk :> value) @@ storage
    /\ UNCHANGED db

(***************************************************************************)
(* SetBlockNr(blockNr): later reads see the database as of another block;  *)
(* the overrides are kept.                                                 *)
(***************************************************************************)
SetBlockNr ==
    /\ db' \in [SecKeys -> Val]
    /\ UNCHANGED storage

Next ==
    \/ \E sk \in SecKeys, v \in Val : WriteAccountStorage(sk, v)
    \/ SetBlockNr

Spec == Init /\ [][Next]_vars

-----------------------------------------------------------------------------

TypeOK ==
    /\ db \in [SecKeys -> Val]
    /\ DOMAIN storage \subseteq SecKeys
    /\ \A sk \in DOMAIN storage : storage[sk] \in Val

(* The storage the DbState presents: an override wins over the database.   *)
Merged(sk) == IF sk \in DOMAIN storage THEN storage[sk] ELSE db[sk]

(***************************************************************************)
(* ForEachStorage gives the callback exactly the first maxResults non-zero *)
(* slots at or after start, in secure-key order, with the overrides laid   *)
(* over the database: no slot an override deletes, no slot skipped because *)
(* the override walk or the database walk stopped early.                   *)
(***************************************************************************)
ForEachStorageCorrect ==
    \A start \in SecKeys : \A maxResults \in 1..MaxPage :
        LET page == SelectSeq(Ascending({sk \in SecKeys : sk >= start}),
                              LAMBDA sk : Merged(sk) # Zero)
            want == SubSeq(page, 1, IF Len(page) < maxResults THEN Len(page) ELSE maxResults)
        IN  ForEachStorage(start, maxResults) =
                [i \in 1..Len(want) |-> [seckey |-> want[i], value |-> Merged(want[i])]]

=============================================================================
