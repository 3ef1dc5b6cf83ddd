--------------------------- MODULE VersionedStore ---------------------------
(***************************************************************************)
(* What the versioned store promises its users (the block processor, the  *)
(* reorg code and the as-of readers), with no history buckets at all: a    *)
(* current state, the state after each block up to the current one, and   *)
(* two operations.  A block replaces the values of the keys it writes; an *)
(* unwind goes back to the state of an earlier block and forgets the       *)
(* blocks above it.  An as-of read of block t returns past[t].             *)
(***************************************************************************)
EXTENDS Naturals

CONSTANTS
    Keys,   \* (bucket, key) pairs
    Val,    \* the values a key can hold, absence included
    MaxTs   \* the last block number

VARIABLES state, past, height

avars == <<state, past, height>>

Init ==
    /\ state \in [Keys -> Val]
    /\ height = 0
    /\ past = [t \in {0} |-> state]

(* A block writing W (a function from the keys it writes to their values). *)
Commit(W) ==
    /\ height < MaxTs
    /\ state' = [k \in Keys |-> IF k \in DOMAIN W THEN W[k] ELSE state[k]]
    /\ height' = height + 1
    /\ past' = [t \in 0..height + 1 |-> IF t = height + 1 THEN state' ELSE past[t]]

(* An unwind to block target: its state comes back, the blocks above go.  *)
Unwind(target) ==
    /\ target < height
    /\ state' = past[target]
    /\ height' = target
    /\ past' = [t \in 0..target |-> past[t]]

Next ==
    \/ \E D \in SUBSET Keys : \E W \in [D -> Val] : Commit(W)
    \/ \E target \in 0..MaxTs : Unwind(target)

Spec == Init /\ [][Next]_avars

=============================================================================
