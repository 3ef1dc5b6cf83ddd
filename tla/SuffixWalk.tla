---------------------------- MODULE SuffixWalk ----------------------------
(***************************************************************************)
(* The SuffixBucket at byte level: encodeTimestamp / decodeTimestamp and   *)
(* the ordered walks of rewindData and GetModifiedAccounts over keys       *)
(* encodeTimestamp(t) ++ historyBucket.                                    *)
(*                                                                         *)
(* A uint64 is its 8 bytes, big-endian, so that values up to 2^64 - 1 can  *)
(* be written down; a byte string is a sequence of 0..255.  The walks rely *)
(* on the encoding being order-preserving and self-delimiting: a walk from *)
(* encodeTimestamp(dst + 1) must meet exactly the records of later blocks, *)
(* in block order, so that stopping at the first block above src is safe.  *)
(***************************************************************************)
EXTENDS Naturals, Sequences

CONSTANTS
    GenesisBlocks,  \* the block numbers (as uint64 bytes) a node may start from
    MaxBlocks,      \* how many blocks a behaviour commits
    HBucketNames,   \* the history bucket names as byte strings ("hAT", "hST")
    AccountsBucket  \* "hAT"

Byte == 0..255

U64 == [1..8 -> Byte]

ASSUME SuffixConstantsAssumption ==
    /\ GenesisBlocks \subseteq U64
    /\ MaxBlocks \in Nat
    /\ \A b \in HBucketNames : b \in Seq(Byte)
    /\ AccountsBucket \in HBucketNames

VARIABLES
    chain,    \* the block numbers from the genesis block to the head, in order
    written   \* the SuffixBucket records: [ts, bucket]

vars == <<chain, written>>

blockNr == chain[Len(chain)]

-----------------------------------------------------------------------------
(* uint64 helpers: order, and x + 1 with the carry (wrapping at 2^64).     *)
U64Less(a, b) == \E i \in 1..8 : (\A j \in 1..i - 1 : a[j] = b[j]) /\ a[i] < b[i]

U64Inc(a) ==
    IF \A i \in 1..8 : a[i] = 255 THEN [i \in 1..8 |-> 0]
    ELSE LET last == CHOOSE i \in 1..8 : a[i] # 255 /\ \A j \in i + 1..8 : a[j] = 255
         IN  [i \in 1..8 |-> IF i < last THEN a[i] ELSE IF i = last THEN a[i] + 1 ELSE 0]

(* bytes.Compare(a, b) < 0 *)
BytesLess(a, b) ==
    \E i \in 0..Len(a) :
        /\ i <= Len(b)
        /\ \A j \in 1..i : a[j] = b[j]
        /\ \/ i < Len(a) /\ i < Len(b) /\ a[i + 1] < b[i + 1]
           \/ i = Len(a) /\ i < Len(b)

BytesLeq(a, b) == a = b \/ BytesLess(a, b)

(***************************************************************************)
(* encodeTimestamp: the smallest bytecount in 1..8 with                    *)
(* timestamp < 32 * 256^(bytecount - 1), i.e. whose top 8 - bytecount      *)
(* bytes are zero and whose next byte is below 32; the low bytecount - 1   *)
(* bytes follow the first, which is byte(b) | (byte(bytecount) << 5): the  *)
(* shift is done on a byte, so it wraps mod 256, and the | is a + because  *)
(* b < 32.  No bytecount fits when timestamp >= 2^61: the result is nil.   *)
(***************************************************************************)
Fits(ts, bytecount) ==
    /\ \A j \in 1..8 - bytecount : ts[j] = 0
    /\ ts[9 - bytecount] < 32

encodeTimestamp(ts) ==
    IF \E bc \in 1..8 : Fits(ts, bc)
    THEN LET bc == CHOOSE c \in 1..8 : Fits(ts, c) /\ \A d \in 1..c - 1 : ~Fits(ts, d)
         IN  <<ts[9 - bc] + ((bc * 32) % 256)>> \o SubSeq(ts, 10 - bc, 8)
    ELSE <<>>

(***************************************************************************)
(* decodeTimestamp: bytecount is the top 3 bits of the first byte, the     *)
(* timestamp its low 5 bits followed by suffix[1..bytecount-1], and the    *)
(* rest of the key, suffix[bytecount:], is the bucket.                     *)
(***************************************************************************)
\* Mutant: the bucket is cut one byte too early, at suffix[bytecount - 1:].
decodeTimestampBucketEarly(suffix) ==
    LET bytecount == suffix[1] \div 32
        digits    == <<suffix[1] % 32>> \o SubSeq(suffix, 2, bytecount)
    IN  [ts     |-> [i \in 1..8 |-> IF i <= 8 - Len(digits) THEN 0
                                    ELSE digits[i - (8 - Len(digits))]],
         bucket |-> SubSeq(suffix, bytecount, Len(suffix))]

decodeTimestamp(suffix) ==
    LET bytecount == suffix[1] \div 32
        digits    == <<suffix[1] % 32>> \o SubSeq(suffix, 2, bytecount)
    IN  [ts     |-> [i \in 1..8 |-> IF i <= 8 - Len(digits) THEN 0
                                    ELSE digits[i - (8 - Len(digits))]],
         bucket |-> SubSeq(suffix, bytecount + 1, Len(suffix))]

(* The SuffixBucket key of a record. *)
SuffixKey(r) == encodeTimestamp(r.ts) \o r.bucket

(***************************************************************************)
(* The records a db.Walk of the SuffixBucket from startKey passes, in key  *)
(* order, when the callback stops the walk (returns false) at the first    *)
(* record stops(decoded key) holds of and passes over the records          *)
(* skips(decoded key) holds of; the result is the decoded keys passed.     *)
(***************************************************************************)
WalkFrom(startKey, stops(_), skips(_)) ==
    LET seen == {r \in written : BytesLeq(startKey, SuffixKey(r))}
        dec(r) == decodeTimestamp(SuffixKey(r))
        stopper(r) == ~skips(dec(r)) /\ stops(dec(r))
    IN  {dec(r) : r \in {q \in seen : /\ ~stopper(q) /\ ~skips(dec(q))
                                     /\ \A p \in seen : BytesLess(SuffixKey(p), SuffixKey(q))
                                                          => ~stopper(p)}}

(***************************************************************************)
(* rewindData's first loop: walk from encodeTimestamp(timestampDst + 1),   *)
(* stop at the first timestamp above timestampSrc, collect every record.   *)
(***************************************************************************)
RewindWalk(timestampSrc, timestampDst) ==
    WalkFrom(encodeTimestamp(U64Inc(timestampDst)),
             LAMBDA d : U64Less(timestampSrc, d.ts), LAMBDA d : FALSE)

(***************************************************************************)
(* GetModifiedAccounts' walk: from encodeTimestamp(starttimestamp); a      *)
(* record of another bucket than "hAT" is passed over BEFORE its timestamp *)
(* is looked at, so only an "hAT" record above endtimestamp stops it.      *)
(***************************************************************************)
ModifiedWalk(starttimestamp, endtimestamp) ==
    WalkFrom(encodeTimestamp(starttimestamp),
             LAMBDA d : U64Less(endtimestamp, d.ts), LAMBDA d : d.bucket # AccountsBucket)

-----------------------------------------------------------------------------

Init ==
    /\ chain \in {<<g>> : g \in GenesisBlocks}
    /\ written = {}

(***************************************************************************)
(* A block is committed: one SuffixBucket record per history bucket it     *)
(* changed, keyed encodeTimestamp(block) ++ bucket.                        *)
(***************************************************************************)
CommitBlock(B) ==
    /\ Len(chain) <= MaxBlocks
    /\ chain' = Append(chain, U64Inc(blockNr))
    /\ written' = written \cup {[ts |-> U64Inc(blockNr), bucket |-> b] : b \in B}

(***************************************************************************)
(* UnwindTo(target), for a target at or after the genesis block: the       *)
(* SuffixBucket records of the blocks above it are deleted.                *)
(***************************************************************************)
UnwindTo(n) ==
    /\ n < Len(chain)
    /\ chain' = SubSeq(chain, 1, n)
    /\ written' = {r \in written : ~U64Less(chain[n], r.ts)}

Next ==
    \/ \E B \in SUBSET HBucketNames : CommitBlock(B)
    \/ \E n \in 1..MaxBlocks : UnwindTo(n)

Spec == Init /\ [][Next]_vars

-----------------------------------------------------------------------------

TypeOK ==
    /\ chain \in Seq(U64)
    /\ Len(chain) \in 1..MaxBlocks + 1
    /\ written \subseteq [ts : U64, bucket : HBucketNames]

(***************************************************************************)
(* For every pair of blocks dst < src the node has written, the walk of   *)
(* rewindData(src, dst) meets exactly the SuffixBucket records of blocks   *)
(* dst + 1 .. src, each decoded back to its block and bucket, and the walk *)
(* of GetModifiedAccounts(start, end) exactly the "hAT" records of       *)
(* blocks start..end.                                                      *)
(***************************************************************************)
WalksFindTheirBlocks ==
    \A s \in written, d \in written :
        /\ U64Less(d.ts, s.ts) =>
              RewindWalk(s.ts, d.ts) = {r \in written : U64Less(d.ts, r.ts) /\ ~U64Less(s.ts, r.ts)}
        /\ ~U64Less(s.ts, d.ts) =>
              ModifiedWalk(d.ts, s.ts) = {r \in written : /\ r.bucket = AccountsBucket
                                                           /\ ~U64Less(r.ts, d.ts)
                                                           /\ ~U64Less(s.ts, r.ts)}

=============================================================================
