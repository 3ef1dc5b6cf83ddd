--------------------------- MODULE MCSuffixWalk ---------------------------
(* Model-checking instances of SuffixWalk: nodes starting just below the   *)
(* byte-count boundaries of encodeTimestamp.                               *)
EXTENDS SuffixWalk

\* "hAT" and "hST"
MChAT == <<104, 65, 84>>

MCBuckets == {MChAT, <<104, 83, 84>>}

\* 30 (1 -> 2 bytes at 32), 8190 (2 -> 3 bytes at 8192), 2^21 - 2 (3 -> 4 bytes)
MCGenesis == {<<0, 0, 0, 0, 0, 0, 0, 30>>, <<0, 0, 0, 0, 0, 0, 31, 254>>,
              <<0, 0, 0, 0, 0, 31, 255, 254>>}

\* 2^53 - 2: the next block needs 8 bytes
MCGenesisHigh == {<<0, 31, 255, 255, 255, 255, 255, 254>>}
=============================================================================
