------------------------------ MODULE UintArith ------------------------------
(***************************************************************************)
(* Facts about the Width-bit unsigned arithmetic that GasLimit and         *)
(* EstimateGas model the code's uint64 arithmetic with.                    *)
(***************************************************************************)
EXTENDS Integers, FiniteSetTheorems, TLAPS

(***************************************************************************)
(* 2^w is a positive number: it is the number of subsets of 1..w, one of   *)
(* which is empty.                                                         *)
(***************************************************************************)
LEMMA ModulusPositive ==
    ASSUME NEW w \in Nat
    PROVE  2 ^ w \in Nat \ {0}
<1>1. IsFiniteSet(1..w) /\ Cardinality(1..w) = w
    BY FS_Interval
<1>2. Cardinality(SUBSET (1..w)) = 2 ^ Cardinality(1..w)
      /\ IsFiniteSet(SUBSET (1..w))
    BY <1>1, FS_SUBSET
<1>3. Cardinality(SUBSET (1..w)) = 2 ^ w /\ IsFiniteSet(SUBSET (1..w))
    BY <1>1, <1>2
<1>4. Cardinality(SUBSET (1..w)) \in Nat /\ Cardinality(SUBSET (1..w)) # 0
    BY <1>3, FS_CardinalityType, FS_EmptySet
<1>5. QED
    BY <1>3, <1>4

(* A w-bit operation whose exact result fits in w bits does not wrap. *)
LEMMA NoWrap ==
    ASSUME NEW w \in Nat, NEW x \in Int, 0 <= x, x < 2 ^ w
    PROVE  x % (2 ^ w) = x
BY ModulusPositive

=============================================================================
