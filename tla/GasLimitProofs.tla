---------------------------- MODULE GasLimitProofs ----------------------------
(***************************************************************************)
(* Proof that every limit CalcGasLimit gives a block passes ethash's       *)
(* header bound, for a miner whose configuration keeps clear of the two    *)
(* low-limit corners where it does not (see MinerConfig).                  *)
(***************************************************************************)
EXTENDS GasLimit, UintArith, TLAPS

(***************************************************************************)
(* The configurations the theorem covers.                                  *)
(*  - params.GasLimitBoundDivisor and params.MinGasLimit are the code's    *)
(*    constants, 1024 and 5000.                                            *)
(*  - Genesis limits and ceilings are at least MinGasLimit.  With a        *)
(*    ceiling below it, a parent at 5000 above the ceiling gets            *)
(*    parent - decay = 4997, which the header check rejects.               *)
(*  - Floors are above 5 * 1024 + 3.  Below 5120 the decay is 3 and a full  *)
(*    parent raises the limit by 4, which is not below parent/1024 = 4:    *)
(*    with a floor at 5000 a full block at 5000 gets a child at 5004.     *)
(*    Above that floor such a raise ends below the floor, where the limit  *)
(*    moves by the decay only.                                             *)
(*  - Twice any configured limit fits in Width bits, so that no uint64     *)
(*    operation of CalcGasLimit wraps.                                     *)
(***************************************************************************)
MinerConfig ==
    /\ GasLimitBoundDivisor = 1024
    /\ MinGasLimit = 5000
    /\ \A g \in GenesisGasLimits : g >= MinGasLimit
    /\ \A c \in GasCeils : c >= MinGasLimit
    /\ \A f \in GasFloors : f > 5 * GasLimitBoundDivisor + 3
    /\ \A x \in GenesisGasLimits \cup GasFloors \cup GasCeils : 2 * x < 2 ^ Width

(***************************************************************************)
(* The inductive invariant: the head's limit is at least MinGasLimit and   *)
(* twice it fits in Width bits, and its use is at most its limit.          *)
(***************************************************************************)
GasInv ==
    /\ gasLimit \in Nat
    /\ gasLimit >= MinGasLimit
    /\ 2 * gasLimit < 2 ^ Width
    /\ gasUsed \in 0..gasLimit
    /\ gasFloor \in GasFloors
    /\ gasCeil \in GasCeils

(***************************************************************************)
(* One CalcGasLimit step from a parent the invariant describes: the child *)
(* is again such a limit, and differs from the parent by less than         *)
(* parent/1024.                                                            *)
(***************************************************************************)
LEMMA CalcGasLimitStep ==
    ASSUME MinerConfig,
           NEW p \in Nat, p >= MinGasLimit, 2 * p < 2 ^ Width,
           NEW u \in 0..p, NEW f \in GasFloors, NEW c \in GasCeils
    PROVE  LET l == CalcGasLimit(p, u, f, c) IN
           /\ l \in Nat
           /\ l >= MinGasLimit
           /\ 2 * l < 2 ^ Width
           /\ l - p < p \div GasLimitBoundDivisor
           /\ p - l < p \div GasLimitBoundDivisor
<1> DEFINE M == 2 ^ Width
           contrib == (u + u \div 2) \div 1024
           decay == p \div 1024 - 1
           limit0 == p - decay + contrib
           limit1 == IF limit0 < 5000 THEN 5000 ELSE limit0
<1>1. /\ M \in Nat /\ f \in Nat /\ c \in Nat
      /\ 2 * f < M /\ 2 * c < M /\ f > 5123 /\ c >= 5000
    BY ModulusPositive, GasLimitConstantsAssumption DEF MinerConfig
<1>2. /\ Add(u, u \div 2) = u + u \div 2
      /\ Sub(p \div 1024, 1) = decay
      /\ Sub(p, decay) = p - decay
      /\ Add(p - decay, contrib) = limit0
      /\ Add(p, decay) = p + decay
    BY <1>1, NoWrap, GasLimitConstantsAssumption DEF Add, Sub, MinerConfig
<1>3. CalcGasLimit(p, u, f, c) =
          IF limit1 < f
          THEN IF p + decay > f THEN f ELSE p + decay
          ELSE IF limit1 > c
               THEN IF p - decay < c THEN c ELSE p - decay
               ELSE limit1
    BY <1>2 DEF CalcGasLimit, MinerConfig
<1>4. p \div 1024 >= 4 /\ decay >= 3 /\ contrib >= 0 /\ limit1 >= 5000
    BY DEF MinerConfig
<1>5. limit0 >= p - decay /\ limit1 >= p - decay
    BY <1>4
<1>6. p < 5120 => limit0 <= p + 4
    OBVIOUS
<1>7. p >= 5120 => limit0 - p < p \div 1024
    OBVIOUS
<1>8. CASE limit1 < f
    <2>1. CalcGasLimit(p, u, f, c) = IF p + decay > f THEN f ELSE p + decay
        BY <1>3, <1>8
    <2>2. QED
        BY <1>1, <1>4, <1>5, <1>8, <2>1 DEF MinerConfig
<1>9. CASE ~(limit1 < f) /\ limit1 > c
    <2>1. CalcGasLimit(p, u, f, c) = IF p - decay < c THEN c ELSE p - decay
        BY <1>3, <1>9
    <2>2. limit1 = limit0
        BY <1>1, <1>9
    <2>3. c - p < p \div 1024
        BY <1>1, <1>6, <1>7, <1>9, <2>2
    <2>4. QED
        BY <1>1, <1>4, <2>1, <2>3 DEF MinerConfig
<1>10. CASE ~(limit1 < f) /\ ~(limit1 > c)
    <2>1. CalcGasLimit(p, u, f, c) = limit1
        BY <1>3, <1>10
    <2>2. p < 5120 => limit1 <= 5123
        BY <1>6
    <2>3. p >= 5120
        BY <1>1, <1>10, <2>2
    <2>4. limit1 - p < p \div 1024
        BY <1>4, <1>7, <2>3
    <2>5. QED
        BY <1>1, <1>4, <1>5, <1>10, <2>1, <2>4 DEF MinerConfig
<1>11. QED
    BY <1>8, <1>9, <1>10

(* The initial states satisfy the invariant. *)
LEMMA GasInit == MinerConfig /\ Init => GasInv
BY ModulusPositive, GasLimitConstantsAssumption DEF MinerConfig, Init, GasInv

(***************************************************************************)
(* Mining a block keeps the invariant and passes the header bound.         *)
(***************************************************************************)
LEMMA GasStep ==
    ASSUME MinerConfig, GasInv, [Next]_vars
    PROVE  /\ GasInv'
           /\ [ /\ gasLimit' >= MinGasLimit
                /\ gasLimit' - gasLimit < gasLimit \div GasLimitBoundDivisor
                /\ gasLimit - gasLimit' < gasLimit \div GasLimitBoundDivisor ]_vars
<1>1. CASE MineBlock
    <2> DEFINE l == CalcGasLimit(gasLimit, gasUsed, gasFloor, gasCeil)
    <2>1. /\ l \in Nat
          /\ l >= MinGasLimit
          /\ 2 * l < 2 ^ Width
          /\ l - gasLimit < gasLimit \div GasLimitBoundDivisor
          /\ gasLimit - l < gasLimit \div GasLimitBoundDivisor
        BY CalcGasLimitStep DEF GasInv
    <2>2. gasLimit' = l /\ gasUsed' \in {0, (2 * l) \div 3, l}
          /\ UNCHANGED <<gasFloor, gasCeil>>
        BY <1>1 DEF MineBlock
    <2>3. gasUsed' \in 0..gasLimit'
        BY <2>1, <2>2
    <2>4. QED
        BY <2>1, <2>2, <2>3 DEF GasInv
<1>2. CASE UNCHANGED vars
    BY <1>2 DEF GasInv, vars
<1>3. QED
    BY <1>1, <1>2 DEF Next

(***************************************************************************)
(* For every miner configuration MinerConfig covers, every block the miner *)
(* mines on the head passes ethash's bound: its limit is at least          *)
(* MinGasLimit and differs from its parent's by less than parent/1024.     *)
(* The theorem behind the run gas_limit.                                   *)
(***************************************************************************)
THEOREM GasLimitStepValidHolds == MinerConfig => (Spec => GasLimitStepValid)
<1> SUFFICES ASSUME MinerConfig PROVE Spec => GasLimitStepValid
    OBVIOUS
<1>1. Init => GasInv
    BY GasInit
<1>2. GasInv /\ [Next]_vars => GasInv'
    BY GasStep
<1>3. GasInv /\ [Next]_vars =>
        [ /\ gasLimit' >= MinGasLimit
          /\ gasLimit' - gasLimit < gasLimit \div GasLimitBoundDivisor
          /\ gasLimit - gasLimit' < gasLimit \div GasLimitBoundDivisor ]_vars
    BY GasStep
<1>4. QED
    BY <1>1, <1>2, <1>3, PTL DEF Spec, GasLimitStepValid

=============================================================================
