----------------------------- MODULE GasLimit -----------------------------
(***************************************************************************)
(* core.CalcGasLimit: the gas limit a miner (and GenerateChain) gives the  *)
(* block after parent, from the parent's limit and use and the miner's     *)
(* floor and ceiling, and the chain of limits it produces block by block.  *)
(* The arithmetic is the code's uint64 arithmetic, modulo 2^Width: the     *)
(* decay parent.GasLimit()/1024 - 1 wraps for a parent below 1024.         *)
(***************************************************************************)
EXTENDS Integers

CONSTANTS
    GasLimitBoundDivisor,  \* params.GasLimitBoundDivisor (1024)
    MinGasLimit,           \* params.MinGasLimit (5000)
    Width,                 \* the bits of a gas value (64 in the code)
    GenesisGasLimits,      \* the genesis gas limits
    GasFloors,             \* the miner's gas floors
    GasCeils               \* the miner's gas ceilings

ASSUME GasLimitConstantsAssumption ==
    /\ GasLimitBoundDivisor \in Nat \ {0}
    /\ MinGasLimit \in Nat
    /\ Width \in Nat \ {0}
    /\ GenesisGasLimits \subseteq 0..2 ^ Width - 1
    /\ GasFloors \subseteq 0..2 ^ Width - 1
    /\ GasCeils \subseteq 0..2 ^ Width - 1

VARIABLES gasLimit, gasUsed, gasFloor, gasCeil

vars == <<gasLimit, gasUsed, gasFloor, gasCeil>>

(* uint64 + and - *)
Add(a, b) == (a + b) % (2 ^ Width)
Sub(a, b) == (a - b) % (2 ^ Width)

(***************************************************************************)
(* CalcGasLimit(parent, gasFloor, gasCeil): the parent's limit minus a     *)
(* decay of 1/1024 plus 3/2048 of its use, raised to MinGasLimit, then     *)
(* moved by at most the decay towards [gasFloor, gasCeil] when outside.    *)
(***************************************************************************)
\* Mutant: the decay is parent.GasLimit()/1024, without the - 1.
CalcGasLimitFullDecay(parentGasLimit, parentGasUsed, floor, ceil) ==
    LET contrib == Add(parentGasUsed, parentGasUsed \div 2) \div GasLimitBoundDivisor
        decay   == parentGasLimit \div GasLimitBoundDivisor
        limit0  == Add(Sub(parentGasLimit, decay), contrib)
        limit1  == IF limit0 < MinGasLimit THEN MinGasLimit ELSE limit0
    IN  IF limit1 < floor
        THEN IF Add(parentGasLimit, decay) > floor THEN floor ELSE Add(parentGasLimit, decay)
        ELSE IF limit1 > ceil
             THEN IF Sub(parentGasLimit, decay) < ceil THEN ceil ELSE Sub(parentGasLimit, decay)
             ELSE limit1

\* Mutant: a limit below the floor is raised by the decay without stopping at the floor.
CalcGasLimitOvershoot(parentGasLimit, parentGasUsed, floor, ceil) ==
    LET contrib == Add(parentGasUsed, parentGasUsed \div 2) \div GasLimitBoundDivisor
        decay   == Sub(parentGasLimit \div GasLimitBoundDivisor, 1)
        limit0  == Add(Sub(parentGasLimit, decay), contrib)
        limit1  == IF limit0 < MinGasLimit THEN MinGasLimit ELSE limit0
    IN  IF limit1 < floor
        THEN Add(parentGasLimit, decay)
        ELSE IF limit1 > ceil
             THEN IF Sub(parentGasLimit, decay) < ceil THEN ceil ELSE Sub(parentGasLimit, decay)
             ELSE limit1

CalcGasLimit(parentGasLimit, parentGasUsed, floor, ceil) ==
    LET contrib == Add(parentGasUsed, parentGasUsed \div 2) \div GasLimitBoundDivisor
        decay   == Sub(parentGasLimit \div GasLimitBoundDivisor, 1)
        limit0  == Add(Sub(parentGasLimit, decay), contrib)
        limit1  == IF limit0 < MinGasLimit THEN MinGasLimit ELSE limit0
    IN  IF limit1 < floor
        THEN IF Add(parentGasLimit, decay) > floor THEN floor ELSE Add(parentGasLimit, decay)
        ELSE IF limit1 > ceil
             THEN IF Sub(parentGasLimit, decay) < ceil THEN ceil ELSE Sub(parentGasLimit, decay)
             ELSE limit1

-----------------------------------------------------------------------------

(* A chain from its genesis block, mined by a miner with a fixed config.   *)
Init ==
    /\ gasLimit \in GenesisGasLimits
    /\ gasUsed = 0
    /\ gasFloor \in GasFloors
    /\ gasCeil \in GasCeils

(***************************************************************************)
(* A block is mined on the head: its limit is CalcGasLimit(head, floor,    *)
(* ceil) and its transactions use none, two thirds, or all of it.          *)
(***************************************************************************)
MineBlock ==
    LET limit == CalcGasLimit(gasLimit, gasUsed, gasFloor, gasCeil) IN
    /\ gasLimit' = limit
    /\ gasUsed' \in {0, (2 * limit) \div 3, limit}
    /\ UNCHANGED <<gasFloor, gasCeil>>

Next == MineBlock

(* Blocks keep being mined on the head. *)
Spec == Init /\ [][Next]_vars /\ WF_vars(Next)

-----------------------------------------------------------------------------

(***************************************************************************)
(* Every block the miner makes passes the header check of the consensus    *)
(* engine (ethash verifyHeader): its limit differs from the parent's by    *)
(* less than parent/1024 and is at least MinGasLimit.                      *)
(***************************************************************************)
GasLimitStepValid ==
    [][ /\ gasLimit' >= MinGasLimit
        /\ gasLimit' - gasLimit < gasLimit \div GasLimitBoundDivisor
        /\ gasLimit - gasLimit' < gasLimit \div GasLimitBoundDivisor ]_vars

(***************************************************************************)
(* "It aims to keep the baseline gas above the provided floor, and        *)
(* increase it towards the ceil if the blocks are full. If the ceil is    *)
(* exceeded, it will always decrease": the limit gets into                 *)
(* [gasFloor, gasCeil] and stays there, whatever the blocks use.           *)
(***************************************************************************)
GasLimitReachesRange == <>[](gasLimit \in gasFloor..gasCeil)

=============================================================================
