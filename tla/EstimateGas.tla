---------------------------- MODULE EstimateGas ----------------------------
(***************************************************************************)
(* SimulatedBackend.EstimateGas: the binary search for the least gas a     *)
(* call executes with, one loop iteration per step.  Gas values are uint64 *)
(* in the code; here they are uints of Width bits, with the code's wrap    *)
(* (mod 2^Width) in hi + lo, so that the edge where the sum overflows is   *)
(* in reach of the model.                                                  *)
(*                                                                         *)
(* The call is represented by need, the least gas it executes with (a call *)
(* that runs out of gas below need and succeeds from need up; NoGas for a  *)
(* call that always fails): executable(gas) runs callContract, which       *)
(* replaces a gas of 0 by its default of DefaultCallGas.                   *)
(***************************************************************************)
EXTENDS Naturals

CONSTANTS
    Width,           \* the bits of a gas value (64 in the code)
    TxGas,           \* params.TxGas: no call executes with less
    DefaultCallGas,  \* callContract's call.Gas for a call with Gas 0
    CallGases,       \* the call.Gas values of the calls estimated
    GasLimits,       \* the pending block's gas limits
    Needs            \* the least gas of the calls estimated

Modulus == 2 ^ Width

NoGas == Modulus  \* the need of a call that never executes

ASSUME EstimateConstantsAssumption ==
    /\ Width \in Nat \ {0}
    /\ TxGas \in 1..Modulus - 1
    /\ DefaultCallGas \in 0..Modulus - 1
    /\ CallGases \subseteq 0..Modulus - 1
    /\ GasLimits \subseteq TxGas..Modulus - 1
    /\ Needs \subseteq TxGas..NoGas

VARIABLES need, lo, hi, cap, pc, result

vars == <<need, lo, hi, cap, pc, result>>

\* errGasEstimationFailed, as a number no gas value takes
Err == Modulus + 1

(* callContract with call.Gas = gas, reverted afterwards: did it succeed?   *)
executable(gas) == (IF gas = 0 THEN DefaultCallGas ELSE gas) >= need

(* The initial bounds: lo = TxGas - 1, hi = call.Gas or the gas limit.     *)
Init ==
    /\ need \in Needs
    /\ lo = TxGas - 1
    /\ \E callGas \in CallGases, gasLimit \in GasLimits :
          hi = IF callGas >= TxGas THEN callGas ELSE gasLimit
    /\ cap = hi
    /\ pc = "search"
    /\ result = 0

(* One iteration of for lo+1 < hi { mid := (hi + lo) / 2 ... }. *)
SearchStep ==
    LET mid == ((hi + lo) % Modulus) \div 2 IN
    /\ pc = "search"
    /\ lo + 1 < hi
    /\ IF executable(mid) THEN hi' = mid /\ lo' = lo
                          ELSE lo' = mid /\ hi' = hi
    /\ UNCHANGED <<need, cap, pc, result>>

(* The loop ends; hi is returned unless it is still the cap. *)
\* Mutant: the loop runs while lo < hi, so it leaves only when lo >= hi.
SearchEndWhileLess ==
    /\ pc = "search"
    /\ ~(lo < hi)
    /\ pc' = IF hi = cap THEN "capcheck" ELSE "done"
    /\ result' = IF hi = cap THEN result ELSE hi
    /\ UNCHANGED <<need, lo, hi, cap>>

\* Mutant: the cap is returned without trying it.
SearchEndNoCapCheck ==
    /\ pc = "search"
    /\ ~(lo + 1 < hi)
    /\ pc' = "done"
    /\ result' = hi
    /\ UNCHANGED <<need, lo, hi, cap>>

SearchEnd ==
    /\ pc = "search"
    /\ ~(lo + 1 < hi)
    /\ pc' = IF hi = cap THEN "capcheck" ELSE "done"
    /\ result' = IF hi = cap THEN result ELSE hi
    /\ UNCHANGED <<need, lo, hi, cap>>

(* if hi == cap { if !executable(hi) { return 0, errGasEstimationFailed } } *)
CapCheck ==
    /\ pc = "capcheck"
    /\ pc' = "done"
    /\ result' = IF executable(hi) THEN hi ELSE Err
    /\ UNCHANGED <<need, lo, hi, cap>>

Next == SearchStep \/ SearchEnd \/ CapCheck

(* The search runs in the caller's goroutine, under b.mu, to its end.      *)
Spec == Init /\ [][Next]_vars /\ WF_vars(Next)

-----------------------------------------------------------------------------

(***************************************************************************)
(* EstimateGas returns the least gas the call executes with, when the cap  *)
(* (call.Gas, or the block gas limit) is enough, and an error when it is   *)
(* not.                                                                    *)
(***************************************************************************)
EstimateGasMinimal ==
    pc = "done" =>
        result = IF need <= cap THEN need ELSE Err

(* The search ends: every call of EstimateGas returns. *)
EstimateGasReturns == <>(pc = "done")

(***************************************************************************)
(* What EstimateGas promises its caller, whatever call.Gas is: it returns, *)
(* and what it returns is the least gas the call executes with, or the     *)
(* error when the cap is not enough.  A search that loops, holding b.mu,   *)
(* and one that returns the wrong gas both break it.                       *)
(***************************************************************************)
EstimateGasAnswers == <>(pc = "done" /\ result = IF need <= cap THEN need ELSE Err)

=============================================================================
