-------------------------- MODULE EstimateGasProofs --------------------------
(***************************************************************************)
(* Proof that EstimateGas's binary search returns the least gas the call   *)
(* executes with, or an error when the cap is not enough, for every width, *)
(* TxGas, default call gas and call, when the cap leaves hi + lo no room   *)
(* to wrap.                                                                *)
(***************************************************************************)
EXTENDS EstimateGas, UintArith, TLAPS

(***************************************************************************)
(* The caps the theorem covers: call.Gas and the block gas limit are at    *)
(* most half the modulus, so that hi + lo < 2 * cap never wraps.  With a   *)
(* larger cap the sum wraps (the run estimate_gas_max_cap).               *)
(***************************************************************************)
CapsDoNotWrap == \A g \in CallGases \cup GasLimits : 2 * g <= Modulus

(***************************************************************************)
(* The inductive invariant.  lo never executes and hi executes unless it   *)
(* is still the untried cap; lo < hi <= cap; the cap check is reached only *)
(* with hi = cap = lo + 1; and a finished search has the right result.     *)
(***************************************************************************)
SearchInv ==
    /\ need \in TxGas..NoGas
    /\ lo \in Nat /\ hi \in Nat /\ cap \in Nat
    /\ lo < hi /\ hi <= cap /\ 2 * cap <= Modulus
    /\ lo < need
    /\ hi = cap \/ need <= hi
    /\ pc \in {"search", "capcheck", "done"}
    /\ pc = "capcheck" => hi = cap /\ hi = lo + 1
    /\ EstimateGasMinimal

(* The modulus is a positive number, and TxGas and the needs are numbers. *)
LEMMA EstimateFacts ==
    /\ Modulus \in Nat \ {0}
    /\ TxGas \in Nat \ {0}
    /\ Needs \subseteq Nat
    /\ CallGases \subseteq Nat /\ GasLimits \subseteq Nat
    /\ \A g \in GasLimits : g >= TxGas
BY EstimateConstantsAssumption, ModulusPositive DEF Modulus, NoGas

(***************************************************************************)
(* The initial states satisfy the invariant: lo = TxGas - 1 is below every *)
(* need, and hi, the cap, is call.Gas when it is at least TxGas and the    *)
(* gas limit (at least TxGas) otherwise.                                   *)
(***************************************************************************)
LEMMA SearchInit == CapsDoNotWrap /\ Init => SearchInv
<1> SUFFICES ASSUME CapsDoNotWrap, Init PROVE SearchInv
    OBVIOUS
<1>1. PICK callGas \in CallGases, gasLimit \in GasLimits :
          hi = IF callGas >= TxGas THEN callGas ELSE gasLimit
    BY DEF Init
<1>2. hi \in Nat /\ hi >= TxGas /\ 2 * hi <= Modulus
    BY <1>1, EstimateFacts DEF CapsDoNotWrap
<1>3. QED
    BY <1>2, EstimateFacts, EstimateConstantsAssumption
       DEF Init, SearchInv, EstimateGasMinimal

(***************************************************************************)
(* A search step halves [lo, hi] at mid, which lies strictly between them  *)
(* since hi + lo < 2 * cap <= Modulus does not wrap: an executable mid     *)
(* becomes hi, another becomes lo.                                         *)
(***************************************************************************)
LEMMA SearchStepInv == SearchInv /\ SearchStep => SearchInv'
<1> SUFFICES ASSUME SearchInv, SearchStep PROVE SearchInv'
    OBVIOUS
<1> DEFINE mid == (hi + lo) \div 2
<1>1. (hi + lo) % Modulus = hi + lo
    BY EstimateConstantsAssumption, NoWrap DEF SearchInv, Modulus
<1>2. lo + 1 < hi /\ mid \in Nat /\ lo < mid /\ mid < hi /\ mid # 0
    BY DEF SearchStep, SearchInv
<1>3. executable(mid) <=> need <= mid
    BY <1>2 DEF executable
<1>4. IF need <= mid THEN hi' = mid /\ lo' = lo ELSE lo' = mid /\ hi' = hi
    BY <1>1, <1>3 DEF SearchStep
<1>5. UNCHANGED <<need, cap, pc, result>>
    BY DEF SearchStep
<1>6. QED
    BY <1>2, <1>4, <1>5 DEF SearchInv, EstimateGasMinimal

(***************************************************************************)
(* The loop ends with hi = lo + 1.  Below the cap hi executes and lo does  *)
(* not, so hi is the need; at the cap the check decides.                   *)
(***************************************************************************)
LEMMA SearchEndInv == SearchInv /\ SearchEnd => SearchInv'
BY DEF SearchEnd, SearchInv, EstimateGasMinimal

(***************************************************************************)
(* The cap check: with hi = cap = lo + 1 and lo below the need, the cap    *)
(* executes exactly when the need is at most the cap, and then equals it.  *)
(***************************************************************************)
LEMMA CapCheckInv == SearchInv /\ CapCheck => SearchInv'
<1> SUFFICES ASSUME SearchInv, CapCheck PROVE SearchInv'
    OBVIOUS
<1>1. hi # 0 /\ hi = cap /\ hi = lo + 1
    BY DEF SearchInv, CapCheck
<1>2. executable(hi) <=> need <= hi
    BY <1>1 DEF executable
<1>3. QED
    BY <1>1, <1>2 DEF CapCheck, SearchInv, EstimateGasMinimal

(***************************************************************************)
(* EstimateGas, when neither call.Gas nor the block gas limit leaves the   *)
(* sum hi + lo room to wrap, returns the least gas the call executes with  *)
(* when the cap is enough and errGasEstimationFailed when it is not: the   *)
(* theorem behind the run estimate_gas.                                    *)
(***************************************************************************)
THEOREM EstimateGasMinimalHolds == CapsDoNotWrap => (Spec => []EstimateGasMinimal)
<1> SUFFICES ASSUME CapsDoNotWrap PROVE Spec => []EstimateGasMinimal
    OBVIOUS
<1>1. Init => SearchInv
    BY SearchInit
<1>2. SearchInv /\ [Next]_vars => SearchInv'
    BY SearchStepInv, SearchEndInv, CapCheckInv DEF Next, vars, SearchInv, EstimateGasMinimal
<1>3. SearchInv => EstimateGasMinimal
    BY DEF SearchInv
<1>4. QED
    BY <1>1, <1>2, <1>3, PTL DEF Spec

=============================================================================
