--------------------------- MODULE MCEstimateGas ---------------------------
(* EstimateGas with 6-bit gas values: lo starts at TxGas - 1 = 3.          *)
EXTENDS EstimateGas

\* call.Gas up to 2^5: hi + lo < 2 * cap cannot wrap
MCCallGasesNoWrap == 0..(2 ^ 6 \div 2)

\* call.Gas = 2^6 - 1, the counterpart of math.MaxUint64
MCCallGasMax == {2 ^ 6 - 1}
=============================================================================
