CONSTANTS
    Width = 6
    TxGas = 4
    DefaultCallGas = 50
    CallGases <- MCCallGasMax
    GasLimits = {20, 32}
    Needs = {4, 5, 17, 30, 60, 63, 64}
SPECIFICATION Spec
PROPERTIES EstimateGasAnswers
CHECK_DEADLOCK FALSE
