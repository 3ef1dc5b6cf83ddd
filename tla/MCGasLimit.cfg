CONSTANTS
    GasLimitBoundDivisor = 1024
    MinGasLimit = 5000
    Width = 24
    GenesisGasLimits = {5000, 9000}
    GasFloors = {6000, 7000}
    GasCeils = {7000, 8000}
SPECIFICATION Spec
PROPERTIES GasLimitStepValid GasLimitReachesRange
