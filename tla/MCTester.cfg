CONSTANTS
    MaxSignals = 5
SPECIFICATION Spec
CHECK_DEADLOCK FALSE

PROPERTIES SignalEndsTester
