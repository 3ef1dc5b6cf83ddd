CONSTANTS
    Blocks = {1}
    Hashes = {h1, h2}
    CanonicalHash = h1
    NoHash = NoHash
    NoHistory = FALSE
    MaxRuns = 3
SPECIFICATION Spec

PROPERTIES NodeNeverOverwritesRight
