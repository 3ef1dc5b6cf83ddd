CONSTANTS
    GenesisBlocks <- MCGenesis
    MaxBlocks = 3
    HBucketNames <- MCBuckets
    AccountsBucket <- MChAT
SPECIFICATION Spec
INVARIANTS WalksFindTheirBlocks
