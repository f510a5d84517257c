CONSTANTS
    Preimages <- MCPreimages
    KeccakDigest <- MCKeccakDigest
    Idents = {1}
    LocalWords <- MCLocalWords
    LocalSizes = {4}
    Callers = {1}
    LocalDigest <- MCLocalDigest
    Offsets <- MCOffsets
    CheatArgs = {}
    Build = "solc-0.7.6"
    Uint256Mod <- MCUint256Mod
    Entry <- MCEntry
    HeapStart <- MCHeapStart
    Program <- MCDelayProgram
    OracleDeployed = TRUE
    MaxSteps = 100
SPECIFICATION Spec
PROPERTY DelaySlotResolved
