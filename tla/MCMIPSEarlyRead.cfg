CONSTANTS
    Preimages <- MCPreimages
    KeccakDigest <- MCKeccakDigest
    Idents = {1}
    LocalWords <- MCLocalWords
    LocalSizes = {4}
    Callers = {1}
    LocalDigest <- MCLocalDigest
    Offsets <- MCOffsets
    CheatArgs = {}
    Build = "solc-0.7.6"
    Uint256Mod <- MCUint256Mod
    Entry <- MCEntry
    HeapStart <- MCHeapStart
    Program <- MCEarlyReadProgram
    OracleDeployed = TRUE
    MaxSteps = 40
SPECIFICATION Spec
PROPERTY Termination
