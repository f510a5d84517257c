CONSTANTS
    Preimages <- MCPreimages
    KeccakDigest <- MCKeccakDigest
    Idents <- MCIdents
    LocalWords <- MCLocalWords
    LocalSizes <- MCLocalSizes
    Callers <- MCCallers
    LocalDigest <- MCLocalDigest
    Offsets <- MCOffsets
    CheatArgs = {}
    Build = "solc-0.7.6"
    Uint256Mod <- MCUint256Mod
SPECIFICATION OracleSpec
INVARIANT AvailablePartsReadable
