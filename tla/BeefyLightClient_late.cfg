SPECIFICATION Spec

CONSTANTS
    v1 = v1
    v2 = v2
    v3 = v3
    v4 = v4
    Relayer = {r1, r2}
    MaxBlock = 10
    startingBeefyBlock = 3
    NUMBER_OF_BLOCKS_PER_SESSION = 4
    ERROR_AND_SAFETY_BUFFER = 1
    THRESHOLD_NUMERATOR = 2
    THRESHOLD_DENOMINATOR = 3
    BLOCK_WAIT_PERIOD = 1
    RECENT_HASHES = 2
    MaxEthereumBlock = 5
    MaxId = 2
    Validator <- Keys
    Block <- Blocks
    Session <- Sessions
    Authorities <- SameSet
    Signers <- MostSign

SYMMETRY RelayersAlike

PROPERTY
    SeedIsABlockHash

CHECK_DEADLOCK FALSE
