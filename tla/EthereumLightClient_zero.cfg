\* Proof of work off and difficulty zero: the last header is always the best.
SPECIFICATION Spec
CONSTANTS
    Hash <- MCHash
    Genesis <- MCGenesis
    parent_hash <- MCParentHash
    number <- MCNumber
    difficulty <- MCDifficulty
    height <- MCHeight
    lineage <- MCLineage
    weight <- MCWeight
    SealValid <- MCSealValid
    LabelDifficulty <- Zero
    Misnumbered = {}
    Unsealed = {}
    initial_difficulty = 0
    DescendantsUntilFinalized = 2
    VerifyPoW = FALSE
    FINALIZED_HEADERS_TO_KEEP = 0
    HEADERS_TO_PRUNE_IN_SINGLE_IMPORT = 2
    MaxHeight = 5
    MaxStored = 6
CONSTRAINT StorageBound
INVARIANTS BestExtendsFinalized
PROPERTIES FinalityNeverReverts
CHECK_DEADLOCK FALSE
