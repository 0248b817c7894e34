\* Proof of work off: finalized blocks that are stepped over.
SPECIFICATION Spec
CONSTANTS
    Hash <- MCHash
    Genesis <- MCGenesis
    parent_hash <- MCParentHash
    number <- MCNumber
    difficulty <- MCDifficulty
    height <- MCHeight
    lineage <- MCLineage
    weight <- MCWeight
    SealValid <- MCSealValid
    LabelDifficulty <- Unbalanced
    Misnumbered = {}
    Unsealed = {}
    initial_difficulty = 1
    DescendantsUntilFinalized = 2
    VerifyPoW = FALSE
    FINALIZED_HEADERS_TO_KEEP = 1
    HEADERS_TO_PRUNE_IN_SINGLE_IMPORT = 2
    MaxHeight = 5
    MaxStored = 6
CONSTRAINT StorageBound
INVARIANTS FinalizedChainVerifiable
CHECK_DEADLOCK FALSE
