\* Forks whose weight grows with their length, as calc_difficulty makes it.
SPECIFICATION Spec
CONSTANTS
    Hash <- MCHash
    Genesis <- MCGenesis
    parent_hash <- MCParentHash
    number <- MCNumber
    difficulty <- MCDifficulty
    height <- MCHeight
    lineage <- MCLineage
    weight <- MCWeight
    SealValid <- MCSealValid
    LabelDifficulty <- Balanced
    Misnumbered <- SomeMisnumbered
    Unsealed <- SomeUnsealed
    initial_difficulty = 1
    DescendantsUntilFinalized = 2
    VerifyPoW = TRUE
    FINALIZED_HEADERS_TO_KEEP = 0
    HEADERS_TO_PRUNE_IN_SINGLE_IMPORT = 1
    MaxHeight = 5
    MaxStored = 7
CONSTRAINT StorageBound
INVARIANTS OneFinalizedChain PruningSound NeverHalfImported FinalizedIsBuried FinalizedChainVerifiable
CHECK_DEADLOCK FALSE
