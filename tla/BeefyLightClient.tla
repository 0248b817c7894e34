-------------------------- MODULE BeefyLightClient --------------------------
(***************************************************************************)
(* The BEEFY light client contract on Ethereum (BeefyLightClient.sol and   *)
(* ValidatorRegistry.sol).  A relayer has a relay chain block accepted in  *)
(* two transactions: newSignatureCommitment names the validators who have  *)
(* signed it, and completeSignatureCommitment, some blocks later, shows    *)
(* the signatures of a sample of them.  Each accepted block installs the   *)
(* validator set of the next session.                                      *)
(*                                                                         *)
(* A commitment is named by its relay chain block: its payload (the MMR    *)
(* root), its validator set and its newest MMR leaf are functions of that  *)
(* block.  Bitfields are sets of positions, counted from 1.                *)
(***************************************************************************)
EXTENDS Integers, Sequences, FiniteSets

CONSTANTS
    Relayer,
    Validator,
    Block,                         \* relay chain blocks that validators commit to
    Session,
    Authorities,                   \* session -> sequence of its validators' keys
    Signers,                       \* block -> validators whose signatures are at hand
    startingBeefyBlock,
    NUMBER_OF_BLOCKS_PER_SESSION,
    ERROR_AND_SAFETY_BUFFER,
    THRESHOLD_NUMERATOR,
    THRESHOLD_DENOMINATOR,
    BLOCK_WAIT_PERIOD,
    RECENT_HASHES,                 \* how many past blocks blockhash() knows
    MaxEthereumBlock,              \* bound on block.number
    MaxId                          \* bound on currentId

SessionOf(b) == b \div NUMBER_OF_BLOCKS_PER_SESSION

ASSUME RelayChain ==
    /\ Block \subseteq Nat /\ Session \subseteq Nat
    /\ startingBeefyBlock \in Nat
    /\ NUMBER_OF_BLOCKS_PER_SESSION \in Nat \ {0}
    /\ \A b \in Block \cup {startingBeefyBlock} :
          SessionOf(b) \in Session /\ SessionOf(b) + 1 \in Session
    /\ Authorities \in [Session -> Seq(Validator)]
    /\ Signers \in [Block -> SUBSET Validator]

ASSUME ContractConstants ==
    /\ ERROR_AND_SAFETY_BUFFER \in 0..NUMBER_OF_BLOCKS_PER_SESSION
    /\ THRESHOLD_NUMERATOR \in Nat /\ THRESHOLD_DENOMINATOR \in Nat \ {0}
    /\ BLOCK_WAIT_PERIOD \in Nat
    /\ RECENT_HASHES \in Nat
    /\ MaxEthereumBlock \in Nat /\ MaxId \in Nat

VARIABLES
    blockNumber,        \* block.number of Ethereum
    currentId,
    latestBeefyBlock,   \* latestMMRRoot is the payload of this block
    validationData,     \* id -> [senderAddress, commitmentHash, claims, blockNumber]
    registry            \* ValidatorRegistry: [id, root]; a root stands for the keys

vars == <<blockNumber, currentId, latestBeefyBlock, validationData, registry>>

\* The set that the newest MMR leaf of block b announces.
nextAuthoritySet(b) ==
    [id |-> SessionOf(b) + 1, root |-> Authorities[SessionOf(b) + 1]]

numOfValidators == Len(registry.root)

Init ==
    /\ blockNumber = 0
    /\ currentId = 0
    /\ latestBeefyBlock = startingBeefyBlock
    /\ validationData = [i \in {} |-> {}]
    /\ registry = nextAuthoritySet(startingBeefyBlock)

-----------------------------------------------------------------------------
(* Checks.                                                                 *)

\* The key at position p of the registry has signed the commitment for b: the
\* Merkle proof of the key and the recovered address both match.
checkSignature(p, b) ==
    p \in 1..numOfValidators /\ registry.root[p] \in Signers[b]

requiredNumberOfSignatures(numValidators) ==
    (numValidators * THRESHOLD_NUMERATOR + THRESHOLD_DENOMINATOR - 1)
        \div THRESHOLD_DENOMINATOR

\* blockhash(n) is zero outside the most recent blocks.
blockhash(n) ==
    IF n < blockNumber /\ n >= blockNumber - RECENT_HASHES THEN n + 1 ELSE 0

getSeed(data) == blockhash(data.blockNumber + BLOCK_WAIT_PERIOD)

\* The samples randomNBitsWithPriorCheck can return: n distinct positions of
\* the validator set that are set in prior.  None: the call runs out of gas.
randomNBitsWithPriorCheck(prior, n, length) ==
    IF n > Cardinality(prior) THEN {}
    ELSE {bits \in SUBSET (prior \cap 1..length) : Cardinality(bits) = n}

\* Mutant: a position is not cleared after its use.
SignaturesCountedTwice(bits, positions, b) ==
    \A i \in DOMAIN positions : positions[i] \in bits /\ checkSignature(positions[i], b)

\* Each position is in the bitfield and is cleared once it has been used.
verifyValidatorProofSignatures(bits, positions, b) ==
    \A i \in DOMAIN positions :
        /\ positions[i] \in bits \ {positions[j] : j \in 1..(i - 1)}
        /\ checkSignature(positions[i], b)

-----------------------------------------------------------------------------
(* Transactions.                                                           *)

\* Mutant: the entry goes where the number of pending commitments points.
StoredByCount(r, b, claims) ==
    LET id == Cardinality(DOMAIN validationData)
    IN  [i \in DOMAIN validationData \cup {id} |->
            IF i = id
            THEN [senderAddress |-> r, commitmentHash |-> b, claims |-> claims,
                  blockNumber |-> blockNumber]
            ELSE validationData[i]]

\* validationData with a new entry under currentId.
Stored(r, b, claims) ==
    [i \in DOMAIN validationData \cup {currentId} |->
        IF i = currentId
        THEN [senderAddress |-> r, commitmentHash |-> b, claims |-> claims,
              blockNumber |-> blockNumber]
        ELSE validationData[i]]

\* Mutant: the id is handed out again.
NewCommitmentReusesId(r, b, claims, p) ==
    /\ currentId < MaxId
    /\ checkSignature(p, b)
    /\ Cardinality(claims) >= requiredNumberOfSignatures(numOfValidators)
    /\ validationData' = Stored(r, b, claims)
    /\ UNCHANGED currentId
    /\ UNCHANGED <<blockNumber, latestBeefyBlock, registry>>

\* A relayer claims that the positions in claims have signed b and shows the
\* signature at position p.
newSignatureCommitment(r, b, claims, p) ==
    /\ currentId < MaxId
    /\ checkSignature(p, b)
    /\ Cardinality(claims) >= requiredNumberOfSignatures(numOfValidators)
    /\ validationData' = Stored(r, b, claims)
    /\ currentId' = currentId + 1
    /\ UNCHANGED <<blockNumber, latestBeefyBlock, registry>>

MAXIMUM_BLOCK_GAP == NUMBER_OF_BLOCKS_PER_SESSION - ERROR_AND_SAFETY_BUFFER

\* Mutant: a commitment may be anything short of two sessions ahead.
PayloadWithinTwoSessions(b) ==
    /\ b > latestBeefyBlock
    /\ b < latestBeefyBlock + 2 * NUMBER_OF_BLOCKS_PER_SESSION
    /\ latestBeefyBlock' = b

processPayload(b) ==
    /\ b > latestBeefyBlock
    /\ b < latestBeefyBlock + MAXIMUM_BLOCK_GAP
    /\ latestBeefyBlock' = b

\* Mutant: only a larger set counts as a new one.
RegistryOnlyGrows(next) ==
    registry' = IF Len(next.root) > numOfValidators THEN next ELSE registry

applyValidatorSetChanges(next) ==
    registry' = IF next.id # registry.id THEN next ELSE registry

\* The relayer that started id shows the signatures at positions for block b,
\* the positions being those of the sample that the seed has drawn.
completeSignatureCommitment(r, id, b, positions) ==
    /\ id \in DOMAIN validationData
    /\ validationData[id].senderAddress = r
    /\ blockNumber >= validationData[id].blockNumber + BLOCK_WAIT_PERIOD
    /\ LET required == requiredNumberOfSignatures(numOfValidators)
       IN  /\ DOMAIN positions = 1..required
           /\ \E bits \in randomNBitsWithPriorCheck(
                              validationData[id].claims, required, numOfValidators) :
                 verifyValidatorProofSignatures(bits, positions, b)
    /\ processPayload(b)
    /\ applyValidatorSetChanges(nextAuthoritySet(b))
    /\ validationData' =
          [i \in DOMAIN validationData \ {id} |-> validationData[i]]
    /\ UNCHANGED <<blockNumber, currentId>>

\* Ethereum produces a block.
EthereumBlock ==
    /\ blockNumber < MaxEthereumBlock
    /\ blockNumber' = blockNumber + 1
    /\ UNCHANGED <<currentId, latestBeefyBlock, validationData, registry>>

\* The claims of a relayer: every position of the block's validator set, as
\* the writer makes them, or just the positions that have signed.
Claims(b) ==
    LET keys == Authorities[SessionOf(b)]
    IN  {DOMAIN keys, {p \in DOMAIN keys : keys[p] \in Signers[b]}}

Next ==
    \/ EthereumBlock
    \/ \E r \in Relayer, b \in Block :
          \E claims \in Claims(b) : \E p \in claims :
             newSignatureCommitment(r, b, claims, p)
    \/ \E r \in Relayer, id \in DOMAIN validationData, b \in Block :
          \E positions \in [1..requiredNumberOfSignatures(numOfValidators)
                                -> validationData[id].claims] :
             completeSignatureCommitment(r, id, b, positions)

Spec == Init /\ [][Next]_vars

-----------------------------------------------------------------------------
(* Properties.                                                             *)

\* The storage of the two contracts keeps its shape, and every pending commitment
\* has an id that newSignatureCommitment has given out.
TypeOK ==
    /\ blockNumber \in Nat /\ currentId \in Nat
    /\ latestBeefyBlock \in Block \cup {startingBeefyBlock}
    /\ DOMAIN validationData \subseteq 0..(currentId - 1)
    /\ \A i \in DOMAIN validationData :
          /\ validationData[i].senderAddress \in Relayer
          /\ validationData[i].commitmentHash \in Block
          /\ validationData[i].claims \subseteq Nat
          /\ validationData[i].blockNumber \in 0..blockNumber
    /\ registry \in [id : Session, root : Seq(Validator)]

\* However the transactions of several relayers interleave, the registry holds
\* the validator set of the session after the latest accepted block's, which is
\* the set that applyValidatorSetChanges took from that block's leaf.
RegistryFollowsBlock == registry = nextAuthoritySet(latestBeefyBlock)

\* An accepted block is signed, in the set that was in the registry when it was
\* accepted, by at least requiredNumberOfSignatures different validators, although
\* the claims were made against the set of an earlier transaction.
AcceptedWithQuorum ==
    [][latestBeefyBlock' # latestBeefyBlock =>
          Cardinality({p \in 1..numOfValidators : checkSignature(p, latestBeefyBlock')})
              >= requiredNumberOfSignatures(numOfValidators)]_vars

\* At least one block of every session is accepted: processPayload never steps
\* over the session after the latest block's.
NoSessionSkipped ==
    [][SessionOf(latestBeefyBlock') \in
          {SessionOf(latestBeefyBlock), SessionOf(latestBeefyBlock) + 1}]_vars

\* While several relayers race, a pending commitment is never overwritten: it
\* stays as it was stored until its own completion, which advances the client.
PendingUntilCompleted ==
    [][\A id \in DOMAIN validationData :
          IF id \in DOMAIN validationData'
          THEN validationData'[id] = validationData[id]
          ELSE latestBeefyBlock' > latestBeefyBlock]_vars

\* A commitment whose seed block is past is completed with the hash of that block
\* as its seed: the comment on getSeed says that a completion which comes too late
\* for blockhash makes a new call of newSignatureCommitment necessary.
SeedIsABlockHash ==
    [][\A id \in DOMAIN validationData \ DOMAIN validationData' :
          blockNumber > validationData[id].blockNumber + BLOCK_WAIT_PERIOD =>
              getSeed(validationData[id]) # 0]_vars

\* The window of processPayload contains a block whose validators can supply the
\* signatures that the registry asks for: the comment says that the window is
\* there to ensure at least one payload each session.
NextPayloadPossible ==
    \E b \in (latestBeefyBlock + 1)..(latestBeefyBlock + MAXIMUM_BLOCK_GAP - 1) :
        LET keys == Authorities[SessionOf(b)]
        IN  Cardinality({p \in 1..numOfValidators :
                            \E q \in DOMAIN keys : keys[q] = registry.root[p]})
                >= requiredNumberOfSignatures(numOfValidators)
=============================================================================
