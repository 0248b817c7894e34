---------------------- MODULE BeefyLightClient_proofs ----------------------
(***************************************************************************)
(* Proofs about BeefyLightClient, for any validator sets, any signatures   *)
(* at hand, any number of relayers and any session length.                 *)
(***************************************************************************)
EXTENDS BeefyLightClient, FiniteSetTheorems, TLAPS

IInv == TypeOK /\ RegistryFollowsBlock

-----------------------------------------------------------------------------
(* Arithmetic of the contract.                                             *)

\* A block less than a session's length after another is in the same session or
\* in the next one, and a later block is never in an earlier session.
LEMMA SessionStep ==
    ASSUME NEW a \in Nat, NEW b \in Nat, a < b,
           b < a + NUMBER_OF_BLOCKS_PER_SESSION
    PROVE  SessionOf(b) \in {SessionOf(a), SessionOf(a) + 1}
<1>. DEFINE n == NUMBER_OF_BLOCKS_PER_SESSION
<1>1. n \in Nat \ {0}
    BY RelayChain
<1>. HIDE DEF n
<1>2. a \div n \in Nat /\ b \div n \in Nat
    BY <1>1
<1>3. a \div n <= b \div n
    BY <1>1
<1>4. b < a + n
    BY DEF n
<1>5. b \div n <= a \div n + 1
    BY <1>1, <1>4
<1>. QED
    BY <1>2, <1>3, <1>5 DEF SessionOf, n

\* requiredNumberOfSignatures rounds up: it is the least number of signatures
\* that reaches the threshold's share of the validators.
LEMMA RequiredRoundsUp ==
    ASSUME NEW n \in Nat
    PROVE  /\ requiredNumberOfSignatures(n) \in Nat
           /\ requiredNumberOfSignatures(n) * THRESHOLD_DENOMINATOR
                 >= n * THRESHOLD_NUMERATOR
           /\ requiredNumberOfSignatures(n) * THRESHOLD_DENOMINATOR
                 < n * THRESHOLD_NUMERATOR + THRESHOLD_DENOMINATOR
<1>. DEFINE d == THRESHOLD_DENOMINATOR
            m == n * THRESHOLD_NUMERATOR
            q == (m + d - 1) \div d
<1>1. d \in Nat \ {0} /\ m \in Nat
    BY ContractConstants
<1>. HIDE DEF d, m
<1>2. q \in Nat
    BY <1>1
<1>3. m + d - 1 = d * q + ((m + d - 1) % d) /\ (m + d - 1) % d \in 0..(d - 1)
    BY <1>1
<1>. HIDE DEF q
<1>4. d * q = q * d /\ q * d \in Nat
    BY <1>1, <1>2
<1>5. q * d >= m /\ q * d < m + d
    BY <1>1, <1>3, <1>4
<1>. QED
    BY <1>2, <1>5 DEF requiredNumberOfSignatures, d, m, q

\* A proof that verifyValidatorProofSignatures accepts shows as many different
\* validators as it lists positions.
LEMMA DifferentSigners ==
    ASSUME TypeOK, NEW b, NEW bits, NEW n \in Nat, NEW positions,
           positions = [i \in 1..n |-> positions[i]],
           verifyValidatorProofSignatures(bits, positions, b)
    PROVE  Cardinality({p \in 1..numOfValidators : checkSignature(p, b)}) >= n
<1>. DEFINE T == {p \in 1..numOfValidators : checkSignature(p, b)}
<1>1. numOfValidators \in Nat
    BY DEF TypeOK, numOfValidators
<1>2. IsFiniteSet(1..numOfValidators)
    BY <1>1, FS_Interval
<1>3. IsFiniteSet(T) /\ Cardinality(T) \in Nat
    <2>1. T \in SUBSET (1..numOfValidators)
        OBVIOUS
    <2>. QED
        BY <1>2, <2>1, FS_Subset, FS_CardinalityType
<1>4. DOMAIN positions = 1..n
    OBVIOUS
<1>5. \A i \in 1..n : positions[i] \in T
    BY <1>4 DEF verifyValidatorProofSignatures, checkSignature
<1>6. ASSUME NEW i \in 1..n, NEW j \in 1..n, i < j
      PROVE  positions[i] # positions[j]
    <2>1. i \in 1..(j - 1)
        BY <1>6
    <2>2. positions[j] \notin {positions[k] : k \in 1..(j - 1)}
        BY <1>4 DEF verifyValidatorProofSignatures
    <2>. QED
        BY <2>1, <2>2
<1>7. ASSUME NEW i \in 1..n, NEW j \in 1..n, positions[i] = positions[j]
      PROVE  i = j
    <2>1. i < j \/ j < i \/ i = j
        OBVIOUS
    <2>. QED
        BY <1>6, <1>7, <2>1
<1>8. positions \in [1..n -> T]
    BY <1>5
<1>9. positions \in Injection(1..n, T)
    BY <1>7, <1>8 DEF Injection, IsInjective
<1>10. Cardinality(1..n) <= Cardinality(T)
    BY <1>3, <1>9, FS_Injection
<1>11. Cardinality(1..n) = n
    BY FS_Interval
<1>. QED
    BY <1>10, <1>11

-----------------------------------------------------------------------------
(* The inductive invariant.                                                *)

\* The set that a leaf announces is a validator set with its id.
LEMMA NextSetTyped ==
    ASSUME NEW b \in Block \cup {startingBeefyBlock}
    PROVE  nextAuthoritySet(b) \in [id : Session, root : Seq(Validator)]
    BY RelayChain DEF nextAuthoritySet

\* The constructor and the configuration script establish the invariant.
LEMMA InitIInv == Init => IInv
<1>. SUFFICES ASSUME Init PROVE IInv
    OBVIOUS
<1>1. registry \in [id : Session, root : Seq(Validator)]
    BY NextSetTyped DEF Init
<1>2. DOMAIN validationData = {}
    BY DEF Init
<1>3. TypeOK
    BY <1>1, <1>2 DEF Init, TypeOK
<1>4. RegistryFollowsBlock
    BY DEF Init, RegistryFollowsBlock
<1>. QED
    BY <1>3, <1>4 DEF IInv

\* What a new commitment adds to validationData.
LEMMA Committed ==
    ASSUME NEW r, NEW b, NEW claims, NEW p,
           newSignatureCommitment(r, b, claims, p)
    PROVE  /\ DOMAIN validationData' = DOMAIN validationData \cup {currentId}
           /\ validationData'[currentId] =
                 [senderAddress |-> r, commitmentHash |-> b,
                  claims |-> claims, blockNumber |-> blockNumber]
           /\ \A i \in DOMAIN validationData :
                 i # currentId => validationData'[i] = validationData[i]
    BY DEF newSignatureCommitment, Stored

\* Positions are natural numbers, so claims are.
LEMMA ClaimsTyped ==
    ASSUME NEW b \in Block, NEW claims \in Claims(b)
    PROVE  claims \subseteq Nat
<1>1. Authorities[SessionOf(b)] \in Seq(Validator)
    BY RelayChain
<1>2. DOMAIN Authorities[SessionOf(b)] \subseteq Nat
    BY <1>1
<1>. QED
    BY <1>2 DEF Claims

\* newSignatureCommitment adds an entry under a fresh id and touches nothing else.
LEMMA CommitPreserves ==
    ASSUME IInv, NEW r \in Relayer, NEW b \in Block, NEW claims \in Claims(b), NEW p,
           newSignatureCommitment(r, b, claims, p)
    PROVE  IInv'
<1>1. /\ blockNumber' = blockNumber /\ latestBeefyBlock' = latestBeefyBlock
      /\ registry' = registry /\ currentId' = currentId + 1
    BY DEF newSignatureCommitment
<1>2. claims \subseteq Nat
    BY ClaimsTyped
<1>3. DOMAIN validationData' \subseteq 0..(currentId' - 1)
    <2>1. DOMAIN validationData \subseteq 0..(currentId - 1) /\ currentId \in Nat
        BY DEF IInv, TypeOK
    <2>2. DOMAIN validationData' = DOMAIN validationData \cup {currentId}
        BY Committed
    <2>. QED
        BY <1>1, <2>1, <2>2
<1>4. ASSUME NEW i \in DOMAIN validationData'
      PROVE  /\ validationData'[i].senderAddress \in Relayer
             /\ validationData'[i].commitmentHash \in Block
             /\ validationData'[i].claims \subseteq Nat
             /\ validationData'[i].blockNumber \in 0..blockNumber'
    <2>1. CASE i = currentId
        <3>1. validationData'[i] = [senderAddress |-> r, commitmentHash |-> b,
                                    claims |-> claims, blockNumber |-> blockNumber]
            BY <2>1, Committed
        <3>2. blockNumber \in 0..blockNumber'
            BY <1>1 DEF IInv, TypeOK
        <3>. QED
            BY <1>2, <3>1, <3>2
    <2>2. CASE i # currentId
        <3>1. i \in DOMAIN validationData /\ validationData'[i] = validationData[i]
            BY <2>2, Committed
        <3>. QED
            BY <1>1, <3>1 DEF IInv, TypeOK
    <2>. QED
        BY <2>1, <2>2
<1>5. TypeOK'
    BY <1>1, <1>3, <1>4 DEF IInv, TypeOK
<1>6. RegistryFollowsBlock'
    BY <1>1 DEF IInv, RegistryFollowsBlock, nextAuthoritySet, SessionOf
<1>. QED
    BY <1>5, <1>6 DEF IInv

\* completeSignatureCommitment moves the block and the registry together.
LEMMA CompletePreserves ==
    ASSUME IInv, NEW r \in Relayer, NEW id, NEW b \in Block, NEW positions,
           completeSignatureCommitment(r, id, b, positions)
    PROVE  IInv'
<1>1. /\ blockNumber' = blockNumber /\ currentId' = currentId
      /\ latestBeefyBlock' = b
      /\ validationData' = [i \in DOMAIN validationData \ {id} |-> validationData[i]]
    BY DEF completeSignatureCommitment, processPayload
<1>2. registry' = nextAuthoritySet(b)
    <2>1. applyValidatorSetChanges(nextAuthoritySet(b))
        BY DEF completeSignatureCommitment
    <2>2. registry = nextAuthoritySet(latestBeefyBlock)
        BY DEF IInv, RegistryFollowsBlock
    <2>3. CASE nextAuthoritySet(b).id # registry.id
        BY <2>1, <2>3 DEF applyValidatorSetChanges
    <2>4. CASE nextAuthoritySet(b).id = registry.id
        <3>1. SessionOf(b) + 1 = SessionOf(latestBeefyBlock) + 1
            BY <2>2, <2>4 DEF nextAuthoritySet
        <3>2. registry' = registry
            BY <2>1, <2>4 DEF applyValidatorSetChanges
        <3>. QED
            BY <2>2, <3>1, <3>2 DEF nextAuthoritySet
    <2>. QED
        BY <2>3, <2>4
<1>3. registry' \in [id : Session, root : Seq(Validator)]
    BY <1>2, NextSetTyped
<1>4. TypeOK'
    BY <1>1, <1>3 DEF IInv, TypeOK
<1>5. RegistryFollowsBlock'
    BY <1>1, <1>2 DEF RegistryFollowsBlock, nextAuthoritySet, SessionOf
<1>. QED
    BY <1>4, <1>5 DEF IInv

\* Every transaction and every Ethereum block preserves the invariant.
LEMMA NextPreserves == IInv /\ [Next]_vars => IInv'
<1>. SUFFICES ASSUME IInv, [Next]_vars PROVE IInv'
    OBVIOUS
<1>1. CASE EthereumBlock
    <2>1. TypeOK'
        BY <1>1 DEF IInv, EthereumBlock, TypeOK
    <2>2. RegistryFollowsBlock'
        BY <1>1 DEF IInv, EthereumBlock, RegistryFollowsBlock, nextAuthoritySet, SessionOf
    <2>. QED
        BY <2>1, <2>2 DEF IInv
<1>2. CASE \E r \in Relayer, b \in Block :
              \E claims \in Claims(b) : \E p \in claims :
                 newSignatureCommitment(r, b, claims, p)
    BY <1>2, CommitPreserves
<1>3. CASE \E r \in Relayer, id \in DOMAIN validationData, b \in Block :
              \E positions \in [1..requiredNumberOfSignatures(numOfValidators)
                                    -> validationData[id].claims] :
                 completeSignatureCommitment(r, id, b, positions)
    BY <1>3, CompletePreserves
<1>4. CASE UNCHANGED vars
    <2>1. TypeOK'
        BY <1>4 DEF IInv, vars, TypeOK
    <2>2. RegistryFollowsBlock'
        BY <1>4 DEF IInv, vars, RegistryFollowsBlock, nextAuthoritySet, SessionOf
    <2>. QED
        BY <2>1, <2>2 DEF IInv
<1>. QED
    BY <1>1, <1>2, <1>3, <1>4 DEF Next

-----------------------------------------------------------------------------
(* Theorems.                                                               *)

\* The inductive invariant holds: it is TypeOK together with the agreement of
\* the registry and the latest block, without which a step that leaves the
\* registry alone because the ids agree could leave an outdated set in it.
THEOREM Invariance == Spec => []IInv
    BY InitIInv, NextPreserves, PTL DEF Spec

\* Whatever the relayers do, the registry holds the validator set announced by
\* the latest accepted block (applyValidatorSetChanges, processPayload).
THEOREM RegistryCurrent == Spec => []RegistryFollowsBlock
<1>1. IInv => RegistryFollowsBlock
    BY DEF IInv
<1>. QED
    BY <1>1, Invariance, PTL

\* Every accepted block has signatures of requiredNumberOfSignatures different
\* validators of the registered set (verifyCommitment).
THEOREM QuorumBehindBlock == Spec => AcceptedWithQuorum
<1>. DEFINE Enough(n) ==
         Cardinality({p \in 1..numOfValidators : checkSignature(p, latestBeefyBlock')}) >= n
<1>1. IInv /\ [Next]_vars =>
          [latestBeefyBlock' # latestBeefyBlock =>
              Enough(requiredNumberOfSignatures(numOfValidators))]_vars
    <2>. SUFFICES ASSUME IInv, Next, latestBeefyBlock' # latestBeefyBlock
                  PROVE  Enough(requiredNumberOfSignatures(numOfValidators))
        BY DEF vars
    <2>1. PICK r \in Relayer, id \in DOMAIN validationData, b \in Block :
              \E positions \in [1..requiredNumberOfSignatures(numOfValidators)
                                    -> validationData[id].claims] :
                 completeSignatureCommitment(r, id, b, positions)
        BY DEF Next, EthereumBlock, newSignatureCommitment
    <2>2. PICK positions \in [1..requiredNumberOfSignatures(numOfValidators)
                                    -> validationData[id].claims] :
              completeSignatureCommitment(r, id, b, positions)
        BY <2>1
    <2>3. latestBeefyBlock' = b
        BY <2>2 DEF completeSignatureCommitment, processPayload
    <2>4. PICK bits : verifyValidatorProofSignatures(bits, positions, b)
        BY <2>2 DEF completeSignatureCommitment
    <2>5. requiredNumberOfSignatures(numOfValidators) \in Nat
        BY RequiredRoundsUp DEF IInv, TypeOK, numOfValidators
    <2>6. TypeOK
        BY DEF IInv
    <2>. HIDE DEF TypeOK
    <2>. QED
        BY <2>2, <2>3, <2>4, <2>5, <2>6, DifferentSigners
<1>. QED
    BY <1>1, Invariance, PTL DEF Spec, AcceptedWithQuorum

\* No session is stepped over (MAXIMUM_BLOCK_GAP in processPayload).
THEOREM EverySessionSeen == Spec => NoSessionSkipped
<1>1. IInv /\ [Next]_vars =>
          [SessionOf(latestBeefyBlock') \in
              {SessionOf(latestBeefyBlock), SessionOf(latestBeefyBlock) + 1}]_vars
    <2>. SUFFICES ASSUME IInv, Next
                  PROVE  SessionOf(latestBeefyBlock') \in
                            {SessionOf(latestBeefyBlock), SessionOf(latestBeefyBlock) + 1}
        BY DEF vars
    <2>1. CASE latestBeefyBlock' = latestBeefyBlock
        BY <2>1
    <2>2. CASE latestBeefyBlock' # latestBeefyBlock
        <3>1. PICK b \in Block : processPayload(b)
            BY <2>2 DEF Next, EthereumBlock, newSignatureCommitment,
                        completeSignatureCommitment
        <3>2. b \in Nat /\ latestBeefyBlock \in Nat /\ latestBeefyBlock' = b
            BY <3>1, RelayChain DEF IInv, TypeOK, processPayload
        <3>3. /\ NUMBER_OF_BLOCKS_PER_SESSION \in Nat
              /\ ERROR_AND_SAFETY_BUFFER \in Nat
            BY RelayChain, ContractConstants
        <3>4. /\ latestBeefyBlock < b
              /\ b < latestBeefyBlock + NUMBER_OF_BLOCKS_PER_SESSION
            BY <3>1, <3>2, <3>3 DEF processPayload, MAXIMUM_BLOCK_GAP
        <3>. QED
            BY <3>2, <3>4, SessionStep
    <2>. QED
        BY <2>1, <2>2
<1>. QED
    BY <1>1, Invariance, PTL DEF Spec, NoSessionSkipped

\* A pending commitment is kept as it was stored until it is completed
\* (validationData and currentId).
THEOREM PendingKept == Spec => PendingUntilCompleted
<1>. DEFINE Kept == \A id \in DOMAIN validationData :
                        IF id \in DOMAIN validationData'
                        THEN validationData'[id] = validationData[id]
                        ELSE latestBeefyBlock' > latestBeefyBlock
<1>1. IInv /\ [Next]_vars => [Kept]_vars
    <2>. SUFFICES ASSUME IInv, Next PROVE Kept
        BY DEF vars
    <2>1. CASE EthereumBlock
        BY <2>1 DEF EthereumBlock
    <2>2. CASE \E r \in Relayer, b \in Block :
                  \E claims \in Claims(b) : \E p \in claims :
                     newSignatureCommitment(r, b, claims, p)
        <3>1. currentId \notin DOMAIN validationData
            BY DEF IInv, TypeOK
        <3>. QED
            BY <2>2, <3>1, Committed
    <2>3. CASE \E r \in Relayer, id \in DOMAIN validationData, b \in Block :
                  \E positions \in [1..requiredNumberOfSignatures(numOfValidators)
                                        -> validationData[id].claims] :
                     completeSignatureCommitment(r, id, b, positions)
        <3>1. PICK id \in DOMAIN validationData, b \in Block :
                  /\ processPayload(b)
                  /\ validationData' =
                        [i \in DOMAIN validationData \ {id} |-> validationData[i]]
            BY <2>3 DEF completeSignatureCommitment
        <3>2. latestBeefyBlock' > latestBeefyBlock
            BY <3>1, RelayChain DEF IInv, TypeOK, processPayload
        <3>. QED
            BY <3>1, <3>2
    <2>. QED
        BY <2>1, <2>2, <2>3 DEF Next
<1>. QED
    BY <1>1, Invariance, PTL DEF Spec, PendingUntilCompleted
=============================================================================
