------------------------ MODULE EthereumLightClient ------------------------
(***************************************************************************)
(* The Ethereum proof-of-work light client that runs on the parachain      *)
(* (parachain/pallets/ethereum-light-client).  It imports Ethereum headers *)
(* one at a time, follows the chain of highest total difficulty, finalizes *)
(* the block DescendantsUntilFinalized below the tip of that chain, prunes *)
(* old headers in bounded portions, and answers whether the block named by *)
(* a message's proof is final.                                             *)
(*                                                                         *)
(* A hash commits to the whole header and, through parent_hash, to its     *)
(* whole branch, so the contents of headers are constant functions on      *)
(* Hash; lineage[h][i] is the i-th ancestor of h (0 is h itself).          *)
(***************************************************************************)
EXTENDS Integers, Sequences, FiniteSets, Functions

CONSTANTS
    Hash,                       \* hashes of the headers relayers may submit
    Genesis,                    \* the initial header of the chain specification
    parent_hash,                \* header field, for every header but Genesis
    number,                     \* header field
    difficulty,                 \* header field
    height,                     \* how far a header is from Genesis
    lineage,                    \* lineage[h][i]: the i-th ancestor of h
    weight,                     \* total difficulty of the branch that ends in h
    SealValid,                  \* headers with sound gas, time, difficulty and seal
    initial_difficulty,         \* total difficulty of the initial header
    DescendantsUntilFinalized,
    VerifyPoW,
    FINALIZED_HEADERS_TO_KEEP,
    HEADERS_TO_PRUNE_IN_SINGLE_IMPORT

\* The Ethereum block tree that grows from the initial header.
ASSUME BlockTree ==
    /\ Genesis \in Hash
    /\ number \in [Hash -> Nat] /\ difficulty \in [Hash -> Nat]
    /\ height \in [Hash -> Nat] /\ height[Genesis] = 0
    /\ \A h \in Hash \ {Genesis} :
          parent_hash[h] \in Hash /\ height[h] = height[parent_hash[h]] + 1
    /\ weight \in [Hash -> Nat] /\ weight[Genesis] = initial_difficulty
    /\ \A h \in Hash \ {Genesis} :
          weight[h] = weight[parent_hash[h]] + difficulty[h]

\* Walking back i parents from h, and then j more, is walking back i + j.
ASSUME Lineage ==
    /\ \A h \in Hash : \A i \in 0..height[h] :
          /\ lineage[h][i] \in Hash
          /\ height[lineage[h][i]] = height[h] - i
          /\ \A j \in 0..(height[h] - i) :
                lineage[lineage[h][i]][j] = lineage[h][i + j]
    /\ \A h \in Hash : lineage[h][0] = h
    /\ \A h \in Hash \ {Genesis} : lineage[h][1] = parent_hash[h]

ASSUME Parameters ==
    /\ initial_difficulty \in Nat
    /\ DescendantsUntilFinalized \in Nat
    /\ VerifyPoW \in BOOLEAN
    /\ SealValid \subseteq Hash
    /\ FINALIZED_HEADERS_TO_KEEP \in Nat
    /\ HEADERS_TO_PRUNE_IN_SINGLE_IMPORT \in Nat \ {0}

VARIABLES
    BestBlock,        \* [hash, difficulty]: tip of the heaviest known chain
    FinalizedBlock,   \* hash of the best finalized block
    BlocksToPrune,    \* [oldest_unpruned_block, oldest_block_to_keep]
    Headers,          \* stored hash -> [total_difficulty, finalized]
    HeadersByNumber   \* block number -> sequence of the hashes stored at it

vars == <<BestBlock, FinalizedBlock, BlocksToPrune, Headers, HeadersByNumber>>

Max2(a, b) == IF a > b THEN a ELSE b

-----------------------------------------------------------------------------
(* Genesis: one header, finalized at once.                                 *)

Init ==
    /\ Headers = [h \in {Genesis} |->
                    [total_difficulty |-> initial_difficulty, finalized |-> TRUE]]
    /\ HeadersByNumber = [n \in {number[Genesis]} |-> <<Genesis>>]
    /\ BestBlock = [hash |-> Genesis, difficulty |-> initial_difficulty]
    /\ FinalizedBlock = Genesis
    /\ BlocksToPrune = [oldest_unpruned_block |-> number[Genesis],
                        oldest_block_to_keep |-> number[Genesis]]

-----------------------------------------------------------------------------
(* Validation.                                                             *)

\* The ancestry iterator over the headers in store, started at h, yields
\* an i-th item: every header on the way is stored.
Yields(store, h, i) ==
    /\ i \in 0..height[h]
    /\ \A j \in 0..i : lineage[h][j] \in store

\* The first ancestor of h (h included) that has the finalized block's number.
AncestorsAtFinalizedNumber(h) ==
    {i \in 0..height[h] :
        /\ Yields(DOMAIN Headers, h, i)
        /\ number[lineage[h][i]] = number[FinalizedBlock]
        /\ \A j \in 0..(i - 1) : number[lineage[h][j]] # number[FinalizedBlock]}

\* Mutant: the comparison with the finalized hash is forgotten.
ValidateSkipsStaleFork(h) ==
    IF h \in DOMAIN Headers THEN "DuplicateHeader"
    ELSE IF h = Genesis \/ parent_hash[h] \notin DOMAIN Headers
         THEN "MissingParentHeader"
    ELSE IF number[h] <= number[FinalizedBlock] THEN "AncientHeader"
    ELSE IF AncestorsAtFinalizedNumber(parent_hash[h]) = {} THEN "Unknown"
    ELSE IF VerifyPoW /\ ~(number[h] = number[parent_hash[h]] + 1 /\ h \in SealValid)
         THEN "InvalidHeader"
    ELSE "Ok"

\* The result of validating h, in the order of the code's early returns.
validate_header_to_import(h) ==
    IF h \in DOMAIN Headers THEN "DuplicateHeader"
    ELSE IF h = Genesis \/ parent_hash[h] \notin DOMAIN Headers
         THEN "MissingParentHeader"
    ELSE IF number[h] <= number[FinalizedBlock] THEN "AncientHeader"
    ELSE LET found == AncestorsAtFinalizedNumber(parent_hash[h])
         IN  IF found = {} THEN "Unknown"
             ELSE IF \E i \in found : lineage[parent_hash[h]][i] # FinalizedBlock
                  THEN "HeaderOnStaleFork"
             ELSE IF VerifyPoW /\ ~( /\ number[h] = number[parent_hash[h]] + 1
                                     /\ h \in SealValid )
                  THEN "InvalidHeader"
             ELSE "Ok"

-----------------------------------------------------------------------------
(* Import of a validated header.                                           *)

total_difficulty(h) == Headers[parent_hash[h]].total_difficulty + difficulty[h]

\* Headers and HeadersByNumber once h is stored.
WithHeader(h) ==
    [x \in DOMAIN Headers \cup {h} |->
        IF x = h THEN [total_difficulty |-> total_difficulty(h), finalized |-> FALSE]
        ELSE Headers[x]]

HashesAt(n) == IF n \in DOMAIN HeadersByNumber THEN HeadersByNumber[n] ELSE <<>>

\* Mutant: a second header at a number replaces the first one in the index.
WithHashOverwrites(h) ==
    [n \in DOMAIN HeadersByNumber \cup {number[h]} |->
        IF n = number[h] THEN <<h>> ELSE HeadersByNumber[n]]

WithHash(h) ==
    [n \in DOMAIN HeadersByNumber \cup {number[h]} |->
        IF n = number[h] THEN Append(HashesAt(n), h) ELSE HeadersByNumber[n]]

\* Mutant: the longest chain is followed rather than the heaviest.
IsNewBestByNumber(h) == number[h] > number[BestBlock.hash]

IsNewBest(h) ==
    \/ total_difficulty(h) > BestBlock.difficulty
    \/ ~VerifyPoW /\ total_difficulty(h) = 0

\* The ancestor DescendantsUntilFinalized below best, if the store holds it.
MayFinalize(store, best) == Yields(store, best, DescendantsUntilFinalized)

\* Mutant: the ancestors are counted from one.
CandidateOffByOne(best) == lineage[best][DescendantsUntilFinalized - 1]

Candidate(best) == lineage[best][DescendantsUntilFinalized]

\* get_best_finalized_header gives up: best has left the finalized chain behind.
FinalityUnknown(store, best) ==
    /\ MayFinalize(store, best)
    /\ number[Candidate(best)] <= number[FinalizedBlock]
    /\ Candidate(best) # FinalizedBlock

\* Mutant: the next block is not younger enough.
FinalizedHeaderSkips(store, best) ==
    IF /\ MayFinalize(store, best)
       /\ number[Candidate(best)] > number[FinalizedBlock] + 1
    THEN Candidate(best) ELSE FinalizedBlock

get_best_finalized_header(store, best) ==
    IF /\ MayFinalize(store, best)
       /\ number[Candidate(best)] > number[FinalizedBlock]
    THEN Candidate(best) ELSE FinalizedBlock

\* Pruning walks the numbers from range.oldest_unpruned_block upwards and takes
\* the hashes at each in order, until the numbers or the budget run out.
PrunedBefore(index, first, n) ==
    Cardinality(UNION {Range(index[m]) : m \in {k \in DOMAIN index : first <= k /\ k < n}})

Budget == HEADERS_TO_PRUNE_IN_SINGLE_IMPORT

\* Mutant: the budget is looked at between numbers only.
PrunedWholeNumbers(index, range, n) ==
    IF \/ n < range.oldest_unpruned_block
       \/ n >= range.oldest_block_to_keep
       \/ PrunedBefore(index, range.oldest_unpruned_block, n) >= Budget
    THEN 0 ELSE Len(index[n])

\* How many of the hashes at number n one pruning pass removes.
Pruned(index, range, n) ==
    LET before == PrunedBefore(index, range.oldest_unpruned_block, n)
        len == Len(index[n])
    IN  IF \/ n < range.oldest_unpruned_block
           \/ n >= range.oldest_block_to_keep
           \/ before >= Budget
        THEN 0
        ELSE IF before + len <= Budget THEN len ELSE Budget - before

\* Mutant: a number counts as pruned although some of its hashes remain.
SweptPartly(index, range, n) ==
    PrunedBefore(index, range.oldest_unpruned_block, n) < Budget

\* The pass got as far as number n and left nothing there.
Swept(index, range, n) ==
    /\ PrunedBefore(index, range.oldest_unpruned_block, n) < Budget
    /\ n \in DOMAIN index => Pruned(index, range, n) = Len(index[n])

\* Mutant: the end of the range is neither saturated nor kept from shrinking.
RangeFollowsFinalized(finalized) ==
    [BlocksToPrune EXCEPT !.oldest_block_to_keep =
        number[finalized] - FINALIZED_HEADERS_TO_KEEP]

WidenedRange(finalized) ==
    [BlocksToPrune EXCEPT !.oldest_block_to_keep =
        Max2(@, number[finalized] - FINALIZED_HEADERS_TO_KEEP)]

\* prune_header_range: the storage and the range it leaves behind.
prune_header_range(store, index, range) ==
    /\ HeadersByNumber' =
          [n \in {m \in DOMAIN index : Pruned(index, range, m) < Len(index[m])} |->
              SubSeq(index[n], Pruned(index, range, n) + 1, Len(index[n]))]
    /\ Headers' =
          [h \in {x \in DOMAIN store :
                    ~ \E n \in DOMAIN index : \E i \in 1..Pruned(index, range, n) :
                         index[n][i] = x} |-> store[h]]
    /\ \E n \in range.oldest_unpruned_block..Max2(range.oldest_unpruned_block,
                                                  range.oldest_block_to_keep) :
          /\ \A m \in range.oldest_unpruned_block..(n - 1) : Swept(index, range, m)
          /\ n < range.oldest_block_to_keep => ~Swept(index, range, n)
          /\ BlocksToPrune' = [range EXCEPT !.oldest_unpruned_block = n]

\* import_header of a header that is not heavier than the best block: a fork.
ImportForkHeader(h) ==
    /\ validate_header_to_import(h) = "Ok"
    /\ ~IsNewBest(h)
    /\ Headers' = WithHeader(h)
    /\ HeadersByNumber' = WithHash(h)
    /\ UNCHANGED <<BestBlock, FinalizedBlock, BlocksToPrune>>

\* import_header of a new best block: finalize what it buries, then prune.
ImportBestHeader(h) ==
    /\ validate_header_to_import(h) = "Ok"
    /\ IsNewBest(h)
    /\ LET store == WithHeader(h)
           new_finalized == get_best_finalized_header(DOMAIN store, h)
       IN  /\ ~FinalityUnknown(DOMAIN store, h)
           /\ FinalizedBlock' = new_finalized
           /\ prune_header_range([store EXCEPT ![new_finalized].finalized = TRUE],
                                 WithHash(h), WidenedRange(new_finalized))
    /\ BestBlock' = [hash |-> h, difficulty |-> total_difficulty(h)]

\* import_header fails with Unknown after it has stored the header and the new
\* best block; the dispatchable is not transactional, so they stay.
ImportBestHeaderFails(h) ==
    /\ validate_header_to_import(h) = "Ok"
    /\ IsNewBest(h)
    /\ FinalityUnknown(DOMAIN WithHeader(h), h)
    /\ Headers' = WithHeader(h)
    /\ HeadersByNumber' = WithHash(h)
    /\ BestBlock' = [hash |-> h, difficulty |-> total_difficulty(h)]
    /\ UNCHANGED <<FinalizedBlock, BlocksToPrune>>

Next ==
    \E h \in Hash :
        \/ ImportForkHeader(h)
        \/ ImportBestHeader(h)
        \/ ImportBestHeaderFails(h)

Spec == Init /\ [][Next]_vars

-----------------------------------------------------------------------------
(* What the inbound channels ask.                                          *)

\* The result of verify for a message whose (sound) proof names block h.
verify(h) ==
    IF h \notin DOMAIN Headers THEN "MissingHeader"
    ELSE IF ~Headers[h].finalized THEN "HeaderNotFinalized"
    ELSE "Ok"

-----------------------------------------------------------------------------
(* Properties.                                                             *)

\* The branch of h, h included.
Line(h) == {lineage[h][i] : i \in 0..height[h]}

\* Every stored record has the shape that decl_storage! gives it.
TypeOK ==
    /\ BestBlock \in [hash : Hash, difficulty : Nat]
    /\ FinalizedBlock \in Hash
    /\ BlocksToPrune \in [oldest_unpruned_block : Nat, oldest_block_to_keep : Nat]
    /\ DOMAIN Headers \subseteq Hash
    /\ Headers \in [DOMAIN Headers -> [total_difficulty : Nat, finalized : BOOLEAN]]
    /\ DOMAIN HeadersByNumber \subseteq Nat
    /\ HeadersByNumber \in [DOMAIN HeadersByNumber -> Seq(Hash)]

\* Blocks whose messages verify() accepts never lie on two competing forks,
\* in whatever order headers of all forks were imported and pruned.
OneFinalizedChain ==
    \A a, b \in DOMAIN Headers :
        verify(a) = "Ok" /\ verify(b) = "Ok" => a \in Line(b) \/ b \in Line(a)

\* import_validated_header keeps BestBlock the heaviest stored header, and on
\* the branch of the finalized block, also when it returns an error half way.
BestExtendsFinalized ==
    /\ BestBlock.hash \in DOMAIN Headers
    /\ BestBlock.difficulty = Headers[BestBlock.hash].total_difficulty
    /\ \A h \in DOMAIN Headers : Headers[h].total_difficulty <= BestBlock.difficulty
    /\ FinalizedBlock \in Line(BestBlock.hash)

\* HeadersByNumber and Headers describe the same headers, each hash listed
\* once and under its own number: what pruning follows is what is stored.
IndexExact ==
    /\ \A h \in DOMAIN Headers :
          /\ number[h] \in DOMAIN HeadersByNumber
          /\ h \in Range(HeadersByNumber[number[h]])
    /\ \A n \in DOMAIN HeadersByNumber :
          /\ HeadersByNumber[n] # <<>>
          /\ \A h \in Range(HeadersByNumber[n]) : h \in DOMAIN Headers /\ number[h] = n
          /\ IsInjective(HeadersByNumber[n])

\* prune_header_range leaves no header behind below oldest_unpruned_block, and
\* never cuts the branch of a stored header above oldest_block_to_keep: a walk
\* from any tip back to the finalized block meets no gap.
PruningSound ==
    /\ BlocksToPrune.oldest_unpruned_block <= BlocksToPrune.oldest_block_to_keep
    /\ BlocksToPrune.oldest_block_to_keep <= number[FinalizedBlock]
    /\ \A h \in DOMAIN Headers :
          /\ number[h] >= BlocksToPrune.oldest_unpruned_block
          /\ \A i \in 0..height[h] :
                number[h] - i >= BlocksToPrune.oldest_block_to_keep
                    => lineage[h][i] \in DOMAIN Headers

\* A step may move FinalizedBlock only to one of its own descendants.
FinalityNeverReverts ==
    [][FinalizedBlock' # FinalizedBlock =>
          /\ FinalizedBlock \in Line(FinalizedBlock')
          /\ FinalizedBlock' \in DOMAIN Headers']_vars

\* One import removes at most HEADERS_TO_PRUNE_IN_SINGLE_IMPORT headers, and
\* only headers more than FINALIZED_HEADERS_TO_KEEP below the finalized block.
PruneWithinBudget ==
    [][/\ Cardinality(DOMAIN Headers \ DOMAIN Headers') <= HEADERS_TO_PRUNE_IN_SINGLE_IMPORT
       /\ \A h \in DOMAIN Headers \ DOMAIN Headers' :
             number[h] + FINALIZED_HEADERS_TO_KEEP < number[FinalizedBlock']]_vars

\* Of two forks that leave a block, one of which is at most
\* DescendantsUntilFinalized blocks long, the longer one is the heavier.
\* calc_difficulty makes it so for a handful of blocks, since it moves the
\* difficulty by at most 99/2048 from one block to the next.
LongerForkHeavier ==
    \A p, a, b \in Hash :
        /\ p \in Line(a) /\ p \in Line(b)
        /\ height[a] - height[p] <= DescendantsUntilFinalized
        /\ height[b] > height[a]
        => weight[b] > weight[a]

\* No import fails half way: a validated header that becomes the best block
\* never leaves get_best_finalized_header without an answer after the header
\* and the best block have been written.
NeverHalfImported ==
    \A h \in Hash :
        validate_header_to_import(h) = "Ok" /\ IsNewBest(h)
            => ~FinalityUnknown(DOMAIN WithHeader(h), h)

\* The finalized block lies exactly DescendantsUntilFinalized below the tip of
\* the heaviest chain, as soon as the chain is that long.
FinalizedIsBuried ==
    LET above == height[BestBlock.hash] - height[FinalizedBlock]
    IN  /\ above <= DescendantsUntilFinalized
        /\ FinalizedBlock # Genesis => above = DescendantsUntilFinalized

\* Every stored block of the finalized chain can be used in a proof: none was
\* stepped over when FinalizedBlock advanced, so no message is undeliverable.
FinalizedChainVerifiable ==
    \A h \in Line(FinalizedBlock) : h \in DOMAIN Headers => verify(h) = "Ok"
-----------------------------------------------------------------------------
(* The inductive invariants behind these properties.                       *)

\* Every stored header carries its parent's number plus one, down to the
\* initial header, and the total difficulty of its branch.
Accounted ==
    \A h \in DOMAIN Headers :
        /\ number[h] = number[Genesis] + height[h]
        /\ Headers[h].total_difficulty = weight[h]

\* Only the finalized block and its ancestors are marked finalized.
MarkedFinalized ==
    /\ FinalizedBlock \in DOMAIN Headers
    /\ Headers[FinalizedBlock].finalized
    /\ \A h \in DOMAIN Headers : Headers[h].finalized => h \in Line(FinalizedBlock)

\* Inductive when proof of work is verified.
IInv ==
    /\ TypeOK
    /\ IsFiniteSet(DOMAIN Headers)
    /\ Accounted
    /\ MarkedFinalized
    /\ BestExtendsFinalized
    /\ IndexExact
    /\ PruningSound

\* Inductive when also the longer of two short forks is the heavier.
BuriedInv == IInv /\ FinalizedIsBuried /\ FinalizedChainVerifiable
=============================================================================
