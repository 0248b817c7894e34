--------------------- MODULE EthereumLightClient_proofs ---------------------
(***************************************************************************)
(* Proofs about the Ethereum light client, for every block tree, every     *)
(* number of descendants until finality and every pruning budget, when     *)
(* proof of work is verified (as it is outside development networks).      *)
(***************************************************************************)
EXTENDS EthereumLightClient, TLAPS, FiniteSetTheorems

-----------------------------------------------------------------------------
(* Branches of the block tree.                                             *)

\* The numeric fields of headers are natural numbers.
LEMMA TreeTypes ==
    ASSUME NEW h \in Hash
    PROVE  number[h] \in Nat /\ height[h] \in Nat /\ weight[h] \in Nat
BY BlockTree

\* A header is on its own branch, and branches are made of headers.
LEMMA LineIn ==
    ASSUME NEW h \in Hash
    PROVE  h \in Line(h) /\ Line(h) \subseteq Hash
BY BlockTree, Lineage DEF Line

\* Ancestors are not higher than their descendants, and only a header itself
\* is as high as it is.
LEMMA LineHeight ==
    ASSUME NEW a \in Hash, NEW b \in Hash, a \in Line(b)
    PROVE  /\ height[a] <= height[b]
           /\ height[a] = height[b] => a = b
<1>1. PICK i \in 0..height[b] : a = lineage[b][i]
  BY DEF Line
<1>2. height[a] = height[b] - i
  BY <1>1, Lineage
<1>3. height[b] \in Nat /\ lineage[b][0] = b
  BY BlockTree, Lineage
<1>4. height[a] = height[b] => i = 0
  BY <1>2, <1>3
<1>. QED
  BY <1>1, <1>2, <1>3, <1>4

\* Being an ancestor is transitive.
LEMMA LineTrans ==
    ASSUME NEW a \in Hash, NEW b \in Hash, NEW c \in Hash,
           a \in Line(b), b \in Line(c)
    PROVE  a \in Line(c)
<1>1. PICK i \in 0..height[b] : a = lineage[b][i]
  BY DEF Line
<1>2. PICK j \in 0..height[c] : b = lineage[c][j]
  BY DEF Line
<1>3. height[b] = height[c] - j /\ i \in 0..(height[c] - j)
  BY <1>2, Lineage, BlockTree
<1>4. a = lineage[c][j + i]
  BY <1>1, <1>2, <1>3, Lineage
<1>5. j + i \in 0..height[c]
  BY <1>2, <1>3, BlockTree
<1>. QED
  BY <1>4, <1>5 DEF Line

\* Two ancestors of a header lie on one branch.
LEMMA LineOrder ==
    ASSUME NEW a \in Hash, NEW b \in Hash, NEW c \in Hash,
           a \in Line(c), b \in Line(c), height[b] <= height[a]
    PROVE  b \in Line(a)
<1>1. PICK i \in 0..height[c] : a = lineage[c][i]
  BY DEF Line
<1>2. PICK j \in 0..height[c] : b = lineage[c][j]
  BY DEF Line
<1>3. height[a] = height[c] - i /\ height[b] = height[c] - j
  BY <1>1, <1>2, Lineage
<1>4. j - i \in 0..height[a] /\ j - i \in 0..(height[c] - i)
  BY <1>1, <1>2, <1>3, BlockTree
<1>5. lineage[a][j - i] = lineage[c][i + (j - i)]
  BY <1>1, <1>4, Lineage
<1>6. lineage[a][j - i] = b
  BY <1>1, <1>2, <1>5
<1>. QED
  BY <1>4, <1>6 DEF Line

\* The branch of a header is the header and the branch of its parent.
LEMMA LineParent ==
    ASSUME NEW h \in Hash, h # Genesis
    PROVE  /\ parent_hash[h] \in Hash
           /\ height[h] = height[parent_hash[h]] + 1
           /\ \A i \in 0..height[parent_hash[h]] :
                 i + 1 \in 0..height[h] /\ lineage[h][i + 1] = lineage[parent_hash[h]][i]
           /\ \A a \in Line(parent_hash[h]) : a \in Line(h)
           /\ \A a \in Line(h) : a = h \/ a \in Line(parent_hash[h])
<1>. DEFINE p == parent_hash[h]
<1>1. p \in Hash /\ height[h] = height[p] + 1 /\ height[p] \in Nat
  BY BlockTree
<1>2. lineage[h][1] = p /\ lineage[h][0] = h
  BY Lineage
<1>3. ASSUME NEW i \in 0..height[p]
      PROVE  i + 1 \in 0..height[h] /\ lineage[h][i + 1] = lineage[p][i]
  <2>1. 1 \in 0..height[h] /\ i \in 0..(height[h] - 1) /\ i + 1 \in 0..height[h]
    BY <1>1
  <2>2. lineage[lineage[h][1]][i] = lineage[h][1 + i]
    BY <2>1, Lineage
  <2>. QED
    BY <1>2, <2>1, <2>2
<1>4. \A a \in Line(p) : a \in Line(h)
  BY <1>3 DEF Line
<1>5. ASSUME NEW a \in Line(h) PROVE a = h \/ a \in Line(p)
  <2>1. PICK i \in 0..height[h] : a = lineage[h][i]
    BY DEF Line
  <2>2. CASE i = 0
    BY <1>2, <2>1, <2>2
  <2>3. CASE i # 0
    <3>1. i - 1 \in 0..height[p]
      BY <1>1, <2>1, <2>3
    <3>2. lineage[h][(i - 1) + 1] = lineage[p][i - 1]
      BY <1>3, <3>1
    <3>. QED
      BY <2>1, <3>1, <3>2 DEF Line
  <2>. QED
    BY <2>2, <2>3
<1>. QED
  BY <1>1, <1>3, <1>4, <1>5
-----------------------------------------------------------------------------
(* Storing a validated header.                                             *)

\* An index by number lists exactly the headers of a store.
Consistent(store, index) ==
    /\ DOMAIN index \subseteq Nat
    /\ index \in [DOMAIN index -> Seq(Hash)]
    /\ \A x \in store : number[x] \in DOMAIN index /\ x \in Range(index[number[x]])
    /\ \A n \in DOMAIN index :
          /\ index[n] # <<>>
          /\ \A x \in Range(index[n]) : x \in store /\ number[x] = n
          /\ IsInjective(index[n])

\* A store holds the ancestors of its headers down to number keep.
Closed(store, keep) ==
    \A x \in store : \A i \in 0..height[x] :
        number[x] - i >= keep => lineage[x][i] \in store

\* validate_header_to_import accepts only new headers whose parent is stored,
\* that extend the finalized block and are numbered by their height.
LEMMA Validated ==
    ASSUME VerifyPoW, TypeOK, Accounted,
           NEW h \in Hash, validate_header_to_import(h) = "Ok"
    PROVE  /\ h # Genesis /\ h \notin DOMAIN Headers
           /\ parent_hash[h] \in DOMAIN Headers
           /\ number[h] > number[FinalizedBlock]
           /\ number[h] = number[Genesis] + height[h]
           /\ number[h] = number[parent_hash[h]] + 1
           /\ FinalizedBlock \in Line(parent_hash[h])
           /\ FinalizedBlock \in Line(h)
           /\ total_difficulty(h) = weight[h]
           /\ total_difficulty(h) \in Nat
<1>. DEFINE p == parent_hash[h]
<1>1. /\ h # Genesis /\ h \notin DOMAIN Headers /\ p \in DOMAIN Headers
      /\ ~(number[h] <= number[FinalizedBlock])
      /\ number[h] = number[p] + 1
      /\ \E i \in AncestorsAtFinalizedNumber(p) : lineage[p][i] = FinalizedBlock
  BY DEF validate_header_to_import
<1>2. p \in Hash /\ height[h] = height[p] + 1
  BY <1>1, LineParent
<1>3. number[h] > number[FinalizedBlock]
  <2>1. FinalizedBlock \in Hash
    BY DEF TypeOK
  <2>. QED
    BY <1>1, <2>1, TreeTypes
<1>4. number[h] = number[Genesis] + height[h]
  BY <1>1, <1>2, BlockTree DEF Accounted
<1>5. FinalizedBlock \in Line(p)
  BY <1>1 DEF AncestorsAtFinalizedNumber, Line
<1>6. FinalizedBlock \in Line(h)
  BY <1>1, <1>5, LineParent
<1>7. total_difficulty(h) = weight[h] /\ weight[h] \in Nat
  BY <1>1, BlockTree DEF total_difficulty, Accounted
<1>. QED
  BY <1>1, <1>3, <1>4, <1>5, <1>6, <1>7

\* What the store and the index are once a validated header is in.
LEMMA Stored ==
    ASSUME VerifyPoW, IInv, NEW h \in Hash, validate_header_to_import(h) = "Ok"
    PROVE  /\ DOMAIN WithHeader(h) = DOMAIN Headers \cup {h}
           /\ WithHeader(h) \in [DOMAIN WithHeader(h) ->
                                   [total_difficulty : Nat, finalized : BOOLEAN]]
           /\ WithHeader(h)[h] = [total_difficulty |-> weight[h], finalized |-> FALSE]
           /\ \A x \in DOMAIN Headers : WithHeader(h)[x] = Headers[x]
           /\ IsFiniteSet(DOMAIN WithHeader(h))
           /\ Closed(DOMAIN WithHeader(h), BlocksToPrune.oldest_block_to_keep)
           /\ Consistent(DOMAIN WithHeader(h), WithHash(h))
           /\ DOMAIN WithHeader(h) \subseteq Hash
           /\ \A x \in DOMAIN WithHeader(h) :
                 /\ number[x] = number[Genesis] + height[x]
                 /\ number[x] >= BlocksToPrune.oldest_unpruned_block
                 /\ WithHeader(h)[x].total_difficulty = weight[x]
<1>. DEFINE p == parent_hash[h]
            S == WithHeader(h)
            X == WithHash(h)
<1>1. /\ h # Genesis /\ h \notin DOMAIN Headers /\ p \in DOMAIN Headers
      /\ number[h] > number[FinalizedBlock]
      /\ number[h] = number[Genesis] + height[h]
      /\ number[h] = number[p] + 1
      /\ total_difficulty(h) = weight[h] /\ total_difficulty(h) \in Nat
  BY Validated DEF IInv
<1>2. DOMAIN S = DOMAIN Headers \cup {h}
  BY DEF WithHeader
<1>3. /\ S[h] = [total_difficulty |-> weight[h], finalized |-> FALSE]
      /\ \A x \in DOMAIN Headers : S[x] = Headers[x]
  BY <1>1 DEF WithHeader
<1>4. S \in [DOMAIN S -> [total_difficulty : Nat, finalized : BOOLEAN]]
  BY <1>1 DEF WithHeader, IInv, TypeOK
<1>5. IsFiniteSet(DOMAIN S)
  BY <1>2, FS_AddElement DEF IInv
<1>6. ASSUME NEW x \in DOMAIN S
      PROVE  /\ x \in Hash
             /\ number[x] = number[Genesis] + height[x]
             /\ number[x] >= BlocksToPrune.oldest_unpruned_block
             /\ S[x].total_difficulty = weight[x]
  <2>1. CASE x = h
    <3>1. /\ FinalizedBlock \in Hash
          /\ BlocksToPrune.oldest_unpruned_block \in Nat
          /\ BlocksToPrune.oldest_block_to_keep \in Nat
      BY DEF IInv, TypeOK
    <3>2. number[h] \in Nat /\ number[FinalizedBlock] \in Nat
      BY <3>1, TreeTypes
    <3>3. number[h] >= BlocksToPrune.oldest_unpruned_block
      BY <1>1, <3>1, <3>2 DEF IInv, PruningSound
    <3>. QED
      BY <1>1, <1>3, <2>1, <3>3
  <2>2. CASE x \in DOMAIN Headers
    BY <1>3, <2>2 DEF IInv, TypeOK, Accounted, PruningSound
  <2>. QED
    BY <1>2, <2>1, <2>2
<1>7. ASSUME NEW x \in DOMAIN S, NEW i \in 0..height[x],
             number[x] - i >= BlocksToPrune.oldest_block_to_keep
      PROVE  lineage[x][i] \in DOMAIN S
  <2>1. CASE x \in DOMAIN Headers
    BY <1>2, <1>7, <2>1 DEF IInv, PruningSound
  <2>2. CASE x = h /\ i = 0
    BY <2>2, <1>2, Lineage
  <2>3. CASE x = h /\ i # 0
    <3>1. height[h] = height[p] + 1 /\ p \in Hash /\ height[p] \in Nat
      BY <1>1, LineParent, BlockTree
    <3>2. i - 1 \in 0..height[p]
      BY <2>3, <3>1
    <3>3. lineage[h][(i - 1) + 1] = lineage[p][i - 1]
      BY <1>1, <3>2, LineParent
    <3>4. number[p] - (i - 1) >= BlocksToPrune.oldest_block_to_keep
      BY <1>1, <1>7, <2>3, <3>1, BlockTree
    <3>5. lineage[p][i - 1] \in DOMAIN Headers
      BY <1>1, <3>2, <3>4 DEF IInv, PruningSound
    <3>. QED
      BY <1>2, <2>3, <3>3, <3>5
  <2>. QED
    BY <1>2, <2>1, <2>2, <2>3
<1>8. Consistent(DOMAIN S, X)
  <2>1. DOMAIN X = DOMAIN HeadersByNumber \cup {number[h]} /\ number[h] \in Nat
    BY BlockTree DEF WithHash
  <2>2. /\ X[number[h]] = Append(HashesAt(number[h]), h)
        /\ \A n \in DOMAIN HeadersByNumber : n # number[h] => X[n] = HeadersByNumber[n]
    BY DEF WithHash
  <2>3. HashesAt(number[h]) \in Seq(Hash)
    BY DEF HashesAt, IInv, TypeOK
  <2>4. /\ IsInjective(HashesAt(number[h]))
        /\ \A x \in Range(HashesAt(number[h])) :
              x \in DOMAIN Headers /\ number[x] = number[h]
    BY DEF HashesAt, IInv, IndexExact, IsInjective, Range
  <2>5. /\ X[number[h]] \in Seq(Hash) /\ X[number[h]] # <<>>
        /\ Range(X[number[h]]) = Range(HashesAt(number[h])) \cup {h}
    BY <2>2, <2>3 DEF Range
  <2>6. IsInjective(X[number[h]])
    <3>. DEFINE s == HashesAt(number[h])
    <3>1. s \in Seq(Hash) /\ IsInjective(s) /\ h \notin Range(s)
      BY <1>1, <2>3, <2>4
    <3>. HIDE DEF s
    <3>2. \A i \in 1..Len(s) : s[i] # h
      BY <3>1 DEF Range
    <3>3. IsInjective(Append(s, h))
      BY <3>1, <3>2 DEF IsInjective
    <3>. QED
      BY <2>2, <3>3 DEF s
  <2>7. \A x \in DOMAIN S : number[x] \in DOMAIN X /\ x \in Range(X[number[x]])
    BY <1>2, <2>1, <2>2, <2>5 DEF IInv, IndexExact, HashesAt
  <2>8. ASSUME NEW n \in DOMAIN X
        PROVE  /\ X[n] # <<>> /\ X[n] \in Seq(Hash)
               /\ \A x \in Range(X[n]) : x \in DOMAIN S /\ number[x] = n
               /\ IsInjective(X[n])
    BY <1>2, <2>1, <2>2, <2>4, <2>5, <2>6 DEF IInv, IndexExact, TypeOK
  <2>9. X \in [DOMAIN X -> Seq(Hash)]
    BY <2>8 DEF WithHash
  <2>. QED
    BY <2>1, <2>7, <2>8, <2>9 DEF Consistent, IInv, TypeOK
<1>. QED
  BY <1>2, <1>3, <1>4, <1>5, <1>6, <1>7, <1>8 DEF Closed
-----------------------------------------------------------------------------
(* Finalizing and pruning.                                                 *)

\* get_best_finalized_header returns the finalized block or a stored
\* descendant of it, on the branch of the new best block.
LEMMA NewFinalized ==
    ASSUME VerifyPoW, IInv, NEW h \in Hash, validate_header_to_import(h) = "Ok",
           NEW f, f = get_best_finalized_header(DOMAIN WithHeader(h), h)
    PROVE  /\ f \in DOMAIN WithHeader(h) /\ f \in Hash
           /\ f \in Line(h) /\ FinalizedBlock \in Line(f)
           /\ number[FinalizedBlock] <= number[f]
<1>1. /\ FinalizedBlock \in Hash /\ FinalizedBlock \in DOMAIN Headers
      /\ number[FinalizedBlock] = number[Genesis] + height[FinalizedBlock]
  BY DEF IInv, TypeOK, MarkedFinalized, Accounted
<1>2. FinalizedBlock \in Line(h)
  BY Validated DEF IInv
<1>3. /\ DOMAIN WithHeader(h) = DOMAIN Headers \cup {h}
      /\ DOMAIN WithHeader(h) \subseteq Hash
      /\ \A x \in DOMAIN WithHeader(h) : number[x] = number[Genesis] + height[x]
  BY Stored
<1>4. CASE /\ MayFinalize(DOMAIN WithHeader(h), h)
           /\ number[Candidate(h)] > number[FinalizedBlock]
  <2>1. f = Candidate(h)
    BY <1>4 DEF get_best_finalized_header
  <2>2. f \in DOMAIN WithHeader(h) /\ f \in Line(h)
    BY <1>4, <2>1 DEF MayFinalize, Yields, Candidate, Line
  <2>3. f \in Hash /\ number[f] = number[Genesis] + height[f]
    BY <1>3, <2>2
  <2>4. number[f] \in Nat /\ number[FinalizedBlock] \in Nat /\ number[Genesis] \in Nat
        /\ height[f] \in Nat /\ height[FinalizedBlock] \in Nat
    BY <1>1, <2>3, TreeTypes, BlockTree
  <2>5. height[FinalizedBlock] <= height[f] /\ number[FinalizedBlock] <= number[f]
    BY <1>1, <1>4, <2>1, <2>3, <2>4
  <2>6. FinalizedBlock \in Line(f)
    BY <1>1, <1>2, <2>2, <2>3, <2>5, LineOrder
  <2>. QED
    BY <2>2, <2>3, <2>5, <2>6
<1>5. CASE ~(/\ MayFinalize(DOMAIN WithHeader(h), h)
             /\ number[Candidate(h)] > number[FinalizedBlock])
  <2>1. f = FinalizedBlock
    BY <1>5 DEF get_best_finalized_header
  <2>2. number[f] <= number[f]
    BY <1>1, <2>1, TreeTypes
  <2>. QED
    BY <1>1, <1>2, <1>3, <2>1, <2>2, LineIn
<1>. QED
  BY <1>4, <1>5

\* A pruning pass takes a prefix of the hashes at each number, and nothing at
\* the numbers it keeps.
LEMMA PrunedBounds ==
    ASSUME NEW store, NEW index, IsFiniteSet(store), Consistent(store, index),
           NEW range \in [oldest_unpruned_block : Nat, oldest_block_to_keep : Nat],
           NEW n \in DOMAIN index
    PROVE  /\ Pruned(index, range, n) \in 0..Len(index[n])
           /\ n >= range.oldest_block_to_keep => Pruned(index, range, n) = 0
<1>. DEFINE first == range.oldest_unpruned_block
            gone == UNION {Range(index[m]) : m \in {k \in DOMAIN index : first <= k /\ k < n}}
<1>1. gone \in SUBSET store
  BY DEF Consistent
<1>2. Cardinality(gone) \in Nat
  BY <1>1, FS_Subset, FS_CardinalityType
<1>3. PrunedBefore(index, first, n) \in Nat
  BY <1>2 DEF PrunedBefore
<1>4. Len(index[n]) \in Nat
  BY DEF Consistent
<1>5. Budget \in Nat
  BY Parameters DEF Budget
<1>. QED
  BY <1>3, <1>4, <1>5 DEF Pruned
\* The pruning range that goes with a finalized block stays below it.
LEMMA RangeBounds ==
    ASSUME IInv, NEW f \in Hash, number[FinalizedBlock] <= number[f]
    PROVE  LET range == WidenedRange(f)
           IN  /\ range \in [oldest_unpruned_block : Nat, oldest_block_to_keep : Nat]
               /\ range.oldest_unpruned_block = BlocksToPrune.oldest_unpruned_block
               /\ BlocksToPrune.oldest_block_to_keep <= range.oldest_block_to_keep
               /\ range.oldest_unpruned_block <= range.oldest_block_to_keep
               /\ range.oldest_block_to_keep <= number[f]
<1>1. /\ BlocksToPrune \in [oldest_unpruned_block : Nat, oldest_block_to_keep : Nat]
      /\ BlocksToPrune.oldest_unpruned_block <= BlocksToPrune.oldest_block_to_keep
      /\ BlocksToPrune.oldest_block_to_keep <= number[FinalizedBlock]
      /\ FinalizedBlock \in Hash
  BY DEF IInv, TypeOK, PruningSound
<1>2. number[f] \in Nat /\ number[FinalizedBlock] \in Nat
      /\ FINALIZED_HEADERS_TO_KEEP \in Nat
  BY <1>1, TreeTypes, Parameters
<1>. QED
  BY <1>1, <1>2 DEF WidenedRange, Max2

\* What importing a new best block leaves behind once old headers are pruned.
LEMMA Imported ==
    ASSUME VerifyPoW, IInv, NEW h \in Hash, ImportBestHeader(h),
           NEW f, f = get_best_finalized_header(DOMAIN WithHeader(h), h)
    PROVE  /\ DOMAIN Headers' \subseteq DOMAIN WithHeader(h)
           /\ Headers' \in [DOMAIN Headers' -> [total_difficulty : Nat, finalized : BOOLEAN]]
           /\ \A x \in DOMAIN Headers' :
                 /\ Headers'[x].total_difficulty = WithHeader(h)[x].total_difficulty
                 /\ Headers'[x].finalized = (x = f \/ WithHeader(h)[x].finalized)
           /\ \A x \in DOMAIN WithHeader(h) :
                 number[x] >= BlocksToPrune'.oldest_block_to_keep => x \in DOMAIN Headers'
           /\ Consistent(DOMAIN Headers', HeadersByNumber')
           /\ BlocksToPrune' \in [oldest_unpruned_block : Nat, oldest_block_to_keep : Nat]
           /\ BlocksToPrune.oldest_block_to_keep <= BlocksToPrune'.oldest_block_to_keep
           /\ BlocksToPrune'.oldest_unpruned_block <= BlocksToPrune'.oldest_block_to_keep
           /\ BlocksToPrune'.oldest_block_to_keep <= number[f]
           /\ \A x \in DOMAIN Headers' : number[x] >= BlocksToPrune'.oldest_unpruned_block
<1>. DEFINE store == [WithHeader(h) EXCEPT ![f].finalized = TRUE]
            index == WithHash(h)
            range == WidenedRange(f)
            R == [total_difficulty : Nat, finalized : BOOLEAN]
            Gone(x) == \E n \in DOMAIN index : \E i \in 1..Pruned(index, range, n) :
                          index[n][i] = x
<1>1. validate_header_to_import(h) = "Ok" /\ prune_header_range(store, index, range)
  BY DEF ImportBestHeader
<1>2. /\ f \in DOMAIN WithHeader(h) /\ f \in Hash
      /\ number[FinalizedBlock] <= number[f]
  BY <1>1, NewFinalized
<1>3. /\ range \in [oldest_unpruned_block : Nat, oldest_block_to_keep : Nat]
      /\ range.oldest_unpruned_block = BlocksToPrune.oldest_unpruned_block
      /\ BlocksToPrune.oldest_block_to_keep <= range.oldest_block_to_keep
      /\ range.oldest_unpruned_block <= range.oldest_block_to_keep
      /\ range.oldest_block_to_keep <= number[f]
  BY <1>2, RangeBounds
<1>4. /\ WithHeader(h) \in [DOMAIN WithHeader(h) -> R]
      /\ IsFiniteSet(DOMAIN WithHeader(h))
      /\ Consistent(DOMAIN WithHeader(h), index)
      /\ \A x \in DOMAIN WithHeader(h) :
            x \in Hash /\ number[x] >= BlocksToPrune.oldest_unpruned_block
  BY <1>1, Stored
<1>5. /\ DOMAIN store = DOMAIN WithHeader(h) /\ store \in [DOMAIN store -> R]
      /\ \A x \in DOMAIN store :
            /\ store[x].total_difficulty = WithHeader(h)[x].total_difficulty
            /\ store[x].finalized = (x = f \/ WithHeader(h)[x].finalized)
  BY <1>2, <1>4
<1>6. \A n \in DOMAIN index :
         /\ Pruned(index, range, n) \in 0..Len(index[n])
         /\ n >= range.oldest_block_to_keep => Pruned(index, range, n) = 0
  BY <1>3, <1>4, PrunedBounds
<1>7. /\ HeadersByNumber' =
            [n \in {m \in DOMAIN index : Pruned(index, range, m) < Len(index[m])} |->
                SubSeq(index[n], Pruned(index, range, n) + 1, Len(index[n]))]
      /\ Headers' = [x \in {y \in DOMAIN store : ~Gone(y)} |-> store[x]]
      /\ \E n \in range.oldest_unpruned_block..Max2(range.oldest_unpruned_block,
                                                    range.oldest_block_to_keep) :
            /\ \A m \in range.oldest_unpruned_block..(n - 1) : Swept(index, range, m)
            /\ BlocksToPrune' = [range EXCEPT !.oldest_unpruned_block = n]
  BY <1>1 DEF prune_header_range
<1>. HIDE DEF store, index, range
<1>8. DOMAIN Headers' = {y \in DOMAIN store : ~Gone(y)}
      /\ \A x \in DOMAIN Headers' : Headers'[x] = store[x]
  BY <1>7
<1>9. \A x \in DOMAIN store : Gone(x) =>
         /\ number[x] \in DOMAIN index
         /\ \E i \in 1..Pruned(index, range, number[x]) : index[number[x]][i] = x
  <2>1. SUFFICES ASSUME NEW x \in DOMAIN store, NEW n \in DOMAIN index,
                        NEW i \in 1..Pruned(index, range, n), index[n][i] = x
                 PROVE  n = number[x]
    OBVIOUS
  <2>2. index[n] \in Seq(Hash) /\ i \in 1..Len(index[n])
    BY <1>4, <1>6 DEF Consistent
  <2>3. x \in Range(index[n])
    BY <2>1, <2>2 DEF Range
  <2>. QED
    BY <1>4, <2>3 DEF Consistent
<1>10. ASSUME NEW x \in DOMAIN store, number[x] >= range.oldest_block_to_keep
       PROVE  x \in DOMAIN Headers'
  BY <1>6, <1>8, <1>9, <1>10
<1>11. PICK n \in range.oldest_unpruned_block..range.oldest_block_to_keep :
          /\ \A m \in range.oldest_unpruned_block..(n - 1) : Swept(index, range, m)
          /\ BlocksToPrune' = [range EXCEPT !.oldest_unpruned_block = n]
  <2>1. Max2(range.oldest_unpruned_block, range.oldest_block_to_keep)
          = range.oldest_block_to_keep
    BY <1>3 DEF Max2
  <2>. QED
    BY <1>7, <2>1
<1>12. /\ BlocksToPrune' \in [oldest_unpruned_block : Nat, oldest_block_to_keep : Nat]
       /\ BlocksToPrune'.oldest_block_to_keep = range.oldest_block_to_keep
       /\ BlocksToPrune'.oldest_unpruned_block = n
  BY <1>3, <1>11
<1>13. ASSUME NEW x \in DOMAIN Headers' PROVE number[x] >= n
  <2>1. x \in DOMAIN store /\ ~Gone(x) /\ x \in Hash /\ number[x] \in Nat
    BY <1>4, <1>5, <1>8, TreeTypes
  <2>2. number[x] >= range.oldest_unpruned_block
    BY <1>3, <1>4, <1>5, <2>1
  <2>3. SUFFICES ASSUME number[x] < n PROVE FALSE
    BY <1>3, <1>11, <2>1
  <2>4. Swept(index, range, number[x])
    BY <1>3, <1>11, <2>1, <2>2, <2>3
  <2>5. /\ number[x] \in DOMAIN index /\ x \in Range(index[number[x]])
        /\ index[number[x]] \in Seq(Hash)
    BY <1>4, <1>5, <2>1 DEF Consistent
  <2>6. Pruned(index, range, number[x]) = Len(index[number[x]])
    BY <2>4, <2>5 DEF Swept
  <2>. QED
    BY <2>1, <2>5, <2>6 DEF Range
<1>14. Consistent(DOMAIN Headers', HeadersByNumber')
  <2>. DEFINE X == HeadersByNumber'
              cut(m) == Pruned(index, range, m)
  <2>1. /\ DOMAIN X = {m \in DOMAIN index : cut(m) < Len(index[m])}
        /\ \A m \in DOMAIN X : X[m] = SubSeq(index[m], cut(m) + 1, Len(index[m]))
    BY <1>7
  <2>2. ASSUME NEW m \in DOMAIN X
        PROVE  /\ m \in DOMAIN index /\ index[m] \in Seq(Hash) /\ IsInjective(index[m])
               /\ cut(m) \in Nat /\ Len(index[m]) \in Nat /\ cut(m) < Len(index[m])
               /\ X[m] \in Seq(Hash)
               /\ DOMAIN X[m] = 1..(Len(index[m]) - cut(m))
               /\ \A i \in 1..(Len(index[m]) - cut(m)) : X[m][i] = index[m][cut(m) + i]
    <3>1. /\ m \in DOMAIN index /\ index[m] \in Seq(Hash) /\ IsInjective(index[m])
          /\ cut(m) \in Nat /\ Len(index[m]) \in Nat /\ cut(m) < Len(index[m])
      BY <1>4, <1>6, <2>1 DEF Consistent
    <3>2. X[m] = SubSeq(index[m], cut(m) + 1, Len(index[m]))
      BY <2>1
    <3>. HIDE DEF cut, X
    <3>3. /\ X[m] \in Seq(Hash)
          /\ Len(X[m]) = Len(index[m]) - cut(m)
          /\ \A i \in 1..(Len(index[m]) - cut(m)) : X[m][i] = index[m][cut(m) + i]
      BY <3>1, <3>2
    <3>. QED
      BY <3>1, <3>3
  <2>3. ASSUME NEW x \in DOMAIN Headers'
        PROVE  number[x] \in DOMAIN X /\ x \in Range(X[number[x]])
    <3>1. x \in DOMAIN store /\ ~Gone(x)
      BY <1>8
    <3>2. /\ number[x] \in DOMAIN index /\ x \in Range(index[number[x]])
          /\ index[number[x]] \in Seq(Hash)
      BY <1>4, <1>5, <3>1 DEF Consistent
    <3>3. PICK i \in 1..Len(index[number[x]]) : index[number[x]][i] = x
      BY <3>2 DEF Range
    <3>4. cut(number[x]) \in Nat /\ Len(index[number[x]]) \in Nat
      BY <1>6, <3>2
    <3>5. ~(i \in 1..cut(number[x]))
      BY <3>1, <3>2, <3>3
    <3>6. cut(number[x]) < Len(index[number[x]]) /\ cut(number[x]) < i
      BY <3>3, <3>4, <3>5
    <3>7. number[x] \in DOMAIN X
      BY <2>1, <3>2, <3>6
    <3>8. i - cut(number[x]) \in 1..(Len(index[number[x]]) - cut(number[x]))
      BY <3>3, <3>4, <3>6
    <3>9. X[number[x]][i - cut(number[x])] = index[number[x]][cut(number[x]) + (i - cut(number[x]))]
      BY <2>2, <3>7, <3>8
    <3>10. cut(number[x]) + (i - cut(number[x])) = i
      BY <3>3, <3>4
    <3>11. X[number[x]][i - cut(number[x])] = x
      BY <3>3, <3>9, <3>10
    <3>12. i - cut(number[x]) \in DOMAIN X[number[x]]
      BY <2>2, <3>7, <3>8
    <3>. QED
      BY <3>7, <3>11, <3>12 DEF Range
  <2>4. ASSUME NEW m \in DOMAIN X
        PROVE  /\ X[m] # <<>> /\ IsInjective(X[m])
               /\ \A x \in Range(X[m]) : x \in DOMAIN Headers' /\ number[x] = m
    <3>1. /\ m \in DOMAIN index /\ index[m] \in Seq(Hash) /\ IsInjective(index[m])
          /\ cut(m) \in Nat /\ Len(index[m]) \in Nat /\ cut(m) < Len(index[m])
          /\ X[m] \in Seq(Hash)
          /\ DOMAIN X[m] = 1..(Len(index[m]) - cut(m))
          /\ \A i \in 1..(Len(index[m]) - cut(m)) : X[m][i] = index[m][cut(m) + i]
      BY <2>2
    <3>. HIDE DEF X, cut
    <3>2. X[m] # <<>>
      BY <3>1
    <3>3. IsInjective(X[m])
      BY <3>1 DEF IsInjective
    <3>4. ASSUME NEW x \in Range(X[m])
          PROVE  x \in DOMAIN Headers' /\ number[x] = m
      <4>1. PICK i \in 1..(Len(index[m]) - cut(m)) : x = index[m][cut(m) + i]
        BY <3>1 DEF Range
      <4>2. cut(m) + i \in 1..Len(index[m]) /\ ~(cut(m) + i \in 1..cut(m))
        BY <3>1
      <4>3. x \in Range(index[m])
        BY <3>1, <4>1, <4>2 DEF Range
      <4>4. x \in DOMAIN store /\ number[x] = m
        BY <1>4, <1>5, <3>1, <4>3 DEF Consistent
      <4>5. ~Gone(x)
        <5>1. SUFFICES ASSUME NEW j \in 1..cut(m), index[m][j] = x PROVE FALSE
          BY <1>9, <4>4 DEF cut
        <5>2. j \in 1..Len(index[m]) /\ j # cut(m) + i
          BY <3>1, <4>2
        <5>. QED
          BY <3>1, <4>1, <4>2, <5>1, <5>2 DEF IsInjective
      <4>. QED
        BY <1>8, <4>4, <4>5
    <3>. QED
      BY <3>2, <3>3, <3>4
  <2>5. DOMAIN X \subseteq Nat /\ X \in [DOMAIN X -> Seq(Hash)]
    BY <1>4, <1>7, <2>1, <2>2 DEF Consistent
  <2>. QED
    BY <2>3, <2>4, <2>5 DEF Consistent
<1>15. Headers' \in [DOMAIN Headers' -> R]
  BY <1>5, <1>7
<1>16. \A x \in DOMAIN Headers' :
          /\ Headers'[x].total_difficulty = WithHeader(h)[x].total_difficulty
          /\ Headers'[x].finalized = (x = f \/ WithHeader(h)[x].finalized)
  BY <1>5, <1>8
<1>17. /\ DOMAIN Headers' \subseteq DOMAIN WithHeader(h)
       /\ \A x \in DOMAIN WithHeader(h) :
             number[x] >= BlocksToPrune'.oldest_block_to_keep => x \in DOMAIN Headers'
  BY <1>5, <1>8, <1>10, <1>12
<1>18. /\ BlocksToPrune.oldest_block_to_keep <= BlocksToPrune'.oldest_block_to_keep
       /\ BlocksToPrune'.oldest_unpruned_block <= BlocksToPrune'.oldest_block_to_keep
       /\ BlocksToPrune'.oldest_block_to_keep <= number[f]
       /\ \A x \in DOMAIN Headers' : number[x] >= BlocksToPrune'.oldest_unpruned_block
  BY <1>3, <1>11, <1>12, <1>13
<1>. QED
  BY <1>12, <1>14, <1>15, <1>16, <1>17, <1>18
-----------------------------------------------------------------------------
(* The invariant is inductive.                                             *)

\* The chain specification's single finalized header satisfies the invariant.
LEMMA InitIInv ==
    ASSUME Init PROVE IInv
<1>. USE DEF Init
<1>1. Genesis \in Hash /\ number[Genesis] \in Nat /\ height[Genesis] = 0
      /\ weight[Genesis] = initial_difficulty /\ initial_difficulty \in Nat
  BY BlockTree, Parameters
<1>2. DOMAIN Headers = {Genesis}
      /\ Headers[Genesis] = [total_difficulty |-> initial_difficulty, finalized |-> TRUE]
  OBVIOUS
<1>3. DOMAIN HeadersByNumber = {number[Genesis]}
      /\ HeadersByNumber[number[Genesis]] = <<Genesis>>
  OBVIOUS
<1>4. TypeOK
  BY <1>1 DEF TypeOK
<1>5. IsFiniteSet(DOMAIN Headers)
  BY <1>2, FS_Singleton
<1>6. Accounted
  BY <1>1, <1>2 DEF Accounted
<1>7. Genesis \in Line(Genesis)
  BY <1>1, LineIn
<1>8. MarkedFinalized
  BY <1>2, <1>7 DEF MarkedFinalized
<1>9. BestExtendsFinalized
  BY <1>1, <1>2, <1>7 DEF BestExtendsFinalized
<1>10. IndexExact
  BY <1>2, <1>3 DEF IndexExact, Range, IsInjective
<1>11. PruningSound
  <2>1. lineage[Genesis][0] = Genesis
    BY <1>1, Lineage
  <2>. QED
    BY <1>1, <1>2, <2>1 DEF PruningSound
<1>. QED
  BY <1>4, <1>5, <1>6, <1>8, <1>9, <1>10, <1>11 DEF IInv

\* Storing a validated header keeps the invariant if nothing is finalized or
\* pruned and the best block stays the heaviest.
LEMMA StoredOnly ==
    ASSUME VerifyPoW, IInv, NEW h \in Hash, validate_header_to_import(h) = "Ok",
           Headers' = WithHeader(h), HeadersByNumber' = WithHash(h),
           UNCHANGED <<FinalizedBlock, BlocksToPrune>>,
           BestBlock' \in [hash : Hash, difficulty : Nat], BestExtendsFinalized'
    PROVE  IInv'
<1>1. /\ DOMAIN Headers' = DOMAIN Headers \cup {h}
      /\ Headers' \in [DOMAIN Headers' -> [total_difficulty : Nat, finalized : BOOLEAN]]
      /\ Headers'[h] = [total_difficulty |-> weight[h], finalized |-> FALSE]
      /\ \A x \in DOMAIN Headers : Headers'[x] = Headers[x]
      /\ IsFiniteSet(DOMAIN Headers')
      /\ Closed(DOMAIN Headers', BlocksToPrune.oldest_block_to_keep)
      /\ Consistent(DOMAIN Headers', HeadersByNumber')
      /\ DOMAIN Headers' \subseteq Hash
      /\ \A x \in DOMAIN Headers' :
            /\ number[x] = number[Genesis] + height[x]
            /\ number[x] >= BlocksToPrune.oldest_unpruned_block
            /\ Headers'[x].total_difficulty = weight[x]
  BY Stored
<1>2. TypeOK'
  BY <1>1 DEF TypeOK, IInv, Consistent
<1>3. Accounted'
  BY <1>1 DEF Accounted
<1>4. MarkedFinalized'
  <2>1. h \notin DOMAIN Headers
    BY Validated DEF IInv
  <2>2. \A x \in Hash : Line(x)' = Line(x)
    BY DEF Line
  <2>. QED
    BY <1>1, <2>1, <2>2 DEF MarkedFinalized, IInv, TypeOK
<1>5. IndexExact'
  BY <1>1 DEF IndexExact, Consistent
<1>6. PruningSound'
  BY <1>1 DEF PruningSound, Closed, IInv
<1>. QED
  BY <1>1, <1>2, <1>3, <1>4, <1>5, <1>6 DEF IInv

\* Importing a header that does not become the best block.
LEMMA ForkPreserves ==
    ASSUME VerifyPoW, IInv, NEW h \in Hash, ImportForkHeader(h)
    PROVE  IInv'
<1>1. /\ validate_header_to_import(h) = "Ok" /\ ~IsNewBest(h)
      /\ Headers' = WithHeader(h) /\ HeadersByNumber' = WithHash(h)
      /\ UNCHANGED <<BestBlock, FinalizedBlock, BlocksToPrune>>
  BY DEF ImportForkHeader
<1>2. /\ BestBlock.hash \in Hash /\ BestBlock.difficulty \in Nat
      /\ BestBlock' \in [hash : Hash, difficulty : Nat]
  BY <1>1 DEF IInv, TypeOK
<1>3. /\ DOMAIN Headers' = DOMAIN Headers \cup {h}
      /\ \A x \in DOMAIN Headers : Headers'[x] = Headers[x]
      /\ Headers'[h].total_difficulty = weight[h]
  BY <1>1, Stored
<1>4. total_difficulty(h) = weight[h] /\ weight[h] \in Nat
  BY <1>1, Validated, TreeTypes DEF IInv
<1>5. weight[h] <= BestBlock.difficulty
  BY <1>1, <1>2, <1>4 DEF IsNewBest
<1>6. BestExtendsFinalized'
  BY <1>1, <1>3, <1>5 DEF BestExtendsFinalized, IInv, Line
<1>. QED
  BY <1>1, <1>2, <1>6, StoredOnly

\* The new best block is the heaviest and extends the finalized block.
LEMMA NewBest ==
    ASSUME VerifyPoW, IInv, NEW h \in Hash, validate_header_to_import(h) = "Ok",
           IsNewBest(h)
    PROVE  /\ total_difficulty(h) = weight[h] /\ weight[h] \in Nat
           /\ weight[h] > BestBlock.difficulty
           /\ \A x \in DOMAIN Headers : weight[x] <= weight[h]
<1>1. total_difficulty(h) = weight[h] /\ weight[h] \in Nat
  BY Validated, TreeTypes DEF IInv
<1>2. BestBlock.difficulty \in Nat /\ DOMAIN Headers \subseteq Hash
  BY DEF IInv, TypeOK
<1>3. weight[h] > BestBlock.difficulty
  BY <1>1 DEF IsNewBest
<1>4. \A x \in DOMAIN Headers : weight[x] <= BestBlock.difficulty /\ weight[x] \in Nat
  BY <1>2, TreeTypes DEF IInv, Accounted, BestExtendsFinalized
<1>. QED
  BY <1>1, <1>2, <1>3, <1>4

\* An import that fails after the best block has been written.
LEMMA FailPreserves ==
    ASSUME VerifyPoW, IInv, NEW h \in Hash, ImportBestHeaderFails(h)
    PROVE  IInv'
<1>1. /\ validate_header_to_import(h) = "Ok" /\ IsNewBest(h)
      /\ Headers' = WithHeader(h) /\ HeadersByNumber' = WithHash(h)
      /\ BestBlock' = [hash |-> h, difficulty |-> total_difficulty(h)]
      /\ UNCHANGED <<FinalizedBlock, BlocksToPrune>>
  BY DEF ImportBestHeaderFails
<1>2. /\ DOMAIN Headers' = DOMAIN Headers \cup {h}
      /\ \A x \in DOMAIN Headers' : Headers'[x].total_difficulty = weight[x]
  BY <1>1, Stored
<1>3. /\ total_difficulty(h) = weight[h] /\ weight[h] \in Nat
      /\ \A x \in DOMAIN Headers : weight[x] <= weight[h]
  BY <1>1, NewBest
<1>4. FinalizedBlock \in Line(h)
  BY <1>1, Validated DEF IInv
<1>5. BestBlock' \in [hash : Hash, difficulty : Nat]
  BY <1>1, <1>3
<1>6. BestExtendsFinalized'
  <2>1. BestBlock'.hash = h /\ BestBlock'.difficulty = weight[h]
    BY <1>1, <1>3
  <2>2. \A x \in DOMAIN Headers' : Headers'[x].total_difficulty <= weight[h]
    BY <1>2, <1>3
  <2>. QED
    BY <1>1, <1>2, <1>4, <2>1, <2>2 DEF BestExtendsFinalized, Line
<1>. QED
  BY <1>1, <1>5, <1>6, StoredOnly

\* Importing a new best block, finalizing what it buries and pruning.
LEMMA BestPreserves ==
    ASSUME VerifyPoW, IInv, NEW h \in Hash, ImportBestHeader(h)
    PROVE  IInv'
<1>. DEFINE S == WithHeader(h)
            f == get_best_finalized_header(DOMAIN S, h)
            keep == BlocksToPrune'.oldest_block_to_keep
<1>1. /\ validate_header_to_import(h) = "Ok" /\ IsNewBest(h)
      /\ FinalizedBlock' = f
      /\ BestBlock' = [hash |-> h, difficulty |-> total_difficulty(h)]
  BY DEF ImportBestHeader
<1>2. /\ f \in DOMAIN S /\ f \in Hash /\ f \in Line(h)
      /\ FinalizedBlock \in Line(f)
      /\ number[FinalizedBlock] <= number[f]
  BY <1>1, NewFinalized
<1>3. /\ DOMAIN S = DOMAIN Headers \cup {h} /\ DOMAIN S \subseteq Hash
      /\ S[h] = [total_difficulty |-> weight[h], finalized |-> FALSE]
      /\ \A x \in DOMAIN Headers : S[x] = Headers[x]
      /\ IsFiniteSet(DOMAIN S)
      /\ Closed(DOMAIN S, BlocksToPrune.oldest_block_to_keep)
      /\ \A x \in DOMAIN S : /\ number[x] = number[Genesis] + height[x]
                             /\ S[x].total_difficulty = weight[x]
  BY <1>1, Stored
<1>4. /\ DOMAIN Headers' \subseteq DOMAIN S
      /\ Headers' \in [DOMAIN Headers' -> [total_difficulty : Nat, finalized : BOOLEAN]]
      /\ \A x \in DOMAIN Headers' :
            /\ Headers'[x].total_difficulty = S[x].total_difficulty
            /\ Headers'[x].finalized = (x = f \/ S[x].finalized)
      /\ \A x \in DOMAIN S : number[x] >= keep => x \in DOMAIN Headers'
      /\ Consistent(DOMAIN Headers', HeadersByNumber')
      /\ BlocksToPrune' \in [oldest_unpruned_block : Nat, oldest_block_to_keep : Nat]
      /\ BlocksToPrune.oldest_block_to_keep <= keep
      /\ BlocksToPrune'.oldest_unpruned_block <= keep
      /\ keep <= number[f]
      /\ \A x \in DOMAIN Headers' : number[x] >= BlocksToPrune'.oldest_unpruned_block
  BY Imported
<1>5. /\ total_difficulty(h) = weight[h] /\ weight[h] \in Nat
      /\ \A x \in DOMAIN Headers : weight[x] <= weight[h]
  BY <1>1, NewBest
<1>. HIDE DEF S, f
<1>6. TypeOK'
  BY <1>1, <1>2, <1>3, <1>4, <1>5 DEF TypeOK, Consistent
<1>7. IsFiniteSet(DOMAIN Headers')
  BY <1>3, <1>4, FS_Subset
<1>8. Accounted'
  BY <1>3, <1>4 DEF Accounted
<1>9. f \in DOMAIN Headers'
  <2>1. number[f] >= keep
    BY <1>2, <1>4, TreeTypes
  <2>. QED
    BY <1>2, <1>4, <2>1
<1>10. MarkedFinalized'
  <2>1. ASSUME NEW x \in DOMAIN Headers', Headers'[x].finalized
        PROVE  x \in Line(f)
    <3>1. CASE x = f
      BY <3>1, <1>2, LineIn
    <3>2. CASE x # f
      <4>1. x \in DOMAIN Headers /\ Headers[x].finalized
        BY <1>3, <1>4, <2>1, <3>2
      <4>2. x \in Line(FinalizedBlock) /\ FinalizedBlock \in Hash /\ x \in Hash
        BY <4>1 DEF IInv, MarkedFinalized, TypeOK
      <4>. QED
        BY <1>2, <4>2, LineTrans
    <3>. QED
      BY <3>1, <3>2
  <2>2. Headers'[f].finalized
    BY <1>4, <1>9
  <2>. QED
    BY <1>1, <1>9, <2>1, <2>2 DEF MarkedFinalized, Line
<1>11. BestExtendsFinalized'
  <2>1. h \in DOMAIN Headers'
    <3>1. height[f] <= height[h] /\ h \in DOMAIN S
      BY <1>2, <1>3, LineHeight
    <3>2. number[f] = number[Genesis] + height[f] /\ number[h] = number[Genesis] + height[h]
      BY <1>2, <1>3
    <3>3. number[h] >= keep
      BY <1>2, <1>4, <3>1, <3>2, TreeTypes, BlockTree
    <3>. QED
      BY <1>4, <3>1, <3>3
  <2>2. \A x \in DOMAIN Headers' : Headers'[x].total_difficulty <= weight[h]
    BY <1>3, <1>4, <1>5
  <2>. QED
    BY <1>1, <1>2, <1>3, <1>4, <1>5, <2>1, <2>2 DEF BestExtendsFinalized, Line
<1>12. IndexExact'
  BY <1>4 DEF IndexExact, Consistent
<1>13. PruningSound'
  <2>1. ASSUME NEW x \in DOMAIN Headers', NEW i \in 0..height[x], number[x] - i >= keep
        PROVE  lineage[x][i] \in DOMAIN Headers'
    <3>1. x \in DOMAIN S /\ x \in Hash
      BY <1>3, <1>4
    <3>2. number[x] \in Nat /\ number[Genesis] \in Nat /\ height[x] \in Nat
          /\ number[x] = number[Genesis] + height[x]
          /\ BlocksToPrune.oldest_block_to_keep \in Nat /\ keep \in Nat
      BY <1>3, <1>4, <3>1, TreeTypes, BlockTree DEF IInv, TypeOK
    <3>3. number[x] - i >= BlocksToPrune.oldest_block_to_keep
      BY <1>4, <2>1, <3>2
    <3>4. lineage[x][i] \in DOMAIN S
      BY <1>3, <3>1, <3>3 DEF Closed
    <3>5. number[lineage[x][i]] = number[Genesis] + height[lineage[x][i]]
          /\ height[lineage[x][i]] = height[x] - i
      BY <1>3, <3>1, <3>4, Lineage
    <3>6. number[lineage[x][i]] >= keep
      BY <2>1, <3>2, <3>5
    <3>. QED
      BY <1>4, <3>4, <3>6
  <2>. QED
    BY <1>1, <1>4, <2>1 DEF PruningSound
<1>. QED
  BY <1>6, <1>7, <1>8, <1>10, <1>11, <1>12, <1>13 DEF IInv

\* IInv is an invariant: no import, whether of a fork, of a new best block or
\* failing half way, breaks it.
THEOREM Invariance ==
    ASSUME VerifyPoW PROVE Spec => []IInv
<1>1. ASSUME IInv, [Next]_vars PROVE IInv'
  <2>1. CASE Next
    BY <1>1, <2>1, ForkPreserves, BestPreserves, FailPreserves DEF Next
  <2>2. CASE UNCHANGED vars
    BY <1>1, <2>2 DEF vars, IInv, TypeOK, Accounted, MarkedFinalized, Line,
       BestExtendsFinalized, IndexExact, PruningSound
  <2>. QED
    BY <1>1, <2>1, <2>2
<1>. QED
  BY <1>1, InitIInv, PTL DEF Spec
\* The stored state keeps its shape, index and pruning range through any
\* sequence of imports.
THEOREM StorageSound ==
    ASSUME VerifyPoW PROVE Spec => [](TypeOK /\ IndexExact /\ PruningSound)
<1>1. IInv => TypeOK /\ IndexExact /\ PruningSound
  BY DEF IInv
<1>. QED
  BY <1>1, Invariance, PTL

\* verify() never accepts messages from two competing forks.
THEOREM FinalizedChainUnique ==
    ASSUME VerifyPoW PROVE Spec => []OneFinalizedChain
<1>1. ASSUME IInv PROVE OneFinalizedChain
  <2>1. SUFFICES ASSUME NEW a \in DOMAIN Headers, NEW b \in DOMAIN Headers,
                        verify(a) = "Ok", verify(b) = "Ok"
                 PROVE  a \in Line(b) \/ b \in Line(a)
    BY DEF OneFinalizedChain
  <2>2. Headers[a].finalized /\ Headers[b].finalized
    BY <2>1 DEF verify
  <2>3. /\ a \in Line(FinalizedBlock) /\ b \in Line(FinalizedBlock)
        /\ a \in Hash /\ b \in Hash /\ FinalizedBlock \in Hash
    BY <1>1, <2>2 DEF IInv, MarkedFinalized, TypeOK
  <2>4. height[a] <= height[b] \/ height[b] <= height[a]
    BY <2>3, TreeTypes
  <2>. QED
    BY <2>3, <2>4, LineOrder
<1>. QED
  BY <1>1, Invariance, PTL

\* The best block is always the heaviest stored one and extends the
\* finalized block.
THEOREM BestBlockSound ==
    ASSUME VerifyPoW PROVE Spec => []BestExtendsFinalized
<1>1. IInv => BestExtendsFinalized
  BY DEF IInv
<1>. QED
  BY <1>1, Invariance, PTL

\* FinalizedBlock only ever moves to a descendant of itself: what the
\* inbound channels have relied on is never revoked.
THEOREM FinalityIrreversible ==
    ASSUME VerifyPoW PROVE Spec => FinalityNeverReverts
<1>. DEFINE A == FinalizedBlock' # FinalizedBlock =>
                    /\ FinalizedBlock \in Line(FinalizedBlock')
                    /\ FinalizedBlock' \in DOMAIN Headers'
<1>1. ASSUME IInv, IInv', [Next]_vars PROVE [A]_vars
  <2>1. CASE UNCHANGED vars
    BY <2>1 DEF vars
  <2>2. ASSUME NEW h \in Hash, ImportForkHeader(h) \/ ImportBestHeaderFails(h) PROVE A
    BY <2>2 DEF ImportForkHeader, ImportBestHeaderFails
  <2>3. ASSUME NEW h \in Hash, ImportBestHeader(h) PROVE A
    <3>1. /\ validate_header_to_import(h) = "Ok"
          /\ FinalizedBlock' = get_best_finalized_header(DOMAIN WithHeader(h), h)
      BY <2>3 DEF ImportBestHeader
    <3>2. FinalizedBlock \in Line(FinalizedBlock')
      BY <1>1, <3>1, NewFinalized
    <3>3. FinalizedBlock' \in DOMAIN Headers'
      BY <1>1 DEF IInv, MarkedFinalized
    <3>. QED
      BY <3>2, <3>3
  <2>. QED
    BY <1>1, <2>1, <2>2, <2>3 DEF Next
<1>. QED
  BY <1>1, Invariance, PTL DEF Spec, FinalityNeverReverts

-----------------------------------------------------------------------------
(* Finality when the longer of two short forks is the heavier.             *)

\* A new best block is as high as the old one, or one higher.
LEMMA BestGrowsByOne ==
    ASSUME VerifyPoW, LongerForkHeavier, BuriedInv, NEW h \in Hash,
           validate_header_to_import(h) = "Ok", IsNewBest(h)
    PROVE  height[h] = height[BestBlock.hash] \/ height[h] = height[BestBlock.hash] + 1
<1>. DEFINE b == BestBlock.hash
            p == parent_hash[h]
            F == FinalizedBlock
<1>. USE DEF BuriedInv
<1>1. /\ b \in Hash /\ F \in Hash /\ b \in DOMAIN Headers
      /\ F \in Line(b) /\ BestBlock.difficulty = weight[b]
      /\ \A x \in DOMAIN Headers : weight[x] <= weight[b]
  BY DEF IInv, TypeOK, BestExtendsFinalized, Accounted
<1>2. /\ h # Genesis /\ p \in DOMAIN Headers /\ F \in Line(p) /\ F \in Line(h)
  BY Validated DEF IInv
<1>3. p \in Hash /\ height[h] = height[p] + 1
  BY <1>2, LineParent
<1>4. /\ height[h] \in Nat /\ height[b] \in Nat /\ height[p] \in Nat /\ height[F] \in Nat
      /\ weight[h] \in Nat /\ weight[b] \in Nat /\ weight[p] \in Nat
      /\ DescendantsUntilFinalized \in Nat
  BY <1>1, <1>3, TreeTypes, Parameters
<1>5. height[b] - height[F] <= DescendantsUntilFinalized
  BY DEF FinalizedIsBuried
<1>6. weight[h] > weight[b]
  BY <1>1, NewBest
<1>7. ~(height[p] > height[b])
  <2>1. SUFFICES ASSUME height[p] > height[b] PROVE FALSE
    OBVIOUS
  <2>2. weight[p] > weight[b]
    BY <1>1, <1>2, <1>3, <1>5, <2>1 DEF LongerForkHeavier
  <2>. QED
    BY <1>1, <1>2, <1>4, <2>2
<1>8. ~(height[b] > height[h])
  <2>1. SUFFICES ASSUME height[b] > height[h] PROVE FALSE
    OBVIOUS
  <2>2. height[h] - height[F] <= DescendantsUntilFinalized
    BY <1>4, <1>5, <2>1
  <2>3. weight[b] > weight[h]
    BY <1>1, <1>2, <2>1, <2>2 DEF LongerForkHeavier
  <2>. QED
    BY <1>4, <1>6, <2>3
<1>. QED
  BY <1>3, <1>4, <1>7, <1>8
\* So finality advances by at most one block at a time, to the block that is
\* DescendantsUntilFinalized below the new best one.
LEMMA FinalizesNext ==
    ASSUME VerifyPoW, LongerForkHeavier, BuriedInv, NEW h \in Hash,
           validate_header_to_import(h) = "Ok", IsNewBest(h),
           NEW f, f = get_best_finalized_header(DOMAIN WithHeader(h), h)
    PROVE  /\ ~FinalityUnknown(DOMAIN WithHeader(h), h)
           /\ height[h] - height[f] <= DescendantsUntilFinalized
           /\ f # Genesis => height[h] - height[f] = DescendantsUntilFinalized
           /\ f = FinalizedBlock \/ height[f] = height[FinalizedBlock] + 1
<1>. DEFINE b == BestBlock.hash
            F == FinalizedBlock
            S == DOMAIN WithHeader(h)
            D == DescendantsUntilFinalized
            c == Candidate(h)
<1>. USE DEF BuriedInv
<1>1. /\ b \in Hash /\ F \in Hash /\ F \in DOMAIN Headers /\ h \in S
      /\ S \subseteq Hash
      /\ Closed(S, BlocksToPrune.oldest_block_to_keep)
      /\ \A x \in S : number[x] = number[Genesis] + height[x]
      /\ number[F] = number[Genesis] + height[F]
      /\ F \in Line(h)
      /\ BlocksToPrune.oldest_block_to_keep \in Nat
      /\ BlocksToPrune.oldest_block_to_keep <= number[F]
  <2>1. /\ b \in Hash /\ F \in Hash /\ F \in DOMAIN Headers
        /\ number[F] = number[Genesis] + height[F]
        /\ BlocksToPrune.oldest_block_to_keep \in Nat
        /\ BlocksToPrune.oldest_block_to_keep <= number[F]
    BY DEF IInv, TypeOK, MarkedFinalized, Accounted, PruningSound
  <2>2. F \in Line(h)
    BY Validated DEF IInv
  <2>3. /\ S = DOMAIN Headers \cup {h} /\ S \subseteq Hash
        /\ Closed(S, BlocksToPrune.oldest_block_to_keep)
        /\ \A x \in S : number[x] = number[Genesis] + height[x]
    BY Stored
  <2>. QED
    BY <2>1, <2>2, <2>3
<1>2. /\ height[h] \in Nat /\ height[b] \in Nat /\ height[F] \in Nat
      /\ number[h] \in Nat /\ number[F] \in Nat /\ number[Genesis] \in Nat
      /\ height[Genesis] = 0 /\ D \in Nat
  BY <1>1, TreeTypes, BlockTree, Parameters
<1>3. /\ height[b] - height[F] <= D
      /\ F # Genesis => height[b] - height[F] = D
  BY DEF FinalizedIsBuried
<1>4. height[h] = height[b] \/ height[h] = height[b] + 1
  BY BestGrowsByOne
<1>5. ASSUME MayFinalize(S, h)
      PROVE  /\ c \in S /\ c \in Hash /\ c \in Line(h) /\ height[c] = height[h] - D
             /\ number[c] = number[Genesis] + (height[h] - D)
             /\ D <= height[h]
  <2>1. D \in 0..height[h] /\ c \in S
    <3>1. /\ D \in 0..height[h]
          /\ \A i \in 0..D : lineage[h][i] \in S
      BY <1>5 DEF MayFinalize, Yields
    <3>2. D \in 0..D
      BY <1>2
    <3>. QED
      BY <3>1, <3>2 DEF Candidate
  <2>2. c \in Hash /\ c \in Line(h) /\ height[c] = height[h] - D
    BY <2>1, Lineage DEF Candidate, Line
  <2>3. number[c] = number[Genesis] + height[c]
    BY <1>1, <2>1
  <2>. QED
    BY <1>2, <2>1, <2>2, <2>3
<1>x. number[F] = number[Genesis] + height[F] /\ number[h] = number[Genesis] + height[h]
  BY <1>1
<1>6. CASE height[h] - height[F] <= D
  <2>1. ~(MayFinalize(S, h) /\ number[c] > number[F])
    BY <1>2, <1>5, <1>6, <1>x
  <2>2. f = F
    BY <2>1 DEF get_best_finalized_header
  <2>3. F # Genesis => height[h] - height[F] = D
    BY <1>2, <1>3, <1>4, <1>6
  <2>4. ASSUME FinalityUnknown(S, h) PROVE FALSE
    <3>1. MayFinalize(S, h) /\ c # F
      BY <2>4 DEF FinalityUnknown
    <3>2. height[c] = height[F]
      BY <1>2, <1>5, <1>6, <2>3, <3>1
    <3>3. c \in Line(F)
      <4>1. height[c] <= height[F] /\ c \in Hash /\ c \in Line(h)
        BY <1>2, <1>5, <3>1, <3>2
      <4>. QED
        BY <1>1, <4>1, LineOrder
    <3>. QED
      BY <1>1, <1>5, <3>1, <3>2, <3>3, LineHeight
  <2>. QED
    BY <1>6, <2>2, <2>3, <2>4
<1>7. CASE height[h] - height[F] = D + 1
  <2>1. ASSUME NEW j \in 0..D PROVE j \in 0..height[h] /\ lineage[h][j] \in S
    <3>1. j \in 0..height[h] /\ number[h] - j >= BlocksToPrune.oldest_block_to_keep
      <4>1. number[h] - j >= number[F] /\ j \in 0..height[h]
        BY <1>2, <1>7, <1>x
      <4>. QED
        BY <1>1, <1>2, <4>1
    <3>. QED
      BY <1>1, <3>1 DEF Closed
  <2>2. MayFinalize(S, h)
    <3>1. D \in 0..height[h]
      BY <1>2, <2>1
    <3>. QED
      BY <2>1, <3>1 DEF MayFinalize, Yields
  <2>3. number[c] > number[F]
    BY <1>2, <1>5, <1>7, <1>x, <2>2
  <2>4. f = c
    BY <2>2, <2>3 DEF get_best_finalized_header
  <2>5. ~FinalityUnknown(S, h)
    <3>1. number[c] \in Nat
      BY <1>5, <2>2, TreeTypes
    <3>. QED
      BY <1>2, <2>3, <3>1 DEF FinalityUnknown
  <2>. QED
    BY <1>2, <1>5, <1>7, <2>2, <2>4, <2>5
<1>. QED
  BY <1>2, <1>3, <1>4, <1>6, <1>7

\* Every step keeps the finalized block buried and its chain usable.
LEMMA BuriedStep ==
    ASSUME VerifyPoW, LongerForkHeavier, BuriedInv, IInv', NEW h \in Hash,
           ImportForkHeader(h) \/ ImportBestHeader(h) \/ ImportBestHeaderFails(h)
    PROVE  BuriedInv'
<1>. DEFINE F == FinalizedBlock
<1>. USE DEF BuriedInv
<1>1. validate_header_to_import(h) = "Ok"
  BY DEF ImportForkHeader, ImportBestHeader, ImportBestHeaderFails
<1>2. /\ F \in Hash /\ F \in DOMAIN Headers /\ DOMAIN Headers \subseteq Hash
      /\ number[F] = number[Genesis] + height[F]
      /\ number[h] = number[Genesis] + height[h] /\ number[h] > number[F]
  BY <1>1, Validated DEF IInv, TypeOK, MarkedFinalized, Accounted
<1>3. h \notin Line(F)
  <2>1. height[h] > height[F]
    <3>1. height[h] \in Nat /\ height[F] \in Nat /\ number[Genesis] \in Nat
      BY <1>2, TreeTypes, BlockTree
    <3>. QED
      BY <1>2, <3>1
  <2>. QED
    BY <1>2, <2>1, LineHeight, TreeTypes
<1>4. CASE ImportForkHeader(h)
  <2>1. /\ Headers' = WithHeader(h) /\ UNCHANGED <<BestBlock, FinalizedBlock>>
        /\ DOMAIN WithHeader(h) = DOMAIN Headers \cup {h}
        /\ \A x \in DOMAIN Headers : WithHeader(h)[x] = Headers[x]
    BY <1>1, <1>4, Stored DEF ImportForkHeader
  <2>2. FinalizedIsBuried'
    BY <2>1 DEF FinalizedIsBuried
  <2>3. FinalizedChainVerifiable'
    BY <1>3, <2>1 DEF FinalizedChainVerifiable, verify, Line
  <2>. QED
    BY <2>2, <2>3
<1>5. CASE ImportBestHeaderFails(h)
  BY <1>5, FinalizesNext DEF ImportBestHeaderFails
<1>6. CASE ImportBestHeader(h)
  <2>. DEFINE f == get_best_finalized_header(DOMAIN WithHeader(h), h)
  <2>1. FinalizedBlock' = f /\ BestBlock'.hash = h /\ IsNewBest(h)
    BY <1>6 DEF ImportBestHeader
  <2>2. /\ height[h] - height[f] <= DescendantsUntilFinalized
        /\ f # Genesis => height[h] - height[f] = DescendantsUntilFinalized
        /\ f = F \/ height[f] = height[F] + 1
    BY <1>1, <2>1, FinalizesNext
  <2>3. f \in Hash /\ F \in Line(f)
    BY <1>1, NewFinalized
  <2>4. /\ DOMAIN Headers' \subseteq DOMAIN WithHeader(h)
        /\ \A x \in DOMAIN Headers' :
              Headers'[x].finalized = (x = f \/ WithHeader(h)[x].finalized)
    BY <1>6, Imported
  <2>5. /\ DOMAIN WithHeader(h) = DOMAIN Headers \cup {h}
        /\ \A x \in DOMAIN Headers : WithHeader(h)[x] = Headers[x]
    BY <1>1, Stored
  <2>. HIDE DEF f
  <2>6. FinalizedIsBuried'
    BY <2>1, <2>2 DEF FinalizedIsBuried
  <2>7. ASSUME NEW x \in Line(f) PROVE x = f \/ x \in Line(F)
    <3>1. CASE f = F
      BY <3>1
    <3>2. CASE height[f] = height[F] + 1
      <4>1. PICK i \in 0..height[f] : x = lineage[f][i]
        BY DEF Line
      <4>2. x \in Hash /\ height[x] = height[f] - i
        BY <2>3, <4>1, Lineage
      <4>3. CASE i = 0
        BY <2>3, <4>1, <4>3, Lineage
      <4>4. CASE i # 0
        <5>1. height[x] <= height[F]
          BY <1>2, <2>3, <3>2, <4>1, <4>2, <4>4, TreeTypes
        <5>. QED
          BY <1>2, <2>3, <4>2, <5>1, LineOrder
      <4>. QED
        BY <4>3, <4>4
    <3>. QED
      BY <2>2, <3>1, <3>2
  <2>8. ASSUME NEW x \in Line(f), x \in DOMAIN Headers' PROVE Headers'[x].finalized
    <3>1. CASE x = f
      BY <2>4, <2>8, <3>1
    <3>2. CASE x # f
      <4>1. x \in Line(F) /\ x \in DOMAIN Headers
        BY <1>3, <2>4, <2>5, <2>7, <2>8, <3>2
      <4>2. Headers[x].finalized
        BY <4>1 DEF FinalizedChainVerifiable, verify
      <4>. QED
        BY <2>4, <2>5, <2>8, <4>1, <4>2
    <3>. QED
      BY <3>1, <3>2
  <2>9. FinalizedChainVerifiable'
    BY <2>1, <2>8 DEF FinalizedChainVerifiable, verify, Line
  <2>. QED
    BY <2>6, <2>9
<1>. QED
  BY <1>4, <1>5, <1>6

\* BuriedInv is an invariant when longer short forks are heavier.
THEOREM BuriedInvariance ==
    ASSUME VerifyPoW, LongerForkHeavier PROVE Spec => []BuriedInv
<1>1. Init => BuriedInv
  <2>1. ASSUME Init PROVE BuriedInv
    <3>1. IInv
      BY <2>1, InitIInv
    <3>2. FinalizedIsBuried
      BY <2>1, BlockTree, Parameters DEF Init, FinalizedIsBuried
    <3>3. FinalizedChainVerifiable
      BY <2>1 DEF Init, FinalizedChainVerifiable, verify
    <3>. QED
      BY <3>1, <3>2, <3>3 DEF BuriedInv
  <2>. QED
    BY <2>1
<1>2. ASSUME BuriedInv, IInv', [Next]_vars PROVE BuriedInv'
  <2>1. CASE Next
    BY <1>2, <2>1, BuriedStep DEF Next
  <2>2. CASE UNCHANGED vars
    BY <1>2, <2>2 DEF vars, BuriedInv, FinalizedIsBuried, FinalizedChainVerifiable,
       verify, Line
  <2>. QED
    BY <1>2, <2>1, <2>2
<1>. QED
  BY <1>1, <1>2, Invariance, PTL DEF Spec

\* No import fails half way, with its header and best block written but
\* finality not decided.
THEOREM ImportsAreWhole ==
    ASSUME VerifyPoW, LongerForkHeavier PROVE Spec => []NeverHalfImported
<1>1. BuriedInv => NeverHalfImported
  BY FinalizesNext DEF NeverHalfImported
<1>. QED
  BY <1>1, BuriedInvariance, PTL

\* The finalized block is exactly DescendantsUntilFinalized below the best
\* one, and every stored block of its chain can be used in a proof.
THEOREM FinalityExact ==
    ASSUME VerifyPoW, LongerForkHeavier
    PROVE  Spec => [](FinalizedIsBuried /\ FinalizedChainVerifiable)
<1>1. BuriedInv => FinalizedIsBuried /\ FinalizedChainVerifiable
  BY DEF BuriedInv
<1>. QED
  BY <1>1, BuriedInvariance, PTL
=============================================================================
