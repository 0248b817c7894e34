------------------------- MODULE ParachainToEthereum -------------------------
(***************************************************************************)
(* Messages from the parachain to Ethereum.  The outbound channel pallets  *)
(* queue messages and commit them to the digest of a parachain block; the  *)
(* relay chain includes parachain blocks; BeefyLightClient accepts an MMR  *)
(* root of the relay chain; a parachain relay finds the commitments that   *)
(* Ethereum has not seen, proves them under the latest root and submits    *)
(* them to the inbound channel contracts.                                  *)
(*                                                                         *)
(* A commitment hash stands for its messages.  A proof is named by the     *)
(* parachain block that it is for and by the root that it is under.        *)
(***************************************************************************)
EXTENDS Integers, Sequences, FiniteSets

CONSTANTS
    Channel,                \* the basic and the incentivized channel
    Payload,
    Relay,                  \* running instances of the parachain relay
    Interval,               \* blocks between commitments
    MaxMessagesPerCommit,
    MaxNonce,               \* bound on the messages of a channel
    MaxParaBlock,           \* bound on parachain blocks
    MaxRelayBlock,          \* bound on relay chain blocks
    MaxStops                \* bound on failures of each relay

ASSUME Parameters ==
    /\ Interval \in Nat \ {0} /\ MaxMessagesPerCommit \in Nat
    /\ MaxNonce \in Nat /\ MaxParaBlock \in Nat /\ MaxRelayBlock \in Nat
    /\ MaxStops \in Nat
    /\ IsFiniteSet(Channel)

VARIABLES
    accepted,      \* channel -> payloads accepted so far, in order
    nonce,         \* channel -> Nonce of the outbound pallet
    MessageQueue,  \* channel -> messages waiting to be committed
    digest,        \* channel -> commitment of the parachain block being built
    blocks,        \* finished parachain blocks: [digest, nonce]
    heads,         \* heads[r]: the parachain block that relay chain block r has as head
    latest,        \* latestBeefyBlock: whose MMR root Ethereum holds
    inNonce,       \* channel -> nonce of the inbound contract
    delivered,     \* channel -> payloads handed to their targets, in order
    pool,          \* relay -> its transactions that are not yet mined
    listener,      \* relay -> [pc, root, packages]
    events,        \* relay -> roots announced to it and not yet handled
    channel,       \* relay -> the buffered channel from listener to writer
    stops          \* relay -> how often it has failed

paraVars == <<accepted, nonce, MessageQueue, digest, blocks>>
ethVars == <<latest, inNonce, delivered>>
relayVars == <<listener, channel, stops>>
vars == <<paraVars, heads, ethVars, pool, relayVars, events>>

Down == [pc |-> "down", root |-> 0, packages |-> <<>>]

Init ==
    /\ accepted = [c \in Channel |-> <<>>]
    /\ nonce = [c \in Channel |-> 0]
    /\ MessageQueue = [c \in Channel |-> <<>>]
    /\ digest = [c \in Channel |-> <<>>]
    /\ blocks = <<>>
    /\ heads = <<>>
    /\ latest = 0
    /\ inNonce = [c \in Channel |-> 0]
    /\ delivered = [c \in Channel |-> <<>>]
    /\ pool = [r \in Relay |-> <<>>]
    /\ listener = [r \in Relay |-> Down]
    /\ events = [r \in Relay |-> <<>>]
    /\ channel = [r \in Relay |-> <<>>]
    /\ stops = [r \in Relay |-> 0]

-----------------------------------------------------------------------------
(* The parachain.                                                          *)

\* An application sends a message.  On an error (not the principal, no funds
\* for the fee, payload too large, queue full) nothing changes.
submit(c, p) ==
    /\ nonce[c] < MaxNonce
    /\ Len(MessageQueue[c]) < MaxMessagesPerCommit
    /\ nonce' = [nonce EXCEPT ![c] = @ + 1]
    /\ MessageQueue' =
          [MessageQueue EXCEPT ![c] = Append(@, [nonce |-> nonce[c] + 1, payload |-> p])]
    /\ accepted' = [accepted EXCEPT ![c] = Append(@, p)]
    /\ UNCHANGED <<digest, blocks, heads, ethVars, pool, relayVars, events>>

\* The commitments of the queued messages go into the block's digest, and the
\* messages into the node's offchain storage.
commit ==
    /\ digest' = MessageQueue
    /\ MessageQueue' = [c \in Channel |-> <<>>]

\* Mutant: the queue is taken in every block and committed in some.
on_initializeTakesAlways(now) ==
    /\ digest' = IF now % Interval = 0 THEN MessageQueue ELSE [c \in Channel |-> <<>>]
    /\ MessageQueue' = [c \in Channel |-> <<>>]

on_initialize(now) ==
    IF now % Interval = 0
    THEN commit
    ELSE /\ digest' = [c \in Channel |-> <<>>]
         /\ UNCHANGED MessageQueue

\* A parachain block is finished and the next one begins.
ParaBlock ==
    /\ Len(blocks) < MaxParaBlock
    /\ blocks' = Append(blocks, [digest |-> digest, nonce |-> nonce])
    /\ on_initialize(Len(blocks) + 2)
    /\ UNCHANGED <<accepted, nonce, heads, ethVars, pool, relayVars, events>>

\* The relay chain makes a block, which includes at most one parachain block.
RelayBlock(included) ==
    LET head == IF heads = <<>> THEN 0 ELSE heads[Len(heads)]
    IN  /\ Len(heads) < MaxRelayBlock
        /\ head + included <= Len(blocks)
        /\ heads' = Append(heads, head + included)
        /\ UNCHANGED <<paraVars, ethVars, pool, relayVars, events>>

-----------------------------------------------------------------------------
(* Ethereum.                                                               *)

\* The messages behind the commitment of channel c in block n, from the offchain
\* storage of a parachain node.
GetDataForDigestItem(n, c) == blocks[n].digest[c]

\* The messages of a transaction.
Messages(tx) == GetDataForDigestItem(tx.block, tx.channel)

Payloads(msgs) == [i \in 1..Len(msgs) |-> msgs[i].payload]

\* subBeefyJustifications runs in relay r.
Subscribed(r) == listener[r].pc \in {"idle", "build", "emit"}

\* The light client accepts a root; the listeners that are subscribed hear of it.
NewMMRRoot(b) ==
    /\ b \in (latest + 1)..Len(heads)
    /\ latest' = b
    /\ events' = [r \in Relay |->
                     IF Subscribed(r) THEN Append(events[r], b) ELSE events[r]]
    /\ UNCHANGED <<paraVars, heads, inNonce, delivered, pool, relayVars>>

\* The proof of the transaction holds under latestMMRRoot.
verifyCommitmentInParachain(tx) == tx.root = latest

\* Mutant: messages need only be new.
ProcessSkipsGaps(tx) ==
    LET msgs == Messages(tx)
    IN  \A i \in DOMAIN msgs : msgs[i].nonce > inNonce[tx.channel]

\* Mutant: the nonces are not looked at.
ProcessIgnoresNonce(tx) == TRUE

\* Every message has the next nonce.
processMessages(tx) ==
    LET msgs == Messages(tx)
    IN  \A i \in DOMAIN msgs : msgs[i].nonce = inNonce[tx.channel] + i

\* The first transaction of a relay's account is mined.  It delivers all of its
\* messages or it reverts.
Mine(r) ==
    /\ pool[r] # <<>>
    /\ LET tx == Head(pool[r])
           msgs == Messages(tx)
       IN  IF verifyCommitmentInParachain(tx) /\ processMessages(tx)
           THEN /\ inNonce' = [inNonce EXCEPT ![tx.channel] = @ + Len(msgs)]
                /\ delivered' = [delivered EXCEPT ![tx.channel] = @ \o Payloads(msgs)]
           ELSE UNCHANGED <<inNonce, delivered>>
    /\ pool' = [pool EXCEPT ![r] = Tail(@)]
    /\ UNCHANGED <<paraVars, heads, latest, relayVars, events>>

\* The nonces of c that a node may report for its pending state: some of the
\* transactions that are still valid count as executed.
PendingNonces(c) ==
    LET Covers(n) == \E r \in Relay : \E i \in DOMAIN pool[r] :
                        LET tx == pool[r][i]
                        IN  /\ verifyCommitmentInParachain(tx) /\ tx.channel = c
                            /\ \E j \in DOMAIN Messages(tx) : Messages(tx)[j].nonce = n
    IN  {n \in inNonce[c]..nonce[c] : \A k \in (inNonce[c] + 1)..n : Covers(k)}

-----------------------------------------------------------------------------
(* The parachain relay.                                                    *)

\* The parachain block that is the head at relay chain block root.
FetchFinalizedParaHead(root) == IF root = 0 THEN 0 ELSE heads[root]

\* checkBasicMessageNonces, checkIncentivizedMessageNonces.
isRelayed(n, c, toFind) ==
    LET msgs == GetDataForDigestItem(n, c)
    IN  \E i \in DOMAIN msgs : msgs[i].nonce <= toFind

\* Mutant: the search ends when the nonce of one channel has been found.
LostUntilFirstFound(last, toFind) ==
    {pkg \in (1..last) \X Channel :
        /\ GetDataForDigestItem(pkg[1], pkg[2]) # <<>>
        /\ ~ isRelayed(pkg[1], pkg[2], toFind[pkg[2]])
        /\ \A k \in (pkg[1] + 1)..last, c \in Channel : ~ isRelayed(k, c, toFind[c])}

\* The search goes back from block last, and for each channel it ends at the
\* first block that has a message of that channel which is relayed.
searchForLostCommitments(last, toFind) ==
    {pkg \in (1..last) \X Channel :
        /\ GetDataForDigestItem(pkg[1], pkg[2]) # <<>>
        /\ \A k \in pkg[1]..last : ~ isRelayed(k, pkg[2], toFind[pkg[2]])}

\* Mutant: the blocks stay in the order in which the search has found them.
NewestFirst(lost) ==
    {s \in [1..Cardinality(lost) -> lost] :
        \A i, j \in 1..Cardinality(lost) : i < j => s[i] # s[j] /\ s[i][1] >= s[j][1]}

\* The lost commitments, oldest block first.
InOrder(lost) ==
    {s \in [1..Cardinality(lost) -> lost] :
        \A i, j \in 1..Cardinality(lost) : i < j => s[i] # s[j] /\ s[i][1] <= s[j][1]}

\* The MMR of relay chain block root has a leaf for block i.  The leaf has the
\* parachain heads of block i - 1.
GetMMRLeafForBlock(i, root) == i <= root

\* Every lost commitment has its proof: parachain block n is looked up in the
\* newest relay chain block that has it as head, and proved by the leaf after.
parablocksWithProofs(lost, root) ==
    \A pkg \in lost :
        \E i \in 1..root :
            /\ heads[i] = pkg[1]
            /\ \A j \in (i + 1)..root : heads[j] # pkg[1]
            /\ GetMMRLeafForBlock(i + 1, root)

\* Mutant: the proofs are under the root of the block after.
PackagesUnderNextRoot(s, root) ==
    [i \in DOMAIN s |-> [block |-> s[i][1], channel |-> s[i][2], root |-> root + 1]]

CreateMessagePackages(s, root) ==
    [i \in DOMAIN s |-> [block |-> s[i][1], channel |-> s[i][2], root |-> root]]

fetchLatestBeefyBlock == latest

\* Start reads the latest root, before it subscribes to new ones.
StartRelay(r) ==
    /\ listener[r].pc = "down"
    /\ listener' = [listener EXCEPT ![r] = [pc |-> "start", root |-> fetchLatestBeefyBlock,
                                               packages |-> <<>>]]
    /\ UNCHANGED <<paraVars, heads, ethVars, pool, channel, stops, events>>

\* The relay ends: an error of one task cancels the others, and what the listener
\* and the channel hold is gone.  Transactions already sent are not.
Ends(r) ==
    /\ listener' = [listener EXCEPT ![r] = Down]
    /\ channel' = [channel EXCEPT ![r] = <<>>]
    /\ events' = [events EXCEPT ![r] = <<>>]

\* buildMissedMessagePackages, with the nonces that the node reports.  An error
\* ends the relay when it starts; later the error is not looked at.
BuildPackages(r, toFind) ==
    /\ listener[r].pc \in {"start", "build"}
    /\ \A c \in Channel : toFind[c] \in PendingNonces(c)
    /\ LET root == listener[r].root
           last == FetchFinalizedParaHead(root)
           upToDate == last > 0 => toFind = blocks[last].nonce
           lost == IF upToDate THEN {} ELSE searchForLostCommitments(last, toFind)
           starting == listener[r].pc = "start"
       IN  IF parablocksWithProofs(lost, root)
           THEN \E s \in InOrder(lost) :
                   /\ listener' = [listener EXCEPT ![r].packages = CreateMessagePackages(s, root),
                                      ![r].pc = IF starting THEN "catchup" ELSE "emit"]
                   /\ UNCHANGED <<channel, events>>
           ELSE IF starting THEN Ends(r)
           ELSE /\ listener' = [listener EXCEPT ![r].pc = "idle"]
                /\ UNCHANGED <<channel, events>>
    /\ UNCHANGED <<paraVars, heads, ethVars, pool, stops>>

\* emitMessagePackages: the channel has room for one package.
Emit(r) ==
    /\ listener[r].pc \in {"catchup", "emit"}
    /\ listener[r].packages # <<>>
    /\ channel[r] = <<>>
    /\ channel' = [channel EXCEPT ![r] = <<Head(listener[r].packages)>>]
    /\ listener' = [listener EXCEPT ![r].packages = Tail(@)]
    /\ UNCHANGED <<paraVars, heads, ethVars, pool, stops, events>>

\* All packages are emitted; after the first search the listener subscribes.
Emitted(r) ==
    /\ listener[r].pc \in {"catchup", "emit"}
    /\ listener[r].packages = <<>>
    /\ listener' = [listener EXCEPT ![r].pc = "idle"]
    /\ UNCHANGED <<paraVars, heads, ethVars, pool, channel, stops, events>>

\* processBeefyLightClientEvents takes up the next root.
Witness(r) ==
    /\ listener[r].pc = "idle"
    /\ events[r] # <<>>
    /\ listener' = [listener EXCEPT ![r].pc = "build", ![r].root = Head(events[r])]
    /\ events' = [events EXCEPT ![r] = Tail(@)]
    /\ UNCHANGED <<paraVars, heads, ethVars, pool, channel, stops>>

\* The writer submits a package.  With a gas limit in the configuration the
\* transaction is sent even if it is going to revert.
WriteChannel(r) ==
    /\ channel[r] # <<>>
    /\ pool' = [pool EXCEPT ![r] = Append(@, Head(channel[r]))]
    /\ channel' = [channel EXCEPT ![r] = <<>>]
    /\ UNCHANGED <<paraVars, heads, ethVars, listener, stops, events>>

\* A connection fails and the relay ends.
Stop(r) ==
    /\ listener[r].pc # "down"
    /\ stops[r] < MaxStops
    /\ stops' = [stops EXCEPT ![r] = @ + 1]
    /\ Ends(r)
    /\ UNCHANGED <<paraVars, heads, ethVars, pool>>

RelayStep(r) ==
    \/ StartRelay(r)
    \/ \E toFind \in [Channel -> 0..MaxNonce] : BuildPackages(r, toFind)
    \/ Emit(r)
    \/ Emitted(r)
    \/ Witness(r)
    \/ WriteChannel(r)

Next ==
    \/ \E c \in Channel, p \in Payload : submit(c, p)
    \/ ParaBlock
    \/ \E included \in 0..1 : RelayBlock(included)
    \/ \E b \in 1..MaxRelayBlock : NewMMRRoot(b)
    \/ \E r \in Relay : Mine(r)
    \/ \E r \in Relay : RelayStep(r)
    \/ \E r \in Relay : Stop(r)

Spec == Init /\ [][Next]_vars

\* A relay that is down is started again and its tasks run; Ethereum mines what
\* is in the pool.
FairSpec == Spec /\ \A r \in Relay : WF_vars(RelayStep(r)) /\ WF_vars(Mine(r))

-----------------------------------------------------------------------------
(* Properties.                                                             *)

Message == [nonce : 1..MaxNonce, payload : Payload]
Package == [block : 1..MaxParaBlock, channel : Channel, root : 1..MaxRelayBlock]

\* All state keeps its shape; a package and a transaction name a parachain block
\* and a root of relay chain blocks within the bounds, and the contract's nonce
\* never passes the last one that the pallet can give.
TypeOK ==
    /\ accepted \in [Channel -> Seq(Payload)]
    /\ nonce \in [Channel -> 0..MaxNonce]
    /\ MessageQueue \in [Channel -> Seq(Message)]
    /\ digest \in [Channel -> Seq(Message)]
    /\ blocks \in Seq([digest : [Channel -> Seq(Message)], nonce : [Channel -> 0..MaxNonce]])
    /\ heads \in Seq(0..MaxParaBlock)
    /\ Len(blocks) <= MaxParaBlock /\ Len(heads) <= MaxRelayBlock
    /\ latest \in 0..Len(heads)
    /\ inNonce \in [Channel -> 0..MaxNonce]
    /\ delivered \in [Channel -> Seq(Payload)]
    /\ pool \in [Relay -> Seq(Package)]
    /\ listener \in [Relay -> [pc : {"down", "start", "catchup", "idle", "build", "emit"},
                               root : 0..MaxRelayBlock, packages : Seq(Package)]]
    /\ events \in [Relay -> Seq(1..MaxRelayBlock)]
    /\ channel \in [Relay -> Seq(Package)]
    /\ stops \in [Relay -> 0..MaxStops]

\* Each channel hands the accepted messages to their targets once and in order,
\* whatever the relays repeat, lose or send out of order, and whatever proofs
\* have expired: the pipeline implements MessageDelivery.
Delivery == INSTANCE MessageDelivery WITH sent <- accepted
DeliversInOrder == Delivery!Spec

\* The places of the parachain that hold message k of channel c: a block, the
\* block being built (0) or the queue (-1).
Places(c, k) ==
    LET In(s) == \E i \in DOMAIN s : s[i] = [nonce |-> k, payload |-> accepted[c][k]]
    IN  {n \in DOMAIN blocks : In(blocks[n].digest[c])}
            \cup {n \in {0} : In(digest[c])} \cup {n \in {-1} : In(MessageQueue[c])}

\* Every accepted message is in exactly one commitment or still in the queue:
\* commit takes the queue as a whole, and only in the blocks where it commits.
CommittedOnce ==
    \A c \in Channel : \A k \in 1..nonce[c] : Cardinality(Places(c, k)) = 1

\* Under every root and in every state of the two channels the search finds
\* exactly the commitments that Ethereum has not seen, though it ends for each
\* channel as soon as it meets a relayed message.
SearchFindsAllMissed ==
    \A root \in 1..latest :
        searchForLostCommitments(FetchFinalizedParaHead(root), inNonce) =
            {pkg \in (1..FetchFinalizedParaHead(root)) \X Channel :
                \E i \in DOMAIN blocks[pkg[1]].digest[pkg[2]] :
                    blocks[pkg[1]].digest[pkg[2]][i].nonce > inNonce[pkg[2]]}

-----------------------------------------------------------------------------
(* The inductive invariant behind DeliversInOrder.                         *)

\* s holds messages from the accepted payloads a, each with its own nonce.
GenuineMessages(a, s) ==
    \A i \in DOMAIN s : s[i].nonce <= Len(a) /\ s[i].payload = a[s[i].nonce]

Genuine ==
    \A c \in Channel :
        /\ nonce[c] = Len(accepted[c])
        /\ GenuineMessages(accepted[c], MessageQueue[c])
        /\ GenuineMessages(accepted[c], digest[c])
        /\ \A n \in DOMAIN blocks : GenuineMessages(accepted[c], blocks[n].digest[c])

\* The packages in s are for the first n blocks.
Existing(s, n) == \A i \in DOMAIN s : s[i].block <= n

Known ==
    /\ \A i \in DOMAIN heads : heads[i] <= Len(blocks)
    /\ \A r \in Relay :
          /\ listener[r].root <= Len(heads)
          /\ \A i \in DOMAIN events[r] : events[r][i] <= Len(heads)
          /\ Existing(pool[r], Len(blocks))
          /\ Existing(channel[r], Len(blocks))
          /\ Existing(listener[r].packages, Len(blocks))

\* What is delivered is what was accepted first.
DeliveredPrefix ==
    \A c \in Channel :
        /\ inNonce[c] <= Len(accepted[c])
        /\ Len(delivered[c]) = inNonce[c]
        /\ \A i \in 1..inNonce[c] : delivered[c][i] = accepted[c][i]

IInv == TypeOK /\ Genuine /\ Known /\ DeliveredPrefix

-----------------------------------------------------------------------------
(* Liveness, and a comment on the search.                                  *)

\* Relay r is about to look at the latest root.
WillSee(r) ==
    \/ listener[r].pc = "down"
    \/ listener[r].pc \in {"start", "build"} /\ listener[r].root = latest
    \/ \E i \in DOMAIN events[r] : events[r][i] = latest

\* Once a relay sees a root that stays the latest, and whose newest parachain
\* block has no commitment, all commitments before that block are delivered,
\* also if the relay stops and starts on the way.
MissedAreDelivered ==
    \A c \in Channel : \A k \in 1..MaxNonce :
        (/\ k <= nonce[c]
         /\ latest = MaxRelayBlock
         /\ FetchFinalizedParaHead(latest) > 0
         /\ \A d \in Channel : blocks[FetchFinalizedParaHead(latest)].digest[d] = <<>>
         /\ \E n \in 1..FetchFinalizedParaHead(latest) : n \in Places(c, k)
         /\ \E r \in Relay : WillSee(r))
        ~> (Len(delivered[c]) >= k)

\* Commitments before the given parachain block are relayed, as the comment on
\* buildMissedMessagePackages says: the search does not end in an error.
MissedAreRelayed ==
    \A r \in Relay :
        listener[r].pc \in {"start", "build"} =>
            LET root == listener[r].root
                lost == searchForLostCommitments(FetchFinalizedParaHead(root), inNonce)
            IN  (\E pkg \in lost : pkg[1] < FetchFinalizedParaHead(root))
                    => parablocksWithProofs(lost, root)
=============================================================================
