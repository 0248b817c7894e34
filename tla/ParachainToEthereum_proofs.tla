--------------------- MODULE ParachainToEthereum_proofs ---------------------
(***************************************************************************)
(* Proof that ParachainToEthereum implements MessageDelivery, for any      *)
(* number of relays, channels and payloads and any bounds.                 *)
(***************************************************************************)
EXTENDS ParachainToEthereum, SequenceTheorems, FiniteSetTheorems, TLAPS

\* The initial states satisfy the invariant.
LEMMA InitIInv == Init => IInv
<1>. SUFFICES ASSUME Init PROVE IInv
    OBVIOUS
<1>1. TypeOK
    BY Parameters DEF Init, TypeOK, Down
<1>2. Genuine
    BY DEF Init, Genuine, GenuineMessages
<1>3. Known
    BY DEF Init, Known, Existing, Down
<1>4. DeliveredPrefix
    BY DEF Init, DeliveredPrefix
<1>. QED
    BY <1>1, <1>2, <1>3, <1>4 DEF IInv

-----------------------------------------------------------------------------
(* The parachain and the relay chain.                                      *)

\* A finished block has the digest of each channel and its nonces.
LEMMA BlockTyped ==
    ASSUME NEW b \in Seq([digest : [Channel -> Seq(Message)], nonce : [Channel -> 0..MaxNonce]]),
           NEW n \in DOMAIN b, NEW c \in Channel
    PROVE  b[n].digest[c] \in Seq(Message) /\ b[n].nonce[c] \in 0..MaxNonce
<1>. DEFINE B == [digest : [Channel -> Seq(Message)], nonce : [Channel -> 0..MaxNonce]]
<1>1. b[n] \in B
    <2>. HIDE DEF B
    <2>1. b \in Seq(B)
        BY DEF B
    <2>. QED
        BY <2>1
<1>2. b[n].digest \in [Channel -> Seq(Message)] /\ b[n].nonce \in [Channel -> 0..MaxNonce]
    BY <1>1
<1>. QED
    BY <1>2

\* Packages name a block, a channel and a root.
LEMMA PackageTyped ==
    ASSUME NEW s \in Seq(Package), NEW i \in DOMAIN s
    PROVE  s[i] \in Package /\ s[i].block \in 1..MaxParaBlock /\ s[i].channel \in Channel
<1>1. s[i] \in Package
    OBVIOUS
<1>. QED
    BY <1>1 DEF Package

\* Taking the first package away leaves packages for blocks that exist.
LEMMA TailExisting ==
    ASSUME NEW s \in Seq(Package), s # <<>>, NEW n, Existing(s, n)
    PROVE  Tail(s) \in Seq(Package) /\ Existing(Tail(s), n)
<1>1. /\ Tail(s) \in Seq(Package) /\ Len(Tail(s)) = Len(s) - 1 /\ Len(s) \in Nat
      /\ DOMAIN Tail(s) = 1..Len(Tail(s)) /\ DOMAIN s = 1..Len(s)
      /\ \A i \in 1..Len(Tail(s)) : Tail(s)[i] = s[i + 1]
    BY HeadTailProperties, LenProperties
<1>2. \A i \in 1..Len(Tail(s)) : i + 1 \in 1..Len(s)
    BY <1>1
<1>. QED
    BY <1>1, <1>2 DEF Existing

\* A listener has a root and packages.
LEMMA ListenerTyped ==
    ASSUME IInv, NEW r \in Relay
    PROVE  /\ listener[r] \in [pc : {"down", "start", "catchup", "idle", "build", "emit"},
                               root : 0..MaxRelayBlock, packages : Seq(Package)]
           /\ listener[r].root \in 0..MaxRelayBlock
           /\ listener[r].packages \in Seq(Package)
           /\ listener[r].root <= Len(heads)
           /\ Existing(listener[r].packages, Len(blocks))
    BY DEF IInv, TypeOK, Known

\* The roots announced to a relay are roots of the relay chain.
LEMMA EventTyped ==
    ASSUME IInv, NEW r \in Relay, NEW i \in DOMAIN events[r]
    PROVE  events[r][i] \in 1..MaxRelayBlock /\ events[r][i] <= Len(heads)
<1>1. events[r] \in Seq(1..MaxRelayBlock)
    BY DEF IInv, TypeOK
<1>2. i \in 1..Len(events[r])
    BY <1>1
<1>. QED
    BY <1>1, <1>2, ElementOfSeq DEF IInv, Known

\* Messages stay genuine when submit accepts another payload.
LEMMA GenuineKept ==
    ASSUME NEW a \in Seq(Payload), NEW p \in Payload, NEW s \in Seq(Message),
           GenuineMessages(a, s)
    PROVE  GenuineMessages(Append(a, p), s)
<1>1. \A i \in DOMAIN s : s[i].nonce \in 1..MaxNonce
    <2>1. DOMAIN s = 1..Len(s) /\ \A i \in 1..Len(s) : s[i] \in Message
        BY ElementOfSeq
    <2>. QED
        BY <2>1 DEF Message
<1>2. /\ Len(a) \in Nat /\ Len(Append(a, p)) = Len(a) + 1
      /\ \A i \in 1..Len(a) : Append(a, p)[i] = a[i]
    OBVIOUS
<1>. QED
    BY <1>1, <1>2, Parameters DEF GenuineMessages

\* The message that submit appends to the queue is genuine too.
LEMMA GenuineAppended ==
    ASSUME NEW a \in Seq(Payload), NEW p \in Payload, NEW s \in Seq(Message),
           GenuineMessages(a, s), NEW m \in Message,
           m.nonce = Len(a) + 1, m.payload = p
    PROVE  GenuineMessages(Append(a, p), Append(s, m))
<1>1. GenuineMessages(Append(a, p), s)
    BY GenuineKept
<1>2. /\ Len(Append(a, p)) = Len(a) + 1
      /\ Append(a, p)[Len(a) + 1] = p
    OBVIOUS
<1>3. /\ DOMAIN Append(s, m) = 1..(Len(s) + 1) /\ DOMAIN s = 1..Len(s) /\ Len(s) \in Nat
      /\ \A i \in 1..Len(s) : Append(s, m)[i] = s[i]
      /\ Append(s, m)[Len(s) + 1] = m
    OBVIOUS
<1>4. ASSUME NEW i \in 1..(Len(s) + 1)
      PROVE  /\ Append(s, m)[i].nonce <= Len(Append(a, p))
             /\ Append(s, m)[i].payload = Append(a, p)[Append(s, m)[i].nonce]
    <2>1. CASE i \in 1..Len(s)
        BY <1>1, <1>3, <2>1 DEF GenuineMessages
    <2>2. CASE i = Len(s) + 1
        BY <1>2, <1>3, <2>2
    <2>3. i \in 1..Len(s) \/ i = Len(s) + 1
        BY <1>3
    <2>. QED
        BY <2>1, <2>2, <2>3
<1>. QED
    BY <1>3, <1>4 DEF GenuineMessages

\* submit appends to the queue the message that it appends to accepted.
LEMMA SubmitPreserves ==
    ASSUME IInv, NEW c \in Channel, NEW p \in Payload, submit(c, p)
    PROVE  IInv'
<1>. DEFINE m == [nonce |-> nonce[c] + 1, payload |-> p]
<1>1. /\ accepted \in [Channel -> Seq(Payload)]
      /\ nonce \in [Channel -> 0..MaxNonce]
      /\ MessageQueue \in [Channel -> Seq(Message)]
      /\ digest \in [Channel -> Seq(Message)]
      /\ blocks \in Seq([digest : [Channel -> Seq(Message)], nonce : [Channel -> 0..MaxNonce]])
    BY DEF IInv, TypeOK
<1>2. nonce[c] = Len(accepted[c]) /\ nonce[c] \in Nat /\ nonce[c] < MaxNonce
    BY <1>1, Parameters DEF IInv, Genuine, submit
<1>3. m \in Message
    BY <1>2, Parameters DEF Message
<1>4. /\ accepted' = [accepted EXCEPT ![c] = Append(accepted[c], p)]
      /\ MessageQueue' = [MessageQueue EXCEPT ![c] = Append(MessageQueue[c], m)]
      /\ nonce' = [nonce EXCEPT ![c] = nonce[c] + 1]
    BY DEF submit
<1>. HIDE DEF m
<1>5. UNCHANGED <<digest, blocks, heads, latest, inNonce, delivered, pool, listener,
                  channel, stops, events>>
    BY DEF submit, ethVars, relayVars
<1>6. accepted' \in [Channel -> Seq(Payload)]
    BY <1>1, <1>4
<1>7. nonce' \in [Channel -> 0..MaxNonce]
    BY <1>1, <1>2, <1>4, Parameters
<1>8. MessageQueue' \in [Channel -> Seq(Message)]
    BY <1>1, <1>3, <1>4
<1>9. TypeOK'
    BY <1>5, <1>6, <1>7, <1>8 DEF IInv, TypeOK
<1>10. ASSUME NEW d \in Channel
       PROVE  /\ nonce'[d] = Len(accepted'[d])
              /\ GenuineMessages(accepted'[d], MessageQueue'[d])
              /\ GenuineMessages(accepted'[d], digest[d])
              /\ \A n \in DOMAIN blocks : GenuineMessages(accepted'[d], blocks[n].digest[d])
    <2>0. /\ nonce[d] = Len(accepted[d])
          /\ GenuineMessages(accepted[d], MessageQueue[d])
          /\ GenuineMessages(accepted[d], digest[d])
          /\ \A n \in DOMAIN blocks : GenuineMessages(accepted[d], blocks[n].digest[d])
        BY DEF IInv, Genuine
    <2>1. CASE d = c
        <3>1. accepted'[c] = Append(accepted[c], p)
            BY <1>1, <1>4
        <3>2. nonce'[c] = nonce[c] + 1 /\ MessageQueue'[c] = Append(MessageQueue[c], m)
            BY <1>1, <1>4
        <3>3. accepted[c] \in Seq(Payload) /\ MessageQueue[c] \in Seq(Message)
              /\ digest[c] \in Seq(Message)
            BY <1>1
        <3>4. Len(accepted'[c]) = Len(accepted[c]) + 1
            BY <3>1, <3>3
        <3>5. m.nonce = Len(accepted[c]) + 1 /\ m.payload = p
            BY <1>2 DEF m
        <3>6. GenuineMessages(accepted'[c], MessageQueue'[c])
            BY <1>3, <2>0, <2>1, <3>1, <3>2, <3>3, <3>5, GenuineAppended
        <3>7. GenuineMessages(accepted'[c], digest[c])
            BY <2>0, <2>1, <3>1, <3>3, GenuineKept
        <3>8. ASSUME NEW n \in DOMAIN blocks
              PROVE  GenuineMessages(accepted'[c], blocks[n].digest[c])
            <4>1. blocks[n].digest[c] \in Seq(Message)
                BY <1>1, BlockTyped
            <4>. QED
                BY <2>0, <2>1, <3>1, <3>3, <4>1, GenuineKept
        <3>. QED
            BY <1>2, <2>1, <3>2, <3>4, <3>6, <3>7, <3>8
    <2>2. CASE d # c
        <3>1. accepted'[d] = accepted[d] /\ nonce'[d] = nonce[d]
              /\ MessageQueue'[d] = MessageQueue[d]
            BY <1>1, <1>4, <2>2
        <3>. QED
            BY <2>0, <3>1
    <2>. QED
        BY <2>1, <2>2
<1>11. Genuine'
    BY <1>5, <1>10 DEF Genuine
<1>12. Known'
    BY <1>5 DEF IInv, Known, Existing
<1>13. DeliveredPrefix'
    <2>1. ASSUME NEW d \in Channel
          PROVE  /\ inNonce[d] <= Len(accepted'[d])
                 /\ \A i \in 1..inNonce[d] : delivered[d][i] = accepted'[d][i]
        <3>1. /\ inNonce[d] <= Len(accepted[d])
              /\ \A i \in 1..inNonce[d] : delivered[d][i] = accepted[d][i]
              /\ inNonce[d] \in Nat /\ accepted[d] \in Seq(Payload)
            BY <1>1, Parameters DEF IInv, DeliveredPrefix, TypeOK
        <3>2. accepted'[d] = accepted[d] \/ accepted'[d] = Append(accepted[d], p)
            BY <1>1, <1>4
        <3>3. /\ Len(accepted'[d]) >= Len(accepted[d]) /\ Len(accepted'[d]) \in Nat
              /\ \A i \in 1..Len(accepted[d]) : accepted'[d][i] = accepted[d][i]
            BY <3>1, <3>2
        <3>. QED
            BY <3>1, <3>3
    <2>. QED
        BY <1>5, <2>1 DEF IInv, DeliveredPrefix
<1>. QED
    BY <1>9, <1>11, <1>12, <1>13 DEF IInv

\* A block has the digest that on_initialize made, so its messages are genuine.
LEMMA ParaBlockPreserves == IInv /\ ParaBlock => IInv'
<1>. SUFFICES ASSUME IInv, ParaBlock PROVE IInv'
    OBVIOUS
<1>. DEFINE B == [digest : [Channel -> Seq(Message)], nonce : [Channel -> 0..MaxNonce]]
            new == [digest |-> digest, nonce |-> nonce]
<1>1. /\ MessageQueue \in [Channel -> Seq(Message)]
      /\ digest \in [Channel -> Seq(Message)]
      /\ nonce \in [Channel -> 0..MaxNonce]
      /\ blocks \in Seq(B)
    BY DEF IInv, TypeOK
<1>0. new \in B /\ new.digest = digest
    BY <1>1
<1>2. blocks' = Append(blocks, new) /\ Len(blocks) < MaxParaBlock
    BY DEF ParaBlock
<1>. HIDE DEF B, new
<1>3. /\ blocks' \in Seq(B) /\ Len(blocks') = Len(blocks) + 1 /\ Len(blocks) \in Nat
      /\ DOMAIN blocks = 1..Len(blocks) /\ DOMAIN blocks' = 1..(Len(blocks) + 1)
      /\ \A n \in 1..Len(blocks) : blocks'[n] = blocks[n]
      /\ blocks'[Len(blocks) + 1] = new
    BY <1>0, <1>1, <1>2
<1>4. UNCHANGED <<accepted, nonce, heads, latest, inNonce, delivered, pool, listener,
                  channel, stops, events>>
    BY DEF ParaBlock, ethVars, relayVars
<1>5. /\ digest' \in {MessageQueue, [c \in Channel |-> <<>>]}
      /\ MessageQueue' \in {MessageQueue, [c \in Channel |-> <<>>]}
    BY DEF ParaBlock, on_initialize, commit
<1>6. MessageQueue' \in [Channel -> Seq(Message)] /\ digest' \in [Channel -> Seq(Message)]
    <2>1. [c \in Channel |-> <<>>] \in [Channel -> Seq(Message)]
        BY EmptySeq
    <2>. QED
        BY <1>1, <1>5, <2>1, Zenon
<1>7. TypeOK'
    <2>1. Len(blocks') <= MaxParaBlock
        BY <1>2, <1>3, Parameters
    <2>. QED
        BY <1>3, <1>4, <1>6, <2>1 DEF IInv, TypeOK, B
<1>8. Genuine'
    <2>1. ASSUME NEW c \in Channel
          PROVE  /\ GenuineMessages(accepted[c], MessageQueue'[c])
                 /\ GenuineMessages(accepted[c], digest'[c])
        BY <1>5 DEF IInv, Genuine, GenuineMessages
    <2>2. ASSUME NEW c \in Channel, NEW n \in DOMAIN blocks'
          PROVE  GenuineMessages(accepted[c], blocks'[n].digest[c])
        <3>1. CASE n \in 1..Len(blocks)
            BY <1>3, <3>1 DEF IInv, Genuine
        <3>2. CASE n = Len(blocks) + 1
            BY <1>0, <1>3, <3>2 DEF IInv, Genuine
        <3>3. n \in 1..Len(blocks) \/ n = Len(blocks) + 1
            BY <1>3
        <3>. QED
            BY <3>1, <3>2, <3>3
    <2>. QED
        BY <1>4, <2>1, <2>2 DEF IInv, Genuine
<1>9. Known'
    <2>1. ASSUME NEW x \in Int, x <= Len(blocks) PROVE x <= Len(blocks')
        BY <1>3, <2>1
    <2>2. \A i \in DOMAIN heads : heads[i] <= Len(blocks')
        <3>0. heads \in Seq(0..MaxParaBlock)
            BY DEF IInv, TypeOK
        <3>1. \A i \in DOMAIN heads : heads[i] \in 0..MaxParaBlock
            BY <3>0, ElementOfSeq, LenProperties
        <3>. QED
            BY <2>1, <3>1, Parameters DEF IInv, Known
    <2>3. ASSUME NEW s \in Seq(Package), Existing(s, Len(blocks))
          PROVE  Existing(s, Len(blocks'))
        <3>1. \A i \in DOMAIN s : s[i].block \in 1..MaxParaBlock
            BY PackageTyped
        <3>. QED
            BY <2>1, <2>3, <3>1, Parameters DEF Existing
    <2>4. ASSUME NEW r \in Relay
          PROVE  /\ pool[r] \in Seq(Package) /\ channel[r] \in Seq(Package)
                 /\ listener[r].packages \in Seq(Package)
        BY DEF IInv, TypeOK
    <2>5. ASSUME NEW r \in Relay
          PROVE  /\ Existing(pool[r], Len(blocks'))
                 /\ Existing(channel[r], Len(blocks'))
                 /\ Existing(listener[r].packages, Len(blocks'))
        BY <2>3, <2>4 DEF IInv, Known
    <2>. QED
        BY <1>4, <2>2, <2>5 DEF IInv, Known
<1>10. DeliveredPrefix'
    BY <1>4 DEF IInv, DeliveredPrefix
<1>. QED
    BY <1>7, <1>8, <1>9, <1>10 DEF IInv

\* The relay chain has parachain blocks that exist as its heads.
LEMMA RelayBlockPreserves ==
    ASSUME IInv, NEW included \in 0..1, RelayBlock(included)
    PROVE  IInv'
<1>. DEFINE head == IF heads = <<>> THEN 0 ELSE heads[Len(heads)]
<1>1. heads \in Seq(0..MaxParaBlock) /\ Len(blocks) \in Nat /\ Len(blocks) <= MaxParaBlock
    BY DEF IInv, TypeOK
<1>2. /\ Len(heads) < MaxRelayBlock /\ head + included <= Len(blocks)
      /\ heads' = Append(heads, head + included)
    BY DEF RelayBlock
<1>3. head \in 0..MaxParaBlock
    <2>1. CASE heads = <<>>
        BY <2>1, Parameters
    <2>2. CASE heads # <<>>
        <3>1. Len(heads) \in 1..Len(heads)
            BY <1>1, <2>2, EmptySeq
        <3>. QED
            BY <1>1, <2>2, <3>1, ElementOfSeq
    <2>. QED
        BY <2>1, <2>2
<1>. HIDE DEF head
<1>4. head + included \in 0..MaxParaBlock
    BY <1>1, <1>2, <1>3, Parameters
<1>5. /\ heads' \in Seq(0..MaxParaBlock) /\ Len(heads') = Len(heads) + 1 /\ Len(heads) \in Nat
      /\ DOMAIN heads = 1..Len(heads) /\ DOMAIN heads' = 1..(Len(heads) + 1)
      /\ \A n \in 1..Len(heads) : heads'[n] = heads[n]
      /\ heads'[Len(heads) + 1] = head + included
    BY <1>1, <1>2, <1>4
<1>6. UNCHANGED <<accepted, nonce, MessageQueue, digest, blocks, latest, inNonce, delivered,
                  pool, listener, channel, stops, events>>
    BY DEF RelayBlock, paraVars, ethVars, relayVars
<1>7. TypeOK'
    <2>1. Len(heads') <= MaxRelayBlock /\ latest \in 0..Len(heads')
        BY <1>2, <1>5, Parameters DEF IInv, TypeOK
    <2>. QED
        BY <1>5, <1>6, <2>1 DEF IInv, TypeOK
<1>8. Known'
    <2>1. ASSUME NEW i \in DOMAIN heads' PROVE heads'[i] <= Len(blocks)
        <3>1. CASE i \in 1..Len(heads)
            BY <1>5, <3>1 DEF IInv, Known
        <3>2. CASE i = Len(heads) + 1
            BY <1>2, <1>5, <3>2
        <3>3. i \in 1..Len(heads) \/ i = Len(heads) + 1
            BY <1>5
        <3>. QED
            BY <3>1, <3>2, <3>3
    <2>2. ASSUME NEW r \in Relay
          PROVE  /\ listener[r].root <= Len(heads')
                 /\ \A i \in DOMAIN events[r] : events[r][i] <= Len(heads')
        <3>1. /\ listener[r].root \in 0..MaxRelayBlock
              /\ \A i \in DOMAIN events[r] : events[r][i] \in 1..MaxRelayBlock
            BY EventTyped, ListenerTyped
        <3>2. /\ listener[r].root <= Len(heads)
              /\ \A i \in DOMAIN events[r] : events[r][i] <= Len(heads)
            BY DEF IInv, Known
        <3>. QED
            BY <1>5, <3>1, <3>2, Parameters
    <2>. QED
        BY <1>6, <2>1, <2>2 DEF IInv, Known
<1>9. Genuine' /\ DeliveredPrefix'
    BY <1>6 DEF IInv, Genuine, DeliveredPrefix
<1>. QED
    BY <1>7, <1>8, <1>9 DEF IInv

-----------------------------------------------------------------------------
(* Ethereum.                                                               *)

\* A root that the light client accepts is announced to some of the relays.
LEMMA NewMMRRootPreserves ==
    ASSUME IInv, NEW b \in 1..MaxRelayBlock, NewMMRRoot(b)
    PROVE  IInv'
<1>1. UNCHANGED <<accepted, nonce, MessageQueue, digest, blocks, heads, inNonce, delivered,
                  pool, listener, channel, stops>>
    BY DEF NewMMRRoot, paraVars, relayVars
<1>2. b <= Len(heads) /\ latest' = b /\ Len(heads) \in Nat
    BY DEF NewMMRRoot, IInv, TypeOK
<1>3. /\ events' = [r \in Relay |-> events'[r]]
      /\ \A r \in Relay : events'[r] = events[r] \/ events'[r] = Append(events[r], b)
    BY DEF NewMMRRoot
<1>4. ASSUME NEW r \in Relay
      PROVE  /\ events'[r] \in Seq(1..MaxRelayBlock)
             /\ \A i \in DOMAIN events'[r] : events'[r][i] <= Len(heads)
    <2>1. events[r] \in Seq(1..MaxRelayBlock)
        BY DEF IInv, TypeOK
    <2>2. \A i \in DOMAIN events[r] : events[r][i] <= Len(heads)
        BY DEF IInv, Known
    <2>3. CASE events'[r] = events[r]
        BY <2>1, <2>2, <2>3
    <2>4. CASE events'[r] = Append(events[r], b)
        <3>1. /\ events'[r] \in Seq(1..MaxRelayBlock)
              /\ DOMAIN events'[r] = 1..(Len(events[r]) + 1) /\ DOMAIN events[r] = 1..Len(events[r])
              /\ \A i \in 1..Len(events[r]) : events'[r][i] = events[r][i]
              /\ events'[r][Len(events[r]) + 1] = b
              /\ Len(events[r]) \in Nat
            BY <2>1, <2>4
        <3>2. \A i \in 1..(Len(events[r]) + 1) : i \in 1..Len(events[r]) \/ i = Len(events[r]) + 1
            BY <3>1
        <3>. QED
            BY <1>2, <2>2, <3>1, <3>2
    <2>. QED
        BY <1>3, <2>3, <2>4
<1>5. TypeOK'
    <2>1. events' \in [Relay -> Seq(1..MaxRelayBlock)]
        BY <1>3, <1>4
    <2>. QED
        BY <1>1, <1>2, <2>1 DEF IInv, TypeOK
<1>6. Known'
    BY <1>1, <1>4 DEF IInv, Known
<1>7. Genuine' /\ DeliveredPrefix'
    BY <1>1 DEF IInv, Genuine, DeliveredPrefix
<1>. QED
    BY <1>5, <1>6, <1>7 DEF IInv

\* e is a prefix of a.
PrefixOf(e, a) ==
    e \in Seq(Payload) /\ Len(e) <= Len(a) /\ \A i \in 1..Len(e) : e[i] = a[i]

\* d is a prefix of a, and s holds the messages of a that come next.
NextMessages(a, d, s) ==
    /\ a \in Seq(Payload) /\ PrefixOf(d, a)
    /\ s \in Seq(Message) /\ GenuineMessages(a, s)
    /\ \A i \in DOMAIN s : s[i].nonce = Len(d) + i

\* Messages that have the next nonces, and are genuine, continue the prefix that
\* the inbound channel has delivered.
LEMMA Continues ==
    ASSUME NEW a, NEW d, NEW s, NextMessages(a, d, s)
    PROVE  PrefixOf(d \o Payloads(s), a) /\ Len(d \o Payloads(s)) = Len(d) + Len(s)
<1>. DEFINE q == Payloads(s)
            e == d \o q
<1>. USE DEF NextMessages, PrefixOf
<1>1. Len(a) \in Nat /\ Len(d) \in Nat /\ Len(s) \in Nat /\ DOMAIN s = 1..Len(s)
    OBVIOUS
<1>2. \A i \in 1..Len(s) : s[i].payload \in Payload
    <2>1. \A i \in 1..Len(s) : s[i] \in Message
        BY ElementOfSeq
    <2>. QED
        BY <2>1 DEF Message
<1>3. \A i \in 1..Len(s) : Len(d) + i <= Len(a) /\ s[i].payload = a[Len(d) + i]
    BY <1>1 DEF GenuineMessages
<1>4. q \in Seq(Payload) /\ Len(q) = Len(s) /\ \A i \in 1..Len(s) : q[i] = s[i].payload
    <2>1. q \in [1..Len(s) -> Payload]
        BY <1>2 DEF Payloads
    <2>2. \A i \in 1..Len(s) : q[i] = s[i].payload
        BY DEF Payloads
    <2>. HIDE DEF q
    <2>3. q \in Seq(Payload) /\ Len(q) = Len(s)
        BY <1>1, <2>1
    <2>. QED
        BY <2>2, <2>3
<1>. HIDE DEF q, e
<1>5. /\ e \in Seq(Payload) /\ Len(e) = Len(d) + Len(s)
      /\ \A i \in 1..(Len(d) + Len(s)) : e[i] = IF i <= Len(d) THEN d[i] ELSE q[i - Len(d)]
    <2>1. d \in Seq(Payload)
        OBVIOUS
    <2>2. /\ d \o q \in Seq(Payload) /\ Len(d \o q) = Len(d) + Len(q)
          /\ \A i \in 1..Len(d) + Len(q) :
                (d \o q)[i] = IF i <= Len(d) THEN d[i] ELSE q[i - Len(d)]
        <3>1. q \in Seq(Payload)
            BY <1>4
        <3>. HIDE DEF NextMessages, PrefixOf
        <3>. QED
            BY ONLY <2>1, <3>1, ConcatProperties, Zenon
    <2>. QED
        BY <1>4, <2>2, Zenon DEF e
<1>6. Len(e) <= Len(a)
    <2>1. CASE Len(s) = 0
        BY <1>1, <1>5, <2>1
    <2>2. CASE Len(s) # 0
        <3>1. Len(s) \in 1..Len(s)
            BY <1>1, <2>2
        <3>. QED
            BY <1>3, <1>5, <3>1
    <2>. QED
        BY <2>1, <2>2
<1>7. ASSUME NEW i \in 1..Len(e) PROVE e[i] = a[i]
    <2>1. CASE i <= Len(d)
        BY <1>1, <1>5, <2>1
    <2>2. CASE i > Len(d)
        <3>1. i - Len(d) \in 1..Len(s)
            BY <1>1, <1>5, <2>2
        <3>2. e[i] = q[i - Len(d)]
            <4>1. i \in 1..(Len(d) + Len(s)) /\ ~ (i <= Len(d))
                BY <1>1, <1>5, <2>2
            <4>. QED
                BY <1>5, <4>1, Zenon
        <3>3. q[i - Len(d)] = s[i - Len(d)].payload
            BY <1>4, <3>1
        <3>4. s[i - Len(d)].payload = a[Len(d) + (i - Len(d))]
            BY <1>3, <3>1
        <3>5. Len(d) + (i - Len(d)) = i
            BY <1>1, <1>5
        <3>. QED
            BY <3>2, <3>3, <3>4, <3>5
    <2>. QED
        BY <1>1, <1>5, <2>1, <2>2
<1>. QED
    BY <1>5, <1>6, <1>7 DEF PrefixOf, e, q

\* What mining a transaction does to the inbound channels: nothing, or it
\* extends the delivered prefix of one of them.
LEMMA MineDelivers ==
    ASSUME IInv, NEW r \in Relay, Mine(r)
    PROVE  \/ UNCHANGED <<inNonce, delivered>>
           \/ \E c \in Channel, e \in Seq(Payload) :
                 /\ delivered' = [delivered EXCEPT ![c] = e]
                 /\ inNonce' = [inNonce EXCEPT ![c] = Len(e)]
                 /\ inNonce[c] <= Len(e) /\ PrefixOf(e, accepted[c])
<1>. DEFINE tx == Head(pool[r])
            c == tx.channel
            msgs == Messages(tx)
            e == delivered[c] \o Payloads(msgs)
<1>1. tx \in Package /\ tx.block \in 1..Len(blocks) /\ c \in Channel
    <2>1. pool[r] \in Seq(Package) /\ pool[r] # <<>> /\ Len(blocks) \in Nat
        <3>1. pool \in [Relay -> Seq(Package)] /\ Len(blocks) \in Nat
            BY DEF IInv, TypeOK
        <3>2. pool[r] # <<>>
            BY DEF Mine
        <3>. QED
            BY <3>1, <3>2
    <2>2. tx = pool[r][1] /\ 1 \in DOMAIN pool[r]
        BY <2>1
    <2>3. tx.block <= Len(blocks)
        BY <2>2 DEF IInv, Known, Existing
    <2>4. tx \in Package /\ tx.block \in 1..MaxParaBlock /\ tx.channel \in Channel
        BY <2>1, <2>2, PackageTyped
    <2>. QED
        BY <2>1, <2>3, <2>4, Parameters
<1>2. msgs \in Seq(Message) /\ GenuineMessages(accepted[c], msgs)
    <2>1. blocks \in Seq([digest : [Channel -> Seq(Message)], nonce : [Channel -> 0..MaxNonce]])
        BY DEF IInv, TypeOK
    <2>2. tx.block \in DOMAIN blocks
        BY <1>1, <2>1
    <2>3. msgs = blocks[tx.block].digest[c]
        BY DEF Messages, GetDataForDigestItem
    <2>4. GenuineMessages(accepted[c], blocks[tx.block].digest[c])
        BY <1>1, <2>2 DEF IInv, Genuine
    <2>. QED
        BY <1>1, <2>1, <2>2, <2>3, <2>4, BlockTyped
<1>3. /\ delivered \in [Channel -> Seq(Payload)] /\ accepted[c] \in Seq(Payload)
      /\ delivered[c] \in Seq(Payload) /\ Len(delivered[c]) = inNonce[c]
      /\ inNonce[c] <= Len(accepted[c])
      /\ \A i \in 1..inNonce[c] : delivered[c][i] = accepted[c][i]
    BY <1>1 DEF IInv, TypeOK, DeliveredPrefix
<1>4. CASE ~ (verifyCommitmentInParachain(tx) /\ processMessages(tx))
    BY <1>4 DEF Mine
<1>5. CASE verifyCommitmentInParachain(tx) /\ processMessages(tx)
    <2>1. \A i \in DOMAIN msgs : msgs[i].nonce = Len(delivered[c]) + i
        BY <1>3, <1>5 DEF processMessages
    <2>2. /\ delivered' = [delivered EXCEPT ![c] = e]
          /\ inNonce' = [inNonce EXCEPT ![c] = inNonce[c] + Len(msgs)]
        BY <1>5 DEF Mine
    <2>. HIDE DEF msgs, c
    <2>3. PrefixOf(e, accepted[c]) /\ Len(e) = Len(delivered[c]) + Len(msgs)
        <3>1. PrefixOf(delivered[c], accepted[c])
            BY <1>3 DEF PrefixOf
        <3>2. NextMessages(accepted[c], delivered[c], msgs)
            BY <1>2, <1>3, <2>1, <3>1 DEF NextMessages
        <3>. QED
            BY <3>2, Continues
    <2>. HIDE DEF e
    <2>4. inNonce[c] <= Len(e) /\ inNonce' = [inNonce EXCEPT ![c] = Len(e)]
        <3>1. Len(msgs) \in Nat /\ Len(delivered[c]) \in Nat
            BY <1>2, <1>3
        <3>. QED
            BY <1>3, <2>2, <2>3, <3>1
    <2>5. e \in Seq(Payload) /\ PrefixOf(e, accepted[c])
        BY <2>3 DEF PrefixOf
    <2>6. delivered' = [delivered EXCEPT ![c] = e]
        BY <2>2
    <2>. QED
        BY <1>1, <2>4, <2>5, <2>6, Zenon
<1>. QED
    BY <1>4, <1>5

\* Mine preserves the invariant.
LEMMA MinePreserves ==
    ASSUME IInv, NEW r \in Relay, Mine(r)
    PROVE  IInv'
<1>1. UNCHANGED <<accepted, nonce, MessageQueue, digest, blocks, heads, latest,
                  listener, channel, stops, events>>
    BY DEF Mine, paraVars, relayVars
<1>2. pool[r] \in Seq(Package) /\ pool[r] # <<>> /\ pool \in [Relay -> Seq(Package)]
    BY DEF Mine, IInv, TypeOK
<1>3. pool' = [pool EXCEPT ![r] = Tail(pool[r])]
    BY DEF Mine
<1>4. Tail(pool[r]) \in Seq(Package) /\ Existing(Tail(pool[r]), Len(blocks))
    BY <1>2, TailExisting DEF IInv, Known
<1>5. /\ inNonce' \in [Channel -> 0..MaxNonce] /\ delivered' \in [Channel -> Seq(Payload)]
      /\ DeliveredPrefix'
    <2>0. /\ inNonce \in [Channel -> 0..MaxNonce] /\ delivered \in [Channel -> Seq(Payload)]
          /\ nonce \in [Channel -> 0..MaxNonce] /\ accepted \in [Channel -> Seq(Payload)]
          /\ DeliveredPrefix
        BY DEF IInv, TypeOK
    <2>1. CASE UNCHANGED <<inNonce, delivered>>
        BY <1>1, <2>0, <2>1 DEF DeliveredPrefix
    <2>2. ASSUME NEW c \in Channel, NEW e \in Seq(Payload),
                 delivered' = [delivered EXCEPT ![c] = e],
                 inNonce' = [inNonce EXCEPT ![c] = Len(e)],
                 PrefixOf(e, accepted[c])
          PROVE  /\ inNonce' \in [Channel -> 0..MaxNonce] /\ delivered' \in [Channel -> Seq(Payload)]
                 /\ DeliveredPrefix'
        <3>1. Len(e) \in 0..MaxNonce
            BY <2>0, <2>2, Parameters DEF IInv, Genuine, PrefixOf
        <3>2. inNonce' \in [Channel -> 0..MaxNonce] /\ delivered' \in [Channel -> Seq(Payload)]
            BY <2>0, <2>2, <3>1
        <3>3. ASSUME NEW d \in Channel
              PROVE  /\ inNonce'[d] <= Len(accepted[d])
                     /\ Len(delivered'[d]) = inNonce'[d]
                     /\ \A i \in 1..inNonce'[d] : delivered'[d][i] = accepted[d][i]
            <4>1. CASE d = c
                <5>1. inNonce'[d] = Len(e) /\ delivered'[d] = e
                    BY <2>0, <2>2, <4>1
                <5>. QED
                    BY <2>2, <4>1, <5>1 DEF PrefixOf
            <4>2. CASE d # c
                <5>1. inNonce'[d] = inNonce[d] /\ delivered'[d] = delivered[d]
                    BY <2>0, <2>2, <4>2
                <5>. QED
                    BY <2>0, <5>1 DEF DeliveredPrefix
            <4>. QED
                BY <4>1, <4>2
        <3>. QED
            BY <1>1, <3>2, <3>3 DEF DeliveredPrefix
    <2>. QED
        BY <2>1, <2>2, MineDelivers
<1>6. TypeOK'
    <2>1. pool' \in [Relay -> Seq(Package)]
        BY <1>2, <1>3, <1>4
    <2>. QED
        BY <1>1, <1>5, <2>1 DEF IInv, TypeOK
<1>7. Known'
    <2>1. \A q \in Relay : Existing(pool'[q], Len(blocks))
        BY <1>2, <1>3, <1>4 DEF IInv, Known
    <2>. QED
        BY <1>1, <2>1 DEF IInv, Known
<1>8. Genuine'
    BY <1>1 DEF IInv, Genuine
<1>. QED
    BY <1>5, <1>6, <1>7, <1>8 DEF IInv

-----------------------------------------------------------------------------
(* The parachain relay.                                                    *)

ListenerState == [pc : {"down", "start", "catchup", "idle", "build", "emit"},
                  root : 0..MaxRelayBlock, packages : Seq(Package)]

\* Packages for blocks that exist.
Good(s) == s \in Seq(Package) /\ Existing(s, Len(blocks))

\* Roots of the relay chain.
GoodEvents(e) == e \in Seq(1..MaxRelayBlock) /\ \A i \in DOMAIN e : e[i] <= Len(heads)

\* A step of one relay preserves the invariant if what it leaves behind is good.
LEMMA RelayFrame ==
    ASSUME IInv, NEW r \in Relay,
           UNCHANGED <<paraVars, heads, ethVars>>,
           NEW l \in ListenerState, listener' = [listener EXCEPT ![r] = l],
           l.root <= Len(heads), Good(l.packages),
           NEW e, events' = [events EXCEPT ![r] = e], GoodEvents(e),
           NEW p, pool' = [pool EXCEPT ![r] = p], Good(p),
           NEW ch, channel' = [channel EXCEPT ![r] = ch], Good(ch),
           NEW n \in 0..MaxStops, stops' = [stops EXCEPT ![r] = n]
    PROVE  IInv'
<1>1. UNCHANGED <<accepted, nonce, MessageQueue, digest, blocks, heads, latest, inNonce, delivered>>
    BY DEF paraVars, ethVars
<1>2. /\ listener \in [Relay -> ListenerState] /\ events \in [Relay -> Seq(1..MaxRelayBlock)]
      /\ pool \in [Relay -> Seq(Package)] /\ channel \in [Relay -> Seq(Package)]
      /\ stops \in [Relay -> 0..MaxStops]
    BY DEF IInv, TypeOK, ListenerState
<1>3. /\ listener' \in [Relay -> ListenerState] /\ events' \in [Relay -> Seq(1..MaxRelayBlock)]
      /\ pool' \in [Relay -> Seq(Package)] /\ channel' \in [Relay -> Seq(Package)]
      /\ stops' \in [Relay -> 0..MaxStops]
    BY <1>2 DEF Good, GoodEvents
<1>4. TypeOK'
    BY <1>1, <1>3 DEF IInv, TypeOK, ListenerState
<1>5. ASSUME NEW q \in Relay
      PROVE  /\ listener'[q].root <= Len(heads)
             /\ \A i \in DOMAIN events'[q] : events'[q][i] <= Len(heads)
             /\ Existing(pool'[q], Len(blocks))
             /\ Existing(channel'[q], Len(blocks))
             /\ Existing(listener'[q].packages, Len(blocks))
    <2>1. CASE q = r
        <3>1. listener'[q] = l /\ events'[q] = e /\ pool'[q] = p /\ channel'[q] = ch
            BY <1>2, <2>1
        <3>. QED
            BY <3>1 DEF Good, GoodEvents
    <2>2. CASE q # r
        <3>1. /\ listener'[q] = listener[q] /\ events'[q] = events[q]
              /\ pool'[q] = pool[q] /\ channel'[q] = channel[q]
            BY <1>2, <2>2
        <3>. QED
            BY <3>1 DEF IInv, Known
    <2>. QED
        BY <2>1, <2>2
<1>6. Known'
    BY <1>1, <1>5 DEF IInv, Known
<1>7. Genuine' /\ DeliveredPrefix'
    BY <1>1 DEF IInv, Genuine, DeliveredPrefix
<1>. QED
    BY <1>4, <1>6, <1>7 DEF IInv

\* Roots stay roots of the relay chain when the first of them is taken.
LEMMA TailEvents ==
    ASSUME NEW s \in Seq(1..MaxRelayBlock), s # <<>>, NEW n, \A i \in DOMAIN s : s[i] <= n
    PROVE  Tail(s) \in Seq(1..MaxRelayBlock) /\ \A i \in DOMAIN Tail(s) : Tail(s)[i] <= n
<1>1. /\ Tail(s) \in Seq(1..MaxRelayBlock) /\ Len(Tail(s)) = Len(s) - 1 /\ Len(s) \in Nat
      /\ DOMAIN Tail(s) = 1..Len(Tail(s)) /\ DOMAIN s = 1..Len(s)
      /\ \A i \in 1..Len(Tail(s)) : Tail(s)[i] = s[i + 1]
    BY HeadTailProperties, LenProperties
<1>2. \A i \in 1..Len(Tail(s)) : i + 1 \in 1..Len(s)
    BY <1>1
<1>. QED
    BY <1>1, <1>2

\* What the invariant says of one relay.
LEMMA RelayGood ==
    ASSUME IInv, NEW r \in Relay
    PROVE  /\ listener \in [Relay -> ListenerState] /\ listener[r] \in ListenerState
           /\ listener[r].root <= Len(heads) /\ Good(listener[r].packages)
           /\ events = [events EXCEPT ![r] = events[r]] /\ GoodEvents(events[r])
           /\ pool = [pool EXCEPT ![r] = pool[r]] /\ Good(pool[r])
           /\ channel = [channel EXCEPT ![r] = channel[r]] /\ Good(channel[r])
           /\ stops = [stops EXCEPT ![r] = stops[r]] /\ stops[r] \in 0..MaxStops
<1>1. /\ listener \in [Relay -> ListenerState] /\ events \in [Relay -> Seq(1..MaxRelayBlock)]
      /\ pool \in [Relay -> Seq(Package)] /\ channel \in [Relay -> Seq(Package)]
      /\ stops \in [Relay -> 0..MaxStops]
    BY DEF IInv, TypeOK, ListenerState
<1>2. listener[r] \in ListenerState /\ stops[r] \in 0..MaxStops
    BY <1>1
<1>3. GoodEvents(events[r])
    BY <1>1 DEF GoodEvents, IInv, Known
<1>4. Good(pool[r]) /\ Good(channel[r])
    BY <1>1 DEF Good, IInv, Known
<1>5. listener[r].root <= Len(heads) /\ Good(listener[r].packages)
    BY <1>2 DEF Good, IInv, Known, ListenerState
<1>6. /\ events = [events EXCEPT ![r] = events[r]] /\ pool = [pool EXCEPT ![r] = pool[r]]
      /\ channel = [channel EXCEPT ![r] = channel[r]] /\ stops = [stops EXCEPT ![r] = stops[r]]
    BY <1>1
<1>. QED
    BY <1>1, <1>2, <1>3, <1>4, <1>5, <1>6

\* Nothing is good.
LEMMA EmptyGood == IInv => Good(<<>>) /\ GoodEvents(<<>>)
    BY EmptySeq DEF Good, GoodEvents, Existing

\* A relay that has ended holds nothing.
LEMMA DownGood == Down \in ListenerState /\ Down.root = 0 /\ Down.packages = <<>>
    BY EmptySeq, Parameters DEF Down, ListenerState

\* StartRelay takes up the latest root.
LEMMA StartPreserves ==
    ASSUME IInv, NEW r \in Relay, StartRelay(r)
    PROVE  IInv'
<1>. DEFINE l == [pc |-> "start", root |-> latest, packages |-> <<>>]
<1>1. latest \in 0..MaxRelayBlock /\ latest <= Len(heads)
    BY Parameters DEF IInv, TypeOK
<1>2. l \in ListenerState /\ l.root <= Len(heads) /\ Good(l.packages)
    BY <1>1, EmptySeq, EmptyGood DEF ListenerState
<1>3. listener' = [listener EXCEPT ![r] = l]
    BY DEF StartRelay, fetchLatestBeefyBlock
<1>4. UNCHANGED <<paraVars, heads, ethVars>> /\ UNCHANGED <<events, pool, channel, stops>>
    BY DEF StartRelay
<1>. HIDE DEF l
<1>5. /\ events' = [events EXCEPT ![r] = events[r]] /\ pool' = [pool EXCEPT ![r] = pool[r]]
      /\ channel' = [channel EXCEPT ![r] = channel[r]] /\ stops' = [stops EXCEPT ![r] = stops[r]]
    BY <1>4, RelayGood
<1>6. /\ GoodEvents(events[r]) /\ Good(pool[r]) /\ Good(channel[r]) /\ stops[r] \in 0..MaxStops
    BY RelayGood
<1>. QED
    BY <1>2, <1>3, <1>4, <1>5, <1>6, RelayFrame

\* emitMessagePackages hands the first package over.
LEMMA EmitPreserves ==
    ASSUME IInv, NEW r \in Relay, Emit(r)
    PROVE  IInv'
<1>. DEFINE l == [listener[r] EXCEPT !.packages = Tail(listener[r].packages)]
            ch == <<Head(listener[r].packages)>>
<1>1. /\ listener[r] \in ListenerState /\ listener[r].root <= Len(heads)
      /\ Good(listener[r].packages) /\ listener[r].packages # <<>>
    BY RelayGood DEF Emit
<1>2. listener[r].packages \in Seq(Package) /\ Existing(listener[r].packages, Len(blocks))
    BY <1>1 DEF Good
<1>3. Good(Tail(listener[r].packages))
    BY <1>1, <1>2, TailExisting DEF Good
<1>4. Good(ch)
    <2>1. /\ Head(listener[r].packages) = listener[r].packages[1]
          /\ 1 \in DOMAIN listener[r].packages
        BY <1>1, <1>2
    <2>2. ch[1] \in Package /\ ch[1].block <= Len(blocks)
        BY <1>2, <2>1, PackageTyped DEF Existing
    <2>3. ch \in Seq(Package) /\ DOMAIN ch = {1}
        BY <2>2
    <2>. QED
        BY <2>2, <2>3 DEF Good, Existing
<1>5. l \in ListenerState /\ l.root <= Len(heads) /\ Good(l.packages)
    BY <1>1, <1>3 DEF ListenerState, Good
<1>6. listener' = [listener EXCEPT ![r] = l] /\ channel' = [channel EXCEPT ![r] = ch]
    BY RelayGood DEF Emit
<1>7. UNCHANGED <<paraVars, heads, ethVars>> /\ UNCHANGED <<events, pool, stops>>
    BY DEF Emit
<1>. HIDE DEF l, ch
<1>8. /\ events' = [events EXCEPT ![r] = events[r]] /\ pool' = [pool EXCEPT ![r] = pool[r]]
      /\ stops' = [stops EXCEPT ![r] = stops[r]]
    BY <1>7, RelayGood
<1>9. GoodEvents(events[r]) /\ Good(pool[r]) /\ stops[r] \in 0..MaxStops
    BY RelayGood
<1>. QED
    BY <1>4, <1>5, <1>6, <1>7, <1>8, <1>9, RelayFrame

\* The listener waits for roots once its packages are emitted.
LEMMA EmittedPreserves ==
    ASSUME IInv, NEW r \in Relay, Emitted(r)
    PROVE  IInv'
<1>. DEFINE l == [listener[r] EXCEPT !.pc = "idle"]
<1>1. listener[r] \in ListenerState /\ listener[r].root <= Len(heads) /\ Good(listener[r].packages)
    BY RelayGood
<1>2. l \in ListenerState /\ l.root <= Len(heads) /\ Good(l.packages)
    BY <1>1 DEF ListenerState
<1>3. listener' = [listener EXCEPT ![r] = l]
    BY RelayGood DEF Emitted
<1>4. UNCHANGED <<paraVars, heads, ethVars>> /\ UNCHANGED <<events, pool, channel, stops>>
    BY DEF Emitted
<1>. HIDE DEF l
<1>5. /\ events' = [events EXCEPT ![r] = events[r]] /\ pool' = [pool EXCEPT ![r] = pool[r]]
      /\ channel' = [channel EXCEPT ![r] = channel[r]] /\ stops' = [stops EXCEPT ![r] = stops[r]]
    BY <1>4, RelayGood
<1>6. /\ GoodEvents(events[r]) /\ Good(pool[r]) /\ Good(channel[r]) /\ stops[r] \in 0..MaxStops
    BY RelayGood
<1>. QED
    BY <1>2, <1>3, <1>4, <1>5, <1>6, RelayFrame

\* The listener takes up the first root that was announced.
LEMMA WitnessPreserves ==
    ASSUME IInv, NEW r \in Relay, Witness(r)
    PROVE  IInv'
<1>. DEFINE l == [listener[r] EXCEPT !.pc = "build", !.root = Head(events[r])]
            e == Tail(events[r])
<1>1. listener[r] \in ListenerState /\ Good(listener[r].packages)
    BY RelayGood
<1>2. /\ events[r] \in Seq(1..MaxRelayBlock) /\ events[r] # <<>>
      /\ \A i \in DOMAIN events[r] : events[r][i] <= Len(heads)
    BY RelayGood DEF GoodEvents, Witness
<1>3. Head(events[r]) \in 0..MaxRelayBlock /\ Head(events[r]) <= Len(heads)
    <2>1. Head(events[r]) = events[r][1] /\ 1 \in DOMAIN events[r]
        BY <1>2
    <2>2. Head(events[r]) \in 1..MaxRelayBlock
        BY <1>2, HeadTailProperties
    <2>. QED
        BY <1>2, <2>1, <2>2, Parameters
<1>4. GoodEvents(e)
    BY <1>2, TailEvents DEF GoodEvents
<1>5. l \in ListenerState /\ l.root <= Len(heads) /\ Good(l.packages)
    BY <1>1, <1>3 DEF ListenerState
<1>6. listener' = [listener EXCEPT ![r] = l] /\ events' = [events EXCEPT ![r] = e]
    BY RelayGood DEF Witness
<1>7. UNCHANGED <<paraVars, heads, ethVars>> /\ UNCHANGED <<pool, channel, stops>>
    BY DEF Witness
<1>. HIDE DEF l, e
<1>8. /\ pool' = [pool EXCEPT ![r] = pool[r]] /\ channel' = [channel EXCEPT ![r] = channel[r]]
      /\ stops' = [stops EXCEPT ![r] = stops[r]]
    BY <1>7, RelayGood
<1>9. Good(pool[r]) /\ Good(channel[r]) /\ stops[r] \in 0..MaxStops
    BY RelayGood
<1>. QED
    BY <1>4, <1>5, <1>6, <1>7, <1>8, <1>9, RelayFrame

\* The writer sends the package of the channel.
LEMMA WritePreserves ==
    ASSUME IInv, NEW r \in Relay, WriteChannel(r)
    PROVE  IInv'
<1>. DEFINE p == Append(pool[r], Head(channel[r]))
<1>1. /\ channel[r] \in Seq(Package) /\ channel[r] # <<>> /\ Existing(channel[r], Len(blocks))
      /\ pool[r] \in Seq(Package) /\ Existing(pool[r], Len(blocks))
    BY RelayGood DEF Good, WriteChannel
<1>2. Head(channel[r]) \in Package /\ Head(channel[r]).block <= Len(blocks)
    <2>1. Head(channel[r]) = channel[r][1] /\ 1 \in DOMAIN channel[r]
        BY <1>1
    <2>. QED
        BY <1>1, <2>1, PackageTyped DEF Existing
<1>3. Good(p)
    <2>1. /\ p \in Seq(Package) /\ DOMAIN p = 1..(Len(pool[r]) + 1)
          /\ DOMAIN pool[r] = 1..Len(pool[r]) /\ Len(pool[r]) \in Nat
          /\ \A i \in 1..Len(pool[r]) : p[i] = pool[r][i]
          /\ p[Len(pool[r]) + 1] = Head(channel[r])
        BY <1>1, <1>2
    <2>2. \A i \in 1..(Len(pool[r]) + 1) : i \in 1..Len(pool[r]) \/ i = Len(pool[r]) + 1
        BY <2>1
    <2>3. \A i \in 1..(Len(pool[r]) + 1) : p[i].block <= Len(blocks)
        BY <1>1, <1>2, <2>1, <2>2 DEF Existing
    <2>. QED
        BY <2>1, <2>3 DEF Good, Existing
<1>4. pool' = [pool EXCEPT ![r] = p] /\ channel' = [channel EXCEPT ![r] = <<>>]
    BY RelayGood DEF WriteChannel
<1>5. UNCHANGED <<paraVars, heads, ethVars>> /\ UNCHANGED <<listener, stops, events>>
    BY DEF WriteChannel
<1>. HIDE DEF p
<1>6. /\ listener' = [listener EXCEPT ![r] = listener[r]]
      /\ events' = [events EXCEPT ![r] = events[r]] /\ stops' = [stops EXCEPT ![r] = stops[r]]
    BY <1>5, RelayGood
<1>7. /\ listener[r] \in ListenerState /\ listener[r].root <= Len(heads)
      /\ Good(listener[r].packages) /\ GoodEvents(events[r]) /\ stops[r] \in 0..MaxStops
      /\ Good(<<>>)
    BY RelayGood, EmptyGood
<1>. QED
    BY <1>3, <1>4, <1>5, <1>6, <1>7, RelayFrame

\* A relay that ends leaves nothing behind but its transactions.
LEMMA EndsPreserves ==
    ASSUME IInv, NEW r \in Relay, Ends(r), UNCHANGED <<paraVars, heads, ethVars, pool>>,
           NEW n \in 0..MaxStops, stops' = [stops EXCEPT ![r] = n]
    PROVE  IInv'
<1>1. /\ listener' = [listener EXCEPT ![r] = Down] /\ channel' = [channel EXCEPT ![r] = <<>>]
      /\ events' = [events EXCEPT ![r] = <<>>]
    BY DEF Ends
<1>2. Down \in ListenerState /\ Down.root <= Len(heads) /\ Good(Down.packages)
    <2>1. Len(heads) \in Nat
        BY DEF IInv, TypeOK
    <2>. QED
        BY <2>1, DownGood, EmptyGood
<1>3. pool' = [pool EXCEPT ![r] = pool[r]] /\ Good(pool[r]) /\ Good(<<>>) /\ GoodEvents(<<>>)
    BY RelayGood, EmptyGood
<1>4. UNCHANGED <<paraVars, heads, ethVars>>
    OBVIOUS
<1>. QED
    BY <1>1, <1>2, <1>3, <1>4, RelayFrame

\* A failed relay ends.
LEMMA StopPreserves ==
    ASSUME IInv, NEW r \in Relay, Stop(r)
    PROVE  IInv'
<1>1. stops[r] + 1 \in 0..MaxStops /\ stops' = [stops EXCEPT ![r] = stops[r] + 1]
    BY RelayGood, Parameters DEF Stop
<1>2. Ends(r) /\ UNCHANGED <<paraVars, heads, ethVars, pool>>
    BY DEF Stop
<1>. QED
    BY <1>1, <1>2, EndsPreserves

\* The search returns blocks up to the last one it looks at.
LEMMA LostTyped ==
    ASSUME NEW last \in Nat, NEW toFind, NEW lost,
           lost \in {{}, searchForLostCommitments(last, toFind)}
    PROVE  lost \subseteq (1..last) \X Channel /\ Cardinality(lost) \in Nat
<1>1. lost \subseteq (1..last) \X Channel
    BY DEF searchForLostCommitments
<1>2. IsFiniteSet((1..last) \X Channel)
    <2>1. IsFiniteSet(1..last)
        BY FS_Interval
    <2>. QED
        BY <2>1, FS_Product, Parameters
<1>3. IsFiniteSet(lost)
    BY <1>1, <1>2, FS_Subset
<1>. QED
    BY <1>1, <1>3, FS_CardinalityType

\* The packages built are for blocks that exist and under the root at hand.
LEMMA BuildPreserves ==
    ASSUME IInv, NEW r \in Relay, NEW toFind \in [Channel -> 0..MaxNonce], BuildPackages(r, toFind)
    PROVE  IInv'
<1>. DEFINE root == listener[r].root
            last == FetchFinalizedParaHead(root)
            upToDate == last > 0 => toFind = blocks[last].nonce
            lost == IF upToDate THEN {} ELSE searchForLostCommitments(last, toFind)
            starting == listener[r].pc = "start"
            Pkgs(s) == CreateMessagePackages(s, root)
<1>1. /\ listener[r] \in ListenerState /\ root \in 0..MaxRelayBlock /\ root <= Len(heads)
      /\ Good(listener[r].packages)
    BY RelayGood DEF ListenerState
<1>2. last \in 0..MaxParaBlock /\ last <= Len(blocks) /\ (last > 0 => root > 0)
    <2>1. heads \in Seq(0..MaxParaBlock) /\ Len(blocks) \in Nat
        BY DEF IInv, TypeOK
    <2>2. CASE root = 0
        BY <2>1, <2>2, Parameters DEF FetchFinalizedParaHead
    <2>3. CASE root # 0
        <3>1. root \in 1..Len(heads) /\ root \in DOMAIN heads /\ last = heads[root] /\ root > 0
            BY <1>1, <2>1, <2>3, Parameters DEF FetchFinalizedParaHead
        <3>. QED
            BY <2>1, <3>1, ElementOfSeq DEF IInv, Known
    <2>. QED
        BY <2>2, <2>3
<1>3. lost \subseteq (1..last) \X Channel /\ Cardinality(lost) \in Nat
    <2>1. lost \in {{}, searchForLostCommitments(last, toFind)} /\ last \in Nat
        BY <1>2, Parameters
    <2>. HIDE DEF lost, last
    <2>. QED
        BY <2>1, LostTyped
<1>4. UNCHANGED <<paraVars, heads, ethVars>> /\ UNCHANGED <<pool, stops>>
    BY DEF BuildPackages
<1>5. \/ \E s \in InOrder(lost) :
             /\ listener' = [listener EXCEPT ![r] = [listener[r] EXCEPT !.packages = Pkgs(s),
                                !.pc = IF starting THEN "catchup" ELSE "emit"]]
             /\ UNCHANGED <<channel, events>>
      \/ Ends(r)
      \/ /\ listener' = [listener EXCEPT ![r] = [listener[r] EXCEPT !.pc = "idle"]]
         /\ UNCHANGED <<channel, events>>
    BY RelayGood DEF BuildPackages
<1>6. /\ pool' = [pool EXCEPT ![r] = pool[r]] /\ stops' = [stops EXCEPT ![r] = stops[r]]
      /\ Good(pool[r]) /\ Good(channel[r]) /\ GoodEvents(events[r]) /\ stops[r] \in 0..MaxStops
      /\ channel = [channel EXCEPT ![r] = channel[r]] /\ events = [events EXCEPT ![r] = events[r]]
    BY <1>4, RelayGood
<1>7. ASSUME NEW s \in InOrder(lost) PROVE Good(Pkgs(s))
    <2>. HIDE DEF lost, last, root
    <2>1. s \in [1..Cardinality(lost) -> lost] /\ DOMAIN s = 1..Cardinality(lost)
        BY DEF InOrder
    <2>2. ASSUME NEW i \in DOMAIN s
          PROVE  /\ Pkgs(s)[i] \in Package /\ Pkgs(s)[i].block <= Len(blocks)
        <3>1. s[i][1] \in 1..last /\ s[i][2] \in Channel
            BY <1>3, <2>1
        <3>2. s[i][1] \in 1..MaxParaBlock /\ s[i][1] <= Len(blocks) /\ root \in 1..MaxRelayBlock
            <4>1. Len(blocks) \in Nat
                BY DEF IInv, TypeOK
            <4>2. root \in 0..MaxRelayBlock
                BY <1>1
            <4>. QED
                BY <1>2, <3>1, <4>1, <4>2, Parameters
        <3>. QED
            BY <3>1, <3>2 DEF Package, CreateMessagePackages
    <2>3. DOMAIN Pkgs(s) = 1..Cardinality(lost)
        BY <2>1 DEF CreateMessagePackages
    <2>4. Pkgs(s) \in [1..Cardinality(lost) -> Package]
        BY <2>1, <2>2 DEF CreateMessagePackages
    <2>. HIDE DEF Pkgs
    <2>5. Pkgs(s) \in Seq(Package)
        BY <1>3, <2>4
    <2>. QED
        BY <2>1, <2>2, <2>3, <2>5 DEF Good, Existing
<1>8. ASSUME NEW l \in ListenerState, l.root <= Len(heads), Good(l.packages),
             listener' = [listener EXCEPT ![r] = l], UNCHANGED <<channel, events>>
      PROVE  IInv'
    <2>1. channel' = [channel EXCEPT ![r] = channel[r]] /\ events' = [events EXCEPT ![r] = events[r]]
        BY <1>6, <1>8
    <2>. QED
        BY <1>4, <1>6, <1>8, <2>1, RelayFrame
<1>9. ASSUME NEW s \in InOrder(lost),
             listener' = [listener EXCEPT ![r] = [listener[r] EXCEPT !.packages = Pkgs(s),
                                !.pc = IF starting THEN "catchup" ELSE "emit"]],
             UNCHANGED <<channel, events>>
      PROVE  IInv'
    <2>. DEFINE l == [listener[r] EXCEPT !.packages = Pkgs(s),
                                         !.pc = IF starting THEN "catchup" ELSE "emit"]
    <2>1. Good(Pkgs(s)) /\ Pkgs(s) \in Seq(Package)
        BY <1>7 DEF Good
    <2>. HIDE DEF Pkgs, starting
    <2>2. l \in ListenerState /\ l.root = listener[r].root /\ l.packages = Pkgs(s)
        BY <1>1, <2>1 DEF ListenerState
    <2>. HIDE DEF l
    <2>. QED
        BY <1>1, <1>8, <1>9, <2>1, <2>2 DEF l
<1>10. ASSUME listener' = [listener EXCEPT ![r] = [listener[r] EXCEPT !.pc = "idle"]],
              UNCHANGED <<channel, events>>
       PROVE  IInv'
    <2>. DEFINE l == [listener[r] EXCEPT !.pc = "idle"]
    <2>1. l \in ListenerState /\ l.root = listener[r].root /\ l.packages = listener[r].packages
        BY <1>1 DEF ListenerState
    <2>. HIDE DEF l
    <2>. QED
        BY <1>1, <1>8, <1>10, <2>1 DEF l
<1>11. CASE Ends(r)
    BY <1>4, <1>6, <1>11, EndsPreserves
<1>. QED
    BY <1>5, <1>9, <1>10, <1>11

-----------------------------------------------------------------------------
(* The theorems.                                                           *)

\* Every step preserves the invariant.
LEMMA NextPreserves == IInv /\ [Next]_vars => IInv'
<1>. SUFFICES ASSUME IInv, [Next]_vars PROVE IInv'
    OBVIOUS
<1>1. ASSUME NEW c \in Channel, NEW p \in Payload, submit(c, p) PROVE IInv'
    BY <1>1, SubmitPreserves
<1>2. CASE ParaBlock
    BY <1>2, ParaBlockPreserves
<1>3. ASSUME NEW included \in 0..1, RelayBlock(included) PROVE IInv'
    BY <1>3, RelayBlockPreserves
<1>4. ASSUME NEW b \in 1..MaxRelayBlock, NewMMRRoot(b) PROVE IInv'
    BY <1>4, NewMMRRootPreserves
<1>5. ASSUME NEW r \in Relay, Mine(r) PROVE IInv'
    BY <1>5, MinePreserves
<1>6. ASSUME NEW r \in Relay, RelayStep(r) PROVE IInv'
    <2>1. CASE StartRelay(r)
        BY <2>1, StartPreserves
    <2>2. ASSUME NEW toFind \in [Channel -> 0..MaxNonce], BuildPackages(r, toFind) PROVE IInv'
        BY <2>2, BuildPreserves
    <2>3. CASE Emit(r)
        BY <2>3, EmitPreserves
    <2>4. CASE Emitted(r)
        BY <2>4, EmittedPreserves
    <2>5. CASE Witness(r)
        BY <2>5, WitnessPreserves
    <2>6. CASE WriteChannel(r)
        BY <2>6, WritePreserves
    <2>. QED
        BY <1>6, <2>1, <2>2, <2>3, <2>4, <2>5, <2>6 DEF RelayStep
<1>7. ASSUME NEW r \in Relay, Stop(r) PROVE IInv'
    BY <1>7, StopPreserves
<1>8. CASE UNCHANGED vars
    <2>1. UNCHANGED <<accepted, nonce, MessageQueue, digest, blocks, heads, latest, inNonce,
                      delivered, pool, listener, channel, stops, events>>
        BY <1>8 DEF vars, paraVars, ethVars, relayVars
    <2>. QED
        BY <2>1 DEF IInv, TypeOK, Genuine, Known, DeliveredPrefix
<1>. QED
    BY <1>1, <1>2, <1>3, <1>4, <1>5, <1>6, <1>7, <1>8 DEF Next

\* Whatever the relays do, the messages of a commitment keep the nonce and the
\* payload that the outbound channel gave them, every package is for a block
\* that exists, and what the inbound channels have delivered is a prefix of what
\* was accepted.
THEOREM Invariance == Spec => []IInv
<1>1. IInv /\ [Next]_vars => IInv'
    BY NextPreserves
<1>. QED
    BY <1>1, InitIInv, PTL DEF Spec

\* The initial states of the pipeline are those of MessageDelivery.
LEMMA InitDelivery == Init => Delivery!Init
    BY DEF Init, Delivery!Init

\* A transaction that is mined delivers the next messages of one channel, or
\* changes nothing.
LEMMA MineIsDeliver ==
    ASSUME IInv, NEW r \in Relay, Mine(r)
    PROVE  [Delivery!Next]_(Delivery!MDvars)
<1>1. UNCHANGED accepted
    BY DEF Mine, paraVars
<1>2. CASE UNCHANGED delivered
    BY <1>1, <1>2 DEF Delivery!MDvars
<1>3. ASSUME NEW c \in Channel, NEW e \in Seq(Payload),
             delivered' = [delivered EXCEPT ![c] = e],
             inNonce[c] <= Len(e), PrefixOf(e, accepted[c])
      PROVE  [Delivery!Next]_(Delivery!MDvars)
    <2>1. /\ delivered \in [Channel -> Seq(Payload)] /\ accepted[c] \in Seq(Payload)
          /\ delivered[c] \in Seq(Payload) /\ Len(delivered[c]) = inNonce[c]
          /\ \A i \in 1..inNonce[c] : delivered[c][i] = accepted[c][i]
        BY DEF IInv, TypeOK, DeliveredPrefix
    <2>2. Len(e) \in Nat /\ Len(accepted[c]) \in Nat /\ Len(e) <= Len(accepted[c])
          /\ \A i \in 1..Len(e) : e[i] = accepted[c][i]
        BY <1>3, <2>1 DEF PrefixOf
    <2>3. CASE Len(e) = Len(delivered[c])
        <3>1. e = delivered[c]
            <4>1. \A i \in 1..Len(e) : e[i] = delivered[c][i]
                BY <2>1, <2>2, <2>3
            <4>. QED
                BY <2>1, <2>3, <4>1, SeqEqual
        <3>2. delivered' = delivered
            BY <1>3, <2>1, <3>1
        <3>. QED
            BY <1>2, <3>2
    <2>4. CASE Len(e) # Len(delivered[c])
        <3>1. Len(e) \in (Len(delivered[c]) + 1)..Len(accepted[c]) /\ Len(e) \in 1..Len(accepted[c])
            BY <1>3, <2>1, <2>2, <2>4
        <3>2. e = SubSeq(accepted[c], 1, Len(e))
            <4>1. \A i \in 1..Len(e) : accepted[c][i] \in Payload
                BY <2>1, <2>2
            <4>. DEFINE t == SubSeq(accepted[c], 1, Len(e))
            <4>2. t \in Seq(Payload) /\ Len(t) = Len(e) /\ \A i \in 1..Len(e) : t[i] = accepted[c][i]
                BY <2>1, <2>2, <3>1, <4>1, SubSeqProperties
            <4>. HIDE DEF t
            <4>3. e = t
                BY <2>2, <4>2, SeqEqual
            <4>. QED
                BY <4>3 DEF t
        <3>3. Delivery!Deliver(c, Len(e))
            BY <1>1, <1>3, <3>1, <3>2 DEF Delivery!Deliver
        <3>. QED
            BY <3>1, <3>3 DEF Delivery!Next
    <2>. QED
        BY <2>3, <2>4
<1>. QED
    BY <1>2, <1>3, MineDelivers

\* The pipeline implements MessageDelivery: each channel hands every accepted
\* message on at most once and in the order of acceptance, for any number of
\* relays that repeat, lose, reorder or delay their submissions.
THEOREM Implements == Spec => DeliversInOrder
<1>1. IInv /\ [Next]_vars => [Delivery!Next]_(Delivery!MDvars)
    <2>. SUFFICES ASSUME IInv, [Next]_vars PROVE [Delivery!Next]_(Delivery!MDvars)
        OBVIOUS
    <2>1. ASSUME NEW c \in Channel, NEW p \in Payload, submit(c, p)
          PROVE  [Delivery!Next]_(Delivery!MDvars)
        <3>1. Delivery!Send(c, p)
            BY <2>1 DEF submit, Delivery!Send, ethVars
        <3>. QED
            BY <3>1 DEF Delivery!Next
    <2>2. ASSUME NEW r \in Relay, Mine(r) PROVE [Delivery!Next]_(Delivery!MDvars)
        BY <2>2, MineIsDeliver
    <2>3. CASE UNCHANGED <<accepted, delivered>>
        BY <2>3 DEF Delivery!MDvars
    <2>4. \/ \E c \in Channel, p \in Payload : submit(c, p)
          \/ \E r \in Relay : Mine(r)
          \/ UNCHANGED <<accepted, delivered>>
        BY DEF Next, RelayStep, ParaBlock, RelayBlock, NewMMRRoot, StartRelay, BuildPackages,
               Emit, Emitted, Witness, WriteChannel, Stop, vars, paraVars, ethVars
    <2>. QED
        BY <2>1, <2>2, <2>3, <2>4
<1>. QED
    BY <1>1, InitDelivery, Invariance, PTL DEF Spec, DeliversInOrder, Delivery!Spec
=============================================================================
