------------------------------ MODULE SessionProofs ------------------------------
(***************************************************************************)
(* Proofs about module Session, for every bound, every number of ids and   *)
(* every set of streams: that channel data and audio keys reach those who  *)
(* asked for them, whole and in order, and what the process can die of.    *)
(***************************************************************************)
EXTENDS Session, SequenceTheorems, TLAPS

Ids == 0 .. SEQ_MOD - 1
Pieces == Channels \X (Nat \ {0})
ChannelPackets == [cmd : {"channel"}, id : Ids, body : Bodies, piece : Pieces]
Packets ==
  [cmd : {"notice"}, id : {0}, body : Notices, piece : {0}]
    \cup [cmd : {"key"}, id : Keys, body : KeyAnswers, piece : {0}]
    \cup ChannelPackets

TypeOK ==
  /\ alive \in BOOLEAN /\ closed \in BOOLEAN /\ misspoke \in BOOLEAN
  /\ build \in [debug : BOOLEAN, ids : 1 .. SEQ_MOD]
  /\ task \in {"running", "over", "panicked"}
  /\ key_sequence \in 0 .. MaxKeys
  /\ key_pending \subseteq Keys
  /\ key_future \in [Keys -> {"none", "waiting", "key", "error"}]
  /\ key_reply \in [Keys -> KeyAnswers \cup {None}]
  /\ sequence \in Ids
  /\ ids \in Seq(Ids) /\ Len(ids) <= MaxChannels
  /\ channels \in [Ids -> Channels \cup {None}]
  /\ queue \in [Channels -> Seq(ChannelPackets)]
  /\ state \in [Channels -> {"unopened", "header", "data", "ended", "failed", "dropped"}]
  /\ got \in [Channels -> Seq(Pieces)]
  /\ wire \in Seq(Packets)
  /\ stream \in [Channels -> Streams \cup {None}]
  /\ position \in [Channels -> Nat]

-----------------------------------------------------------------------------
\* No id was given twice.
Fresh == Len(ids) <= build.ids

\* A debug build stops at the last id.  Until one is given twice the ids are
\* handed out one after the other, so that the entry of an id leads to the
\* channel that was opened with it.
IdsInOrder ==
  /\ sequence < build.ids /\ \A k \in 1 .. Len(ids) : ids[k] < build.ids
  /\ build.debug => Len(ids) < build.ids
  /\ Fresh => /\ sequence = IF Len(ids) = build.ids THEN 0 ELSE Len(ids)
              /\ \A k \in 1 .. Len(ids) : ids[k] = k - 1
              /\ \A id \in DOMAIN channels : id < Len(ids) => channels[id] = id

\* Nothing happens to a channel before it is opened.
OpenedFirst == \A n \in Channels : n >= Len(ids) => state[n] = "unopened" /\ position[n] = 0

\* The manager keeps nobody who does not wait.
PendingWaits == \A c \in key_pending : key_future[c] = "waiting"

\* A packet under way is about a request that was made, and the answer that the
\* access point gave to it.
Known(packet) ==
  /\ packet.cmd = "notice" /\ packet.body = "garbled" => misspoke
  /\ packet.cmd = "key" => packet.id < key_sequence /\ key_reply[packet.id] = packet.body
  /\ packet.cmd = "channel" => packet.id < Len(ids)

WireKnown == \A k \in DOMAIN wire : Known(wire[k])

\* The i-th packet of stream s, of channel n.
PacketOf(n, s, i) == [cmd |-> "channel", id |-> n, body |-> s[i], piece |-> Piece(n, i)]

IsFor(packet, n) == packet.cmd = "channel" /\ packet.id = n

\* What w holds for channel n is the packets i + 1 to j of stream s, in order.
Carries(w, n, s, i, j) ==
  /\ \A k \in DOMAIN w : IsFor(w[k], n) => \E m \in i + 1 .. j : w[k] = PacketOf(n, s, m)
  /\ \A m \in i + 1 .. j : \E k \in DOMAIN w : w[k] = PacketOf(n, s, m)
  /\ \A k, l \in DOMAIN w :
       k < l /\ IsFor(w[k], n) /\ IsFor(w[l], n) => w[k].piece[2] < w[l].piece[2]

\* What an open channel expects next is what the stream has there.
Expects(st, s, taken) ==
  /\ st = "header" => taken = 0 \/ s[taken] = "headers"
  /\ st = "data" => taken > 0 /\ s[taken] \in {"last", "data"}

\* Of what the access point served on channel n, the user has taken the first
\* `taken' packets, its queue holds the next ones and the wire the rest.
Progress(n, taken) ==
  /\ taken + Len(queue[n]) <= position[n]
  /\ \A k \in 1 .. Len(queue[n]) : queue[n][k] = PacketOf(n, stream[n], taken + k)
  /\ Carries(wire, n, stream[n], taken + Len(queue[n]), position[n])
  /\ IsDataOf(got[n], n, taken)
  /\ state[n] \in {"ended", "failed"} =>
       /\ stream[n] # None
       /\ taken = Len(stream[n])
       /\ stream[n][taken] = [ended |-> "empty", failed |-> "error"][state[n]]
  /\ task # "panicked" => Expects(state[n], stream[n], taken)

Served(n) ==
  /\ stream[n] = None => position[n] = 0
  /\ stream[n] # None => position[n] <= Len(stream[n])

InOrder ==
  /\ \A n \in Channels : Served(n)
  /\ Fresh => \A n \in Channels : \E taken \in 0 .. position[n] : Progress(n, taken)

SessionInv ==
  /\ TypeOK /\ IdsInOrder /\ OpenedFirst /\ PendingWaits /\ WireKnown /\ InOrder
  /\ KeyIsForRequest /\ PanicsForAReason

-----------------------------------------------------------------------------
LEMMA BuildStays == [Next]_vars => build' = build
BY DEF Next, vars, RequestKey, Allocate, Dispatch, PollData, DropData, DropSession, Notify,
   ReplyKey, Serve, Close, Over

LEMMA BuildTypes ==
  ASSUME TypeOK
  PROVE  build.ids \in Nat \ {0} /\ build.ids <= SEQ_MOD /\ build.debug \in BOOLEAN
<1>1. SEQ_MOD \in Nat
  BY SessionAssumption
<1> QED
  BY <1>1 DEF TypeOK

LEMMA InitSessionInv == Init => SessionInv
<1> SUFFICES ASSUME Init PROVE SessionInv
  OBVIOUS
<1>1. TypeOK
  <2>1. 0 \in Ids /\ 0 \in 0 .. MaxKeys
    BY SessionAssumption DEF Ids
  <2>2. ids \in Seq(Ids) /\ Len(ids) <= MaxChannels /\ wire \in Seq(Packets)
    BY SessionAssumption DEF Init
  <2>3. /\ queue \in [Channels -> Seq(ChannelPackets)] /\ got \in [Channels -> Seq(Pieces)]
        /\ position \in [Channels -> Nat] /\ stream \in [Channels -> Streams \cup {None}]
        /\ state \in [Channels -> {"unopened", "header", "data", "ended", "failed", "dropped"}]
    BY DEF Init
  <2>4. channels \in [Ids -> Channels \cup {None}] /\ sequence \in Ids
    BY <2>1 DEF Init, Ids
  <2>5. /\ key_future \in [Keys -> {"none", "waiting", "key", "error"}]
        /\ key_reply \in [Keys -> KeyAnswers \cup {None}]
        /\ key_pending \subseteq Keys /\ key_sequence \in 0 .. MaxKeys
    BY <2>1 DEF Init
  <2>6. build \in [debug : BOOLEAN, ids : 1 .. SEQ_MOD]
    <3>1. IdSpaces \subseteq 1 .. SEQ_MOD /\ build \in [debug : BOOLEAN, ids : IdSpaces]
      BY SessionAssumption DEF Init
    <3> QED
      BY <3>1
  <2> QED
    BY <2>2, <2>3, <2>4, <2>5, <2>6 DEF Init, TypeOK
<1>2. IdsInOrder /\ OpenedFirst /\ PendingWaits /\ WireKnown
  <2>1. ids = <<>> /\ sequence = 0
    BY DEF Init
  <2>2. IdsInOrder
    BY <1>1, <2>1, BuildTypes DEF IdsInOrder, Fresh
  <2> QED
    BY <2>2, SessionAssumption DEF Init, OpenedFirst, PendingWaits, WireKnown
<1>3. InOrder
  <2> SUFFICES ASSUME NEW n \in Channels PROVE Served(n) /\ Progress(n, 0)
    BY <1>1 DEF InOrder, TypeOK
  <2>1. Served(n)
    BY DEF Init, Served
  <2>2. IsDataOf(got[n], n, 0)
    BY DEF Init, IsDataOf
  <2>3. Carries(wire, n, stream[n], Len(queue[n]), position[n])
    BY DEF Init, Carries
  <2>4. Expects(state[n], stream[n], 0)
    BY DEF Init, Expects
  <2> QED
    BY <2>1, <2>2, <2>3, <2>4 DEF Init, Progress
<1>4. KeyIsForRequest /\ PanicsForAReason
  BY DEF Init, KeyIsForRequest, PanicsForAReason
<1> QED
  BY <1>1, <1>2, <1>3, <1>4 DEF SessionInv

-----------------------------------------------------------------------------
\* What the packets are.

LEMMA PacketTypes ==
  ASSUME NEW p \in Packets
  PROVE  /\ p.cmd \in {"notice", "key", "channel"}
         /\ p.cmd = "key" => p.id \in Keys /\ p.body \in KeyAnswers
         /\ p.cmd = "channel" => p \in ChannelPackets /\ p.id \in Ids
BY DEF Packets, ChannelPackets

LEMMA ServedPacket ==
  ASSUME TypeOK, IdsInOrder, NEW n \in Channels, NEW s \in Streams, n < Len(ids),
         position[n] < Len(s), NEW i, i = position[n] + 1
  PROVE  /\ s \in Seq(Bodies) /\ i \in 1 .. Len(s) /\ s[i] \in Bodies
         /\ ids[n + 1] \in Ids /\ ids[n + 1] < Len(ids) /\ Piece(n, i) \in Pieces
         /\ [cmd |-> "channel", id |-> ids[n + 1], body |-> s[i], piece |-> Piece(n, i)] \in Packets
         /\ Fresh => ids[n + 1] = n
<1>1. s \in Seq(Bodies)
  BY SessionAssumption
<1>2. i \in 1 .. Len(s) /\ i \in Nat \ {0}
  BY <1>1 DEF TypeOK
<1>3. s[i] \in Bodies
  BY <1>1, <1>2, ElementOfSeq
<1>4. n \in Nat /\ n + 1 \in 1 .. Len(ids) /\ Len(ids) \in Nat
  BY LenProperties DEF Channels, TypeOK
<1>5. Piece(n, i) \in Pieces
  BY <1>2 DEF Piece, Pieces
<1>6. ids[n + 1] \in Ids
  BY <1>4, ElementOfSeq DEF TypeOK
<1>7. Fresh => ids[n + 1] = n
  BY <1>4 DEF IdsInOrder
<1>8. ids[n + 1] < Len(ids)
  <2>1. ids[n + 1] < build.ids /\ build.ids \in Nat /\ ids[n + 1] \in Nat
    BY <1>4, <1>6 DEF IdsInOrder, TypeOK, Ids
  <2> QED
    BY <1>4, <1>7, <2>1 DEF Fresh
<1> QED
  BY <1>1, <1>2, <1>3, <1>5, <1>6, <1>7, <1>8 DEF Packets, ChannelPackets

LEMMA AppendToWire ==
  ASSUME NEW w \in Seq(Packets), NEW p \in Packets
  PROVE  /\ Append(w, p) \in Seq(Packets)
         /\ Len(Append(w, p)) = Len(w) + 1
         /\ \A k \in 1 .. Len(w) : Append(w, p)[k] = w[k]
         /\ Append(w, p)[Len(w) + 1] = p
BY AppendProperties

LEMMA TransmittedTypes ==
  ASSUME TypeOK
  PROVE  /\ \A body \in Notices : Notify(body) => wire' \in Seq(Packets)
         /\ \A c \in Keys, answer \in KeyAnswers : ReplyKey(c, answer) => wire' \in Seq(Packets)
         /\ IdsInOrder => \A n \in Channels, s \in Streams : Serve(n, s) => wire' \in Seq(Packets)
<1>1. ASSUME NEW body \in Notices, Notify(body)
      PROVE  wire' \in Seq(Packets)
  <2> DEFINE p == [cmd |-> "notice", id |-> 0, body |-> body, piece |-> 0]
  <2>1. p \in Packets
    BY DEF Packets
  <2> QED
    BY <1>1, <2>1, AppendToWire DEF Notify, Transmit, TypeOK
<1>2. ASSUME NEW c \in Keys, NEW answer \in KeyAnswers, ReplyKey(c, answer)
      PROVE  wire' \in Seq(Packets)
  <2> DEFINE p == [cmd |-> "key", id |-> c, body |-> answer, piece |-> 0]
  <2>1. p \in Packets
    BY DEF Packets
  <2> QED
    BY <1>2, <2>1, AppendToWire DEF ReplyKey, Transmit, TypeOK
<1>3. ASSUME IdsInOrder, NEW n \in Channels, NEW s \in Streams, Serve(n, s)
      PROVE  wire' \in Seq(Packets)
  <2> DEFINE i == position[n] + 1
             p == [cmd |-> "channel", id |-> ids[n + 1], body |-> s[i], piece |-> Piece(n, i)]
  <2>1. p \in Packets
    BY <1>3, ServedPacket DEF Serve
  <2> QED
    BY <1>3, <2>1, AppendToWire DEF Serve, Transmit, TypeOK
<1> QED
  BY <1>1, <1>2, <1>3

-----------------------------------------------------------------------------
LEMMA TypeStep ==
  ASSUME TypeOK, IdsInOrder, [Next]_vars
  PROVE  TypeOK'
<1> USE SessionAssumption
<1>1. CASE UNCHANGED vars
  BY <1>1 DEF TypeOK, vars, audiokey, channel, accesspoint
<1>2. CASE RequestKey
  <2>1. key_sequence \in Keys /\ key_sequence' \in 0 .. MaxKeys
    BY <1>2 DEF RequestKey, TypeOK, Keys
  <2> QED
    BY <1>2, <2>1 DEF RequestKey, TypeOK, channel, accesspoint
<1>3. CASE Allocate
  <2>1. Len(ids) \in Channels /\ sequence \in Ids
    BY <1>3 DEF Allocate, TypeOK, Channels
  <2>2. CASE NextId = None
    BY <1>3, <2>2 DEF Allocate, TypeOK, channel, audiokey, accesspoint
  <2>3. CASE NextId # None
    <3>1. sequence' \in Ids
      <4>1. sequence' = NextId
        BY <1>3, <2>3 DEF Allocate
      <4>2. SEQ_MOD \in Nat \ {0}
        BY SessionAssumption
      <4>3. sequence' = 0 \/ (sequence' = sequence + 1 /\ sequence + 1 < build.ids)
        BY <2>3, <4>1, Zenon DEF NextId
      <4>4. sequence \in 0 .. SEQ_MOD - 1
        BY <2>1 DEF Ids
      <4>5. build.ids \in Nat /\ build.ids <= SEQ_MOD
        BY BuildTypes
      <4> QED
        BY <4>2, <4>3, <4>4, <4>5 DEF Ids
    <3>2. ids' \in Seq(Ids) /\ Len(ids') <= MaxChannels
      <4>1. ids' = Append(ids, sequence) /\ Len(ids) < MaxChannels
        BY <1>3, <2>1, <2>3 DEF Allocate
      <4> QED
        BY <2>1, <4>1, AppendProperties DEF TypeOK
    <3>3. channels' \in [Ids -> Channels \cup {None}]
      BY <1>3, <2>1, <2>3 DEF Allocate, TypeOK
    <3>4. state' \in [Channels -> {"unopened", "header", "data", "ended", "failed", "dropped"}]
      BY <1>3, <2>1, <2>3 DEF Allocate, TypeOK
    <3> QED
      BY <1>3, <2>3, <3>1, <3>2, <3>3, <3>4 DEF Allocate, TypeOK, audiokey, accesspoint
  <2> QED
    BY <2>2, <2>3
<1>4. CASE Dispatch
  <2>1. CASE alive /\ wire # <<>> /\ wire' = Tail(wire)
    <3>1. Head(wire) \in Packets /\ wire' \in Seq(Packets)
      BY <2>1, HeadTailProperties DEF TypeOK
    <3>2. CASE /\ task' \in {task, "panicked"}
               /\ UNCHANGED <<audiokey, queue>>
      BY <1>4, <3>1, <3>2 DEF Dispatch, TypeOK, audiokey, accesspoint
    <3>3. CASE /\ Head(wire).cmd = "key" /\ CompleteKey(Head(wire))
               /\ UNCHANGED <<key_sequence, queue>>
      <4>1. Head(wire).body \in KeyAnswers /\ task' \in {task, "panicked"}
        BY <3>1, <3>3, PacketTypes DEF CompleteKey
      <4>2. key_pending' \subseteq Keys
        BY <3>3 DEF CompleteKey, TypeOK
      <4>3. key_future' \in [Keys -> {"none", "waiting", "key", "error"}]
        BY <3>3, <4>1 DEF CompleteKey, TypeOK, KeyAnswers
      <4> QED
        BY <1>4, <3>1, <3>3, <4>1, <4>2, <4>3 DEF Dispatch, TypeOK, accesspoint
    <3>4. CASE /\ Head(wire).cmd = "channel" /\ FeedChannel(Head(wire))
               /\ UNCHANGED <<audiokey, task>>
      <4>1. Head(wire) \in ChannelPackets
        BY <3>1, <3>4, PacketTypes
      <4>2. queue' \in [Channels -> Seq(ChannelPackets)]
        <5> DEFINE h == Head(wire)
        <5>1. CASE channels[h.id] = None
          BY <3>4, <5>1 DEF FeedChannel, TypeOK
        <5>2. CASE channels[h.id] # None
          <6>1. Append(queue[channels[h.id]], h) \in Seq(ChannelPackets) \/ channels[h.id] \notin Channels
            BY <4>1, AppendProperties DEF TypeOK
          <6>2. queue' = [queue EXCEPT ![channels[h.id]] = Append(queue[channels[h.id]], h)]
            BY <3>4, <5>2 DEF FeedChannel
          <6> QED
            BY <6>1, <6>2 DEF TypeOK
        <5> QED
          BY <5>1, <5>2
      <4> QED
        BY <1>4, <3>1, <3>4, <4>2 DEF Dispatch, TypeOK, audiokey, accesspoint
    <3> QED
      BY <1>4, <2>1, <3>2, <3>3, <3>4 DEF Dispatch
  <2>2. CASE UNCHANGED <<audiokey, queue, wire>> /\ task' \in {"over", "panicked"}
    BY <1>4, <2>2 DEF Dispatch, TypeOK, audiokey, accesspoint
  <2> QED
    BY <1>4, <2>1, <2>2 DEF Dispatch
<1>5. ASSUME NEW n \in Channels, PollData(n)
      PROVE  TypeOK'
  <2>1. CASE queue[n] # <<>>
    <3>1. Head(queue[n]) \in ChannelPackets /\ Tail(queue[n]) \in Seq(ChannelPackets)
      BY <2>1, HeadTailProperties DEF TypeOK
    <3>2. Head(queue[n]).piece \in Pieces
      BY <3>1 DEF ChannelPackets
    <3>3. queue' \in [Channels -> Seq(ChannelPackets)]
      BY <1>5, <2>1, <3>1 DEF PollData, TypeOK
    <3>4. \/ Take(n, Head(queue[n])) /\ UNCHANGED task
          \/ task' = "panicked" /\ UNCHANGED <<state, got>>
      BY <1>5, <2>1 DEF PollData
    <3>5. state' \in [Channels -> {"unopened", "header", "data", "ended", "failed", "dropped"}]
      BY <3>4 DEF Take, TypeOK
    <3>6. got' \in [Channels -> Seq(Pieces)]
      <4>1. Append(got[n], Head(queue[n]).piece) \in Seq(Pieces)
        BY <3>2, AppendProperties DEF TypeOK
      <4>2. got' = got \/ got' = [got EXCEPT ![n] = Append(got[n], Head(queue[n]).piece)]
        BY <3>4 DEF Take
      <4> QED
        BY <4>1, <4>2 DEF TypeOK
    <3>7. task' \in {task, "panicked"}
      BY <3>4
    <3> QED
      BY <1>5, <2>1, <3>3, <3>5, <3>6, <3>7 DEF PollData, TypeOK, audiokey, accesspoint
  <2>2. CASE task' = "panicked" /\ UNCHANGED <<queue, state, got>>
    BY <1>5, <2>2 DEF PollData, TypeOK, audiokey, accesspoint
  <2> QED
    BY <1>5, <2>1, <2>2 DEF PollData
<1>6. ASSUME NEW n \in Channels, DropData(n)
      PROVE  TypeOK'
  BY <1>6 DEF DropData, TypeOK, audiokey, accesspoint
<1>7. CASE DropSession
  <2>1. key_future' \in [Keys -> {"none", "waiting", "key", "error"}]
    BY <1>7 DEF DropSession, TypeOK
  <2> QED
    BY <1>7, <2>1 DEF DropSession, TypeOK, channel, accesspoint
<1>8. ASSUME NEW body \in Notices, Notify(body)
      PROVE  TypeOK'
  <2>1. wire' \in Seq(Packets) /\ misspoke' \in BOOLEAN
    BY <1>8, TransmittedTypes DEF Notify, TypeOK
  <2> QED
    BY <1>8, <2>1 DEF Notify, TypeOK, audiokey, channel
<1>9. ASSUME NEW c \in Keys, NEW answer \in KeyAnswers, ReplyKey(c, answer)
      PROVE  TypeOK'
  BY <1>9, TransmittedTypes DEF ReplyKey, TypeOK, audiokey, channel
<1>10. ASSUME NEW n \in Channels, NEW s \in Streams, Serve(n, s)
       PROVE  TypeOK'
  <2>1. wire' \in Seq(Packets)
    BY <1>10, TransmittedTypes
  <2>2. position' \in [Channels -> Nat] /\ stream' \in [Channels -> Streams \cup {None}]
    <3>1. /\ position' = [position EXCEPT ![n] = position[n] + 1]
          /\ stream' = [stream EXCEPT ![n] = s]
      BY <1>10 DEF Serve
    <3>2. position[n] + 1 \in Nat
      BY DEF TypeOK
    <3> QED
      BY <3>1, <3>2 DEF TypeOK
  <2> QED
    BY <1>10, <2>1, <2>2 DEF Serve, TypeOK, audiokey, channel
<1>11. CASE Close
  BY <1>11 DEF Close, TypeOK, audiokey, channel, accesspoint
<1>12. CASE Over
  BY <1>1, <1>12 DEF Over
<1> QED
  BY <1>1, <1>2, <1>3, <1>4, <1>5, <1>6, <1>7, <1>8, <1>9, <1>10, <1>11, <1>12 DEF Next

-----------------------------------------------------------------------------
LEMMA IdsStep ==
  ASSUME TypeOK, IdsInOrder, [Next]_vars
  PROVE  IdsInOrder'
<1>1. CASE Allocate /\ NextId # None
  <2>1. /\ Len(ids) \in Channels /\ Len(ids) \in Nat /\ sequence \in Ids
        /\ DOMAIN channels = Ids /\ Ids = 0 .. SEQ_MOD - 1 /\ SEQ_MOD \in Nat
        /\ build.ids \in 1 .. SEQ_MOD /\ build.debug \in BOOLEAN
    BY <1>1, LenProperties, SessionAssumption DEF Allocate, TypeOK, Channels, Ids
  <2>2. /\ ids' = Append(ids, sequence) /\ channels' = [channels EXCEPT ![sequence] = Len(ids)]
        /\ sequence' = NextId /\ build' = build
    BY <1>1 DEF Allocate
  <2>3. /\ Len(ids') = Len(ids) + 1 /\ ids'[Len(ids) + 1] = sequence
        /\ \A k \in 1 .. Len(ids) : ids'[k] = ids[k]
    BY <2>1, <2>2, AppendProperties DEF TypeOK
  \* An id that was not given before is the number of those that were.
  <2>4. Len(ids) < build.ids => Fresh /\ sequence = Len(ids)
    BY <2>1 DEF IdsInOrder, Fresh
  <2>5. build'.debug => Len(ids') < build'.ids
    BY <1>1, <2>1, <2>2, <2>3, <2>4 DEF NextId, IdsInOrder
  <2>6. ASSUME Fresh'
        PROVE  /\ sequence' = IF Len(ids') = build'.ids THEN 0 ELSE Len(ids')
               /\ \A k \in 1 .. Len(ids') : ids'[k] = k - 1
               /\ \A id \in DOMAIN channels' : id < Len(ids') => channels'[id] = id
    <3>1. Len(ids) < build.ids /\ Fresh /\ sequence = Len(ids)
      BY <2>1, <2>2, <2>3, <2>4, <2>6 DEF Fresh
    <3>2. sequence' = IF Len(ids') = build'.ids THEN 0 ELSE Len(ids')
      BY <1>1, <2>1, <2>2, <2>3, <3>1 DEF NextId
    <3>3. ASSUME NEW k \in 1 .. Len(ids') PROVE ids'[k] = k - 1
      <4>1. k \in 1 .. Len(ids) \/ k = Len(ids) + 1
        BY <2>1, <2>3
      <4> QED
        BY <2>1, <2>3, <3>1, <4>1 DEF IdsInOrder
    <3>4. ASSUME NEW id \in DOMAIN channels', id < Len(ids') PROVE channels'[id] = id
      <4>1. id \in Ids /\ (id < Len(ids) \/ id = sequence)
        BY <2>1, <2>2, <2>3, <3>1, <3>4
      <4> QED
        BY <2>1, <2>2, <3>1, <4>1 DEF IdsInOrder
    <3> QED
      BY <3>2, <3>3, <3>4
  <2>7. sequence' < build'.ids
    BY <1>1, <2>1, <2>2 DEF NextId, IdsInOrder
  <2>8. ASSUME NEW k \in 1 .. Len(ids') PROVE ids'[k] < build'.ids
    <3>1. k \in 1 .. Len(ids) \/ k = Len(ids) + 1
      BY <2>1, <2>3
    <3> QED
      BY <2>2, <2>3, <3>1 DEF IdsInOrder
  <2> QED
    BY <2>5, <2>6, <2>7, <2>8 DEF IdsInOrder
<1>2. CASE UNCHANGED <<build, sequence, ids, channels>>
  BY <1>2 DEF IdsInOrder, Fresh
<1> QED
  BY <1>1, <1>2 DEF Next, vars, channel, RequestKey, Allocate, Dispatch, PollData, DropData,
     DropSession, Notify, ReplyKey, Serve, Close, Over

LEMMA OpenedStep ==
  ASSUME TypeOK, OpenedFirst, [Next]_vars
  PROVE  OpenedFirst' /\ Len(ids') >= Len(ids)
<1>1. Len(ids) \in Nat
  BY LenProperties DEF TypeOK
<1>2. CASE Allocate /\ NextId # None
  <2>1. Len(ids') = Len(ids) + 1
    BY <1>2, AppendProperties DEF Allocate, TypeOK
  <2>2. state' = [state EXCEPT ![Len(ids)] = "header"] /\ UNCHANGED position
    BY <1>2 DEF Allocate, accesspoint
  <2>3. ASSUME NEW n \in Channels, n >= Len(ids') PROVE state'[n] = "unopened" /\ position'[n] = 0
    <3>1. n # Len(ids) /\ n >= Len(ids)
      BY <1>1, <2>1, <2>3 DEF Channels
    <3> QED
      BY <2>2, <3>1 DEF OpenedFirst, TypeOK
  <2> QED
    BY <1>1, <2>1, <2>3 DEF OpenedFirst
<1>3. CASE UNCHANGED <<ids, state, position>>
  BY <1>1, <1>3 DEF OpenedFirst
<1>4. ASSUME NEW n \in Channels, state[n] # "unopened", UNCHANGED <<ids, position>>,
             \A m \in Channels : m # n => state'[m] = state[m]
      PROVE  OpenedFirst' /\ Len(ids') >= Len(ids)
  BY <1>1, <1>4 DEF OpenedFirst
<1>5. ASSUME NEW n \in Channels, PollData(n)
      PROVE  OpenedFirst' /\ Len(ids') >= Len(ids)
  <2>1. \A m \in Channels : m # n => state'[m] = state[m]
    BY <1>5 DEF PollData, Take, TypeOK
  <2> QED
    BY <1>4, <1>5, <2>1 DEF PollData, accesspoint
<1>6. ASSUME NEW n \in Channels, DropData(n)
      PROVE  OpenedFirst' /\ Len(ids') >= Len(ids)
  BY <1>4, <1>6 DEF DropData, TypeOK, accesspoint
<1>7. ASSUME NEW n \in Channels, NEW s \in Streams, Serve(n, s)
      PROVE  OpenedFirst' /\ Len(ids') >= Len(ids)
  <2>1. n < Len(ids) /\ UNCHANGED <<ids, state>>
    BY <1>7 DEF Serve, channel
  <2>2. \A m \in Channels : m # n => position'[m] = position[m]
    BY <1>7 DEF Serve, TypeOK
  <2> QED
    BY <1>1, <2>1, <2>2 DEF OpenedFirst, Channels
<1> QED
  BY <1>2, <1>3, <1>5, <1>6, <1>7 DEF Next, vars, channel, accesspoint, RequestKey, Allocate,
     Dispatch, DropSession, Notify, ReplyKey, Close, Over

LEMMA PendingStep ==
  ASSUME TypeOK, PendingWaits, [Next]_vars
  PROVE  PendingWaits'
<1>1. CASE RequestKey
  BY <1>1, SessionAssumption DEF RequestKey, PendingWaits, TypeOK, Keys
<1>2. CASE Dispatch
  <2>1. CASE UNCHANGED audiokey
    BY <2>1 DEF PendingWaits, audiokey
  <2>2. CASE CompleteKey(Head(wire))
    BY <2>2 DEF CompleteKey, PendingWaits, TypeOK
  <2> QED
    BY <1>2, <2>1, <2>2 DEF Dispatch
<1>3. CASE DropSession
  BY <1>3 DEF DropSession, PendingWaits
<1>4. CASE UNCHANGED audiokey
  BY <1>4 DEF PendingWaits, audiokey
<1> QED
  BY <1>1, <1>2, <1>3, <1>4 DEF Next, vars, Allocate, PollData, DropData, Notify, ReplyKey, Serve,
     Close, Over

\* No step forgets a request, an answer of the access point, or an id.
LEMMA StaysKnown ==
  ASSUME TypeOK, IdsInOrder, OpenedFirst, [Next]_vars, NEW p \in Packets, Known(p)
  PROVE  Known(p)'
<1>1. key_sequence' >= key_sequence
  BY DEF TypeOK, Next, vars, audiokey, channel, RequestKey, Allocate, Dispatch, CompleteKey,
     PollData, DropData, DropSession, Notify, ReplyKey, Serve, Close, Over
<1>2. misspoke => misspoke'
  BY DEF Next, vars, accesspoint, RequestKey, Allocate, Dispatch, PollData, DropData, DropSession,
     Notify, ReplyKey, Serve, Close, Over
<1>3. ASSUME NEW c \in Keys, key_reply[c] # None
      PROVE  key_reply'[c] = key_reply[c]
  <2>1. CASE \E d \in Keys, answer \in KeyAnswers : ReplyKey(d, answer)
    BY <1>3, <2>1 DEF ReplyKey, TypeOK
  <2>2. CASE UNCHANGED key_reply
    BY <2>2
  <2> QED
    BY <2>1, <2>2 DEF Next, vars, accesspoint, RequestKey, Allocate, Dispatch, PollData, DropData,
       DropSession, Notify, ReplyKey, Serve, Close, Over
<1>4. ASSUME p.cmd = "key" PROVE p.id < key_sequence' /\ key_reply'[p.id] = p.body
  <2>1. p.id \in Keys /\ p.body # None /\ p.id < key_sequence /\ key_reply[p.id] = p.body
    BY <1>4, PacketTypes, SessionAssumption DEF Known
  <2>2. key_reply'[p.id] = p.body
    BY <1>3, <2>1
  <2>3. p.id \in Int /\ key_sequence \in Int /\ key_sequence' \in Int
    BY <2>1, TypeStep DEF TypeOK, Keys
  <2> QED
    BY <1>1, <2>1, <2>2, <2>3
<1>5. ASSUME p.cmd = "channel" PROVE p.id < Len(ids')
  <2>1. p.id \in Int /\ p.id < Len(ids)
    BY <1>5, PacketTypes DEF Known, Ids
  <2>2. Len(ids) \in Int /\ Len(ids') \in Int
    BY TypeStep, LenProperties DEF TypeOK
  <2> QED
    BY <2>1, <2>2, OpenedStep
<1> QED
  BY <1>2, <1>4, <1>5 DEF Known

LEMMA WireStep ==
  ASSUME TypeOK, IdsInOrder, OpenedFirst, WireKnown, [Next]_vars
  PROVE  WireKnown'
<1>0. /\ \A k \in DOMAIN wire : wire[k] \in Packets /\ Known(wire[k])
      /\ \A p \in Packets : Known(p) => Known(p)'
  BY ElementOfSeq, StaysKnown DEF TypeOK, WireKnown
<1>1. ASSUME NEW p \in Packets, wire' = Append(wire, p), Known(p)'
      PROVE  WireKnown'
  <2>1. /\ DOMAIN wire' = 1 .. Len(wire) + 1 /\ wire'[Len(wire) + 1] = p
        /\ \A k \in DOMAIN wire : wire'[k] = wire[k]
        /\ DOMAIN wire = 1 .. Len(wire) /\ Len(wire) \in Nat
    BY <1>1, AppendToWire, LenProperties DEF TypeOK
  <2>2. \A k \in DOMAIN wire' : k \in DOMAIN wire \/ k = Len(wire) + 1
    BY <2>1
  <2> QED
    BY <1>0, <1>1, <2>1, <2>2 DEF WireKnown, Known
<1>2. ASSUME NEW body \in Notices, Notify(body)
      PROVE  WireKnown'
  <2> DEFINE p == [cmd |-> "notice", id |-> 0, body |-> body, piece |-> 0]
  <2>1. p \in Packets /\ wire' = Append(wire, p)
    BY <1>2 DEF Notify, Transmit, Packets
  <2>2. Known(p)'
    BY <1>2 DEF Notify, Known
  <2> QED
    BY <1>1, <2>1, <2>2
<1>3. ASSUME NEW c \in Keys, NEW answer \in KeyAnswers, ReplyKey(c, answer)
      PROVE  WireKnown'
  <2> DEFINE p == [cmd |-> "key", id |-> c, body |-> answer, piece |-> 0]
  <2>1. p \in Packets /\ wire' = Append(wire, p)
    BY <1>3 DEF ReplyKey, Transmit, Packets
  <2>2. Known(p)'
    BY <1>3 DEF ReplyKey, TypeOK, audiokey, Known
  <2> QED
    BY <1>1, <2>1, <2>2
<1>4. ASSUME NEW n \in Channels, NEW s \in Streams, Serve(n, s)
      PROVE  WireKnown'
  <2> DEFINE i == position[n] + 1
             q == [cmd |-> "channel", id |-> ids[n + 1], body |-> s[i], piece |-> Piece(n, i)]
  <2>1. q \in Packets /\ ids[n + 1] < Len(ids)
    BY <1>4, ServedPacket DEF Serve
  <2>2. PICK p \in Packets : p = q
    BY <2>1
  <2>3. p.cmd = "channel" /\ p.id < Len(ids)
    BY <2>1, <2>2
  <2>4. Known(p)'
    BY <1>4, <2>3 DEF Serve, channel, Known
  <2>5. wire' = Append(wire, p)
    BY <1>4, <2>2 DEF Serve, Transmit
  <2> HIDE DEF q
  <2> QED
    BY <1>1, <2>4, <2>5
<1>5. CASE Dispatch /\ wire # <<>> /\ wire' = Tail(wire)
  <2>1. /\ DOMAIN wire' = 1 .. Len(wire) - 1
        /\ \A k \in DOMAIN wire' : k + 1 \in DOMAIN wire /\ wire'[k] = wire[k + 1]
    BY <1>5, HeadTailProperties, LenProperties DEF TypeOK
  <2> QED
    BY <1>0, <2>1 DEF WireKnown, Known
<1>6. CASE UNCHANGED wire
  BY <1>0, <1>6 DEF WireKnown, Known
<1> QED
  BY <1>2, <1>3, <1>4, <1>5, <1>6 DEF Next, vars, RequestKey, Allocate, Dispatch, PollData, DropData,
     DropSession, Close, Over

-----------------------------------------------------------------------------
LEMMA FirstOfWire ==
  ASSUME TypeOK, WireKnown, wire # <<>>
  PROVE  Head(wire) \in Packets /\ Known(Head(wire))
<1>1. 1 \in DOMAIN wire /\ Head(wire) = wire[1]
  BY LenProperties, EmptySeq DEF TypeOK
<1> QED
  BY <1>1, ElementOfSeq DEF TypeOK, WireKnown

LEMMA KeyStep ==
  ASSUME TypeOK, WireKnown, KeyIsForRequest, [Next]_vars
  PROVE  KeyIsForRequest'
<1> SUFFICES ASSUME NEW c \in Keys
             PROVE  /\ key_future'[c] \in {"key", "error"} /\ alive' =>
                         key_future'[c] = key_reply'[c]
                    /\ key_future'[c] = "key" => key_reply'[c] = "key"
  BY DEF KeyIsForRequest
<1> USE SessionAssumption
<1>1. CASE UNCHANGED <<key_future, key_reply, alive>>
  BY <1>1 DEF KeyIsForRequest
<1>2. CASE RequestKey
  BY <1>2 DEF RequestKey, KeyIsForRequest, TypeOK, accesspoint
<1>3. CASE Dispatch /\ wire # <<>> /\ Head(wire).cmd = "key" /\ CompleteKey(Head(wire))
  <2>1. Head(wire).body \in KeyAnswers /\ key_reply[Head(wire).id] = Head(wire).body
    BY <1>3, FirstOfWire, PacketTypes DEF Known
  <2>2. key_future'[c] = key_future[c] \/ (c = Head(wire).id /\ key_future'[c] = Head(wire).body)
    BY <1>3 DEF CompleteKey, TypeOK
  <2>3. UNCHANGED <<alive, key_reply>>
    BY <1>3 DEF Dispatch, accesspoint
  <2> QED
    BY <2>1, <2>2, <2>3 DEF KeyIsForRequest
<1>4. CASE DropSession
  <2>1. key_future'[c] = key_future[c] \/ key_future'[c] = "error"
    BY <1>4 DEF DropSession, TypeOK
  <2> QED
    BY <1>4, <2>1 DEF DropSession, KeyIsForRequest, accesspoint
<1>5. ASSUME NEW d \in Keys, NEW answer \in KeyAnswers, ReplyKey(d, answer)
      PROVE  /\ key_future'[c] \in {"key", "error"} /\ alive' => key_future'[c] = key_reply'[c]
             /\ key_future'[c] = "key" => key_reply'[c] = "key"
  <2>1. key_reply'[c] = key_reply[c] \/ key_reply[c] = None
    BY <1>5 DEF ReplyKey, TypeOK
  <2>2. UNCHANGED <<alive, key_future>> /\ None \notin {"key", "error"}
    BY <1>5 DEF ReplyKey, audiokey, KeyAnswers
  <2> QED
    BY <2>1, <2>2 DEF KeyIsForRequest
<1> QED
  BY <1>1, <1>2, <1>3, <1>4, <1>5 DEF Next, vars, audiokey, channel, accesspoint, Allocate, Dispatch,
     PollData, DropData, Notify, Serve, Close, Over

-----------------------------------------------------------------------------
\* What becomes of the packets of a stream when the wire grows or shrinks.

LEMMA AppendOther ==
  ASSUME NEW w \in Seq(Packets), NEW p \in Packets, NEW n, NEW s, NEW i \in Nat, NEW j \in Nat,
         ~ IsFor(p, n), Carries(w, n, s, i, j)
  PROVE  Carries(Append(w, p), n, s, i, j)
<1> DEFINE v == Append(w, p)
<1>1. /\ DOMAIN w = 1 .. Len(w) /\ Len(w) \in Nat /\ DOMAIN v = 1 .. Len(w) + 1
      /\ \A k \in DOMAIN w : v[k] = w[k]
      /\ v[Len(w) + 1] = p
  BY AppendToWire, LenProperties
<1>2. \A k \in DOMAIN v : IsFor(v[k], n) => k \in DOMAIN w /\ v[k] = w[k]
  BY <1>1
<1>3. DOMAIN w \subseteq DOMAIN v
  BY <1>1
<1> HIDE DEF v
<1> QED
  BY <1>1, <1>2, <1>3 DEF Carries, v

LEMMA AppendNext ==
  ASSUME NEW w \in Seq(Packets), NEW n, NEW s, NEW i \in Nat, NEW j \in Nat, i <= j,
         PacketOf(n, s, j + 1) \in Packets, Carries(w, n, s, i, j)
  PROVE  Carries(Append(w, PacketOf(n, s, j + 1)), n, s, i, j + 1)
<1> DEFINE p == PacketOf(n, s, j + 1)
           v == Append(w, p)
<1>1. /\ DOMAIN w = 1 .. Len(w) /\ Len(w) \in Nat /\ DOMAIN v = 1 .. Len(w) + 1
      /\ \A k \in DOMAIN w : v[k] = w[k]
      /\ v[Len(w) + 1] = p
  BY AppendToWire, LenProperties
<1>2. \A m \in Nat : PacketOf(n, s, m).piece[2] = m
  BY DEF PacketOf, Piece
<1> HIDE DEF p, v
<1>3. ASSUME NEW k \in DOMAIN v, IsFor(v[k], n)
      PROVE  \E m \in i + 1 .. j + 1 : v[k] = PacketOf(n, s, m)
  <2>1. CASE k \in DOMAIN w
    BY <1>1, <1>3, <2>1 DEF Carries
  <2>2. CASE k = Len(w) + 1
    BY <1>1, <2>2 DEF p
  <2> QED
    BY <1>1, <2>1, <2>2
<1>4. ASSUME NEW m \in i + 1 .. j + 1
      PROVE  \E k \in DOMAIN v : v[k] = PacketOf(n, s, m)
  <2>1. CASE m = j + 1
    BY <1>1, <2>1 DEF p
  <2>2. CASE m \in i + 1 .. j
    <3>1. PICK k \in DOMAIN w : w[k] = PacketOf(n, s, m)
      BY <2>2 DEF Carries
    <3> QED
      BY <1>1, <3>1
  <2> QED
    BY <2>1, <2>2
<1>5. ASSUME NEW k \in DOMAIN v, NEW l \in DOMAIN v, k < l, IsFor(v[k], n), IsFor(v[l], n)
      PROVE  v[k].piece[2] < v[l].piece[2]
  <2>1. k \in DOMAIN w
    BY <1>1, <1>5
  <2>2. CASE l \in DOMAIN w
    BY <1>1, <1>5, <2>1, <2>2 DEF Carries
  <2>3. CASE l = Len(w) + 1
    <3>1. PICK m \in i + 1 .. j : v[k] = PacketOf(n, s, m)
      BY <1>1, <1>5, <2>1 DEF Carries
    <3> QED
      BY <1>1, <1>2, <2>3, <3>1 DEF p
  <2> QED
    BY <1>1, <2>2, <2>3
<1> QED
  BY <1>3, <1>4, <1>5 DEF Carries, v, p

LEMMA TailOther ==
  ASSUME NEW w \in Seq(Packets), w # <<>>, NEW n, NEW s, NEW i \in Nat, NEW j \in Nat,
         ~ IsFor(Head(w), n), Carries(w, n, s, i, j)
  PROVE  Carries(Tail(w), n, s, i, j)
<1> DEFINE v == Tail(w)
<1>1. /\ DOMAIN w = 1 .. Len(w) /\ Len(w) \in Nat \ {0} /\ DOMAIN v = 1 .. Len(w) - 1
      /\ \A k \in DOMAIN v : v[k] = w[k + 1] /\ k + 1 \in DOMAIN w
      /\ Head(w) = w[1]
  BY HeadTailProperties, LenProperties, EmptySeq
<1> HIDE DEF v
<1>2. ASSUME NEW k \in DOMAIN v, IsFor(v[k], n)
      PROVE  \E m \in i + 1 .. j : v[k] = PacketOf(n, s, m)
  BY <1>1, <1>2 DEF Carries
<1>3. ASSUME NEW m \in i + 1 .. j
      PROVE  \E k \in DOMAIN v : v[k] = PacketOf(n, s, m)
  <2>1. PICK k \in DOMAIN w : w[k] = PacketOf(n, s, m)
    BY DEF Carries
  <2>2. k # 1
    BY <1>1, <2>1 DEF IsFor, PacketOf
  <2>3. k - 1 \in DOMAIN v /\ v[k - 1] = w[k]
    BY <1>1, <2>2
  <2> QED
    BY <2>1, <2>3
<1>4. ASSUME NEW k \in DOMAIN v, NEW l \in DOMAIN v, k < l, IsFor(v[k], n), IsFor(v[l], n)
      PROVE  v[k].piece[2] < v[l].piece[2]
  <2>1. k + 1 < l + 1
    BY <1>1, <1>4
  <2> QED
    BY <1>1, <1>4, <2>1 DEF Carries
<1> QED
  BY <1>2, <1>3, <1>4 DEF Carries, v

\* The first packet of a stream on the wire is the one that is due.
LEMMA TailNext ==
  ASSUME NEW w \in Seq(Packets), w # <<>>, NEW n, NEW s, NEW i \in Nat, NEW j \in Nat,
         IsFor(Head(w), n), Carries(w, n, s, i, j)
  PROVE  /\ i + 1 <= j /\ Head(w) = PacketOf(n, s, i + 1)
         /\ Carries(Tail(w), n, s, i + 1, j)
<1> DEFINE v == Tail(w)
<1>1. /\ DOMAIN w = 1 .. Len(w) /\ Len(w) \in Nat \ {0} /\ DOMAIN v = 1 .. Len(w) - 1
      /\ \A k \in DOMAIN v : v[k] = w[k + 1] /\ k + 1 \in DOMAIN w
      /\ Head(w) = w[1] /\ 1 \in DOMAIN w
  BY HeadTailProperties, LenProperties, EmptySeq
<1>0. IsFor(w[1], n) /\ \A k, l \in DOMAIN w :
        k < l /\ IsFor(w[k], n) /\ IsFor(w[l], n) => w[k].piece[2] < w[l].piece[2]
  BY <1>1 DEF Carries
<1>2. \A m \in Nat : PacketOf(n, s, m).piece[2] = m /\ IsFor(PacketOf(n, s, m), n)
  BY DEF PacketOf, Piece, IsFor
<1> HIDE DEF v
<1>3. PICK h \in i + 1 .. j : w[1] = PacketOf(n, s, h)
  BY <1>1 DEF Carries
<1>4. i + 1 \in i + 1 .. j
  BY <1>3
<1>5. PICK k1 \in DOMAIN w : w[k1] = PacketOf(n, s, i + 1)
  BY <1>4 DEF Carries
<1>6. k1 = 1
  <2>1. SUFFICES ASSUME 1 < k1 PROVE FALSE
    BY <1>1
  <2>2. w[1].piece[2] < w[k1].piece[2]
    <3>1. IsFor(w[k1], n)
      BY <1>2, <1>4, <1>5
    <3> QED
      BY <1>0, <1>1, <2>1, <3>1
  <2> QED
    BY <1>2, <1>3, <1>5, <2>2
<1>7. w[1].piece[2] = i + 1
  BY <1>2, <1>5, <1>6
<1>8. ASSUME NEW k \in DOMAIN v, IsFor(v[k], n)
      PROVE  \E m \in (i + 1) + 1 .. j : v[k] = PacketOf(n, s, m)
  <2>1. PICK m \in i + 1 .. j : v[k] = PacketOf(n, s, m)
    BY <1>1, <1>8 DEF Carries
  <2>2. w[1].piece[2] < w[k + 1].piece[2]
    <3>1. IsFor(w[k + 1], n) /\ 1 < k + 1 /\ k + 1 \in DOMAIN w
      BY <1>1, <1>8
    <3> QED
      BY <1>0, <1>1, <3>1
  <2>3. i + 1 < m
    BY <1>1, <1>2, <1>7, <2>1, <2>2
  <2> QED
    BY <2>1, <2>3
<1>9. ASSUME NEW m \in (i + 1) + 1 .. j
      PROVE  \E k \in DOMAIN v : v[k] = PacketOf(n, s, m)
  <2>1. PICK k \in DOMAIN w : w[k] = PacketOf(n, s, m)
    BY DEF Carries
  <2>2. k # 1
    BY <1>2, <1>7, <2>1
  <2>3. k - 1 \in DOMAIN v /\ v[k - 1] = w[k]
    BY <1>1, <2>2
  <2> QED
    BY <2>1, <2>3
<1>10. ASSUME NEW k \in DOMAIN v, NEW l \in DOMAIN v, k < l, IsFor(v[k], n), IsFor(v[l], n)
       PROVE  v[k].piece[2] < v[l].piece[2]
  <2>1. k + 1 < l + 1
    BY <1>1, <1>10
  <2> QED
    BY <1>1, <1>10, <2>1 DEF Carries
<1>11. Carries(v, n, s, i + 1, j)
  BY <1>8, <1>9, <1>10 DEF Carries
<1> QED
  BY <1>1, <1>4, <1>5, <1>6, <1>11 DEF v

-----------------------------------------------------------------------------
\* One more packet is taken.
LEMMA DataSkipped ==
  ASSUME NEW n, NEW pieces, NEW size \in Nat, IsDataOf(pieces, n, size), stream[n][size + 1] # "data"
  PROVE  IsDataOf(pieces, n, size + 1)
<1>1. {j \in 1 .. size : stream[n][j] = "data"} = {j \in 1 .. size + 1 : stream[n][j] = "data"}
  OBVIOUS
<1> QED
  BY <1>1 DEF IsDataOf

LEMMA DataAppended ==
  ASSUME NEW n, NEW pieces \in Seq(Pieces), NEW size \in Nat, IsDataOf(pieces, n, size),
         stream[n][size + 1] = "data", Piece(n, size + 1) \in Pieces
  PROVE  IsDataOf(Append(pieces, Piece(n, size + 1)), n, size + 1)
<1> DEFINE p == Piece(n, size + 1)
           more == Append(pieces, p)
           I == {j \in 1 .. size : stream[n][j] = "data"}
           J == {j \in 1 .. size + 1 : stream[n][j] = "data"}
<1>1. /\ DOMAIN pieces = 1 .. Len(pieces) /\ Len(pieces) \in Nat
      /\ DOMAIN more = 1 .. Len(pieces) + 1 /\ more[Len(pieces) + 1] = p
      /\ \A k \in DOMAIN pieces : more[k] = pieces[k]
  BY AppendProperties, LenProperties
<1>2. J = I \cup {size + 1}
  OBVIOUS
<1>3. \A m : Piece(n, m)[2] = m
  BY DEF Piece
<1>4. {pieces[k] : k \in DOMAIN pieces} = {Piece(n, i) : i \in I}
  BY DEF IsDataOf
<1> HIDE DEF p, more
<1>5. DOMAIN more = DOMAIN pieces \cup {Len(pieces) + 1} /\ Len(pieces) + 1 \notin DOMAIN pieces
  BY <1>1
<1>6. {more[k] : k \in DOMAIN more} = {pieces[k] : k \in DOMAIN pieces} \cup {p}
  BY <1>1, <1>5
<1>7. {Piece(n, i) : i \in J} = {Piece(n, i) : i \in I} \cup {p}
  BY <1>2 DEF p
<1>8. ASSUME NEW k \in DOMAIN more, NEW l \in DOMAIN more, k < l
      PROVE  more[k][2] < more[l][2]
  <2>1. k \in DOMAIN pieces
    BY <1>1, <1>8
  <2>2. CASE l \in DOMAIN pieces
    BY <1>1, <1>8, <2>1, <2>2 DEF IsDataOf
  <2>3. CASE l = Len(pieces) + 1
    <3>1. pieces[k] \in {Piece(n, i) : i \in I}
      BY <1>4, <2>1
    <3>2. PICK i \in I : pieces[k] = Piece(n, i)
      BY <3>1
    <3>3. more[k][2] = i /\ i <= size
      BY <1>1, <1>3, <2>1, <3>2
    <3>4. more[l][2] = size + 1
      BY <1>1, <1>3, <2>3 DEF p
    <3> QED
      BY <3>3, <3>4
  <2> QED
    BY <1>5, <2>2, <2>3
<1> QED
  BY <1>4, <1>6, <1>7, <1>8 DEF IsDataOf, more, p

-----------------------------------------------------------------------------
\* A step that leaves a channel and what is served on it alone.
LEMMA OtherStep ==
  ASSUME NEW n \in Channels, Served(n), NEW taken \in 0 .. position[n], Progress(n, taken),
         queue'[n] = queue[n], got'[n] = got[n], stream'[n] = stream[n], position'[n] = position[n],
         \/ state'[n] = state[n]
         \/ state'[n] = "dropped"
         \/ state'[n] = "header" /\ position[n] = 0,
         task' = "panicked" \/ task # "panicked",
         Carries(wire, n, stream[n], taken + Len(queue[n]), position[n]) =>
           Carries(wire', n, stream[n], taken + Len(queue[n]), position[n])
  PROVE  Served(n)' /\ \E t \in 0 .. position'[n] : Progress(n, t)'
<1>1. Served(n)'
  BY DEF Served
<1>2. IsDataOf(got[n], n, taken)'
  BY DEF Progress, IsDataOf
<1>3. task' # "panicked" => Expects(state'[n], stream[n], taken)
  BY DEF Progress, Expects
<1>4. Progress(n, taken)'
  BY <1>2, <1>3 DEF Progress
<1> QED
  BY <1>1, <1>4

LEMMA DispatchInOrder ==
  ASSUME TypeOK, IdsInOrder, WireKnown, Fresh, NEW n \in Channels, Served(n),
         NEW taken \in 0 .. position[n], Progress(n, taken),
         Dispatch, wire # <<>>, wire' = Tail(wire)
  PROVE  Served(n)' /\ \E t \in 0 .. position'[n] : Progress(n, t)'
<1> DEFINE h == Head(wire)
           s == stream[n]
           size == taken + Len(queue[n])
<1>1. /\ position[n] \in Nat /\ taken \in Nat /\ Len(queue[n]) \in Nat /\ size \in Nat
      /\ wire \in Seq(Packets) /\ h \in Packets /\ h = wire[1] /\ 1 \in DOMAIN wire
      /\ queue[n] \in Seq(ChannelPackets) /\ Known(h)
  BY FirstOfWire, HeadTailProperties, LenProperties, EmptySeq DEF TypeOK
<1>2. Carries(wire, n, s, size, position[n])
  BY DEF Progress
<1>3. UNCHANGED <<stream, position, state, got>> /\ task # "panicked"
  BY DEF Dispatch, accesspoint
<1> HIDE DEF h, s, size
<1>4. CASE ~ IsFor(h, n)
  <2>1. Carries(wire', n, s, size, position[n])
    BY <1>1, <1>2, <1>4, TailOther DEF h
  <2>2. queue'[n] = queue[n]
    <3>1. CASE UNCHANGED queue
      BY <3>1
    <3>2. CASE h.cmd = "channel" /\ FeedChannel(h)
      <4>1. h.id \in Ids /\ h.id < Len(ids) /\ h.id # n
        BY <1>1, <1>4, <3>2, PacketTypes DEF IsFor, Known
      <4>2. channels[h.id] = h.id
        BY <4>1 DEF TypeOK, IdsInOrder
      <4> QED
        BY <3>2, <4>1, <4>2 DEF FeedChannel, TypeOK
    <3> QED
      BY <3>1, <3>2 DEF Dispatch, h
  <2> QED
    BY <1>3, <2>1, <2>2, OtherStep DEF s, size
<1>5. CASE IsFor(h, n)
  <2>1. /\ size + 1 <= position[n] /\ h = PacketOf(n, s, size + 1)
        /\ Carries(wire', n, s, size + 1, position[n])
    BY <1>1, <1>2, <1>5, TailNext DEF h
  <2>2. h \in ChannelPackets /\ channels[n] = n /\ n # None
    <3>1. h.id = n /\ h.id < Len(ids) /\ h \in ChannelPackets /\ h.id \in Ids
      BY <1>1, <1>5, PacketTypes DEF IsFor, Known
    <3>2. n \in DOMAIN channels /\ n # None
      BY <3>1, SessionAssumption DEF TypeOK, Channels
    <3> QED
      BY <3>1, <3>2 DEF IdsInOrder
  <2>3. queue'[n] = Append(queue[n], h)
    <3>1. FeedChannel(h) /\ h.id = n
      BY <1>5 DEF Dispatch, IsFor, h
    <3> QED
      BY <2>2, <3>1 DEF FeedChannel, TypeOK
  <2>4. /\ Len(queue'[n]) = Len(queue[n]) + 1 /\ queue'[n][Len(queue[n]) + 1] = h
        /\ \A k \in 1 .. Len(queue[n]) : queue'[n][k] = queue[n][k]
    BY <1>1, <2>2, <2>3, AppendProperties
  <2>5. taken + Len(queue'[n]) = size + 1
    BY <1>1, <2>4 DEF size
  <2>6. ASSUME NEW k \in 1 .. Len(queue'[n])
        PROVE  queue'[n][k] = PacketOf(n, s, taken + k)
    <3>1. CASE k \in 1 .. Len(queue[n])
      BY <2>4, <3>1 DEF Progress, s
    <3>2. CASE k = Len(queue[n]) + 1
      BY <1>1, <2>1, <2>4, <3>2 DEF size
    <3> QED
      BY <1>1, <2>4, <3>1, <3>2
  <2>7. IsDataOf(got[n], n, taken)'
    BY <1>3 DEF Progress, IsDataOf
  <2>8. Progress(n, taken)'
    BY <1>3, <2>1, <2>5, <2>6, <2>7 DEF Progress, s
  <2>9. Served(n)'
    BY <1>3 DEF Served
  <2> QED
    BY <1>3, <2>8, <2>9
<1> QED
  BY <1>4, <1>5

LEMMA ServeInOrder ==
  ASSUME TypeOK, IdsInOrder, NEW n \in Channels, Served(n),
         NEW taken \in 0 .. position[n], Progress(n, taken), Fresh,
         NEW s \in Streams, Serve(n, s)
  PROVE  Served(n)' /\ \E t \in 0 .. position'[n] : Progress(n, t)'
<1> DEFINE i == position[n]
           size == taken + Len(queue[n])
<1>1. /\ i \in Nat /\ taken \in Nat /\ Len(queue[n]) \in Nat /\ size \in Nat /\ size <= i
      /\ wire \in Seq(Packets) /\ s # None
  BY LenProperties, SessionAssumption DEF TypeOK, Progress
<1>2. /\ position'[n] = i + 1 /\ stream'[n] = s /\ UNCHANGED <<queue, got, state>>
      /\ stream[n] \in {None, s} /\ i < Len(s)
  BY DEF Serve, TypeOK, channel
<1>3. PacketOf(n, s, i + 1) \in Packets /\ ids[n + 1] = n
  BY ServedPacket DEF Serve, PacketOf
<1>4. wire' = Append(wire, PacketOf(n, s, i + 1))
  BY <1>3 DEF Serve, Transmit, PacketOf
\* Before its first packet a stream could still be any.
<1>5. /\ Carries(wire, n, s, size, i)
      /\ \A k \in 1 .. Len(queue[n]) : queue[n][k] = PacketOf(n, s, taken + k)
      /\ IsDataOf(got[n], n, taken)'
  <2>1. CASE stream[n] = s
    BY <1>2, <2>1 DEF Progress, IsDataOf
  <2>2. CASE stream[n] = None
    <3>1. i = 0 /\ taken = 0 /\ size = 0 /\ Len(queue[n]) = 0
      BY <1>1, <2>2 DEF Served
    <3>2. Carries(wire, n, s, size, i)
      BY <3>1 DEF Progress, Carries
    <3>3. IsDataOf(got[n], n, 0)'
      <4>1. /\ {j \in 1 .. 0 : stream[n][j] = "data"} = {}
            /\ {j \in 1 .. 0 : stream'[n][j] = "data"} = {}
        OBVIOUS
      <4>2. IsDataOf(got[n], n, 0) /\ got' = got
        BY <1>2, <3>1 DEF Progress
      <4> QED
        BY <4>1, <4>2 DEF IsDataOf
    <3> QED
      BY <3>1, <3>2, <3>3
  <2> QED
    BY <1>2, <2>1, <2>2
<1>6. Carries(wire', n, s, size, i + 1)
  BY <1>1, <1>3, <1>4, <1>5, AppendNext
<1>7. state[n] \notin {"ended", "failed"}
  BY <1>1, <1>2 DEF Progress, Served
<1>8. Progress(n, taken)'
  <2>1. taken + Len(queue[n]) <= i + 1
    BY <1>1
  <2>2. state'[n] \notin {"ended", "failed"} /\ queue'[n] = queue[n]
    BY <1>2, <1>7
  <2>3. task' # "panicked" => Expects(state'[n], s, taken)
    <3>1. stream[n] = None => taken = 0
      BY <1>1 DEF Served
    <3>2. task' = task
      BY DEF Serve
    <3> QED
      BY <1>2, <3>1, <3>2 DEF Progress, Expects
  <2> HIDE DEF i
  <2> QED
    BY <1>2, <1>5, <1>6, <2>1, <2>2, <2>3 DEF Progress
<1>9. Served(n)'
  <2>1. Len(s) \in Nat
    BY SessionAssumption, LenProperties
  <2> QED
    BY <1>1, <1>2, <2>1 DEF Served
<1> QED
  BY <1>1, <1>2, <1>8, <1>9

\* There is a packet in the queue, so the access point had chosen the stream.
LEMMA NextDue ==
  ASSUME TypeOK, NEW n \in Channels, Served(n),
         NEW taken \in 0 .. position[n], Progress(n, taken), queue[n] # <<>>
  PROVE  /\ stream[n] # None /\ stream[n] \in Streams
         /\ taken + 1 <= position[n] /\ position[n] <= Len(stream[n])
         /\ taken + 1 <= Len(stream[n])
         /\ Head(queue[n]) = PacketOf(n, stream[n], taken + 1)
<1>1. /\ position[n] \in Nat /\ taken \in Nat /\ Len(queue[n]) \in Nat \ {0}
      /\ Head(queue[n]) = queue[n][1]
  BY HeadTailProperties, LenProperties, EmptySeq DEF TypeOK
<1>2. taken + Len(queue[n]) <= position[n] /\ queue[n][1] = PacketOf(n, stream[n], taken + 1)
  BY <1>1 DEF Progress
<1>3. taken + 1 <= position[n]
  BY <1>1, <1>2
<1>4. stream[n] # None /\ stream[n] \in Streams /\ position[n] <= Len(stream[n])
  BY <1>1, <1>3 DEF Served, TypeOK
<1>5. Len(stream[n]) \in Nat
  BY <1>4, SessionAssumption, LenProperties
<1> QED
  BY <1>1, <1>2, <1>3, <1>4, <1>5

\* The packet that follows what a channel has taken of a stream.
LEMMA FollowsInStream ==
  ASSUME NEW s \in Streams, NEW taken \in Nat, taken + 1 <= Len(s), NEW st, Expects(st, s, taken)
  PROVE  /\ s[taken + 1] \in {"empty", "error", "garbled"} => taken + 1 = Len(s)
         /\ st = "header" => s[taken + 1] \in {"headers", "last", "error", "garbled"}
         /\ st = "data" => s[taken + 1] \in {"data", "empty", "error", "garbled"}
<1>1. Len(s) \in Nat /\ WellFormed(s)
  BY SessionAssumption, LenProperties
<1>2. s[taken + 1] \in {"empty", "error", "garbled"} => taken + 1 = Len(s)
  <2>1. taken + 1 \in 1 .. Len(s) - 1 => s[taken + 1] \in {"headers", "last", "data"}
    BY <1>1 DEF WellFormed
  <2> QED
    BY <1>1, <2>1
<1>3. taken > 0 => taken \in 1 .. Len(s) - 1
  BY <1>1
<1>4. ASSUME st = "header" PROVE s[taken + 1] \in {"headers", "last", "error", "garbled"}
  BY <1>1, <1>3, <1>4 DEF WellFormed, Expects
<1>5. ASSUME st = "data" PROVE s[taken + 1] \in {"data", "empty", "error", "garbled"}
  BY <1>1, <1>3, <1>5 DEF WellFormed, Expects
<1> QED
  BY <1>2, <1>4, <1>5

LEMMA PollInOrder ==
  ASSUME TypeOK, NEW n \in Channels, Served(n),
         NEW taken \in 0 .. position[n], Progress(n, taken),
         PollData(n), queue[n] # <<>>
  PROVE  Served(n)' /\ \E t \in 0 .. position'[n] : Progress(n, t)'
<1> DEFINE h == Head(queue[n])
           s == stream[n]
<1>1. /\ position[n] \in Nat /\ taken \in Nat /\ Len(queue[n]) \in Nat \ {0}
      /\ h = queue[n][1] /\ queue[n] \in Seq(ChannelPackets) /\ h \in ChannelPackets
  BY HeadTailProperties, LenProperties, EmptySeq DEF TypeOK
<1>2. /\ queue'[n] = Tail(queue[n]) /\ task # "panicked"
      /\ \/ Take(n, h) /\ UNCHANGED task
         \/ TakePanics(n, h) /\ task' = "panicked" /\ UNCHANGED <<state, got>>
      /\ UNCHANGED <<wire, stream, position>>
  BY DEF PollData, TypeOK, accesspoint
<1>3. /\ Len(queue'[n]) = Len(queue[n]) - 1
      /\ \A k \in 1 .. Len(queue'[n]) : queue'[n][k] = queue[n][k + 1]
  BY <1>1, <1>2, HeadTailProperties
<1>4. /\ taken + Len(queue[n]) <= position[n] /\ s # None /\ s \in Streams
      /\ position[n] <= Len(s) /\ taken + 1 <= Len(s) /\ Len(s) \in Nat
  BY NextDue, SessionAssumption, LenProperties DEF Progress
<1>5. h = PacketOf(n, s, taken + 1)
  BY NextDue
<1>6. h.body = s[taken + 1] /\ h.piece = Piece(n, taken + 1) /\ h.piece \in Pieces
  BY <1>1, <1>5 DEF PacketOf, ChannelPackets
<1>7. taken + 1 \in 0 .. position'[n] /\ (taken + 1) + Len(queue'[n]) = taken + Len(queue[n])
  <2>1. position'[n] = position[n] /\ taken + 1 <= position[n]
    BY <1>1, <1>2, <1>4
  <2>2. position[n] \in Nat /\ taken \in Nat /\ Len(queue[n]) \in Nat
    BY <1>1
  <2>3. taken + 1 \in 0 .. position'[n]
    BY <2>1, <2>2
  <2>4. Len(queue'[n]) = Len(queue[n]) - 1
    BY <1>3
  <2>5. (taken + 1) + Len(queue'[n]) = taken + Len(queue[n])
    <3> SUFFICES ASSUME NEW l \in Nat, NEW m, m = l - 1 PROVE (taken + 1) + m = taken + l
      BY <2>2, <2>4
    <3> QED
      BY <2>2
  <2> QED
    BY <2>3, <2>5
<1>8. ASSUME NEW k \in 1 .. Len(queue'[n])
      PROVE  queue'[n][k] = PacketOf(n, s, (taken + 1) + k)
  <2>1. k + 1 \in 1 .. Len(queue[n]) /\ taken + (k + 1) = (taken + 1) + k
    BY <1>1, <1>3
  <2>2. queue[n][k + 1] = PacketOf(n, s, taken + (k + 1))
    BY <2>1 DEF Progress
  <2> QED
    BY <1>3, <2>1, <2>2
<1> HIDE DEF h, s
\* What is due is what the channel expects: of its own packets it panics of a
\* garbled one only.
<1>13. Expects(state[n], s, taken) /\ state[n] \in {"header", "data"}
  BY <1>2 DEF Progress, PollData, s
<1>14. /\ s[taken + 1] \in {"empty", "error", "garbled"} => taken + 1 = Len(s)
       /\ state[n] = "header" => s[taken + 1] \in {"headers", "last", "error", "garbled"}
       /\ state[n] = "data" => s[taken + 1] \in {"data", "empty", "error", "garbled"}
  BY <1>1, <1>4, <1>13, FollowsInStream
<1>15. h.piece[1] = n
  BY <1>6 DEF Piece
<1>16. \/ /\ Take(n, h) /\ h.body # "garbled" /\ UNCHANGED task
       \/ /\ h.body = "garbled" /\ task' = "panicked" /\ UNCHANGED <<state, got>>
  <2>1. TakePanics(n, h) => h.body = "garbled"
    BY <1>6, <1>14 DEF TakePanics
  <2>2. Take(n, h) => h.body # "garbled"
    BY <1>15 DEF Take
  <2> QED
    BY <1>2, <2>1, <2>2
<1>9. IsDataOf(got[n], n, taken + 1)'
  <2>1. CASE h.body = "data"
    <3>1. got'[n] = Append(got[n], Piece(n, taken + 1))
      BY <1>6, <1>13, <1>14, <1>16, <2>1 DEF Take, TypeOK
    <3>2. IsDataOf(Append(got[n], Piece(n, taken + 1)), n, taken + 1)
      BY <1>1, <1>6, <2>1, DataAppended DEF Progress, TypeOK, s
    <3> QED
      BY <1>2, <3>1, <3>2 DEF IsDataOf
  <2>2. CASE h.body # "data"
    <3>1. got' = got
      BY <1>6, <1>13, <1>14, <1>16, <2>2 DEF Take
    <3>2. IsDataOf(got[n], n, taken + 1)
      BY <1>1, <1>6, <2>2, DataSkipped DEF Progress, s
    <3> QED
      BY <1>2, <3>1, <3>2 DEF IsDataOf
  <2> QED
    BY <2>1, <2>2
\* What ends a stream is the last of it.
<1>10. ASSUME state'[n] \in {"ended", "failed"}
       PROVE  /\ taken + 1 = Len(s)
              /\ s[taken + 1] = [ended |-> "empty", failed |-> "error"][state'[n]]
  <2>1. \/ h.body = "error" /\ state'[n] = "failed"
        \/ h.body = "empty" /\ state'[n] = "ended"
    BY <1>10, <1>13, <1>16 DEF Take, TypeOK
  <2> QED
    BY <1>6, <1>14, <2>1
<1>17. task' # "panicked" => Expects(state'[n], s, taken + 1)
  <2> SUFFICES ASSUME Take(n, h), h.body # "garbled" PROVE Expects(state'[n], s, taken + 1)
    BY <1>16
  <2>1. state'[n] = "header" => h.body = "headers"
    BY <1>6, <1>13, <1>14 DEF Take, TypeOK
  <2>2. state'[n] = "data" => h.body \in {"last", "data"}
    BY <1>6, <1>13, <1>14 DEF Take, TypeOK
  <2>3. taken + 1 > 0
    BY <1>1
  <2> QED
    BY <1>6, <2>1, <2>2, <2>3 DEF Expects
<1>11. Progress(n, taken + 1)'
  <2>1. Carries(wire', n, s, (taken + 1) + Len(queue'[n]), position[n])
    BY <1>2, <1>7 DEF Progress, s
  <2> QED
    BY <1>1, <1>2, <1>4, <1>7, <1>8, <1>9, <1>10, <1>17, <2>1 DEF Progress, s
<1>12. Served(n)'
  BY <1>2 DEF Served
<1> QED
  BY <1>7, <1>11, <1>12

LEMMA ProgressStep ==
  ASSUME TypeOK, IdsInOrder, OpenedFirst, WireKnown, InOrder, [Next]_vars, Fresh
  PROVE  \A n \in Channels : \E t \in 0 .. position'[n] : Progress(n, t)'
<1> SUFFICES ASSUME NEW n \in Channels
             PROVE  Served(n)' /\ \E t \in 0 .. position'[n] : Progress(n, t)'
  OBVIOUS
<1>0. PICK taken \in 0 .. position[n] : Progress(n, taken)
  BY DEF InOrder
<1>1. /\ Served(n) /\ taken \in Nat /\ taken + Len(queue[n]) \in Nat /\ position[n] \in Nat
      /\ wire \in Seq(Packets) /\ Progress(n, taken)
  BY <1>0, LenProperties DEF InOrder, TypeOK
\* A packet for someone else is sent.
<1>2. ASSUME NEW p \in Packets, ~ IsFor(p, n), wire' = Append(wire, p)
      PROVE  Carries(wire, n, stream[n], taken + Len(queue[n]), position[n]) =>
               Carries(wire', n, stream[n], taken + Len(queue[n]), position[n])
  BY <1>1, <1>2, AppendOther
<1>3. CASE /\ UNCHANGED <<wire, stream, position, queue, got, state>>
           /\ task' = "panicked" \/ task # "panicked" \/ UNCHANGED task
  BY <1>1, <1>3, OtherStep
<1>4. CASE Allocate
  <2>1. state'[n] = state[n] \/ (state'[n] = "header" /\ position[n] = 0)
    <3>1. n >= Len(ids) => position[n] = 0
      BY DEF OpenedFirst
    <3>2. state'[n] = state[n] \/ (state'[n] = "header" /\ n = Len(ids))
      BY <1>4 DEF Allocate, TypeOK, channel
    <3> QED
      BY <3>1, <3>2 DEF Channels
  <2> QED
    BY <1>1, <1>4, <2>1, OtherStep DEF Allocate, channel, accesspoint
<1>5. CASE Dispatch /\ wire # <<>> /\ wire' = Tail(wire)
  BY <1>1, <1>5, DispatchInOrder
<1>6. ASSUME NEW m \in Channels, PollData(m)
      PROVE  Served(n)' /\ \E t \in 0 .. position'[n] : Progress(n, t)'
  <2>1. CASE m = n /\ queue[n] # <<>>
    BY <1>1, <1>6, <2>1, PollInOrder
  <2>2. CASE m # n
    <3>1. UNCHANGED <<wire, stream, position>>
      BY <1>6 DEF PollData, accesspoint
    <3>2. queue'[n] = queue[n] /\ got'[n] = got[n] /\ state'[n] = state[n] /\ task # "panicked"
      BY <1>6, <2>2 DEF PollData, Take, TypeOK
    <3> QED
      BY <1>1, <3>1, <3>2, OtherStep
  <2>3. CASE queue[m] = <<>>
    BY <1>3, <1>6, <2>3 DEF PollData, accesspoint
  <2> QED
    BY <2>1, <2>2, <2>3
<1>7. ASSUME NEW m \in Channels, DropData(m)
      PROVE  Served(n)' /\ \E t \in 0 .. position'[n] : Progress(n, t)'
  <2>1. state'[n] = state[n] \/ state'[n] = "dropped"
    BY <1>7 DEF DropData, TypeOK
  <2> QED
    BY <1>1, <1>7, <2>1, OtherStep DEF DropData, accesspoint
<1>8. ASSUME NEW body \in Notices, Notify(body)
      PROVE  Served(n)' /\ \E t \in 0 .. position'[n] : Progress(n, t)'
  <2> DEFINE p == [cmd |-> "notice", id |-> 0, body |-> body, piece |-> 0]
  <2>1. p \in Packets /\ ~ IsFor(p, n)
    BY DEF Packets, IsFor
  <2>2. wire' = Append(wire, p) /\ UNCHANGED <<task, stream, position, queue, got, state>>
    BY <1>8 DEF Notify, Transmit, channel
  <2> QED
    BY <1>1, <1>2, <2>1, <2>2, OtherStep
<1>9. ASSUME NEW c \in Keys, NEW answer \in KeyAnswers, ReplyKey(c, answer)
      PROVE  Served(n)' /\ \E t \in 0 .. position'[n] : Progress(n, t)'
  <2> DEFINE p == [cmd |-> "key", id |-> c, body |-> answer, piece |-> 0]
  <2>1. p \in Packets /\ ~ IsFor(p, n)
    BY DEF Packets, IsFor
  <2>2. wire' = Append(wire, p) /\ UNCHANGED <<task, stream, position, queue, got, state>>
    BY <1>9 DEF ReplyKey, Transmit, channel
  <2> QED
    BY <1>1, <1>2, <2>1, <2>2, OtherStep
<1>10. ASSUME NEW m \in Channels, NEW s \in Streams, Serve(m, s)
       PROVE  Served(n)' /\ \E t \in 0 .. position'[n] : Progress(n, t)'
  <2>1. CASE m = n
    BY <1>1, <1>10, <2>1, ServeInOrder
  <2>2. CASE m # n
    <3> DEFINE p == PacketOf(m, s, position[m] + 1)
    <3>1. p \in Packets /\ ids[m + 1] = m
      BY <1>10, ServedPacket DEF Serve, PacketOf
    <3>2. wire' = Append(wire, p)
      BY <1>10, <3>1 DEF Serve, Transmit, PacketOf
    <3>3. ~ IsFor(p, n)
      BY <2>2 DEF IsFor, PacketOf
    <3>4. /\ position'[n] = position[n] /\ stream'[n] = stream[n]
          /\ UNCHANGED <<task, queue, got, state>>
      BY <1>10, <2>2 DEF Serve, TypeOK, channel
    <3> HIDE DEF p
    <3> QED
      BY <1>1, <1>2, <3>1, <3>2, <3>3, <3>4, OtherStep
  <2> QED
    BY <2>1, <2>2
<1> QED
  BY <1>3, <1>4, <1>5, <1>6, <1>7, <1>8, <1>9, <1>10 DEF Next, vars, channel, accesspoint, RequestKey,
     Dispatch, DropSession, Close, Over

LEMMA ServedStep ==
  ASSUME TypeOK, InOrder, [Next]_vars, NEW n \in Channels
  PROVE  Served(n)'
<1>1. ASSUME NEW m \in Channels, NEW s \in Streams, Serve(m, s)
      PROVE  Served(n)'
  <2>1. CASE m = n
    <3>1. position'[n] = position[n] + 1 /\ stream'[n] = s /\ position[n] < Len(s) /\ s # None
      BY <1>1, <2>1, SessionAssumption DEF Serve, TypeOK
    <3>2. position[n] \in Nat /\ Len(s) \in Nat
      BY SessionAssumption, LenProperties DEF TypeOK
    <3> QED
      BY <3>1, <3>2 DEF Served
  <2>2. CASE m # n
    BY <1>1, <2>2 DEF Serve, TypeOK, Served, InOrder
  <2> QED
    BY <2>1, <2>2
<1>2. CASE UNCHANGED <<stream, position>>
  BY <1>2 DEF Served, InOrder
<1> QED
  BY <1>1, <1>2 DEF Next, vars, accesspoint, RequestKey, Allocate, Dispatch, PollData, DropData,
     DropSession, Notify, ReplyKey, Close, Over

LEMMA InOrderStep ==
  ASSUME TypeOK, IdsInOrder, OpenedFirst, WireKnown, InOrder, [Next]_vars
  PROVE  InOrder'
<1>1. Fresh' => Fresh
  <2>1. Len(ids) \in Nat /\ Len(ids') \in Nat /\ Len(ids') >= Len(ids)
    BY OpenedStep, TypeStep, LenProperties DEF TypeOK
  <2> QED
    BY <2>1, BuildStays, BuildTypes DEF Fresh
<1> QED
  BY <1>1, ProgressStep, ServedStep DEF InOrder

-----------------------------------------------------------------------------
\* What the process died of cannot be undone.
LEMMA StaysDead ==
  ASSUME TypeOK, InOrder, PanicsForAReason, task = "panicked", [Next]_vars
  PROVE  PanicsForAReason'
<1>1. CASE UNCHANGED <<build, alive, state, sequence, ids, key_future, key_reply, stream, position>>
           /\ (closed => closed') /\ (misspoke => misspoke')
  BY <1>1 DEF PanicsForAReason
<1>2. ASSUME NEW c \in Keys, NEW answer \in KeyAnswers, ReplyKey(c, answer)
      PROVE  PanicsForAReason'
  <2>1. \A d \in Keys : key_reply[d] = "garbled" => key_reply'[d] = "garbled"
    BY <1>2, SessionAssumption DEF ReplyKey, TypeOK, KeyAnswers
  <2> QED
    BY <1>2, <2>1 DEF ReplyKey, PanicsForAReason, audiokey, channel
<1>3. ASSUME NEW n \in Channels, NEW s \in Streams, Serve(n, s)
      PROVE  PanicsForAReason'
  <2>1. stream[n] # None => position[n] # Len(stream[n])
    BY <1>3 DEF Serve
  <2>2. \A m \in Channels : m # n => position'[m] = position[m] /\ stream'[m] = stream[m]
    BY <1>3 DEF Serve, TypeOK
  <2>3. UNCHANGED <<build, alive, task, state, sequence, ids, key_future, key_reply, closed, misspoke>>
    BY <1>3 DEF Serve, audiokey, channel
  <2> QED
    BY <2>1, <2>2, <2>3 DEF PanicsForAReason
<1>4. ASSUME NEW body \in Notices, Notify(body)
      PROVE  PanicsForAReason'
  <2>1. misspoke => misspoke'
    BY <1>4 DEF Notify
  <2> QED
    BY <1>1, <1>4, <2>1 DEF Notify, audiokey, channel
<1>5. CASE Close
  BY <1>1, <1>5 DEF Close, audiokey, channel, accesspoint
<1>6. CASE UNCHANGED vars
  BY <1>1, <1>6 DEF vars, audiokey, channel, accesspoint
<1> QED
  BY <1>2, <1>3, <1>4, <1>5, <1>6 DEF Next, Over, RequestKey, Allocate, Dispatch, PollData, DropData, DropSession

LEMMA PollPanics ==
  ASSUME TypeOK, IdsInOrder, OpenedFirst, InOrder,
         NEW n \in Channels, PollData(n), task' = "panicked"
  PROVE  PanicsForAReason'
<1>1. /\ state[n] \in {"header", "data"} /\ task # "panicked"
      /\ UNCHANGED <<build, alive, sequence, channels, ids, stream, position>>
  BY DEF PollData, accesspoint
<1>2. state' = state
  BY <1>1 DEF PollData
<1>3. n < Len(ids) /\ n \in Nat /\ Len(ids) \in Nat
  BY <1>1, LenProperties DEF OpenedFirst, TypeOK, Channels
\* An id was given twice: this is no debug build.
<1>4. CASE ~ Fresh
  <2>1. ~ build.debug /\ Len(ids) > build.ids
    BY <1>3, <1>4, SessionAssumption DEF IdsInOrder, Fresh, TypeOK
  <2> QED
    BY <1>1, <2>1 DEF PanicsForAReason
<1>5. CASE Fresh /\ queue[n] = <<>>
  <2>1. ~ HasSender(n)
    BY <1>1, <1>5 DEF PollData
  <2>2. n + 1 \in 1 .. Len(ids) /\ n = (n + 1) - 1
    BY <1>3
  <2>3. ids[n + 1] = n
    BY <1>5, <2>2 DEF IdsInOrder
  <2>4. n \in Ids
    BY <2>2, <2>3, ElementOfSeq DEF TypeOK
  <2>5. channels[n] = n
    BY <1>3, <1>5, <2>4 DEF IdsInOrder, TypeOK
  <2>6. ~ alive
    BY <2>1, <2>3, <2>5 DEF HasSender
  <2> QED
    BY <1>1, <1>2, <2>6 DEF PanicsForAReason
<1>6. CASE Fresh /\ queue[n] # <<>>
  <2>0. PICK taken \in 0 .. position[n] : Progress(n, taken)
    BY <1>6 DEF InOrder
  <2>1. Served(n) /\ taken \in Nat /\ position[n] \in Nat
    BY <2>0 DEF InOrder, TypeOK
  <2>2. /\ stream[n] # None /\ stream[n] \in Streams
        /\ taken + 1 <= position[n] /\ position[n] <= Len(stream[n])
        /\ taken + 1 <= Len(stream[n])
        /\ Head(queue[n]) = PacketOf(n, stream[n], taken + 1)
    BY <1>6, <2>0, <2>1, NextDue
  <2>3. Expects(state[n], stream[n], taken)
    BY <1>1, <2>0 DEF Progress
  <2>4. /\ stream[n][taken + 1] \in {"empty", "error", "garbled"} => taken + 1 = Len(stream[n])
        /\ state[n] = "header" => stream[n][taken + 1] \in {"headers", "last", "error", "garbled"}
    BY <2>1, <2>2, <2>3, FollowsInStream
  <2>5. TakePanics(n, Head(queue[n]))
    BY <1>1, <1>6 DEF PollData
  <2>6. stream[n][taken + 1] = "garbled"
    BY <2>2, <2>4, <2>5 DEF TakePanics, PacketOf
  <2>7. position[n] = Len(stream[n]) /\ stream[n][position[n]] = "garbled"
    <3>1. Len(stream[n]) \in Nat
      BY <2>2, SessionAssumption, LenProperties
    <3> QED
      BY <2>1, <2>2, <2>4, <2>6, <3>1
  <2> QED
    BY <1>1, <1>2, <2>2, <2>7 DEF PanicsForAReason
<1> QED
  BY <1>4, <1>5, <1>6

LEMMA PanicStep ==
  ASSUME TypeOK, IdsInOrder, OpenedFirst, PendingWaits, WireKnown, InOrder, PanicsForAReason,
         [Next]_vars
  PROVE  PanicsForAReason'
<1> SUFFICES ASSUME task # "panicked", task' = "panicked" PROVE PanicsForAReason'
  BY StaysDead DEF PanicsForAReason
<1>1. CASE Allocate
  <2>1. NextId = None /\ UNCHANGED channel /\ UNCHANGED build
    BY <1>1 DEF Allocate
  <2>2. build.debug /\ sequence = build.ids - 1
    <3>1. sequence \in Nat /\ build.ids \in Nat /\ sequence + 1 # None /\ 0 # None
      BY SessionAssumption DEF TypeOK, Ids
    <3>2. sequence < build.ids
      BY DEF IdsInOrder
    <3> QED
      BY <2>1, <3>1, <3>2 DEF NextId
  <2> QED
    BY <2>1, <2>2 DEF PanicsForAReason, channel
<1>2. CASE Dispatch
  <2>1. UNCHANGED <<key_reply, misspoke, closed>>
    BY <1>2 DEF Dispatch, accesspoint
  <2>2. CASE closed
    BY <2>1, <2>2 DEF PanicsForAReason
  <2>3. CASE wire # <<>> /\ Head(wire).cmd = "notice" /\ Head(wire).body = "garbled"
    BY <2>1, <2>3, FirstOfWire DEF Known, PanicsForAReason
  <2>4. CASE wire # <<>> /\ Head(wire).cmd = "key" /\ CompleteKey(Head(wire))
    <3> DEFINE c == Head(wire).id
    <3>1. c \in Keys /\ key_reply[c] = Head(wire).body
      BY <2>4, FirstOfWire, PacketTypes DEF Known
    <3>2. c \in key_pending /\ Head(wire).body = "garbled" /\ UNCHANGED key_future
      BY <2>4 DEF CompleteKey
    <3>3. key_future[c] = "waiting"
      BY <3>2 DEF PendingWaits
    <3> HIDE DEF c
    <3> QED
      BY <2>1, <3>1, <3>2, <3>3 DEF PanicsForAReason
  <2> QED
    BY <1>2, <2>2, <2>3, <2>4 DEF Dispatch
<1>3. ASSUME NEW n \in Channels, PollData(n)
      PROVE  PanicsForAReason'
  BY <1>3, PollPanics
<1> QED
  BY <1>1, <1>2, <1>3 DEF Next, vars, RequestKey, DropData, DropSession, Notify, ReplyKey, Serve,
     Close, Over

-----------------------------------------------------------------------------
LEMMA SessionInvStep == SessionInv /\ [Next]_vars => SessionInv'
BY TypeStep, IdsStep, OpenedStep, PendingStep, WireStep, InOrderStep, KeyStep, PanicStep
   DEF SessionInv

\* In every behaviour of the Session the packets of a channel and the ids lead
\* where they should: the invariant the three theorems below rest on.
THEOREM SessionInvHolds == Spec => []SessionInv
<1>1. Init => SessionInv
  BY InitSessionInv
<1>2. SessionInv /\ [Next]_vars => SessionInv'
  BY SessionInvStep
<1> QED
  BY <1>1, <1>2, PTL DEF Spec

\* What a ChannelData yields is the data of its own channel, in order and whole,
\* however many channels there are and whatever is on the wire, until an id is
\* given twice.
THEOREM ChannelDataIsWhole == Spec => []DataIsWhole
<1>1. SessionInv => DataIsWhole
  <2> SUFFICES ASSUME SessionInv, Fresh, NEW n \in Channels
               PROVE  /\ \E size \in 0 .. position[n] : IsDataOf(got[n], n, size)
                      /\ state[n] \in {"ended", "failed"} =>
                           /\ IsDataOf(got[n], n, Len(stream[n]))
                           /\ stream[n][Len(stream[n])] =
                                [ended |-> "empty", failed |-> "error"][state[n]]
    BY DEF DataIsWhole, Fresh
  <2>1. PICK taken \in 0 .. position[n] : Progress(n, taken)
    BY DEF SessionInv, InOrder
  <2> QED
    BY <2>1 DEF Progress
<1> QED
  BY <1>1, SessionInvHolds, PTL

\* A key, or its refusal, reaches the request it was sent for.
THEOREM AudioKeyIsForRequest == Spec => []KeyIsForRequest
<1>1. SessionInv => KeyIsForRequest
  BY DEF SessionInv
<1> QED
  BY <1>1, SessionInvHolds, PTL

\* The process dies only of a lost connection, of a Session dropped under an open
\* channel, of a packet that cannot be read, and of the ids running out.  An
\* answer to a request, or the end of a stream, that cannot be read does it no
\* harm when nobody waits for it; and until an id is given twice every packet of
\* the right shape reaches a channel that expects it.
THEOREM SessionPanicsForAReason == Spec => []PanicsForAReason
<1>1. SessionInv => PanicsForAReason
  BY DEF SessionInv
<1> QED
  BY <1>1, SessionInvHolds, PTL
=============================================================================
