-------------------------------- MODULE Session --------------------------------
(***************************************************************************)
(* core/src/session.rs with channel.rs and audio_key.rs: DispatchTask      *)
(* takes the packets of an established connection and gives each to the    *)
(* manager it is meant for.  AudioKeyManager completes the request with    *)
(* its sequence number; ChannelManager feeds the channel with its id, from *)
(* which a ChannelData stream (metadata/src/cover.rs is its user) takes    *)
(* headers, then data, up to an empty packet or an error.  A ping, and a   *)
(* country (module Catalogue has what it is for), change nothing here.     *)
(* Mercury packets go to module Mercury.                                   *)
(*                                                                         *)
(* Whoever takes a packet indexes, asserts and unwraps: one that is not    *)
(* what it should be ("garbled") is a panic.  The managers live in the     *)
(* Session and die with it: what still waits for them finds its sender     *)
(* gone.  A panic, of DispatchTask or of the task that polls, is the end   *)
(* of the process.                                                         *)
(***************************************************************************)
EXTENDS Integers, Sequences, FiniteSetsExt

CONSTANTS
  None,
  Streams,      \* what the access point may send on a channel: sequences of
                \* "headers" (a packet of headers that others follow), "last"
                \* (the last packet of headers), "data", "empty", "error", and
                \* "garbled" (an error without a code or, in place of headers,
                \* bytes that make up none)
  SEQ_MOD,      \* 2^16, the channel ids ...
  IdSpaces,     \* ... and bound: how many of them there are, {2^16} in the code
  MaxChannels,  \* bound: channels that are opened
  MaxKeys,      \* bound: keys that are requested
  MaxAsked,     \* bound: channels and keys together
  MaxWire       \* bound: packets under way

Channels == 0 .. MaxChannels - 1
Keys == 0 .. MaxKeys - 1

KeyAnswers == {"key", "error", "garbled"}  \* garbled: a key of another length,
                                           \* an error without its two bytes
Notices == {"plain", "garbled"}  \* packets for no one; garbled: a country that is
                                 \* not UTF-8, a packet too short for its number
Bodies == {"headers", "last", "data", "empty", "error", "garbled"}

\* The shape of a stream: headers, data, then an end or, anywhere, an error.
WellFormed(s) ==
  /\ s # <<>> /\ s[Len(s)] \in {"empty", "error", "garbled"}
  /\ \A i \in 1 .. Len(s) - 1 :
       /\ s[i] \in {"headers", "last", "data"}
       /\ s[i] = "headers" => s[i + 1] \in {"headers", "last", "error", "garbled"}
       /\ s[i] \in {"last", "data"} => s[i + 1] \in {"data", "empty", "error", "garbled"}
  /\ s[1] \in {"headers", "last", "error", "garbled"}

ASSUME SessionAssumption ==
  /\ None \notin Nat /\ None \notin KeyAnswers \cup Notices /\ None \notin Streams
  /\ \A s \in Streams : s \in Seq(Bodies) /\ WellFormed(s)
  /\ SEQ_MOD \in Nat \ {0} /\ IdSpaces \subseteq 1 .. SEQ_MOD
  /\ MaxChannels \in Nat /\ MaxKeys \in Nat /\ MaxAsked \in Nat /\ MaxWire \in Nat

VARIABLES
  build,     \* debug: without --release; ids: the number of channel ids
  alive,     \* some strong reference to the Session is left
  task,      \* DispatchTask: "running", "over", or the process has "panicked"
  \* AudioKeyManager, and the futures of its callers.
  key_sequence, key_pending, key_future,
  \* ChannelManager, and the channels it handed out, in the order it did, whose
  \* state is "unopened", "header" or "data", "ended" or "failed" when Closed
  \* after None or after an error, or "dropped".
  sequence, channels, ids, queue, state, got,
  \* The access point and the wire.
  wire, closed, key_reply, stream, position, misspoke

audiokey == <<key_sequence, key_pending, key_future>>
channel == <<sequence, channels, ids, queue, state, got>>
accesspoint == <<key_reply, stream, position, misspoke>>
vars == <<build, alive, task, audiokey, channel, wire, closed, accesspoint>>

-----------------------------------------------------------------------------
\* Some("data") of channel n is its i-th packet.
Piece(n, i) == <<n, i>>

Init ==
  /\ build \in [debug : BOOLEAN, ids : IdSpaces]
  /\ alive = TRUE /\ task = "running"
  /\ key_sequence = 0 /\ key_pending = {} /\ key_future = [c \in Keys |-> "none"]
  /\ sequence = 0
  /\ channels = [id \in 0 .. SEQ_MOD - 1 |-> None]
  /\ ids = <<>>
  /\ queue = [n \in Channels |-> <<>>]
  /\ state = [n \in Channels |-> "unopened"]
  /\ got = [n \in Channels |-> <<>>]
  /\ wire = <<>> /\ closed = FALSE
  /\ key_reply = [c \in Keys |-> None]
  /\ stream = [n \in Channels |-> None]
  /\ position = [n \in Channels |-> 0]
  /\ misspoke = FALSE  \* a garbled notice was sent

-----------------------------------------------------------------------------
MayAsk == key_sequence + Len(ids) < MaxAsked

\* AudioKeyManager::request.
RequestKey ==
  /\ alive /\ task = "running" /\ key_sequence < MaxKeys /\ MayAsk
  /\ key_sequence' = key_sequence + 1
  /\ key_pending' = key_pending \cup {key_sequence}
  /\ key_future' = [key_future EXCEPT ![key_sequence] = "waiting"]
  /\ UNCHANGED <<build, alive, task, channel, wire, closed, accesspoint>>

\* SeqGenerator::get computes the next id when it hands one out.  At the last
\* the addition panics in a debug build (README.md:11); in the release build of
\* Dockerfile:5 it wraps.
NextId ==
  IF sequence + 1 < build.ids THEN sequence + 1 ELSE IF build.debug THEN None ELSE 0

\* ChannelManager::allocate, for a user that then asks the access point for a
\* file on that channel.  If the id was given before, the sender of the channel
\* that had it is dropped.
Allocate ==
  /\ alive /\ task = "running" /\ Len(ids) < MaxChannels /\ MayAsk
  /\ IF NextId = None
     THEN task' = "panicked" /\ UNCHANGED channel
     ELSE /\ sequence' = NextId
          /\ channels' = [channels EXCEPT ![sequence] = Len(ids)]
          /\ ids' = Append(ids, sequence)
          /\ state' = [state EXCEPT ![Len(ids)] = "header"]
          /\ UNCHANGED <<task, queue, got>>
  /\ UNCHANGED <<build, alive, audiokey, wire, closed, accesspoint>>

-----------------------------------------------------------------------------
\* Mutants of the dispatchers: the sequence number is not looked at; an answer
\* that is no key leaves its request pending; a packet overtakes those that wait.
CompleteAnyKey(packet) ==
  /\ key_pending' = {}
  /\ UNCHANGED task
  /\ key_future' = [c \in Keys |-> IF c \in key_pending THEN packet.body ELSE key_future[c]]

CompleteKeyOnly(packet) ==
  IF packet.id \in key_pending /\ packet.body = "key"
  THEN /\ key_pending' = key_pending \ {packet.id}
       /\ key_future' = [key_future EXCEPT ![packet.id] = "key"]
       /\ UNCHANGED task
  ELSE UNCHANGED <<key_pending, key_future, task>>

FeedFirst(packet) ==
  queue' = IF channels[packet.id] = None THEN queue
           ELSE [queue EXCEPT ![channels[packet.id]] = <<packet>> \o @]

\* AudioKeyManager::dispatch: the request is forgotten and completed, by what
\* is only then looked at.
CompleteKey(packet) ==
  /\ key_pending' = key_pending \ {packet.id}
  /\ \/ packet.id \notin key_pending /\ UNCHANGED <<key_future, task>>
     \/ /\ packet.id \in key_pending /\ packet.body = "garbled"
        /\ task' = "panicked" /\ UNCHANGED key_future
     \/ /\ packet.id \in key_pending /\ packet.body # "garbled"
        /\ key_future' = [key_future EXCEPT ![packet.id] = packet.body]
        /\ UNCHANGED task

\* ChannelManager::dispatch.  The entry of a channel that nobody reads any more
\* stays, and what is sent to it is lost.
FeedChannel(packet) ==
  queue' = IF channels[packet.id] = None THEN queue
           ELSE [queue EXCEPT ![channels[packet.id]] = Append(@, packet)]

\* DispatchTask::poll: Session::dispatch of the next packet, the end of the
\* connection, or the end of the Session.
Dispatch ==
  /\ task = "running"
  /\ \/ /\ alive /\ wire # <<>>
        /\ wire' = Tail(wire)
        /\ \/ /\ Head(wire).cmd = "notice"
              /\ task' = IF Head(wire).body = "garbled" THEN "panicked" ELSE task
              /\ UNCHANGED <<audiokey, queue>>
           \/ /\ Head(wire).cmd = "key"
              /\ CompleteKey(Head(wire))
              /\ UNCHANGED <<key_sequence, queue>>
           \/ /\ Head(wire).cmd = "channel"
              /\ FeedChannel(Head(wire))
              /\ UNCHANGED <<audiokey, task>>
     \/ /\ alive /\ wire = <<>> /\ closed   \* expect("connection closed")
        /\ task' = "panicked"
        /\ UNCHANGED <<audiokey, queue, wire>>
     \/ /\ ~ alive /\ (wire # <<>> \/ closed)
        /\ task' = "over"
        /\ UNCHANGED <<audiokey, queue, wire>>
  /\ UNCHANGED <<build, alive, sequence, channels, ids, state, got, closed, accesspoint>>

-----------------------------------------------------------------------------
\* Mutant of TakePanics: an error is no header, and no data either.
TakePanicsOfErrors(n, item) ==
  \/ item.body \in {"garbled", "error"}
  \/ state[n] = "header" /\ item.body \in {"data", "empty"}

\* The packets that Channel::poll panics of: those that make no sense where
\* they stand.  (If its id was given twice, a channel may find data that
\* happen to read as headers, and bytes that are no headers may be its data.)
TakePanics(n, item) ==
  \/ item.body = "garbled"
  \/ state[n] = "header" /\ item.body \in {"data", "empty"}

\* Mutant of Take: an empty packet is data like any other.
TakeBlindly(n, item) ==
  IF item.body \in {"data", "empty", "garbled"}
  THEN /\ state' = state
       /\ got' = [got EXCEPT ![n] = Append(@, item.piece)]
  ELSE /\ state' = [state EXCEPT ![n] = IF item.body = "error" THEN "failed"
                                        ELSE IF item.body = "last" THEN "data" ELSE "header"]
       /\ UNCHANGED got

\* Channel::poll on one packet; ChannelData goes on after headers.
Take(n, item) ==
  \/ /\ item.body = "error"                 \* recv_packet
     /\ state' = [state EXCEPT ![n] = "failed"]
     /\ UNCHANGED got
  \/ /\ item.body \in {"headers", "last"} /\ state[n] = "header"
     /\ state' = [state EXCEPT ![n] = IF item.body = "last" THEN "data" ELSE "header"]
     /\ UNCHANGED got
  \/ /\ item.body = "data" /\ state[n] = "header"
     /\ \E next \in {"header", "data"} : state' = [state EXCEPT ![n] = next]
     /\ UNCHANGED got
  \/ /\ item.body = "empty" /\ state[n] = "data"
     /\ state' = [state EXCEPT ![n] = "ended"]
     /\ UNCHANGED got
  \/ /\ item.body \notin {"empty", "error"} /\ state[n] = "data"
     /\ item.body = "garbled" => item.piece[1] # n
     /\ got' = [got EXCEPT ![n] = Append(@, item.piece)]
     /\ UNCHANGED state

HasSender(n) == alive /\ channels[ids[n + 1]] = n

\* ChannelData::poll.  When its sender is gone an empty queue means that nothing
\* will ever come, and recv_packet expects that never to be.
PollData(n) ==
  /\ task # "panicked"
  /\ state[n] \in {"header", "data"}
  /\ \/ /\ queue[n] # <<>>
        /\ queue' = [queue EXCEPT ![n] = Tail(@)]
        /\ \/ Take(n, Head(queue[n])) /\ UNCHANGED task
           \/ /\ TakePanics(n, Head(queue[n]))
              /\ task' = "panicked"
              /\ UNCHANGED <<state, got>>
     \/ /\ queue[n] = <<>> /\ ~ HasSender(n)
        /\ task' = "panicked"
        /\ UNCHANGED <<queue, state, got>>
  /\ UNCHANGED <<build, alive, audiokey, sequence, channels, ids, wire, closed, accesspoint>>

\* Its user loses interest.
DropData(n) ==
  /\ task # "panicked"
  /\ state[n] \in {"header", "data"}
  /\ state' = [state EXCEPT ![n] = "dropped"]
  /\ UNCHANGED <<build, alive, task, audiokey, sequence, channels, ids, queue, got, wire,
                 closed, accesspoint>>

\* The last strong reference goes, and with it the managers and their senders:
\* a oneshot without a sender is Canceled, which AudioKeyFuture calls an error.
DropSession ==
  /\ alive /\ task = "running"
  /\ alive' = FALSE
  /\ key_pending' = {}
  /\ key_future' = [c \in Keys |-> IF c \in key_pending THEN "error" ELSE key_future[c]]
  /\ UNCHANGED <<build, task, key_sequence, channel, wire, closed, accesspoint>>

-----------------------------------------------------------------------------
\* The access point.
Transmit(cmd, id, body, piece) ==
  /\ ~ closed /\ Len(wire) < MaxWire
  /\ wire' = Append(wire, [cmd |-> cmd, id |-> id, body |-> body, piece |-> piece])

\* A ping, a country, whatever is not for one of the managers, as often as it
\* likes.  The answer to a ping, 0x49, is a packet to send: see Connection.
Notify(body) ==
  /\ Transmit("notice", 0, body, 0)
  /\ misspoke' = (misspoke \/ body = "garbled")
  /\ UNCHANGED <<build, alive, task, audiokey, channel, closed, key_reply, stream, position>>

ReplyKey(c, answer) ==
  /\ c < key_sequence /\ key_reply[c] = None
  /\ Transmit("key", c, answer, 0)
  /\ key_reply' = [key_reply EXCEPT ![c] = answer]
  /\ UNCHANGED <<build, alive, task, audiokey, channel, closed, stream, position, misspoke>>

\* It serves the n-th channel by the id it was asked to use.
Serve(n, s) ==
  /\ n < Len(ids) /\ stream[n] \in {None, s}
  /\ position[n] < Len(s)
  /\ LET i == position[n] + 1
     IN /\ Transmit("channel", ids[n + 1], s[i], Piece(n, i))
        /\ position' = [position EXCEPT ![n] = i]
  /\ stream' = [stream EXCEPT ![n] = s]
  /\ UNCHANGED <<build, alive, task, audiokey, channel, closed, key_reply, misspoke>>

Close == ~ closed /\ closed' = TRUE
         /\ UNCHANGED <<build, alive, task, audiokey, channel, wire, accesspoint>>

Over ==
  /\ task # "running" \/ (wire = <<>> /\ ~ closed)
  /\ UNCHANGED vars

Next ==
  \/ RequestKey \/ Allocate \/ Dispatch
  \/ \E n \in Channels : PollData(n) \/ DropData(n)
  \/ DropSession
  \/ \E body \in Notices : Notify(body)
  \/ \E c \in Keys, answer \in KeyAnswers : ReplyKey(c, answer)
  \/ \E n \in Channels, s \in Streams : Serve(n, s)
  \/ Close \/ Over

Spec == Init /\ [][Next]_vars

\* The reactor polls DispatchTask when there is something on the wire, and some
\* stream when something reached one; the access point answers while it can.
Fairness ==
  /\ WF_vars(Dispatch)
  /\ WF_vars(\E n \in Channels : PollData(n))
  /\ SF_vars(\E n \in Channels, s \in Streams : Serve(n, s))
  /\ SF_vars(\E c \in Keys, answer \in KeyAnswers : ReplyKey(c, answer))

FairSpec == Spec /\ Fairness

-----------------------------------------------------------------------------
\* What `pieces' lists is the data among the first `size' packets of stream n:
\* all of it, and in order.
IsDataOf(pieces, n, size) ==
  /\ {pieces[k] : k \in DOMAIN pieces} = {Piece(n, i) : i \in {j \in 1 .. size : stream[n][j] = "data"}}
  /\ \A k, l \in DOMAIN pieces : k < l => pieces[k][2] < pieces[l][2]

\* What a ChannelData yields is the data of its own channel, in order and with
\* nothing left out; it ends where the access point ended it.  That is so until
\* an id is given twice, in a release build.
DataIsWhole ==
  Len(ids) <= build.ids => \A n \in Channels :
    /\ \E size \in 0 .. position[n] : IsDataOf(got[n], n, size)
    /\ state[n] \in {"ended", "failed"} =>
         /\ IsDataOf(got[n], n, Len(stream[n]))
         /\ stream[n][Len(stream[n])] = [ended |-> "empty", failed |-> "error"][state[n]]

\* A key goes to the request it was asked for, and while the Session lasts no
\* request fails of which the access point did not say so.
KeyIsForRequest ==
  \A c \in Keys :
    /\ key_future[c] \in {"key", "error"} /\ alive => key_future[c] = key_reply[c]
    /\ key_future[c] = "key" => key_reply[c] = "key"

\* A request for a key is answered, and what is served is read to its end,
\* whatever becomes of the Session, unless the process dies first.
KeysAreAnswered ==
  \A c \in Keys : key_future[c] = "waiting" ~> (key_future[c] # "waiting" \/ task = "panicked")

StreamsEnd ==
  \A n \in Channels :
    state[n] = "header" ~> (state[n] \in {"ended", "failed", "dropped"} \/ task = "panicked")

\* The process dies of a lost connection; of the Session being dropped under an
\* open channel; of a packet that cannot be read, and of an answer to a request
\* or of a stream only if somebody waits for it; and of the last id, or in a
\* release build of an id given twice.
PanicsForAReason ==
  task = "panicked" =>
    \/ closed
    \/ ~ alive /\ \E n \in Channels : state[n] \in {"header", "data"}
    \/ misspoke
    \/ \E c \in Keys : key_reply[c] = "garbled" /\ key_future[c] = "waiting"
    \/ \E n \in Channels :
         /\ state[n] \in {"header", "data"} /\ stream[n] # None
         /\ position[n] = Len(stream[n]) /\ stream[n][position[n]] = "garbled"
    \/ IF build.debug THEN sequence = build.ids - 1 ELSE Len(ids) > build.ids
=============================================================================
