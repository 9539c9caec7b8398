------------------------------- MODULE Mercury -------------------------------
(***************************************************************************)
(* core/src/mercury/mod.rs: MercuryManager.  Requests get a sequence       *)
(* number and an entry in `pending'; DispatchTask hands over the packets   *)
(* of the access point, which may cut a message anywhere and interleave    *)
(* the packets of several messages; a message is put together again in its *)
(* entry, and its final packet completes a oneshot or, for an event, feeds *)
(* the subscriptions whose URI it starts with.                             *)
(*                                                                         *)
(* The reactor has one thread: DispatchTask takes every packet there is    *)
(* (`dispatching') before the task that polls the futures runs again.      *)
(*                                                                         *)
(* A message is a sequence of parts, the first being its header, and a     *)
(* part is a sequence of chunks, a chunk being the most that is never cut. *)
(*                                                                         *)
(* Assumed of the access point: it numbers its events with sequence        *)
(* numbers that no request has.  `pending' is one table, which is looked   *)
(* up by the number alone (mod.rs:146): an event with the number of an     *)
(* open request would be taken for its answer.                             *)
(***************************************************************************)
EXTENDS Integers, Sequences, FiniteSets

CONSTANTS
  None,
  MaxRequests,  \* bound: how many requests are made
  MaxEvents,    \* bound: how many events the access point sends
  Asks,         \* what may be requested: [method, uri]
  Replies,      \* how a request may be answered: [status, sizes], `sizes' being
                \* the number of chunks of each part, header first
  Events,       \* what may happen: [uri, sizes]
  ListedUri,    \* the URI named by a payload part of a subscription's answer
  Extends       \* the pairs <<uri, prefix>> such that uri starts with prefix

Requests == 0 .. MaxRequests - 1   \* our sequence numbers
EventIds == MaxRequests .. MaxRequests + MaxEvents - 1  \* the access point's
Conversations == Requests \cup EventIds

\* Chunks, and what is made of them: parts, and the parts of a message or packet.
Chunks == [of : Conversations, part : Nat \ {0}, piece : Nat \ {0}]
Parts == Seq(Chunks)
Payloads == Seq(Parts)

Entries == [parts : Payloads, partial : Parts, callback : BOOLEAN]
Results == [status : {"ok", "error"}, payload : Payloads]
Uris == {a.uri : a \in Asks} \cup {e.uri : e \in Events}
Messages ==
  [cmd : {"reply", "event"}, status : {"ok", "error"}, uri : Uris, parts : Payloads]

ASSUME MercuryAssumption ==
  /\ MaxRequests \in Nat /\ MaxEvents \in Nat
  /\ \A a \in Asks : a.method \in {"GET", "SEND", "SUB"}
  /\ \A r \in Replies : r.status \in {"ok", "error"} /\ r.sizes \in Seq(Nat \ {0}) \ {<<>>}
  /\ \A e \in Events : e.sizes \in Seq(Nat \ {0}) \ {<<>>}
  /\ None \notin Asks /\ None \notin Entries /\ None \notin Results /\ None \notin Messages

VARIABLES
  \* MercuryManager.
  sequence, pending, subscriptions,
  panicked,  \* by the unwrap of complete_request
  \* Its callers: a future per request, what it was completed with, and the
  \* receiver a subscription turned into.
  asks, future, answer, inbox,
  \* The access point: the messages it began, what it has yet to send of each,
  \* and the packets under way.
  messages, unsent, wire,
  dispatching

manager == <<sequence, pending, subscriptions, panicked>>
callers == <<asks, future, answer, inbox>>
accesspoint == <<messages, unsent>>
vars == <<manager, callers, accesspoint, wire, dispatching>>

-----------------------------------------------------------------------------
Chunk(c, i, j) == [of |-> c, part |-> i, piece |-> j]
Part(c, i, size) == [j \in 1 .. size |-> Chunk(c, i, j)]
Message(c, cmd, status, uri, sizes) ==
  [cmd |-> cmd, status |-> status, uri |-> uri,
   parts |-> [i \in DOMAIN sizes |-> Part(c, i, sizes[i])]]

\* What a caller is told: MercuryResponse without its URI, or MercuryError.
Result(status, payload) ==
  [status |-> status, payload |-> IF status = "ok" THEN payload ELSE <<>>]

\* MercuryPending.  An empty `partial' is Option::None.
NewPending(callback) == [parts |-> <<>>, partial |-> <<>>, callback |-> callback]

Init ==
  /\ sequence = 0
  /\ pending = [c \in Conversations |-> None]
  /\ subscriptions = {}
  /\ panicked = FALSE
  /\ asks = [c \in Requests |-> None]
  /\ future = [c \in Requests |-> "none"]
  /\ answer = [c \in Requests |-> None]
  /\ inbox = [c \in Requests |-> <<>>]
  /\ messages = [c \in Conversations |-> None]
  /\ unsent = [c \in Conversations |-> <<>>]
  /\ wire = <<>>
  /\ dispatching = FALSE

-----------------------------------------------------------------------------
\* There is one process: a panic of DispatchTask or of the caller is its end.
Dead == panicked \/ \E c \in Requests : future[c] = "panicked"

\* request() (get, send and subscribe go through it).
Request(a) ==
  /\ ~ dispatching /\ ~ Dead
  /\ sequence < MaxRequests
  /\ sequence' = sequence + 1
  /\ pending' = [pending EXCEPT ![sequence] = NewPending(TRUE)]
  /\ asks' = [asks EXCEPT ![sequence] = a]
  /\ future' = [future EXCEPT ![sequence] = "waiting"]
  /\ UNCHANGED <<subscriptions, panicked, answer, inbox, accesspoint, wire, dispatching>>

\* The closure of subscribe(), run when its caller polls: the old protocol
\* lists URIs in the payload, the new one means the URI that was asked for.
\* Each becomes a subscription of its own, with the same receiver.  The Vec is a
\* set here, as retain() treats each by itself; `entry' keeps equal ones apart.
Subscribe(c) ==
  LET payload == answer[c].payload
      uris == IF payload = <<>> THEN <<asks[c].uri>> ELSE [i \in DOMAIN payload |-> ListedUri]
  IN subscriptions' =
       subscriptions \cup {[uri |-> uris[i], to |-> c, entry |-> i] : i \in DOMAIN uris}

\* The caller polls a future that is ready.  What is listed for a subscription is
\* unwrapped: it may be no Subscription.
TakeAnswer(c) ==
  /\ ~ dispatching /\ ~ Dead
  /\ future[c] \in {"ok", "error"}
  /\ LET subscribed == asks[c].method = "SUB" /\ future[c] = "ok"
     IN \/ /\ future' = [future EXCEPT ![c] = "taken"]
           /\ IF subscribed THEN Subscribe(c) ELSE UNCHANGED subscriptions
        \/ /\ subscribed /\ answer[c].payload # <<>>
           /\ future' = [future EXCEPT ![c] = "panicked"]
           /\ UNCHANGED subscriptions
  /\ UNCHANGED <<sequence, pending, panicked, asks, answer, inbox, accesspoint, wire, dispatching>>

\* The caller drops its future, or the receiver its subscription became.
Drop(c) ==
  /\ ~ dispatching /\ ~ Dead
  /\ future[c] \in {"waiting", "ok", "error"} \/ (future[c] = "taken" /\ asks[c].method = "SUB")
  /\ future' = [future EXCEPT ![c] = "dropped"]
  /\ UNCHANGED <<manager, asks, answer, inbox, accesspoint, wire, dispatching>>

-----------------------------------------------------------------------------
\* complete_request.  The header is unwrapped: it must be there and parse.
HeaderOf(part) == {c \in Conversations : messages[c] # None /\ messages[c].parts[1] = part}

StartsWith(uri, prefix) == uri = prefix \/ <<uri, prefix>> \in Extends

\* subscriptions.retain: each one that matches passes the event on to its
\* receiver, and goes if that is gone.
Deliver(uri, payload) ==
  LET hits == {s \in subscriptions : StartsWith(uri, s.uri)}
      taken == {s \in hits : future[s.to] = "taken"}
  IN /\ subscriptions' = (subscriptions \ hits) \cup taken
     /\ inbox' = [c \in Requests |->
          inbox[c] \o [i \in 1 .. Cardinality({s \in taken : s.to = c}) |-> payload]]

Complete(c, cmd, entry) ==
  \/ /\ HeaderOf(Head(entry.parts)) = {}
     /\ panicked' = TRUE
     /\ UNCHANGED <<subscriptions, future, answer, inbox>>
  \/ \E h \in HeaderOf(Head(entry.parts)) :
       /\ UNCHANGED panicked
       /\ IF messages[h].status = "ok" /\ cmd = "event"
          THEN Deliver(messages[h].uri, Tail(entry.parts)) /\ UNCHANGED <<future, answer>>
          ELSE /\ UNCHANGED <<subscriptions, inbox>>
               /\ IF entry.callback /\ future[c] = "waiting"
                  THEN /\ future' = [future EXCEPT ![c] = messages[h].status]
                       /\ answer' = [answer EXCEPT ![c] =
                                       Result(messages[h].status, Tail(entry.parts))]
                  ELSE UNCHANGED <<future, answer>>

\* Mutant of AddParts: what was partial is not put in front.
AddPartsAfresh(entry, packet) ==
  [entry EXCEPT !.parts = @ \o packet.parts]

\* The parts of an entry after a packet: the first part of the packet goes on
\* from the partial one, the last one stays partial when the flags say 2.
AddParts(entry, packet) ==
  LET n == Len(packet.parts)
      joined == [packet.parts EXCEPT ![1] = entry.partial \o @]
  IN IF n = 0 THEN entry
     ELSE IF packet.flags = 2
     THEN [entry EXCEPT !.parts = @ \o SubSeq(joined, 1, n - 1), !.partial = joined[n]]
     ELSE [entry EXCEPT !.parts = @ \o joined, !.partial = <<>>]

\* Mutants: a packet that ends with a part is taken for the last one; a finished
\* entry is left in the map; an unfinished one is not put back.
IsFinalEarly(packet) == packet.flags # 2
RemainingAlways(packet, entry) == entry
RemainingNever(packet, entry) == None

IsFinal(packet) == packet.flags = 1
Remaining(packet, entry) == IF IsFinal(packet) THEN None ELSE entry

\* dispatch(), called by DispatchTask for the next packet.
Dispatch ==
  /\ wire # <<>> /\ ~ Dead
  /\ dispatching' = TRUE
  /\ wire' = Tail(wire)
  /\ LET packet == Head(wire)
         c == packet.seq
         known == pending[c] # None
         entry == AddParts(IF known THEN pending[c] ELSE NewPending(FALSE), packet)
     IN IF known \/ packet.cmd = "event"
        THEN /\ pending' = [pending EXCEPT ![c] = Remaining(packet, entry)]
             /\ IF IsFinal(packet) THEN Complete(c, packet.cmd, entry)
                ELSE UNCHANGED <<subscriptions, panicked, future, answer, inbox>>
        ELSE UNCHANGED <<pending, subscriptions, panicked, future, answer, inbox>>
  /\ UNCHANGED <<sequence, asks, accesspoint>>

\* DispatchTask finds nothing more to read.
EndDispatch ==
  /\ dispatching /\ wire = <<>>
  /\ dispatching' = FALSE
  /\ UNCHANGED <<manager, callers, accesspoint, wire>>

-----------------------------------------------------------------------------
\* The access point answers a request it has received, once.
Reply(c, r) ==
  /\ c < sequence
  /\ messages[c] = None
  /\ messages' = [messages EXCEPT ![c] = Message(c, "reply", r.status, asks[c].uri, r.sizes)]
  /\ unsent' = [unsent EXCEPT ![c] = messages'[c].parts]
  /\ UNCHANGED <<manager, callers, wire, dispatching>>

\* A subscription is in force, for the access point, when its answer is out.
InForce == \E c \in Requests :
  /\ messages[c] # None
  /\ asks[c].method = "SUB" /\ messages[c].status = "ok" /\ unsent[c] = <<>>

Happen(e, event) ==
  /\ InForce
  /\ messages[e] = None
  /\ \A f \in EventIds : f < e => messages[f] # None
  /\ messages' = [messages EXCEPT ![e] = Message(e, "event", "ok", event.uri, event.sizes)]
  /\ unsent' = [unsent EXCEPT ![e] = messages'[e].parts]
  /\ UNCHANGED <<manager, callers, wire, dispatching>>

\* It sends `whole' more parts of a message and perhaps a bit of the next one.
SendPacket(c, whole, cut) ==
  LET rest == unsent[c]
      bit == IF cut = 0 THEN <<>> ELSE <<SubSeq(rest[whole + 1], 1, cut)>>
      left == IF cut = 0 THEN SubSeq(rest, whole + 1, Len(rest))
              ELSE <<SubSeq(rest[whole + 1], cut + 1, Len(rest[whole + 1]))>>
                   \o SubSeq(rest, whole + 2, Len(rest))
  IN /\ unsent' = [unsent EXCEPT ![c] = left]
     /\ wire' = Append(wire,
          [seq |-> c, cmd |-> messages[c].cmd, parts |-> SubSeq(rest, 1, whole) \o bit,
           flags |-> IF left = <<>> THEN 1 ELSE IF cut > 0 THEN 2 ELSE 0])
     /\ UNCHANGED <<manager, callers, messages, dispatching>>

SendSome(c) ==
  \E whole \in 0 .. Len(unsent[c]) :
    \E cut \in 0 .. (IF whole < Len(unsent[c]) THEN Len(unsent[c][whole + 1]) - 1 ELSE 0) :
      whole + cut > 0 /\ SendPacket(c, whole, cut)

\* Every request was made and answered, and nothing is under way; or a panic.
Idle ==
  /\ \/ Dead
     \/ /\ sequence = MaxRequests
        /\ wire = <<>> /\ ~ dispatching
        /\ \A c \in Requests : future[c] # "waiting"
  /\ UNCHANGED vars

Next ==
  \/ \E a \in Asks : Request(a)
  \/ \E c \in Requests : TakeAnswer(c) \/ Drop(c)
  \/ Dispatch \/ EndDispatch
  \/ \E c \in Requests, r \in Replies : Reply(c, r)
  \/ \E e \in EventIds, event \in Events : Happen(e, event)
  \/ \E c \in Conversations : SendSome(c)
  \/ Idle

Spec == Init /\ [][Next]_vars

\* The reactor runs DispatchTask when there is something to read and the other
\* task when a future is ready; the access point answers, and sends what it began.
Fairness ==
  /\ WF_vars(Dispatch) /\ WF_vars(EndDispatch)
  /\ \A c \in Requests : /\ SF_vars(TakeAnswer(c))
                         /\ WF_vars(\E r \in Replies : Reply(c, r))
  /\ \A c \in Conversations : WF_vars(SendSome(c))

FairSpec == Spec /\ Fairness

-----------------------------------------------------------------------------
\* Messages cut and interleaved in any way are put together again: nobody gets
\* the answer to another request, or an answer with a piece missing.
Calls == INSTANCE Rpc WITH
  Calls <- Requests, Open <- None,
  asked <- 0 .. sequence - 1,
  outcomes <- [c \in Requests |->
    IF messages[c] = None THEN None ELSE Result(messages[c].status, Tail(messages[c].parts))],
  answers <- answer

ImplementsRpc == Calls!Spec

\* A request has its entry until its final packet has been dispatched, and no
\* longer: no waiting caller is forgotten and no entry is left behind.
OnWire(c) == \E i \in DOMAIN wire : wire[i].seq = c

PendingUntilFinal ==
  \A c \in Requests :
    pending[c] # None <=>
      c < sequence /\ (messages[c] = None \/ unsent[c] # <<>> \/ OnWire(c))

\* A subscriber gets whole events, and each of them at one time: once, or as
\* often as the answer to its subscription listed URIs, if all of them match.
Listings(c) == IF answer[c].payload = <<>> THEN 1 ELSE Len(answer[c].payload)

EventsAreWhole ==
  \A c \in Requests : \A i, j \in DOMAIN inbox[c] :
    /\ \E e \in EventIds : messages[e] # None /\ inbox[c][i] = Tail(messages[e].parts)
    /\ inbox[c][i] = inbox[c][j] /\ inbox[c][i] # <<>> => i - j < Listings(c)

\* Every request is answered, unless its caller loses interest or the process
\* dies.
RequestsAreAnswered ==
  \A c \in Requests : future[c] = "waiting" ~> future[c] # "waiting" \/ Dead

\* README.md:23: the active device broadcasts its status to all others, "thus
\* spotify-connect-scrobbler can see the currently playing track".  An event
\* sent to a subscription in force reaches its subscriber.
EventIsDelivered ==
  \A e \in EventIds :
    messages[e] # None /\ unsent[e] = <<>> /\ ~ OnWire(e) =>
      \A c \in Requests :
        asks[c] # None /\ asks[c].method = "SUB" /\ messages[c] # None
          /\ messages[c].status = "ok" /\ future[c] # "dropped"
          => \E i \in DOMAIN inbox[c] : inbox[c][i] = Tail(messages[e].parts)
=============================================================================
