------------------------------ MODULE Connection ------------------------------
(***************************************************************************)
(* core/src/connection, with apresolve.rs in front of it: from nothing to  *)
(* a link on which the access point has welcomed the user.  The client     *)
(* finds an address, opens a socket, writes ClientHello, reads             *)
(* APResponseMessage, derives keys from all the bytes of the two, writes   *)
(* ClientResponsePlaintext, and goes on with packets sealed by a pair of   *)
(* stream ciphers (codec.rs) of which the first each way is the login.     *)
(*                                                                         *)
(* TCP delivers the bytes of the access point in order but in pieces of    *)
(* any size; one byte is one element of `down', <<n, i>> being the i-th    *)
(* byte of its n-th packet (0 is APResponseMessage).  A sealed byte opens  *)
(* only with its nonce and at its place in the key stream.                 *)
(*                                                                         *)
(* A Future or Stream is polled as soon as there is something to read or   *)
(* room to write, so each of their polls is an action of its own.          *)
(***************************************************************************)
EXTENDS DiffieHellman, Sequences, FiniteSetsExt

CONSTANTS
  None,
  Resolutions,  \* how apresolve may end: "list", "error"; or not: "silent"
  Sockets,      \* how TcpStream::connect may end: "open", "refused", or
                \* "unknown", a host name that to_socket_addrs cannot resolve
  Responses,    \* what the access point may respond: "good", "refusal" (a
                \* message without a challenge), "garbled" (its body does not
                \* parse), "short" (its size field is below 4)
  FirstCmds,    \* its first packet: "welcome", "unreadable" (a welcome whose
                \* body does not parse), "failed", "other"
  Sizes,        \* sizes of payloads, in bytes
  LocalKey, RemoteKey, \* the private keys that the two ends draw
  MaxPackets,   \* bound: how many packets it sends
  MaxSends,     \* bound: how many packets the session sends
  MayBreak      \* the connection may be closed or reset

HELLO_SIZE == 3     \* bytes of ClientHello and of ClientResponsePlaintext, which
                    \* matter only in being written piece by piece
BODY_SIZE == 2      \* bytes of APResponseMessage after its size field
HEADER_SIZE == 3
MAC_SIZE == 4
SIZE_MOD == 65536   \* payload.len() as u16

ASSUME ConnectionAssumption ==
  /\ Resolutions \subseteq {"list", "error", "silent"}
  /\ Sockets \subseteq {"open", "refused", "unknown"}
  /\ Responses \subseteq {"good", "refusal", "garbled", "short"}
  /\ FirstCmds \subseteq {"welcome", "unreadable", "failed", "other"}
  /\ Sizes \subseteq 0 .. SIZE_MOD - 1
  /\ LocalKey \in Nat /\ RemoteKey \in Nat
  /\ MaxPackets \in Nat /\ MaxSends \in Nat /\ MayBreak \in BOOLEAN
  /\ None \notin {"open", "refused", "unknown"} \cup {"good", "refusal", "garbled", "short"}

VARIABLES
  address,       \* the access point that was picked
  socket,        \* how connecting to it ended
  stage,         \* the future that is being polled; "failed" is an io::Error, which
                 \* Main unwraps and the spawned DispatchTask turns into a panic
  unwritten,     \* bytes of the current handshake packet still to be written
  accumulator,   \* the bytes of the handshake, written and read
  start, wanted, \* the window being read into it, and what it lacks
  keys,          \* what the keys were computed from: the secret, the bytes
  decode_state,  \* at a header, or at the payload of a size that was decoded
  decode_nonce, encode_nonce,
  buffer, readable, eof,  \* Framed: bytes read and not decoded, its two flags
  received,      \* packets handed over
  \* The access point, and the wires between; broken: something outside of
  \* the two ends closed them.
  response, sent, down, uplink, heard, closed, broken

handshake == <<unwritten, accumulator, start, wanted, keys>>
decoder == <<decode_state, decode_nonce, buffer, readable, eof>>
encoder == <<encode_nonce, uplink>>
accesspoint == <<response, sent, heard, closed, broken>>
vars == <<address, socket, stage, handshake, decoder, encoder, received, down, accesspoint>>

-----------------------------------------------------------------------------
Bytes(n, size) == [i \in 1 .. size |-> <<n, i>>]
ClientHello == Bytes(-1, HELLO_SIZE)
APResponse == Bytes(0, 4 + BODY_SIZE)
PacketSize(n) == HEADER_SIZE + sent[n].size + MAC_SIZE

\* compute_keys; and what the access point computes.
KeysOf(secret, bytes) == <<secret, bytes>>
RemoteKeys ==
  KeysOf(SharedSecret(PublicKey(LocalKey), RemoteKey), ClientHello \o APResponse)

Packets == [cmd : FirstCmds \cup {"data"}, size : Sizes]
Header == [at |-> "header", size |-> 0]
Payload(size) == [at |-> "payload", size |-> size]
Nothing == [cmd |-> "nothing", size |-> 0]
Garbage == [cmd |-> "garbage", size |-> 0]
Writing == {"client_hello", "client_response", "login"}
Reading == {"response_header", "response_body"}
Framed == {"welcome", "up"}
Over == {"failed", "panicked"}

Init ==
  /\ address = None /\ socket = None /\ stage = "resolve"
  /\ unwritten = 0 /\ accumulator = <<>> /\ start = 0 /\ wanted = 0 /\ keys = <<>>
  /\ decode_state = Header /\ decode_nonce = 0 /\ encode_nonce = 0
  /\ buffer = <<>> /\ readable = FALSE /\ eof = FALSE
  /\ received = <<>>
  /\ response = None /\ sent = <<>> /\ down = <<>> /\ uplink = <<>>
  /\ heard = 0 /\ closed = FALSE /\ broken = FALSE

-----------------------------------------------------------------------------
\* apresolve_or_fallback: the first of the list, or the fallback on any error.
\* Nothing bounds the time in which the answer must come.
Resolve(resolution) ==
  /\ stage = "resolve"
  /\ address' = [list |-> "listed", error |-> "fallback", silent |-> None][resolution]
  /\ stage' = IF resolution = "silent" THEN "unanswered" ELSE "socket"
  /\ UNCHANGED <<socket, handshake, decoder, encoder, received, down, accesspoint>>

\* connect() and handshake(): the address must resolve, or it is unwrapped.
Connect(outcome) ==
  /\ stage = "socket"
  /\ socket' = outcome
  /\ stage' = [open |-> "client_hello", refused |-> "failed", unknown |-> "panicked"][outcome]
  /\ unwritten' = HELLO_SIZE
  /\ UNCHANGED <<address, accumulator, start, wanted, keys, decoder, encoder,
                 received, down, accesspoint>>

\* Mutant of ReadIntoAccumulator: the accumulator is used afresh.
ReadIntoVoid(acc, size) == accumulator' = <<>> /\ start' = 0 /\ wanted' = size

\* read_into_accumulator: the window begins where the accumulator ends.
ReadIntoAccumulator(acc, size) ==
  /\ accumulator' = acc
  /\ start' = Len(acc)
  /\ wanted' = size

\* write_all, of as many bytes as the socket takes; the last of them is
\* followed by what Handshake::poll does next.
WriteClientHello(k) ==
  /\ stage = "client_hello"
  /\ unwritten' = unwritten - k
  /\ IF k = unwritten
     THEN ReadIntoAccumulator(ClientHello, 4) /\ stage' = "response_header"
     ELSE UNCHANGED <<accumulator, start, wanted, stage>>
  /\ UNCHANGED <<address, socket, keys, decoder, encoder, received, down, accesspoint>>

\* read_exact, of as many bytes as there are and no more than it lacks.
ReadExact(k) ==
  /\ stage \in Reading
  /\ accumulator' = accumulator \o SubSeq(down, 1, k)
  /\ down' = SubSeq(down, k + 1, Len(down))
  /\ wanted' = wanted - k
  /\ UNCHANGED <<address, socket, stage, unwritten, start, keys, decoder, encoder,
                 received, accesspoint>>

Window == SubSeq(accumulator, start + 1, Len(accumulator))

\* Mutant of ReadHeader: the size is taken to be that of the body.
ReadHeaderAsBody ==
  /\ stage = "response_header" /\ wanted = 0
  /\ stage' = "response_body"
  /\ ReadIntoAccumulator(accumulator, Len(APResponse))
  /\ UNCHANGED <<address, socket, unwritten, keys, decoder, encoder, received, down, accesspoint>>

\* RecvPacket, Header: the size covers its own four bytes.  `size - 4' below
\* zero panics, or wraps and then panics in Window::set_start.
ReadHeader ==
  /\ stage = "response_header" /\ wanted = 0
  /\ \/ /\ response = "short"
        /\ stage' = "panicked"
        /\ UNCHANGED <<accumulator, start, wanted>>
     \/ /\ response # "short"
        /\ stage' = "response_body"
        /\ ReadIntoAccumulator(accumulator, Len(APResponse) - 4)
  /\ UNCHANGED <<address, socket, unwritten, keys, decoder, encoder, received, down, accesspoint>>

\* get_gs of the challenge: no bytes, which is zero, if there is no challenge.
ChallengeKey == IF response = "refusal" THEN 0 ELSE PublicKey(RemoteKey)

\* RecvPacket, Body, and Handshake::poll on the message it parses.
ReadBody ==
  /\ stage = "response_body" /\ wanted = 0
  /\ IF response \in {"good", "refusal"} /\ Window = SubSeq(APResponse, 5, Len(APResponse))
     THEN /\ stage' = "client_response"
          /\ keys' = KeysOf(SharedSecret(ChallengeKey, LocalKey), accumulator)
          /\ unwritten' = HELLO_SIZE
     ELSE /\ stage' = "panicked"
          /\ UNCHANGED <<keys, unwritten>>
  /\ UNCHANGED <<address, socket, accumulator, start, wanted, decoder, encoder,
                 received, down, accesspoint>>

WriteClientResponse(k) ==
  /\ stage = "client_response"
  /\ unwritten' = unwritten - k
  /\ stage' = IF k = unwritten THEN "login" ELSE stage
  /\ UNCHANGED <<address, socket, accumulator, start, wanted, keys, decoder, encoder,
                 received, down, accesspoint>>

-----------------------------------------------------------------------------
\* APCodec::encode.  The length field has 16 bits.
Encode(size) ==
  /\ uplink' = Append(uplink, [nonce |-> encode_nonce, length |-> size % SIZE_MOD, size |-> size])
  /\ encode_nonce' = encode_nonce + 1

\* authenticate: send the login and wait for the first packet.
SendLogin(size) ==
  /\ stage = "login"
  /\ Encode(size)
  /\ stage' = "welcome"
  /\ UNCHANGED <<address, socket, handshake, decoder, received, down, accesspoint>>

\* The sender task of Session::create forwards a packet to the sink.
SendPacket(size) ==
  /\ stage = "up"
  /\ encode_nonce <= MaxSends
  /\ Encode(size)
  /\ UNCHANGED <<address, socket, stage, handshake, decoder, received, down, accesspoint>>

\* The cipher opens bytes that were sealed with this nonce, from the i-th on.
Opens(bytes, nonce, i) == bytes = [j \in 1 .. Len(bytes) |-> <<nonce + 1, i + j - 1>>]

Garbled == [state |-> Header, nonce |-> 0, rest |-> <<>>, item |-> Garbage]

\* Mutant of DecodeHeader: the nonce is not incremented.
DecodeHeaderSameNonce(c) ==
  IF c.state = Header /\ Len(c.rest) >= HEADER_SIZE
  THEN IF Opens(SubSeq(c.rest, 1, HEADER_SIZE), c.nonce, 1)
       THEN [c EXCEPT !.state = Payload(sent[c.nonce + 1].size),
                      !.rest = SubSeq(@, HEADER_SIZE + 1, Len(@))]
       ELSE Garbled
  ELSE c

DecodeHeader(c) ==
  IF c.state = Header /\ Len(c.rest) >= HEADER_SIZE
  THEN IF Opens(SubSeq(c.rest, 1, HEADER_SIZE), c.nonce, 1)
       THEN [c EXCEPT !.state = Payload(sent[c.nonce + 1].size),
                      !.nonce = @ + 1,
                      !.rest = SubSeq(@, HEADER_SIZE + 1, Len(@))]
       ELSE Garbled
  ELSE c

\* Mutant of DecodePayload: it waits for one byte more than the packet has.
DecodePayloadLate(c) ==
  IF c.state.at = "payload" /\ Len(c.rest) > c.state.size + MAC_SIZE
  THEN IF Opens(SubSeq(c.rest, 1, c.state.size + MAC_SIZE), c.nonce - 1, HEADER_SIZE + 1)
       THEN [c EXCEPT !.state = Header, !.item = sent[c.nonce],
                      !.rest = SubSeq(@, c.state.size + MAC_SIZE + 1, Len(@))]
       ELSE Garbled
  ELSE c

DecodePayload(c) ==
  IF c.state.at = "payload" /\ Len(c.rest) >= c.state.size + MAC_SIZE
  THEN IF Opens(SubSeq(c.rest, 1, c.state.size + MAC_SIZE), c.nonce - 1, HEADER_SIZE + 1)
       THEN [c EXCEPT !.state = Header, !.item = sent[c.nonce],
                      !.rest = SubSeq(@, c.state.size + MAC_SIZE + 1, Len(@))]
       ELSE Garbled
  ELSE c

\* APCodec::decode, which keeps its state and its nonce when it comes to
\* nothing; bytes it cannot open fail the check of the mac.
Decoded ==
  DecodePayload(DecodeHeader(
    [state |-> decode_state, nonce |-> decode_nonce, rest |-> buffer, item |-> Nothing]))

\* Mutant of HandOver: the first packet is not looked at.
HandOverAnything(item) == stage' = "up" /\ received' = Append(received, item)

\* authenticate panics unless the first packet is a welcome that parses;
\* DispatchTask takes the others.
HandOver(item) ==
  \/ stage = "up" /\ stage' = "up" /\ received' = Append(received, item)
  \/ /\ stage = "welcome" /\ item.cmd = "welcome"
     /\ stage' = "up" /\ received' = <<item>>
  \/ /\ stage = "welcome" /\ item.cmd # "welcome"
     /\ stage' = "panicked" /\ UNCHANGED received

\* Framed::poll, on what is buffered ...
PollBuffer ==
  /\ stage \in Framed /\ readable
  /\ \/ /\ eof /\ buffer = <<>>      \* None, which authenticate and DispatchTask expect not
        /\ stage' = "panicked"
        /\ UNCHANGED <<decoder, received>>
     \/ /\ Decoded.item \in Packets
        /\ decode_state' = Decoded.state
        /\ decode_nonce' = Decoded.nonce
        /\ buffer' = Decoded.rest
        /\ HandOver(Decoded.item)
        /\ UNCHANGED <<readable, eof>>
     \/ /\ Decoded.item = Nothing /\ ~ eof
        /\ decode_state' = Decoded.state
        /\ decode_nonce' = Decoded.nonce
        /\ buffer' = Decoded.rest
        /\ readable' = FALSE
        /\ UNCHANGED <<stage, received, eof>>
     \/ /\ Decoded.item = Garbage \/ (Decoded.item = Nothing /\ eof /\ buffer # <<>>)
        /\ stage' = "failed"
        /\ UNCHANGED <<decoder, received>>
  /\ UNCHANGED <<address, socket, handshake, encoder, down, accesspoint>>

\* ... and on the socket when there was no packet in it.
PollSocket(k) ==
  /\ stage \in Framed /\ ~ readable
  /\ buffer' = buffer \o SubSeq(down, 1, k)
  /\ down' = SubSeq(down, k + 1, Len(down))
  /\ readable' = TRUE
  /\ UNCHANGED <<address, socket, stage, handshake, decode_state, decode_nonce, eof,
                 encoder, received, accesspoint>>

\* The end of the stream, found while reading.
ReadEnd ==
  /\ closed /\ down = <<>>
  /\ \/ /\ stage \in Reading /\ wanted > 0
        /\ stage' = "failed"
        /\ UNCHANGED <<readable, eof>>
     \/ /\ stage \in Framed /\ ~ readable
        /\ readable' = TRUE /\ eof' = TRUE
        /\ UNCHANGED stage
  /\ UNCHANGED <<address, socket, handshake, decode_state, decode_nonce, buffer, encoder,
                 received, down, accesspoint>>

Client ==
  \/ \E k \in 1 .. unwritten : WriteClientHello(k) \/ WriteClientResponse(k)
  \/ \E k \in 1 .. Min({wanted, Len(down)}) : ReadExact(k)
  \/ ReadHeader \/ ReadBody
  \/ \E size \in Sizes : SendLogin(size)
  \/ PollBuffer
  \/ \E k \in 1 .. Len(down) : PollSocket(k)
  \/ ReadEnd

-----------------------------------------------------------------------------
\* The access point.
Online == socket = "open" /\ ~ closed

Respond(kind) ==
  /\ Online /\ response = None
  /\ stage \notin {"client_hello"} \cup Over
  /\ response' = kind
  /\ down' = down \o APResponse
  /\ UNCHANGED <<address, socket, stage, handshake, decoder, encoder, received, sent, heard, closed, broken>>

\* It opens the next sealed packet, if it has the same keys, and hangs up if
\* not; it has none if it refused.
Hear ==
  /\ Online /\ heard < Len(uplink)
  /\ IF /\ response # "refusal" /\ keys = RemoteKeys
        /\ uplink[heard + 1].nonce = heard
        /\ uplink[heard + 1].length = uplink[heard + 1].size
     THEN heard' = heard + 1 /\ UNCHANGED closed
     ELSE closed' = TRUE /\ UNCHANGED heard
  /\ UNCHANGED <<address, socket, stage, handshake, decoder, encoder, received, down,
                 response, sent, broken>>

Send(cmd, size) ==
  /\ Online /\ heard > 0
  /\ Len(sent) < MaxPackets
  /\ cmd \in (IF sent = <<>> THEN FirstCmds ELSE {"data"})
  /\ sent' = Append(sent, [cmd |-> cmd, size |-> size])
  /\ down' = down \o Bytes(Len(sent'), HEADER_SIZE + size + MAC_SIZE)
  /\ UNCHANGED <<address, socket, stage, handshake, decoder, encoder, received, response, heard, closed,
                 broken>>

\* It closes its end, after what it has sent; or everything is lost at once,
\* which the client finds when it reads or writes.
Close ==
  /\ MayBreak /\ Online
  /\ closed' = TRUE /\ broken' = TRUE
  /\ UNCHANGED <<address, socket, stage, handshake, decoder, encoder, received, down, response, sent, heard>>

Reset ==
  /\ MayBreak /\ socket = "open" /\ stage \notin Over
  /\ closed' = TRUE /\ broken' = TRUE
  /\ stage' = "failed"
  /\ UNCHANGED <<address, socket, handshake, decoder, encoder, received, down, response, sent, heard>>

Done ==
  /\ \/ stage \in {"unanswered"} \cup Over
     \/ stage = "up" /\ ~ readable /\ down = <<>>
  /\ UNCHANGED vars

Next ==
  \/ \E resolution \in Resolutions : Resolve(resolution)
  \/ \E outcome \in Sockets : Connect(outcome)
  \/ Client
  \/ \E size \in Sizes : SendPacket(size)
  \/ \E kind \in Responses : Respond(kind)
  \/ Hear
  \/ \E cmd \in FirstCmds \cup {"data"}, size \in Sizes : Send(cmd, size)
  \/ Close \/ Reset \/ Done

Spec == Init /\ [][Next]_vars

\* apresolve is asked, and sockets connect or fail in the end, the client is
\* polled when there is something to read or write, and the access point
\* answers the hello and the login.
Fairness ==
  /\ WF_vars(\E resolution \in Resolutions : Resolve(resolution))
  /\ WF_vars(\E outcome \in Sockets : Connect(outcome))
  /\ WF_vars(Client)
  /\ WF_vars(\E kind \in Responses : Respond(kind))
  /\ WF_vars(Hear)
  /\ WF_vars(sent = <<>> /\ \E cmd \in FirstCmds, size \in Sizes : Send(cmd, size))

FairSpec == Spec /\ Fairness

-----------------------------------------------------------------------------
\* The two ends compute their keys from the same secret and the same bytes:
\* docs/connection.md:48, the whole of both packets, "These include the header
\* and length fields", and nothing after them.  (An access point that refused
\* has no keys.)
KeysAgree == keys # <<>> /\ response # "refusal" => keys = RemoteKeys

\* When Framed goes to wait for the socket, the packet it owes next has not
\* all been read: a packet never sits in the buffer until another one comes,
\* not even one that came together with the welcome.
NoStall ==
  stage \in Framed /\ ~ readable =>
    \A n \in Len(received) + 1 .. Len(sent) :
      \E i \in DOMAIN down : down[i] = <<n, PacketSize(n)>>

\* The connection is not lost by a fault of its own: every failure is one of
\* the network or of the access point, which hangs up only if it refused: the
\* ciphers never get out of step.
EndsForAReason ==
  /\ stage = "failed" => closed \/ socket = "refused"
  /\ stage = "panicked" =>
       \/ socket = "unknown" \/ closed
       \/ response \in {"short", "garbled"}
       \/ sent # <<>> /\ Head(sent).cmd # "welcome"
  /\ closed => broken \/ response = "refusal"

\* The packets of the access point reach the session as Link says.
Transport == INSTANCE Link WITH
  link <- IF stage = "up" THEN "up" ELSE IF stage \in Over THEN "over" ELSE "down"

ImplementsLink == Transport!Spec

\* The future that Main waits for comes to an end, if apresolve is answered ...
Connects == <>(stage \in {"unanswered", "up"} \cup Over)

\* ... and if it is not: docs/connection.md:9, "If `http://apresolve.spotify.com`
\* is unresponsive, `ap.spotify.com:80` is used as a fallback."
FallbackIsUsed == stage = "unanswered" ~> address = "fallback"

\* Every packet is handed over, if the link lasts.
PacketsArrive ==
  \A n \in 1 .. MaxPackets :
    Len(sent) >= n ~> (Len(received) >= n \/ stage \in Over)
=============================================================================
