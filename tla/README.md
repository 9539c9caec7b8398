# spotify-connect-scrobbler in TLA+

A model of spotify-connect-scrobbler: a Spotify Connect device that does not
play, but listens to what the user's other devices say they play and logs it on
Last.fm. The modules are translated from the Rust code; paths below are relative
to the repository. Every module is checked with TLC on small instances;
the safety properties, and where there is an abstract specification its refinement, are
proved with TLAPS for all instances.

## The system

One process, one thread: a tokio-core reactor that polls three tasks. `Main`
is the future the reactor runs to its end; `DispatchTask` reads the packets of
the connection; a sender task writes them. Futures are those of futures 0.1:
polling one that is done is a panic for most of them, and a panic in any task
unwinds through the reactor and ends the process. The same thread runs all tasks,
so that one `poll` is never interleaved with another; what interleaves is the
order of polls, packets, answers, keys pressed, and time.

| Component | Source | State | Operations | Talks to |
|---|---|---|---|---|
| Scrobbler | `src/scrobbler.rs` | current track, its start, its meta-data and the scrobbled flag; five futures (log-in at Last.fm, new track, meta-data, now playing, scrobble) | `update_current_track`, `poll` | Last.fm, by calls that block; Metadata |
| Spirc | `src/spirc.rs`, `core/src/mercury/sender.rs` | subscription, command channel, queue of the sender, shutdown flag | `Spirc::new`, `shutdown`, `SpircTask::poll`, `handle_frame`, `handle_command` | Mercury (subscription, frames out), its Scrobbler, Main |
| Main | `src/main.rs` | connect future, Spirc handle and task, shutdown flag | `setup`, `Main::new`, `Main::poll` | Session, Spirc, Ctrl-C |
| Credentials, Cache | `core/src/authentication.rs`, `core/src/cache` | `credentials.json` | `get_credentials`, `from_file`, `save_to_file` | Main, Session::connect |
| Connection | `core/src/apresolve.rs`, `core/src/connection` | handshake stage, buffer of the hellos, codec state and nonces | `apresolve`, `connect`, `Handshake::poll`, `RecvPacket::poll`, `encode`, `decode`, `authenticate` | TCP, Session |
| Session | `core/src/session.rs` | strong and weak references, channel to the sender task | `connect`, `create`, `dispatch`, `DispatchTask::poll` | Connection; the three managers |
| MercuryManager | `core/src/mercury/mod.rs` | sequence, table of pending messages, subscriptions | `request`, `subscribe`, `dispatch`, `complete_request` | Session; callers, by oneshot and mpsc |
| AudioKeyManager | `core/src/audio_key.rs` | sequence, table of pending requests | `request`, `dispatch` | Session; callers |
| ChannelManager | `core/src/channel.rs` | sequence of u16 ids, table of channels; each channel its state | `allocate`, `dispatch`, `Channel::poll`, `ChannelData::poll` | Session; `metadata/src/cover.rs` |
| Metadata | `metadata/src` | none; reads the session's country | `get` (one Mercury request), parsing, restrictions | Mercury; Session; Scrobbler |
| Numbers and ids | `core/src/util`, `core/src/diffie_hellman.rs` | none | u128, base 16 and 62, powm, Subfile, StrChunks | Connection, Spirc, Metadata |
| Protocol | `protocol/src` (generated) | the fields of a message, its unknown fields, its cached size | accessors, `is_initialized`, `compute_size`, `write_to_with_cached_sizes`, `merge_from` | Connection, Mercury, Spirc, Metadata |
| Keymaster, config, version | `src/keymaster.rs`, `core/src/config.rs`, ... | none | one request; constants | |

A play, from end to end: another device broadcasts a frame; the access point
sends it as a Mercury event in one or more packets; Connection decodes them,
DispatchTask gives them to MercuryManager, which puts the event together and
puts it in the subscription of SpircTask and so wakes Main's task; `handle_frame`
reports the track to the Scrobbler, which first scrobbles the last play if it is
due, and then, as SpircTask polls it, asks for track, artist and album, one Mercury
request after another, tells Last.fm what is playing, and scrobbles the play when
more than 20 s have gone by and somebody polls it.

What is hard in it, and what makes each part correct:

- **Scrobbler.** A fixed sequence of matches on futures, each of which can end
  the poll early, with flags that are reset in two places. Correct if no play is
  scrobbled twice, or under the name of another, and none that is due is left
  behind.
- **Spirc.** Work is found by polling, and a task that sleeps on work it did not
  poll for sleeps for ever. Shutdown must say Goodbye last, wait until every
  message was answered, and scrobble what is due on the way.
- **Main.** Ctrl-C, the connection and Spirc in every order, over several
  processes that share one file. Correct if Spirc never ends unasked, one press
  is clean, and credentials are those of the user asked for.
- **Mercury.** Messages cut anywhere and interleaved. Correct if each caller gets
  its own whole answer, once, and no entry is lost or left.
- **Connection.** Partial reads and writes, bytes that belong to two layers, keys
  that come from all of the bytes of the handshake, ciphers that must stay in
  step.
- **Session, keys, channels.** Answers out of order, a Session that goes away
  under those who wait, ids that run out.
- **Protocol.** The size of a message is sent before the message, and a peer with a
  newer schema adds fields, packs numbers and knows more enum values. Correct if
  sizes are exact, what is read is what was written, and reading fails only when it
  must, since every caller unwraps the result.
- **Metadata and ids.** Three requests in a row, each named by an id that came out
  of the answer before; lists of countries glued together; 128-bit numbers made of
  64-bit ones. Correct if the names are those of the track that was reported, it is
  available where its lists say so, and only a broken answer panics.

`PROJECT.json` lists the hazards line by line with the properties that cover
each of them.

## The modules

`PlayLog`, `SpircLife`, `Rpc` and `Link` are abstract: what the Scrobbler
promises its user, SpircTask its Main, MercuryManager its callers and Connection
its Session. The detailed modules implement them by `INSTANCE` and a property
`Implements...`, and `Main` uses `SpircLife` in place of all of `Spirc`.

    Main ---- SpircLife <--implements-- Spirc ---- Scrobbler --implements--> PlayLog
    Session <-- Connection --implements--> Link
    Session --> Mercury --implements--> Rpc
    Connection ---- DiffieHellman        Catalogue ---- Numbers
    Protobuf    Protocol ---- {Keyexchange,Authentication,Mercury,Pubsub,Metadata,Spirc}Messages ---- Schema

### Scrobbler, PlayLog

The variables are the fields of the struct. A future is the answer it will give
(`"ok"`, `"err"`), `"empty"`, or `"spent"` once its error was taken; calls to Last.fm
block, so that their result is chosen when they are made. Each match of `poll` is an
action, and `stage` says which is next: the clock (`Tick`) can move between two of
them, and nothing else. `UpdateCurrentTrack` is the whole of
`update_current_track`, a scrobble of the play that ends included. `meta_fetch_future`
walks through the three requests of `get_track_meta`, whose answers (`MetaAnswer`)
come between two polls. `play`, `tracks`, `announced` and `posts` record what Last.fm
was told for each call of `set_new_track`.

`PlayLog` has no futures and no failures: plays follow one another, each is
announced at most once and scrobbled at most once, after it was announced and has
lasted longer than the threshold, and one that is due does not end without its
scrobble.

### Spirc, SpircLife

`Spirc` holds the Scrobbler's variables and takes its actions as they are
(`S == INSTANCE Scrobbler`). One turn of the reactor is a walk of `phase` through
the loop of `SpircTask::poll`; the others move while the task is parked, and a turn
begins only when something woke the task. That is what makes lost
wake-ups visible: `AnswerSend` wakes the task only for the request at the front of
the sender's queue, as only its future was polled, and `Tick` wakes nobody.
A frame is a record of what `handle_frame` looks at; `Bad` is a track whose index or
id cannot be decoded, on which the code panics.

`SpircLife` is what is left of it for Main: it is asked, closes, ends, or panics. That it
does end is the fairness of its `FairSpec`, and no part of what `ImplementsLife` says.

### Main

`Start` is `setup` and `Main::new` for a command line and the cache file as the
last process left it; `PollConnect`, `CreateFile`, `WriteFile`, `PollSignal` and
`PollSpirc` are the steps of `Main::poll`, of which those of `Session::connect` save
the credentials: the file is emptied, then written, and `Die` may come between the
two. `progress` is the variable of `Main::poll` that has it go round again; after a round
without any the future is "parked", until `Wake` or `SpircWakes` has it polled. `Account` maps the names one may type (an address, an alias) to the canonical
user name the access point hands back.

### Mercury, Rpc

`pending` is the table; an entry has its parts, the partial one and whether there
is a callback. A part is a sequence of chunks that name their message, part and
place, so that any mix-up shows. The access point answers requests and sends events
in packets it cuts anywhere (`SendSome`), with the flags the code reads. `dispatching`
is TRUE while DispatchTask takes what has been read: no caller runs then.
`subscriptions` is a set, each member with its place in the answer that listed it:
`retain` looks at one at a time, and their order is told by nothing. A payload of SUB that
is no `Subscription` panics (`Subscribe`). The access point is assumed to number its events
with sequence numbers that no request has, as the table is looked up by that number alone. `Rpc` says
that a call is answered at most once and with what was settled for it.

### Connection, Link

`stage` walks from name resolution to the first packet. apresolve answers with a list, of
which the first entry is taken (docs/connection.md:5 has a random one), with an error, or not at
all (`silent`). APResponse may be good, be too short for its size, not parse, or be a
`refusal`, which parses and has no challenge: the code goes on with an empty key. Bytes are pairs of packet and
place; TCP delivers them in order and in pieces of any size. `accumulator`, `start`
and `wanted` are the buffer of `read_into_accumulator` and its window. Hashes are the
bytes they are computed from (`keys`), and a sealed byte opens only with its nonce
at its place. The secret they share is computed as the code does, by `DiffieHellman`
with a small prime: `Powm` is the loop of `util::powm`, for each modulus a function of
base, exponent and what was multiplied up so far. `MCConnection` assumes, and TLC evaluates,
that it is a power and that the two secrets agree for every pair of small keys;
`ConnectionProofs` proves it for all of them. `buffer`, `readable` and `eof` are those
of tokio's `Framed`, modelled from its use in `connection/mod.rs`. `Link` says that nothing is handed over before
the welcome, and then every packet in order, once.

### Session

DispatchTask with the two managers that Mercury is not: what a packet does to the
request or channel it names. A stream of the access point is any member of
`Streams`: headers, data, then an end, an error, or a packet that cannot be read. `"garbled"`
stands for all that the code indexes, asserts or unwraps in vain: a country that is not
UTF-8, a key of another length, an error without its code, headers that are none. `TakePanics`
is which packets a channel cannot take where they stand. `build` says whether this is a debug
build (README.md:11 has `cargo build`, Dockerfile:5 `cargo build --release`) and how many ids
there are (2^16 in the code, a member of `IdSpaces` in the model). At the last id
`NextId` panics in a debug build and begins again at 0 in a release build, so that two channels
share an id and the sender of the first one is gone. `alive` says that a strong
reference is left; `DropSession` drops the managers and the senders they hold.

### Protobuf, Protocol, Schema, ...Messages

rust-protobuf generates 28,000 lines for six schemas, all alike: what differs from
one message to the next is its list of fields. Each `...Messages` module is that list
for one file: label, name, number and kind of each field in the order in which the
code writes them, and each enum with its default first. `is_initialized`,
`merge_from`, `compute_size` and `write_to_with_cached_sizes` name the same fields with
the same numbers and types in every one of the messages, so that one description
serves for all four; `Schema` has the constructors, and `Protocol` puts the six files
together.

`Protobuf` is the code over such lists (`Schemas`), once. A message is filled in with `Set`,
`Push` and `Clear`; `Write` refuses one that lacks a required field and puts the others on
the wire as a sequence of elements, each with its tag, its value and its size in bytes.
`MergeField` is a turn of the loop in `merge_from`, for the innermost message that is
being read; `EndMessage` pops a nested one at its end; `Finish` checks what was read.
With `peer` the writer is another program, built from a newer schema (`ChangeSchema`,
`WriteNewer`): it adds a field, at the top or in a nested message, changes the type of
one, packs repeated numbers, uses enum values that are not in ours, or leaves out what
we require. The library's part (varints, tags, limits, unknown fields) is modelled from
its use in the generated code and marked external.

What comes of a message needs what comes of those nested in it. `NestedSize`,
`NestedWritten` and `NestedInitialized` are tables of it, by type and message; this is
also what `cached_size` is for, which each message keeps from `compute_size` to its
writing. A message may have nested in it those of `Messages` or, if the writer is
another program, of `NewerMessages`; `MessagesAssumption` has them typed, and
`DepthAssumption` none nested in itself.

### Catalogue, Numbers

`Catalogue` is the chain of `get_track_meta` with all that `Scrobbler` leaves out of it:
`PollTrack`, `PollArtist` and `PollAlbum` each parse an answer and ask for the next thing,
by an id that goes through `FromRaw`, `ToBase16` and the uri. `ParseRestrictions`
reads the lists of countries as the code does, two letters at a time out of one long
text; `RunsOut` is the slice past the end when half a country is left. `SetCountry`
may come at any time, as packet 0x1b does, and bring a country of any length. A gid may
have any length, in a frame (`FromOtherBytes`) as in a message; `from_raw` panics unless it
is that of an id. `debug` says whether the program was built
with overflow checks, which panic where a release build wraps around: in reading an
id that is only ever base 62, as in base 16 the halves never carry. The other way to
an id, from text in base 16 or 62, is `ReadDigit`, and `ReadOther` for a letter that is no
digit or a text that is not ASCII. `Numbers` is the arithmetic of u128, its
two halves of `Quarter * Quarter` values each: `Rows` are the 16 products of their
quarters, and `Mul` adds them up.

## The runs

| Run | Shows | Bounds | Distinct states |
|---|---|---|---|
| `scrobbler` | no double or misnamed scrobble, none lost on the way out, implements `PlayLog` | 3 plays of 2 tracks, threshold 1 tick, every answer and Last.fm result | 20 k |
| `scrobbler_lastfm_down` | **violation**: one failed call to Last.fm ends the process | 2 plays; the access point never fails | - |
| `spirc` | no lost wake-up, Goodbye last, due play scrobbled at the end, implements `SpircLife`; a shutdown completes, Hello is answered, a play is announced unless something failed or ended first | 2 frames of every kind, 1 shutdown, every answer and failure | 227 k |
| `spirc_no_timer` | **violation**: a play that becomes due while no frame comes is never scrobbled | 1 frame | - |
| `main` | right user, clean exit, cache only from a login, Ctrl-C stops | 3 processes, 3 names of 2 accounts, 2 presses each | 33 k |
| `mercury` | whole answers and events, each to its own caller; table exact; implements `Rpc`; every request waited for is answered | 2 requests and 1 event, answers of up to 3 parts, a part of the event in 2 chunks | 334 k |
| `mercury_late_subscription` | **violation**: an event behind the answer to SUB is dropped | 1 subscription, 1 event | - |
| `connection` | keys agree, no packet stalls, no failure of its own, implements `Link`, comes to an end, delivers | 3 packets of 0 or 2 bytes of payload, 2 sent, any loss; prime 23 | 71 k |
| `connection_silent_resolver` | **violation**: the fallback address is not used if apresolve stays silent | as `connection`; 1 sent | - |
| `session` | data reach who asked, whole; keys reach who asked, and who waits is told; every stream ends; panics only for the reasons listed | 2 channels, 2 keys or one of each, both builds, 1 or 2 ids, 3 streams of up to 3 packets, 1 packet under way | 260 k |
| `protobuf` | sizes are exact, what is read was written, reading fails for a reason | every message of the six schemas, from empty, minimal or full, these or altered ones nested in it, one change, either writer | 73 k |
| `catalogue` | ids are their numbers, names are of the track, availability is as listed, panics only for a reason | ids of 8 bits; up to 9 binary or 6 ternary digits; 2 restrictions, 2 artists, 2 top tracks; gids of 3 and 4 bytes, a country of 3 letters | 2.06 M |

Why the bounds are enough to meet the interesting cases. Three plays are the least
in which an answer, a scrobble and a flag of one play can reach over the next one
into a third; the threshold only matters as "not over", "at" and "over", which 0, 1
and 2 ticks give. Two frames and a shutdown give every overlap of a report, a
fetch and the end. Three processes give a torn file, the start that trips on it and
the one after. Two conversations interleave as any number do, as they meet only in the
table; two chunks is the least that can be cut. A payload of no byte and one of two,
with a header of three, are cut at every place. Two channels with one id are the least that
share it, two with an id each the least that can be taken for each other, and data and the empty packet
behind them the least that can change places in a stream. Main asks for a shutdown once (main.rs:225), and so does `spirc`. In `scrobbler` the tracks are symmetric: no operator tells them apart
except by equality, and the properties are no liveness. In `protobuf` one change
is enough to reach every arm of every message with every value of its kind, from each
of three messages around it, and with nested messages that a newer schema has added to
or altered; a field does not look at another one, so that two changes
meet only in their sizes, which the full message has all of. Numbers lie on both sides
of a byte's seven bits and of zero. In `catalogue` eight bits are the least in which a
half has two digits of its own, so that all sixteen products of a multiplication, the
carry, and the texts that do not fit occur; two lists are the least that can be glued,
and two countries with the letters of each other's show a cut in the wrong place.

Deadlock is checked everywhere: where the program may stop, an action says so
(`Panicked`, `Stopped`, `Over`, `Idle`, `Done`).

### Fairness

- `Spirc`: weak for the turns of the reactor, which runs what was woken; strong for
  the answers of the access point, which are only enabled between turns. None for
  frames, commands, or the clock waking anyone: nothing in the code does.
- `Main`: weak for its poll; strong for what `SpircLife` promises, and `Spirc` proves
  by TLC under its own fairness (`ShutdownCompletes`).
- `Mercury`: weak for DispatchTask; strong for the callers, who only run while it
  rests; weak for the access point, which answers and sends what it began. There is no
  timeout in the code, so without that nothing is promised.
- `Main` parked: `Wake` is a part of its poll, as the login, a signal and what a closing
  Spirc still has to send register the task; `SpircWakes` has no fairness.
- `Connection`: weak for the client as a whole, for apresolve being asked, which need not
  answer, for sockets coming to an end, and for the access point answering the hello and the login. No
  fairness for further packets or for the connection being lost.
- `Session`: weak for DispatchTask and for the polls of streams; strong for the
  access point serving, as the wire has room only now and then and other packets may fill it.

### What the runs found

Four places where the code does less than `README.md` or `docs/` says of it:

1. A failed future stays in its field of Scrobbler. `poll` returns `Err(())`,
   SpircTask logs it and polls again at the next frame, and the spent future panics
   (`src/scrobbler.rs:207`, 227, 273 and 286; `src/spirc.rs:205`). One error of Last.fm, or one failed
   meta-data request, ends the service.
2. Nothing wakes the task when a play becomes due (`src/scrobbler.rs:213`). A play is
   scrobbled at the next frame, whenever that is; the last one perhaps never.
3. A subscription is recorded when SpircTask polls the answer to SUB
   (`core/src/mercury/mod.rs:116`), and DispatchTask takes all packets it has first: an
   event in the same batch as the answer finds no subscription.
4. `docs/connection.md:9` has `ap.spotify.com:80` used if apresolve is unresponsive. It is used
   on an error (`core/src/apresolve.rs:51`); there is no timeout, so that an apresolve that
   takes the request and says nothing is waited for as long as it likes.

Others are modelled as they are and contradict no document, and the properties are
stated around them: Ctrl-C while connecting only counts as the first of two presses; a
crash between `File::create` and the write leaves a file that makes the next start
with that cache panic; the end of the connection panics instead of connecting
again; dropping the Session under an open channel panics; so does every packet that
cannot be read; a request of Mercury that is never answered is waited for for ever; and the
last channel id panics or is followed by one that is in use.

## The proofs

Eight modules hold theorems, one for each module that a passing run is about;
that of powm is a part of `ConnectionProofs`. They state every safety property that those
runs check. None of them bounds anything: the constants that cap a run (`MaxPlays`,
`MaxFrames`, `MaxPackets`, ...) are any number, the sets are any sets, and what a proof knows of them is the `...Assumption` of the module, which TLC
evaluates for the instance in every run. An invariant a run checks is seldom
inductive; each module defines the one that is, and has a lemma per action that the
action preserves it.

Where a proof needs induction over data (what a product is, or a list put together of
others), it takes the least number that refutes the claim: `LeastNumber` of
`ConnectionProofs`, `CatalogueProofs` and `ProtobufProofs`, from the library's `NatLessThanWellFounded`.
This is also how a recursive function is shown to be one (`PowmLoop`, `Power`, `Mul`,
`NumberOf`, `FlattenSeq`, `Total`, `NestedWritten`): TLA+ leaves open whether there is a function with such an
equation. Where the data grow with the behaviour, as the packets of a connection do, the
induction is that of the invariant.

### ScrobblerProofs, from `ScrobblerAssumption`

| Theorem | |
|---|---|
| `TypeCorrect` | `Spec => []TypeOK` |
| `InvariantHolds` | `Spec => []IInv` |
| `OneEntry` | `Spec => []OneEntryPerPlay` |
| `MetaIsCurrent` | `Spec => []MetaBelongsToPlay` |
| `ExitScrobbles` | `Spec => DuePlayIsScrobbledOnExit` |
| `PollInvHolds` | `Spec => []PollInv` |
| `Refinement` | `Spec => ImplementsPlayLog` |

`OneEntryPerPlay` is not inductive: whether a second scrobble can leave depends on
`current_track_scrobbled` and `scrobble_future` remembering the first, and they are
written in different matches of `poll`. `IInv` adds what ties them together:

- `NewTrackPending`: until `new_track_future` was polled, nothing is known or sent
  about the play, and `poll` is before the match that takes it;
- `FetchIsForPlay`: after that, the fetch is for the current play;
- `KnownIffAnnounced`: meta-data are kept exactly when Last.fm was told;
- `ScrobbledFlagIsTrue`, `PostedIsRemembered`: the flag speaks the truth, and what
  was posted is remembered by the flag or by the future;
- `ScrobbleInFlight`: a scrobble in flight belongs to the current play, or to the one
  before it while `new_track_future` is still to be polled;
- `CurrentPlay`: the history agrees with the fields.

TLC has found no state of the instance above in which `IInv` fails; as it is proved, no run
checks it. `TypeOK` needs `IInv` too (what is posted is typed because it is meta-data of a play),
so that the invariant is the conjunction, with one lemma per action. The only step
that writes `posts` is shared by `update_current_track` and `poll`, and so is its
lemma. The refinement maps every variable of PlayLog to the variable of the same name,
and a scrobble that leaves in `update_current_track` to the one `Begin` makes.
`PollInv` is about the matches of one poll (before the log-in nothing is fetched, a
scrobble and a fetch are not under way together, ...); it is what Spirc needs of its
Scrobbler beyond `IInv`.

### MainProofs, from `MainAssumption`

| Theorem | |
|---|---|
| `MainTypeCorrect` | `Spec => []TypeOK` |
| `UserIsRight` | `Spec => []RightUser` |
| `SpircEndsAsExpected` | `Spec => []EndIsExpected` |
| `OnePressEndsCleanly` | `Spec => []OnePressIsClean` |
| `CacheHoldsLogins` | `Spec => CacheIsFromLogin` |

The invariant adds to these what a process remembers between two steps of
`Main::poll`: `Asking` (Spirc was asked only by a press that set the flag, and closes
only if asked) gives `EndIsExpected`; `Counting` (the presses not yet polled and the
one taken for the flag are no more than there were) is why a process that exits after
one press does so because Spirc has gone; `Saving` (from the login until the file is
written, `last_login` is what the credentials of this process were answered with)
gives `CacheIsFromLogin`; `Connecting` (whoever connects has credentials) is what
`TypeOK` needs. The typing of the credentials also rests on the lemma
`CredentialsOfUser` about `get_credentials`: with a file that can be read it returns
none or well-formed credentials, under the name that was asked for.

### SpircProofs, from `SpircAssumption`

| Theorem | |
|---|---|
| `DrivesScrobbler` | `Spec => S!Spec`: Spirc is a behaviour of its Scrobbler |
| `InvariantHolds` | `Spec => [](TypeOK /\ Places /\ Closing /\ Exit /\ Drained /\ Unpolled)` |
| `GoodbyeCloses` | `Spec => []GoodbyeIsLast` |
| `NothingIsSleptOn` | `Spec => []NoLostWakeup` |
| `LastPlayIsScrobbled` | `Spec => []ShutdownScrobbles` |
| `RefinesLife` | `Spec => ImplementsLife` |

SpircTask touches its Scrobbler only through the actions of that module, so each of its
steps is one of Scrobbler or leaves it alone, and ScrobblerProofs is instantiated
(`P == INSTANCE ScrobblerProofs`) and not repeated. `Places` fits the phases of a
turn to the matches of `Scrobbler::poll`. `Drained` says what is empty by then at each
phase, given that nothing has set `progress`: it is the loop of `SpircTask::poll` as an
invariant, and the reason why a task that sleeps has nothing to do. `Unpolled` excludes
the one future that would be forgotten, a new track while the log-in is not done. `Exit`
follows the play that is due at a shutdown from the phase in which the loop ends to the
match that posts it.

### SessionProofs, from `SessionAssumption`

| Theorem | |
|---|---|
| `SessionInvHolds` | `Spec => []SessionInv` |
| `ChannelDataIsWhole` | `Spec => []DataIsWhole` |
| `AudioKeyIsForRequest` | `Spec => []KeyIsForRequest` |
| `SessionPanicsForAReason` | `Spec => []PanicsForAReason` |

A stream lies in three places at once: what the user took, what the channel's queue holds,
and what is on the wire among the packets of others. `Progress(n, taken)` says that the
first is the beginning of the stream, the queue the next stretch, and that the wire
`Carries` the rest in order; `Carries` never counts the packets of the wire that are of
other channels, so that sending or dispatching one of those is no step for this one.
That an id leads to its channel is `IdsInOrder`, and holds until one is given twice
(`Fresh`), which a debug build never does, as it has died at the last one. `DataIsWhole` goes
as far as that. `PanicsForAReason` goes beyond and is a part of the invariant, with what is on
the wire tied to what the access point sent (`Known`).

### MercuryProofs, from `MercuryAssumption`

| Theorem | |
|---|---|
| `MercuryInvHolds` | `Spec => []MercuryInv` |
| `HeaderIsAlwaysFound` | `Spec => [](~ panicked)` |
| `EntryIsKeptUntilFinal` | `Spec => []PendingUntilFinal` |
| `DeliveryInvHolds` | `Spec => []DeliveryInv` |
| `SubscribersGetWholeEvents` | `Spec => []EventsAreWhole` |
| `RefinesRpc` | `Spec => ImplementsRpc` |

A packet may begin in the middle of a part and end in the middle of another one, and
packets of several messages alternate. A cursor is a place in a message; `IsPath` says
that the packets of a conversation on the wire lead from one cursor to the next, the
last of them to what the access point has still to send, and `IsStored` that the entry
in `pending` is all that is before the first. `Carried` is the two together; with it
`complete_request` finds a header, and the entry it takes out is the message. Its
lemmas are one for each end of the path: `CarriedSent` where the access point cuts,
`CarriedTaken` where a packet is dispatched, and `CarriedBeside...` for the packets of
other conversations.

That an event comes once is not in `MercuryInv`. `DeliveryInv` adds that what a subscriber
has are events that are `Over`, of which nothing is unsent or on the wire: the event a
final packet completes is not over yet, so that it is none of those before, and two
events with a payload differ, as every part is `Signed` with its message. How often one
event may come at one time is `Answered`: the subscriptions that lead to a caller are an
injection into the URIs its answer listed. `Keeps` says what no step takes back.

### ConnectionProofs, from `ConnectionAssumption` and `PrimeAssumption`

| Theorem | |
|---|---|
| `ConnectionInvHolds` | `Spec => []ConnectionInv` |
| `NothingStalls` | `Spec => []NoStall` |
| `TheKeysAgree` | `Spec => []KeysAgree` |
| `TheConnectionEndsForAReason` | `Spec => []EndsForAReason` |
| `RefinesLink` | `Spec => ImplementsLink` |

The bytes of ClientHello and then those of every packet of the access point are one
transcript (`IsTranscript`), in which `ends` says where each packet ends. `Follows(t, p, a, b)`
says that `a` and then `b` are what the transcript has from place `p` on: in the handshake
`a` is the accumulator and `p` the beginning, afterwards `a` is the buffer of Framed and
`p` where the decoder stands (`Placed`), which is at the border of a packet or behind
a header. `b` is what the wire holds, so that reading any number of bytes moves them from `b`
to `a` and changes nothing else. Decoding is shown for such a place once (`HeaderDecoded`,
`PayloadDecoded`), and the loop of `poll` in terms of it. `Waiting` says that a Framed which
is not `readable` lacks bytes of what it has begun; `NoStall` needs it, as `readable` is set
and reset at other places than `buffer`. `EndsForAReason` cannot be had without `KeysAgree`:
were the keys to differ, the access point would close the connection. A refusal is the
exception of both: its end of the keys is then nobody's, and it hangs up.

Its first part is about powm:

| Theorem | |
|---|---|
| `PowmComputesThePower` | `Powm(b, n, m)` is the n-th power of `b` modulo `m`, for every `b`, `n`, and `m > 1` |
| `TheSecretsAgree` | `SharedSecret(PublicKey(x), y) = SharedSecret(PublicKey(y), x)` for all `x`, `y` |

`PowmLoop` is a recursive function, which TLA+ leaves open to be none; that it is one
(`PowmLoopIsDefined`) takes tables up to every exponent that agree with each other. The
invariant of the loop is `CarriesAFactor`: what `result` is multiplied with before the
loop may as well be multiplied with what comes out of it. From it follows `OneFactorMore`,
with the two cases of the carry from `e` to `e + 1`: an even exponent gains its lowest
bit, an odd one loses it and the half has one more, which is the claim again for a
smaller exponent. That the prime is one is not needed: only that it is more than 1.
`PowmComputesThePower` takes the sequence of powers as a function with the two equations
of a power, since the provers know nothing of `^`.

### CatalogueProofs, from `CatalogueAssumption` and `NumbersAssumption`

| Theorem | |
|---|---|
| `CatalogueInvHolds` | `Spec => []CatalogueInv` |
| `TracksAreAvailableAsListed` | `Spec => []AvailableAsListed` |
| `FetchingPanicsForAReason` | `Spec => []PanicsForAReason` |
| `ReadInvHolds` | `Spec => []ReadInv` |
| `IdsAreTheNumbers` | `Spec => []IdIsTheNumber` |
| `NamesInvHolds` | `Spec => []NamesInv` |
| `NamesAreOfItsTrack` | `Spec => []NamesAreOfTheTrack` |

The code puts the lists of all restrictions into one text and cuts it into twos. That a
country is found in it exactly if one of the lists has it (`JoinedIsTheUnion`) holds
because each list is of even length: `TwoListsJoined` finds the twos of the second
list where the first one ends, and `FlatIsTheUnion` carries that over any number of lists.
`FlattenSeq` is a recursive function, which `FlatExists` shows to be one. From the same
lemma, a text that runs out in half a country means that one of the lists did
(`RestrictionsReason`). `TrackReason`, `ArtistReason` and `AlbumReason` then say what a
message lacks over which its parser panics; the invariant adds that the answer which is
parsed is of the kind that was asked for (`AnswerOk`), and that a track is kept with the
message it was parsed from (`TrackOk`). Gids are any bytes in all of it; that one is an id is
what its parser not having panicked says (`RawIsId`).

`IdIsTheNumber` is inductive once `ReadInv` says that the id is in range, that its digits
are digits, and that nothing panicked while it is still being read. What it rests on is
that the two halves compute modulo 2^128:

- `AddIs` and `MulKeeps`: the halves of a sum or product are, modulo 2^128, those of what the
  numbers would give; the 16 rows of a product are summed up in the order of the code, and those
  with a shift of four or more are 0, since a base fits in the lowest quarter.
- `NextDigitKeeps` and `NumberOfAppend` then make one turn of the loop what one more digit
  makes of a number (`ReadsADigit`), modulo 2^128 also for a text that is too long.
- `ReleaseReads`: without overflow checks nothing panics. `NothingWraps`: nor does it with
  them in base 16. Every sum on the way is a multiple of the base below a bound that is
  one too, as 16 divides a quarter; so there is always room for the digit, and the low
  halves never carry. 62 does not divide it, and a debug build panics on some ids in base 62.
  `NumbersAssumption` asks for just this of the two bases: below a quarter, and one a divisor.

`NamesAreOfTheTrack` relates names that came with answers to bytes in earlier answers.
`NamesInv` has what is asked for at each stage be the number of the bytes that named it,
and the answer, once there, of that number. From one request to the next an id goes
from bytes to halves (`RawIsTheNumber`) and to hex digits in a uri, and the number of those
digits is that of the id (`WrittenIsRead`, from `PowerSteps` and `QuotientOfQuotient`: the
digits of a half, shifted one further, are the quotient of those before).
`AsksForTheFirst` says that of the artists of a track those without an id are passed over.

### ProtobufProofs, from `SchemasAssumption`, `MessagesAssumption` and `DepthAssumption`

| Theorem | |
|---|---|
| `ReaderHasAPlan` | `Spec => []Inv` |
| `SizesAreExact` | `Spec => []SizeIsExact` |
| `ReadingGivesWhatWasWritten` | `Spec => []ReadsWhatWasWritten` |
| `ReadingFailsForAReason` | `Spec => []FailsForAReason` |

The schemas are any that are well formed, as TLC finds the six of the code to be
(`SchemasAssumption`); the messages are any, nested to any depth, with any unknown elements.

- **Tables.** `NestedSize` and its like are recursive functions over types, whose rows
  need rows of other types for messages nested less deep. `TableExists` makes the table
  up to each depth in turn, and one of all depths from those, once for whatever a row is
  made with, as long as that looks at no deeper message; each of `NestedSize`,
  `NestedWritten`, `NestedInitialized`, `NestedGarbled` is then a case of it.
- **Sizes.** `WrittenIs` has the size of what is written of a message be what
  `compute_size` says, by the depth of the message. The one for all values is
  `SizesAreExact`; that the numbers before nested messages are right is needed by all
  that follows.
- **Plans.** A message on the wire is a sequence of pieces, each with the values that it
  adds to a field, or one unknown element (`TodoIs`; `PackedTodoExists` for the writer
  that packs). A plan has for each message on the reader's stack the pieces that are left
  of it; `Follows` says that together, the innermost first, they are the rest of the
  stream, that each message ends where its own pieces do, and that what was read already
  with what they will add is the message that was written. It also says that the message is
  garbled exactly if a piece is left that cannot be read.
- **Turns.** `TurnIsRight` has a turn of `merge_from`'s loop take the first piece, open a
  nested message with a plan of its own, or fail at a piece that cannot be read;
  `EndIsRight` has a nested message end when its pieces are used up, and `AllIsRead` says
  what there is when the outermost one's are.

`Inv` is inductive: none of the three properties is, as `status` becomes `read` by what is
on the stack, which the properties do not mention before. That a plan
exists is a claim about all sequences, which TLC cannot search, so that no run checks `Inv`.

### Only model-checked

- All liveness (`ShutdownCompletes`, `Connects`, `PacketsArrive`, `StreamsEnd`, ...): TLAPS
  does not prove it under fairness.
- The four runs that expect a violation, which TLC answers with a behaviour.

## The plan

In the order of importance for the user, which is also that of the modules:
Scrobbler, Spirc, Main, Mercury, Connection, Session, Protobuf and Catalogue are written,
each with its abstract specification where the next layer needs one. Every safety property
of theirs that a run checks is proved. Left:

- `Spirc` composed with `Mercury` for the path from packet to play, if it can be
  kept small: today they meet in `subscription`, `FrameArrives` and `AnswerSend`.

## Not modelled

- The build scripts, configuration and version strings: no behaviour.
- What the generated code has for reflection and Debug; streams that are cut short or
  are no protobuf at all, beyond the one outcome that they do not parse; a field that is
  not repeated and comes twice.
- `keymaster.rs`: one Mercury request, used by nothing here.
- `Credentials::with_blob`, `Cache::file` and `save_file`, `ChannelHeaders`, `Subfile`:
  used by nothing in the repository. (`from_base16` and `from_base62` are not used either,
  but modelled, as the arithmetic of u128 has no other user.)
- `component.rs`: `Lazy` makes each manager on first use, on one thread.
- The contents of messages in Spirc, Mercury and Connection beyond what control
  depends on, as Protobuf is not composed with them; HMAC and Shannon beyond "the same
  bytes give the same keys".
- Payloads of 64 kB or more, whose length `encode` would cut to 16 bits
  (`core/src/connection/codec.rs:46`): this program sends none of that size, and
  `ConnectionAssumption` has sizes below it.
- Lists of countries that are not ASCII, which `StrChunks` may slice within a letter; events
  with the sequence number of an open request.
- Panics by code that is not under `src/`, other than those named.
