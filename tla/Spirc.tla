-------------------------------- MODULE Spirc --------------------------------
(***************************************************************************)
(* src/src/spirc.rs: SpircTask, the future that Main polls.  It reads      *)
(* frames of the user's other devices from a Mercury subscription, reads   *)
(* commands of its Spirc handle, drives the Scrobbler it owns, and sends   *)
(* frames of its own through a MercurySender, until it has been told to    *)
(* shut down and everything it sent has been answered.                     *)
(*                                                                         *)
(* One turn of the reactor is a call of poll(): `phase' walks through its  *)
(* loop, and the other actors (the dispatch task that delivers packets,    *)
(* the user at the terminal) move only between two turns, while the task   *)
(* is parked.  A turn is taken only when something woke the task.          *)
(*                                                                         *)
(* The Scrobbler is module Scrobbler, with its own variables and actions.  *)
(***************************************************************************)
EXTENDS Integers, Sequences

CONSTANTS
  Tracks, None, MaxPlays, ScrobbleAfter, Answers, LastfmResults, \* see Scrobbler
  Frames,        \* the frames other devices may send
  MaxFrames,     \* bound: how many of them arrive
  MaxShutdowns,  \* bound: how many times Spirc::shutdown is called
  SendAnswers,   \* how the access point answers a frame we send: "ok", "err"
  SubAnswers     \* how it answers the subscription: "open", "failed"

Devices == {"me", "phone", "echo"}
Bad == "bad"  \* a playing track that cannot be decoded: index or gid out of range

\* What handle_frame looks at.  `track' is None when the state lists no track,
\* `start' says that position_ms is 0.
Frame == [ident : Devices, recipient : SUBSET Devices,
          typ : {"hello", "notify", "other"},
          active : BOOLEAN, track : Tracks \cup {None, Bad}, start : BOOLEAN]

ASSUME SpircAssumption ==
  /\ None \notin Tracks /\ MaxPlays \in Nat /\ ScrobbleAfter \in Nat
  /\ Answers \subseteq {"ok", "err", "bad"} /\ LastfmResults \subseteq {"ok", "err"}
  /\ Frames \subseteq Frame
  /\ Bad \notin Tracks
  /\ MaxFrames \in 0 .. MaxPlays  \* so that MaxPlays never stops a frame
  /\ MaxShutdowns \in Nat
  /\ SendAnswers \subseteq {"ok", "err"}
  /\ SubAnswers \subseteq {"open", "failed"}

VARIABLES
  \* The Scrobbler.
  current_track_id, play_time, current_track_meta, current_track_scrobbled,
  auth_future, new_track_future, now_playing_future, meta_fetch_future,
  scrobble_future, stage, play, tracks, announced, posts,
  \* SpircTask.
  subscription,  \* "pending" until the access point answers, "open", "failed"
  frames,        \* frames delivered to the subscription and not yet polled
  commands,      \* commands sent by the handle and not yet polled
  pending,       \* the sender's requests not yet seen to be answered, in order
  shutdown,
  progress,
  phase,         \* where poll() is, "parked" between two turns
  woken,         \* the task has been notified since its last turn began
  \* History.
  arrived,       \* how many frames have arrived
  sent,          \* every frame sent
  due_at_exit    \* a play had earned a scrobble when shutdown was set

S == INSTANCE Scrobbler

scrobbler == <<current_track_id, play_time, current_track_meta,
  current_track_scrobbled, auth_future, new_track_future, now_playing_future,
  meta_fetch_future, scrobble_future, stage, play, tracks, announced, posts>>
inbox == <<subscription, frames, commands, arrived>>
outbox == <<pending, sent>>
closing == <<shutdown, due_at_exit>>
turn == <<progress, phase, woken>>
vars == <<scrobbler, inbox, outbox, closing, turn>>

-----------------------------------------------------------------------------
Outgoing == [typ : {"hello", "notify", "goodbye"}, recipient : SUBSET Devices]
Hello == [typ |-> "hello", recipient |-> {}]

Goodbye == [typ |-> "goodbye", recipient |-> {}]
Notify(d) == [typ |-> "notify", recipient |-> {d}]

\* Spirc::new: the subscription is requested and our Hello is on its way.
\* Main polls the task at once, which the first `woken' stands for.
Init ==
  /\ S!Init
  /\ subscription = "pending" /\ frames = <<>> /\ commands = 0 /\ arrived = 0
  /\ pending = <<[frame |-> Hello, answer |-> "none"]>>
  /\ sent = <<Hello>>
  /\ shutdown = FALSE /\ due_at_exit = FALSE
  /\ progress = FALSE /\ phase = "parked" /\ woken = TRUE

\* CommandSender::send, which asserts that the sender takes the frame at once.
Send(frame) ==
  /\ pending' = Append(pending, [frame |-> frame, answer |-> "none"])
  /\ sent' = Append(sent, frame)

-----------------------------------------------------------------------------
\* Mutant of ForMe: a frame for everybody is not taken for us.
ForMeByName(f) == f.ident # "me" /\ "me" \in f.recipient

\* handle_frame.  It leaves poll() at its commands, or panics on a playing
\* track that cannot be decoded.
ForMe(f) == f.ident # "me" /\ (f.recipient = {} \/ "me" \in f.recipient)

HandleFrame(f) ==
  \/ /\ ForMe(f) /\ f.typ = "hello"
     /\ Send(Notify(f.ident))
     /\ phase' = "commands"
     /\ UNCHANGED scrobbler
  \/ /\ ForMe(f) /\ f.typ = "notify" /\ f.active /\ f.track \in Tracks
     /\ S!UpdateCurrentTrack(f.track, f.start)
     /\ phase' = "commands"
     /\ UNCHANGED outbox
  \/ /\ ForMe(f) /\ f.typ = "notify" /\ f.active /\ f.track = Bad
     /\ phase' = "panicked"
     /\ UNCHANGED <<scrobbler, outbox>>
  \/ /\ \/ ~ ForMe(f)
        \/ f.typ = "other"
        \/ f.typ = "notify" /\ (~ f.active \/ f.track = None)
     /\ phase' = "commands"
     /\ UNCHANGED <<scrobbler, outbox>>

\* Core::run polls the task it has been notified of.
StartTurn ==
  /\ phase = "parked" /\ woken
  /\ woken' = FALSE
  /\ progress' = FALSE
  /\ phase' = IF shutdown THEN "sender" ELSE "subscription"
  /\ UNCHANGED <<scrobbler, inbox, outbox, closing>>

\* Mutant of PollSubscription: progress is not noted.
PollSubscriptionOnce ==
  /\ phase = "subscription"
  /\ IF frames = <<>> \/ subscription = "failed"
     THEN /\ phase' = IF subscription = "failed" THEN "panicked" ELSE "commands"
          /\ UNCHANGED <<scrobbler, outbox, frames>>
     ELSE HandleFrame(Head(frames)) /\ frames' = Tail(frames)
  /\ UNCHANGED <<subscription, commands, arrived, closing, progress, woken>>

PollSubscription ==
  /\ phase = "subscription"
  /\ \/ /\ subscription = "failed"
        /\ phase' = "panicked"
        /\ UNCHANGED <<scrobbler, outbox, frames, progress>>
     \/ /\ subscription # "failed" /\ frames # <<>>
        /\ HandleFrame(Head(frames))
        /\ frames' = Tail(frames)
        /\ progress' = TRUE
     \/ /\ subscription # "failed" /\ frames = <<>>
        /\ phase' = "commands"
        /\ UNCHANGED <<scrobbler, outbox, frames, progress>>
  /\ UNCHANGED <<subscription, commands, arrived, closing, woken>>

\* The Scrobbler is polled next, whether handle_frame has just reported a
\* track to it (and so left it at the first match) or not.
EnterScrobbler ==
  /\ phase' = "scrobbler"
  /\ IF stage = "ready" THEN S!StartPoll ELSE UNCHANGED scrobbler

\* Mutants of PollCommands: the flag is not set; the rest of the pass is skipped.
PollCommandsStaysUp ==
  /\ phase = "commands"
  /\ IF commands > 0
     THEN commands' = commands - 1 /\ progress' = TRUE /\ Send(Goodbye)
     ELSE UNCHANGED <<commands, progress, outbox>>
  /\ EnterScrobbler
  /\ UNCHANGED <<subscription, frames, arrived, closing, woken>>

PollCommandsSkips ==
  /\ phase = "commands"
  /\ \/ /\ commands > 0
        /\ commands' = commands - 1
        /\ progress' = TRUE
        /\ Send(Goodbye)
        /\ shutdown' = TRUE
        /\ due_at_exit' = S!Promise!Due
        /\ phase' = "sender"
        /\ UNCHANGED scrobbler
     \/ /\ commands = 0
        /\ EnterScrobbler
        /\ UNCHANGED <<commands, progress, outbox, closing>>
  /\ UNCHANGED <<subscription, frames, arrived, woken>>

\* handle_command: Shutdown says Goodbye and sets the flag, but this pass of
\* the loop still polls the Scrobbler.
PollCommands ==
  /\ phase = "commands"
  /\ \/ /\ commands > 0
        /\ commands' = commands - 1
        /\ progress' = TRUE
        /\ Send(Goodbye)
        /\ shutdown' = TRUE
        /\ due_at_exit' = S!Promise!Due
     \/ /\ commands = 0
        /\ UNCHANGED <<commands, progress, outbox, closing>>
  /\ EnterScrobbler
  /\ UNCHANGED <<subscription, frames, arrived, woken>>

\* Scrobbler::poll, a match at a time.  Its errors are logged.
PollScrobbler ==
  /\ phase = "scrobbler"
  /\ S!Poll
  /\ phase' = IF stage' = "ready" THEN "sender"
              ELSE IF stage' = "panicked" THEN "panicked" ELSE "scrobbler"
  /\ UNCHANGED <<inbox, outbox, closing, progress, woken>>

\* MercurySender::poll_complete drops the answered requests at the front of its
\* queue; SpircTask unwraps its error, and ends once shutdown is set and the
\* queue is empty.  Otherwise a pass that made progress is followed by another.
Flushed == pending = <<>>
FrontAnswer == IF Flushed THEN "none" ELSE Head(pending).answer

\* Mutant of PollSender: it forgets to take the answered request off the queue.
PollSenderKeeps ==
  /\ phase = "sender"
  /\ \/ FrontAnswer = "ok" /\ UNCHANGED <<phase, progress>>
     \/ /\ FrontAnswer = "none"
        /\ phase' = IF shutdown /\ Flushed THEN "done"
                    ELSE IF ~ progress THEN "parked"
                    ELSE IF shutdown THEN "sender" ELSE "subscription"
        /\ progress' = FALSE
  /\ UNCHANGED <<scrobbler, inbox, outbox, closing, woken>>

PollSender ==
  /\ phase = "sender"
  /\ \/ /\ FrontAnswer = "ok"
        /\ pending' = Tail(pending)
        /\ UNCHANGED <<phase, progress>>
     \/ /\ FrontAnswer = "err"
        /\ phase' = "panicked"
        /\ UNCHANGED <<pending, progress>>
     \/ /\ Flushed /\ shutdown
        /\ phase' = "done"
        /\ UNCHANGED <<pending, progress>>
     \/ /\ FrontAnswer = "none" /\ ~ (Flushed /\ shutdown)
        /\ phase' = IF ~ progress THEN "parked" ELSE IF shutdown THEN "sender" ELSE "subscription"
        /\ progress' = FALSE
        /\ UNCHANGED pending
  /\ UNCHANGED <<scrobbler, inbox, sent, closing, woken>>

Turn == \/ StartTurn \/ PollSubscription \/ PollCommands
        \/ PollScrobbler \/ PollSender

-----------------------------------------------------------------------------
\* The other actors.  Each notifies the task, as what it changes is what the
\* last turn found not ready.
AnswerSubscription(a) ==
  /\ phase = "parked"
  /\ subscription = "pending"
  /\ subscription' = a
  /\ woken' = TRUE
  /\ UNCHANGED <<scrobbler, frames, commands, arrived, outbox, closing, progress, phase>>

FrameArrives(f) ==
  /\ phase = "parked"
  /\ subscription = "open"
  /\ arrived < MaxFrames
  /\ arrived' = arrived + 1
  /\ frames' = Append(frames, f)
  /\ woken' = TRUE
  /\ UNCHANGED <<scrobbler, subscription, commands, outbox, closing, progress, phase>>

\* The answer to the i-th unanswered request.  Only the front one has been
\* polled, so only its answer wakes the task.
AnswerSend(i, a) ==
  /\ phase = "parked"
  /\ pending[i].answer = "none"
  /\ pending' = [pending EXCEPT ![i].answer = a]
  /\ woken' = (woken \/ i = 1)
  /\ UNCHANGED <<scrobbler, inbox, sent, closing, progress, phase>>

MetaAnswer(a) ==
  /\ phase = "parked"
  /\ S!MetaAnswer(a)
  /\ woken' = TRUE
  /\ UNCHANGED <<inbox, outbox, closing, progress, phase>>

\* Spirc::shutdown; once handle_command has closed the channel the call is lost.
Shutdown ==
  /\ phase = "parked"
  /\ ~ shutdown
  /\ commands < MaxShutdowns
  /\ commands' = commands + 1
  /\ woken' = TRUE
  /\ UNCHANGED <<scrobbler, subscription, frames, arrived, outbox, closing, progress, phase>>

Tick == S!Tick /\ phase # "done" /\ UNCHANGED <<inbox, outbox, closing, turn>>

Stopped == phase \in {"done", "panicked"} /\ UNCHANGED vars

Next ==
  \/ Turn
  \/ \E a \in SubAnswers : AnswerSubscription(a)
  \/ \E f \in Frames : FrameArrives(f)
  \/ \E i \in DOMAIN pending, a \in SendAnswers : AnswerSend(i, a)
  \/ \E a \in Answers : MetaAnswer(a)
  \/ Shutdown
  \/ Tick
  \/ Stopped

Spec == Init /\ [][Next]_vars

\* The reactor takes every turn it is notified of and runs it to its end, and
\* the access point answers what it is sent.  Nothing owes a frame, a command
\* or a wake-up for the sake of the clock.
Fairness ==
  /\ WF_vars(Turn)
  /\ SF_vars(\E a \in SubAnswers : AnswerSubscription(a))
  /\ SF_vars(\E i \in DOMAIN pending, a \in SendAnswers : AnswerSend(i, a))
  /\ SF_vars(\E a \in Answers : MetaAnswer(a))

FairSpec == Spec /\ Fairness

-----------------------------------------------------------------------------
\* The task never sleeps on work it could do: parked and not notified, it has
\* no frame, no command, no answer to take, and no track left half reported.
\* An error of the Scrobbler ends its poll early and may leave a track behind.
NoLostWakeup ==
  phase = "parked" /\ ~ woken =>
    /\ FrontAnswer = "none"
    /\ ~ shutdown =>
         /\ frames = <<>> /\ commands = 0
         /\ meta_fetch_future.answer \in {"pending", "spent"}
         /\ new_track_future = "ok" => scrobble_future = "spent"

\* Once Goodbye is sent nothing follows it, and it is sent exactly when the
\* task begins to shut down.
GoodbyeIsLast ==
  \A i \in DOMAIN sent : sent[i] = Goodbye <=> (shutdown /\ i = Len(sent))

\* A play that has earned its scrobble when the user stops the service is
\* scrobbled before SpircTask ends.
ShutdownScrobbles ==
  due_at_exit /\ phase \in {"parked", "sender", "done"} => posts[play] # <<>>

\* What Main is promised: the task does not end unasked ...
Life == INSTANCE SpircLife WITH
  life <- IF phase \in {"done", "panicked"} THEN [done |-> "gone", panicked |-> "panicked"][phase]
          ELSE IF shutdown THEN "closing" ELSE "up",
  asked <- commands > 0 \/ shutdown

ImplementsLife == Life!Spec

\* ... and a call of Spirc::shutdown ends it, unless a panic gets there first.
ShutdownCompletes == Life!FairSpec

\* A device that says Hello is told about us, unless the task ends first.
HelloIsAnswered ==
  \A d \in Devices \ {"me"} :
    (\E i \in DOMAIN frames :
       /\ frames[i].ident = d /\ frames[i].typ = "hello"
       /\ frames[i].recipient \in {{}, {"me"}})
      ~> (Notify(d) \in {sent[i] : i \in DOMAIN sent} \/ shutdown \/ phase = "panicked")

\* The play a device reports is announced as now playing, unless the next one
\* begins, the task is told to end, or the log-in, a scrobble or a request for
\* meta-data fails first: no fetch is restarted for ever and no answer is left
\* unpolled.
PlayIsAnnounced ==
  \A p \in S!Plays :
    play = p ~> (\/ announced[p] # <<>> \/ play # p \/ shutdown \/ phase = "panicked"
                 \/ "spent" \in {auth_future, scrobble_future, meta_fetch_future.answer})

\* README.md:15: "The service will sit in the background and log all Spotify
\* tracks played".  A play that has earned its scrobble gets it, or is over.
DuePlayIsScrobbled ==
  \A p \in S!Plays : (play = p /\ S!Promise!Due) ~> (posts[p] # <<>> \/ phase \in {"done", "panicked"})
=============================================================================
