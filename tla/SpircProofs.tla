------------------------------ MODULE SpircProofs ------------------------------
(***************************************************************************)
(* Proofs about Spirc.tla, for every set of tracks and of frames, and any  *)
(* number of plays, of frames and of calls of Spirc::shutdown.             *)
(*                                                                         *)
(* SpircTask never calls its Scrobbler but through the actions of          *)
(* Scrobbler.tla, so every behaviour of Spirc is one of Scrobbler, and     *)
(* what ScrobblerProofs shows of that holds here.  What is left is how the *)
(* phases of a turn fit the matches of Scrobbler::poll and the two queues. *)
(***************************************************************************)
EXTENDS Spirc, SequenceTheorems, TLAPS

\* The theorems about the Scrobbler, with the variables it has here.
P == INSTANCE ScrobblerProofs

-----------------------------------------------------------------------------
\* S and P are the same module, once for the model and once for its theorems.
LEMMA SameInit == S!Init => P!Init
  BY DEF S!Init, P!Init, S!NoMeta, P!NoMeta, S!Plays, P!Plays, S!EmptyFetch, P!EmptyFetch

LEMMA SameStutter == UNCHANGED S!vars => UNCHANGED P!vars
  BY Zenon DEF S!vars, P!vars, S!current, P!current, S!futures, P!futures, S!history, P!history

LEMMA SameScrobble == S!ScrobbleIfDue <=> P!ScrobbleIfDue
  BY Zenon DEF S!ScrobbleIfDue, P!ScrobbleIfDue, S!CanScrobbleTrack, P!CanScrobbleTrack,
     S!StartScrobble, P!StartScrobble, S!NoMeta, P!NoMeta

LEMMA SamePoll == S!Poll => P!Poll
<1>1. S!PollAuth => P!PollAuth
  BY Zenon DEF S!PollAuth, P!PollAuth, S!Fails, P!Fails, S!current, P!current, S!history, P!history
<1>2. S!PollCanScrobble => P!PollCanScrobble
  BY SameScrobble, Zenon DEF S!PollCanScrobble, P!PollCanScrobble, S!current, P!current
<1>3. S!PollScrobble => P!PollScrobble
  BY Zenon DEF S!PollScrobble, P!PollScrobble, S!Fails, P!Fails, S!history, P!history
<1>4. S!PollNewTrack => P!PollNewTrack
  BY Zenon DEF S!PollNewTrack, P!PollNewTrack, S!GetTrackMeta, P!GetTrackMeta, S!history, P!history
<1>5. S!PollMeta => P!PollMeta
  BY Zenon DEF S!PollMeta, P!PollMeta, S!NextRequest, P!NextRequest, S!EmptyFetch, P!EmptyFetch
<1>6. S!PollNowPlaying => P!PollNowPlaying
  BY Zenon DEF S!PollNowPlaying, P!PollNowPlaying, S!Fails, P!Fails,
     S!current, P!current, S!history, P!history
<1> QED
  BY <1>1, <1>2, <1>3, <1>4, <1>5, <1>6 DEF S!Poll, P!Poll

LEMMA SameUpdate ==
  ASSUME NEW t, NEW force, S!UpdateCurrentTrack(t, force)
  PROVE  P!UpdateCurrentTrack(t, force)
  BY SameScrobble, Zenon DEF S!UpdateCurrentTrack, P!UpdateCurrentTrack, S!IsNewTrack, P!IsNewTrack,
     S!SetNewTrack, P!SetNewTrack, S!NoMeta, P!NoMeta,
     S!current, P!current, S!futures, P!futures, S!history, P!history

LEMMA SameNext == [S!Next]_(S!vars) => [P!Next]_(P!vars)
<1> SUFFICES ASSUME [S!Next]_(S!vars) PROVE [P!Next]_(P!vars)
  OBVIOUS
<1>1. ASSUME NEW t \in Tracks, NEW force \in BOOLEAN, S!UpdateCurrentTrack(t, force)
      PROVE  P!Next
  BY <1>1, SameUpdate DEF P!Next
<1>2. CASE S!StartPoll
  BY <1>2, Zenon DEF S!StartPoll, P!StartPoll, P!Next,
     S!current, P!current, S!futures, P!futures, S!history, P!history
<1>3. CASE S!Poll
  BY <1>3, SamePoll DEF P!Next
<1>4. ASSUME NEW a \in Answers, S!MetaAnswer(a) PROVE P!Next
  <2>1. P!MetaAnswer(a)
    BY <1>4, Zenon DEF S!MetaAnswer, P!MetaAnswer, S!Requests, P!Requests,
       S!current, P!current, S!history, P!history
  <2> QED
    BY <2>1 DEF P!Next
<1>5. CASE S!Tick
  BY <1>5, Zenon DEF S!Tick, P!Tick, P!Next, S!futures, P!futures, S!history, P!history
<1>6. CASE S!Panicked \/ UNCHANGED S!vars
  BY <1>6, SameStutter DEF S!Panicked
<1> QED
  BY <1>1, <1>2, <1>3, <1>4, <1>5, <1>6 DEF S!Next

-----------------------------------------------------------------------------
\* Every step of SpircTask and of its environment is a step of the Scrobbler or
\* leaves it alone.
LEMMA FrameStep ==
  ASSUME NEW f \in Frames, HandleFrame(f)
  PROVE  [S!Next]_(S!vars)
<1>1. f.start \in BOOLEAN
  BY SpircAssumption DEF Frame
<1> QED
  BY <1>1, SpircAssumption DEF HandleFrame, S!Next, scrobbler, S!vars, S!current, S!futures, S!history

LEMMA EnterStep == EnterScrobbler => [S!Next]_(S!vars)
  BY DEF EnterScrobbler, S!Next, scrobbler, S!vars, S!current, S!futures, S!history

-----------------------------------------------------------------------------
Phases == {"parked", "subscription", "commands", "scrobbler", "sender", "done", "panicked"}

\* A request of the sender that has not been seen to be answered.
Requests == [frame : Outgoing, answer : {"none", "ok", "err"}]

TypeOK ==
  /\ subscription \in {"pending", "open", "failed"}
  /\ frames \in Seq(Frames)
  /\ commands \in 0 .. MaxShutdowns
  /\ pending \in Seq(Requests)
  /\ sent \in Seq(Outgoing)
  /\ shutdown \in BOOLEAN /\ progress \in BOOLEAN /\ woken \in BOOLEAN
  /\ phase \in Phases

\* The Scrobbler is in the middle of a poll exactly when SpircTask polls it.
Places ==
  /\ phase \in {"parked", "subscription", "sender", "done"} => stage = "ready"
  /\ phase = "commands" => stage \in {"ready", "auth"}
  /\ phase = "scrobbler" => stage \notin {"ready", "panicked"}

\* Nothing that sends is reached again once shutdown is set.
Closing ==
  /\ GoodbyeIsLast
  /\ phase \in {"subscription", "commands"} => ~ shutdown

\* A scrobble that is due at the last command leaves in the poll that follows.
Exit ==
  due_at_exit =>
    /\ shutdown /\ play \in S!Plays
    /\ \/ posts[play] # <<>>
       \/ phase = "scrobbler" /\ stage \in {"auth", "can_scrobble"} /\ S!Promise!Due

\* What the task has found not ready in this pass of its loop.
Asleep == phase = "parked" /\ ~ woken

Drained ==
  /\ Asleep => FrontAnswer = "none"
  /\ ~ shutdown =>
       /\ \/ Asleep
          \/ phase \in {"commands", "scrobbler", "sender"} /\ ~ progress
          => frames = <<>>
       /\ \/ Asleep
          \/ phase \in {"scrobbler", "sender"} /\ ~ progress
          => commands = 0
       /\ Asleep \/ phase = "sender" =>
            /\ meta_fetch_future.answer \in {"pending", "spent"}
            /\ new_track_future = "ok" => scrobble_future = "spent" \/ auth_future = "spent"

\* A track that was reported before the login failed is not slept on: the pass
\* that learnt of it is followed by another, in which the spent future panics.
Unpolled ==
  new_track_future = "ok" /\ auth_future # "empty" /\ ~ shutdown =>
    \/ phase = "panicked"
    \/ phase \in {"commands", "scrobbler"} /\ (progress \/ auth_future = "spent")
    \/ phase = "sender" /\ progress /\ auth_future = "spent"
    \/ phase = "subscription" /\ auth_future = "spent"

Inv ==
  /\ P!Inv /\ P!PollInv
  /\ TypeOK /\ Places /\ Closing /\ Exit /\ Drained /\ Unpolled

LEMMA InitInv == Init => Inv
<1> SUFFICES ASSUME Init PROVE Inv
  OBVIOUS
<1> USE DEF Init
<1>1. P!Inv /\ P!PollInv
  BY SameInit, P!InitInv, P!InitPollInv, SpircAssumption
<1>2. Hello \in Outgoing /\ Hello # Goodbye
  BY DEF Outgoing, Hello, Goodbye
<1>3. TypeOK
  <2>1. [frame |-> Hello, answer |-> "none"] \in Requests
    BY <1>2 DEF Requests
  <2>2. /\ pending \in Seq(Requests)
        /\ sent \in Seq(Outgoing)
    BY <1>2, <2>1
  <2>3. <<>> \in Seq(Frames) /\ commands \in 0 .. MaxShutdowns
    BY SpircAssumption
  <2> QED
    BY <2>2, <2>3 DEF TypeOK, Phases
<1>4. Places /\ Closing /\ Exit
  BY <1>2 DEF Places, Closing, GoodbyeIsLast, Exit, S!Init
<1>5. Drained /\ Unpolled
  BY DEF Drained, Asleep, Unpolled, S!Init
<1> QED
  BY <1>1, <1>3, <1>4, <1>5 DEF Inv

\* Spirc drives the Scrobbler only as Scrobbler.tla lets it be driven.
LEMMA NextStep == TypeOK /\ [Next]_vars => [S!Next]_(S!vars)
<1> SUFFICES ASSUME TypeOK, [Next]_vars PROVE [S!Next]_(S!vars)
  OBVIOUS
<1>1. UNCHANGED scrobbler => UNCHANGED S!vars
  BY DEF scrobbler, S!vars, S!current, S!futures, S!history
<1>2. CASE StartTurn \/ PollSender \/ Shutdown \/ Stopped \/ UNCHANGED vars
  BY <1>1, <1>2 DEF StartTurn, PollSender, Shutdown, Stopped, vars
<1>3. CASE PollSubscription
  <2>1. frames # <<>> => Head(frames) \in Frames
    BY DEF TypeOK
  <2> QED
    BY <1>1, <1>3, <2>1, FrameStep DEF PollSubscription
<1>4. CASE PollCommands
  BY <1>4, EnterStep DEF PollCommands
<1>5. CASE PollScrobbler
  BY <1>5 DEF PollScrobbler, S!Next
<1>6. CASE Tick
  BY <1>6 DEF Tick, S!Next
<1>7. ASSUME NEW a \in Answers, MetaAnswer(a) PROVE S!Next
  BY <1>7 DEF MetaAnswer, S!Next
<1>8. ASSUME NEW a \in SubAnswers, AnswerSubscription(a) PROVE UNCHANGED scrobbler
  BY <1>8 DEF AnswerSubscription
<1>9. ASSUME NEW f \in Frames, FrameArrives(f) PROVE UNCHANGED scrobbler
  BY <1>9 DEF FrameArrives
<1>10. ASSUME NEW i \in DOMAIN pending, NEW a \in SendAnswers, AnswerSend(i, a)
       PROVE  UNCHANGED scrobbler
  BY <1>10 DEF AnswerSend
<1> QED
  BY <1>1, <1>2, <1>3, <1>4, <1>5, <1>6, <1>7, <1>8, <1>9, <1>10 DEF Next, Turn

LEMMA NextScrobbler == Inv /\ [Next]_vars => P!Inv' /\ P!PollInv'
  BY NextStep, SameNext, P!NextInv, P!NextPollInv, SpircAssumption DEF Inv

-----------------------------------------------------------------------------
LEMMA SendType ==
  ASSUME TypeOK, NEW f \in Outgoing, Send(f)
  PROVE  /\ pending' \in Seq(Requests)
         /\ sent' \in Seq(Outgoing)
<1>1. [frame |-> f, answer |-> "none"] \in Requests
  BY DEF Requests
<1> QED
  BY <1>1 DEF Send, TypeOK

LEMMA FrameType ==
  ASSUME TypeOK, NEW f \in Frames, HandleFrame(f)
  PROVE  /\ pending' \in Seq(Requests)
         /\ sent' \in Seq(Outgoing)
         /\ phase' \in {"commands", "panicked"}
<1>1. phase' \in {"commands", "panicked"}
  BY DEF HandleFrame
<1>2. CASE Send(Notify(f.ident))
  <2>1. Notify(f.ident) \in Outgoing
    BY SpircAssumption DEF Outgoing, Notify, Frame
  <2> QED
    BY <1>1, <1>2, <2>1, SendType
<1>3. CASE UNCHANGED outbox
  BY <1>1, <1>3 DEF outbox, TypeOK
<1> QED
  BY <1>2, <1>3 DEF HandleFrame

LEMMA NextType == TypeOK /\ [Next]_vars => TypeOK'
<1> SUFFICES ASSUME TypeOK, [Next]_vars PROVE TypeOK'
  OBVIOUS
<1> USE DEF inbox, outbox, closing, turn
<1>1. CASE StartTurn
  BY <1>1 DEF StartTurn, TypeOK, Phases
<1>2. CASE PollSubscription
  <2>1. frames # <<>> => Head(frames) \in Frames /\ Tail(frames) \in Seq(Frames)
    BY DEF TypeOK
  <2>2. frames' \in Seq(Frames) /\ progress' \in BOOLEAN
    BY <1>2, <2>1 DEF PollSubscription, TypeOK
  <2>3. /\ pending' \in Seq(Requests)
        /\ sent' \in Seq(Outgoing)
        /\ phase' \in {"commands", "panicked"}
    <3>1. CASE UNCHANGED outbox /\ phase' \in {"commands", "panicked"}
      BY <3>1 DEF TypeOK
    <3>2. CASE frames # <<>> /\ HandleFrame(Head(frames))
      BY <2>1, <3>2, FrameType
    <3> QED
      BY <1>2, <3>1, <3>2 DEF PollSubscription
  <2> QED
    BY <1>2, <2>2, <2>3 DEF PollSubscription, TypeOK, Phases
<1>3. CASE PollCommands
  <2>1. Goodbye \in Outgoing
    BY DEF Goodbye, Outgoing
  <2>2. /\ pending' \in Seq(Requests)
        /\ sent' \in Seq(Outgoing)
    BY <1>3, <2>1, SendType DEF PollCommands, TypeOK
  <2>3. commands' \in 0 .. MaxShutdowns
    BY <1>3, SpircAssumption DEF PollCommands, TypeOK
  <2>4. progress' \in BOOLEAN /\ shutdown' \in BOOLEAN
    BY <1>3 DEF PollCommands, TypeOK
  <2> QED
    BY <1>3, <2>2, <2>3, <2>4 DEF PollCommands, EnterScrobbler, TypeOK, Phases
<1>4. CASE PollScrobbler
  BY <1>4 DEF PollScrobbler, TypeOK, Phases
<1>5. CASE PollSender
  <2>1. pending' \in Seq(Requests)
    <3>1. FrontAnswer = "ok" => pending # <<>>
      BY DEF FrontAnswer, Flushed
    <3>2. pending # <<>> => Tail(pending) \in Seq(Requests)
      BY DEF TypeOK
    <3>3. pending \in Seq(Requests)
      BY DEF TypeOK
    <3> QED
      BY <1>5, <3>1, <3>2, <3>3 DEF PollSender
  <2>2. phase' \in Phases
    BY <1>5 DEF PollSender, TypeOK, Phases
  <2>3. progress' \in BOOLEAN
    BY <1>5 DEF PollSender, TypeOK
  <2> QED
    BY <1>5, <2>1, <2>2, <2>3 DEF PollSender, TypeOK
<1>6. ASSUME NEW a \in SubAnswers, AnswerSubscription(a) PROVE TypeOK'
  BY <1>6, SpircAssumption DEF AnswerSubscription, TypeOK
<1>7. ASSUME NEW f \in Frames, FrameArrives(f) PROVE TypeOK'
  BY <1>7 DEF FrameArrives, TypeOK
<1>8. ASSUME NEW i \in DOMAIN pending, NEW a \in SendAnswers, AnswerSend(i, a) PROVE TypeOK'
  <2>1. pending[i] \in Requests
    BY DEF TypeOK
  <2>2. [pending[i] EXCEPT !.answer = a] \in Requests
    BY <2>1, SpircAssumption DEF Requests
  <2>3. pending' = [pending EXCEPT ![i] = [pending[i] EXCEPT !.answer = a]]
    BY <1>8 DEF AnswerSend
  <2>4. pending' \in Seq(Requests)
    BY <2>2, <2>3, ExceptSeq DEF TypeOK
  <2>5. woken' \in BOOLEAN
    BY <1>8, Zenon DEF AnswerSend
  <2> QED
    BY <1>8, <2>4, <2>5 DEF AnswerSend, TypeOK
<1>9. ASSUME NEW a \in Answers, MetaAnswer(a) PROVE TypeOK'
  BY <1>9 DEF MetaAnswer, TypeOK
<1>10. CASE Shutdown
  BY <1>10, SpircAssumption DEF Shutdown, TypeOK
<1>11. CASE Tick \/ Stopped \/ UNCHANGED vars
  BY <1>11 DEF Tick, Stopped, vars, TypeOK
<1> QED
  BY <1>1, <1>2, <1>3, <1>4, <1>5, <1>6, <1>7, <1>8, <1>9, <1>10, <1>11 DEF Next, Turn

-----------------------------------------------------------------------------
LEMMA PlacesNext == TypeOK /\ Places /\ [Next]_vars => Places'
<1> SUFFICES ASSUME TypeOK, Places, [Next]_vars PROVE Places'
  OBVIOUS
<1> USE DEF Places, inbox, outbox, closing, turn
<1>1. UNCHANGED scrobbler => UNCHANGED stage
  BY DEF scrobbler
<1>2. CASE StartTurn \/ PollSender \/ Shutdown \/ Stopped \/ UNCHANGED vars
  BY <1>1, <1>2 DEF StartTurn, PollSender, Shutdown, Stopped, vars
<1>3. CASE PollSubscription
  BY <1>1, <1>3 DEF PollSubscription, HandleFrame, S!UpdateCurrentTrack
<1>4. CASE PollCommands
  BY <1>1, <1>4 DEF PollCommands, EnterScrobbler, S!StartPoll
<1>5. CASE PollScrobbler
  BY <1>5 DEF PollScrobbler
<1>6. CASE Tick
  BY <1>6 DEF Tick, S!Tick
<1>7. ASSUME NEW a \in Answers, MetaAnswer(a) PROVE Places'
  BY <1>7 DEF MetaAnswer, S!MetaAnswer
<1>8. ASSUME NEW a \in SubAnswers, AnswerSubscription(a) PROVE Places'
  BY <1>1, <1>8 DEF AnswerSubscription
<1>9. ASSUME NEW f \in Frames, FrameArrives(f) PROVE Places'
  BY <1>1, <1>9 DEF FrameArrives
<1>10. ASSUME NEW i \in DOMAIN pending, NEW a \in SendAnswers, AnswerSend(i, a) PROVE Places'
  BY <1>1, <1>10 DEF AnswerSend
<1> QED
  BY <1>2, <1>3, <1>4, <1>5, <1>6, <1>7, <1>8, <1>9, <1>10 DEF Next, Turn

\* What is sent before the command is no Goodbye, and the command is the last
\* thing the task reads.
LEMMA ClosingNext == TypeOK /\ Closing /\ [Next]_vars => Closing'
<1> SUFFICES ASSUME TypeOK, Closing, [Next]_vars PROVE Closing'
  OBVIOUS
<1> USE DEF Closing, inbox, outbox, closing, turn
<1>1. CASE UNCHANGED <<sent, shutdown>>
           /\ (phase' \in {"subscription", "commands"} => ~ shutdown)
  BY <1>1 DEF GoodbyeIsLast
<1>2. CASE phase = "subscription" /\ Send(Notify(Head(frames).ident)) /\ UNCHANGED shutdown
  <2>1. Notify(Head(frames).ident) # Goodbye
    BY DEF Notify, Goodbye
  <2>2. ~ shutdown
    BY <1>2
  <2>3. \A i \in DOMAIN sent : sent[i] # Goodbye
    BY <2>2 DEF GoodbyeIsLast
  <2>4. \A i \in DOMAIN sent' : sent'[i] # Goodbye
    BY <1>2, <2>1, <2>3 DEF Send, TypeOK
  <2> QED
    BY <1>2, <2>2, <2>4 DEF GoodbyeIsLast
<1>3. CASE PollCommands
  <2>1. ~ shutdown
    BY <1>3 DEF PollCommands
  <2>2. \A i \in DOMAIN sent : sent[i] # Goodbye
    BY <2>1 DEF GoodbyeIsLast
  <2>3. CASE Send(Goodbye) /\ shutdown' = TRUE
    <3>1. sent' = Append(sent, Goodbye)
      BY <2>3 DEF Send
    <3>2. \A i \in DOMAIN sent' : sent'[i] = Goodbye <=> i = Len(sent')
      BY <2>2, <3>1 DEF TypeOK
    <3> QED
      BY <1>3, <2>3, <3>2 DEF GoodbyeIsLast, PollCommands, EnterScrobbler
  <2>4. CASE UNCHANGED <<sent, shutdown>>
    BY <1>1, <1>3, <2>4 DEF PollCommands, EnterScrobbler
  <2> QED
    BY <1>3, <2>3, <2>4 DEF PollCommands
<1>4. CASE PollSubscription
  BY <1>1, <1>2, <1>4 DEF PollSubscription, HandleFrame
<1>5. CASE StartTurn \/ PollScrobbler \/ PollSender
  BY <1>1, <1>5 DEF StartTurn, PollScrobbler, PollSender
<1>6. CASE Shutdown \/ Tick \/ Stopped \/ UNCHANGED vars
  BY <1>1, <1>6 DEF Shutdown, Tick, Stopped, vars
<1>7. ASSUME NEW a \in Answers, MetaAnswer(a) PROVE Closing'
  BY <1>1, <1>7 DEF MetaAnswer
<1>8. ASSUME NEW a \in SubAnswers, AnswerSubscription(a) PROVE Closing'
  BY <1>1, <1>8 DEF AnswerSubscription
<1>9. ASSUME NEW f \in Frames, FrameArrives(f) PROVE Closing'
  BY <1>1, <1>9 DEF FrameArrives
<1>10. ASSUME NEW i \in DOMAIN pending, NEW a \in SendAnswers, AnswerSend(i, a) PROVE Closing'
  BY <1>1, <1>10 DEF AnswerSend
<1> QED
  BY <1>3, <1>4, <1>5, <1>6, <1>7, <1>8, <1>9, <1>10 DEF Next, Turn

-----------------------------------------------------------------------------
\* S!Promise and P!Promise are the same module too.
LEMMA SameDue == S!Promise!Due <=> P!Promise!Due
  BY Zenon DEF S!Promise!Due, P!Promise!Due, S!Promise!Plays, P!Promise!Plays

LEMMA DueStays ==
  ASSUME P!Inv, S!Promise!Due, UNCHANGED <<play, posts, announced>>,
         UNCHANGED play_time \/ play_time' = play_time + 1
  PROVE  S!Promise!Due'
<1>1. play_time \in Nat /\ ScrobbleAfter \in Nat
  BY SpircAssumption DEF P!Inv, P!TypeOK
<1> QED
  BY <1>1 DEF S!Promise!Due, S!Promise!Plays

\* Once shutdown is set no frame is read, and so no play begins.
LEMMA ExitNext == Inv /\ [Next]_vars => Exit'
<1> SUFFICES ASSUME Inv, [Next]_vars, due_at_exit' PROVE Exit'
  BY DEF Exit
<1> USE DEF Exit, inbox, outbox, closing, turn
<1>1. CASE PollCommands /\ due_at_exit' = S!Promise!Due /\ shutdown' = TRUE
  <2>1. UNCHANGED <<play, posts, announced, play_time>> /\ phase' = "scrobbler" /\ stage' = "auth"
    BY <1>1 DEF PollCommands, EnterScrobbler, S!StartPoll, S!current, S!history, scrobbler,
       Inv, Places
  <2>2. S!Promise!Due
    BY <1>1
  <2>3. S!Promise!Due'
    BY <2>1, <2>2, DueStays DEF Inv
  <2>4. play \in S!Plays
    BY <2>2 DEF S!Promise!Due, S!Promise!Plays, S!Plays
  <2> QED
    BY <1>1, <2>1, <2>3, <2>4 DEF S!Plays
<1>2. CASE UNCHANGED due_at_exit
  <2>1. shutdown /\ play \in S!Plays /\ phase \notin {"subscription", "commands"}
    BY <1>2 DEF Inv, Closing
  <2>2. shutdown' /\ UNCHANGED play
    <3>1. UNCHANGED scrobbler => UNCHANGED play
      BY DEF scrobbler
    <3>2. ~ PollSubscription /\ ~ PollCommands
      BY <2>1 DEF PollSubscription, PollCommands
    <3>3. CASE StartTurn \/ PollSender \/ Shutdown \/ Stopped \/ UNCHANGED vars
      BY <2>1, <3>1, <3>3 DEF StartTurn, PollSender, Shutdown, Stopped, vars
    <3>4. CASE PollScrobbler
      BY <2>1, <3>4 DEF PollScrobbler, S!Poll, S!PollAuth, S!PollCanScrobble, S!PollScrobble,
         S!PollNewTrack, S!PollMeta, S!PollNowPlaying, S!history
    <3>5. CASE Tick
      BY <2>1, <3>5 DEF Tick, S!Tick, S!history
    <3>6. ASSUME NEW a \in Answers, MetaAnswer(a) PROVE shutdown' /\ UNCHANGED play
      BY <2>1, <3>6 DEF MetaAnswer, S!MetaAnswer, S!history
    <3>7. ASSUME NEW a \in SubAnswers, AnswerSubscription(a) PROVE shutdown' /\ UNCHANGED play
      BY <2>1, <3>1, <3>7 DEF AnswerSubscription
    <3>8. ASSUME NEW f \in Frames, FrameArrives(f) PROVE shutdown' /\ UNCHANGED play
      BY <2>1, <3>1, <3>8 DEF FrameArrives
    <3>9. ASSUME NEW i \in DOMAIN pending, NEW a \in SendAnswers, AnswerSend(i, a)
          PROVE  shutdown' /\ UNCHANGED play
      BY <2>1, <3>1, <3>9 DEF AnswerSend
    <3> QED
      BY <3>2, <3>3, <3>4, <3>5, <3>6, <3>7, <3>8, <3>9 DEF Next, Turn
  <2>3. CASE posts[play] # <<>>
    <3>1. [P!Next]_(P!vars)
      BY NextStep, SameNext DEF Inv
    <3>2. play \in P!Plays
      BY <2>1 DEF S!Plays, P!Plays
    <3>3. posts'[play] # <<>>
      BY <2>3, <3>1, <3>2, P!PostsStay, SpircAssumption DEF Inv
    <3> QED
      BY <2>1, <2>2, <3>3 DEF S!Plays
  <2>4. CASE phase = "scrobbler" /\ stage \in {"auth", "can_scrobble"} /\ S!Promise!Due
    <3>1. CASE PollScrobbler
      <4>1. \/ posts'[play'] # <<>>
            \/ stage' = "can_scrobble" /\ UNCHANGED <<play, posts, announced, play_time>>
        BY <2>4, <3>1, SamePoll, SameDue, P!PollScrobblesDue, SpircAssumption DEF Inv, PollScrobbler
      <4>2. stage' = "can_scrobble" => phase' = "scrobbler"
        BY <3>1 DEF PollScrobbler
      <4> QED
        BY <2>1, <2>2, <2>4, <4>1, <4>2, DueStays DEF Inv, S!Plays
    <3>2. CASE Tick
      <4>1. /\ UNCHANGED <<play, posts, announced, stage, phase>>
            /\ play_time' = play_time + 1
        BY <3>2 DEF Tick, S!Tick, S!history
      <4> QED
        BY <2>1, <2>2, <2>4, <4>1, DueStays DEF Inv, S!Plays
    <3>3. CASE UNCHANGED vars
      BY <2>1, <2>2, <2>4, <3>3, DueStays DEF Inv, vars, scrobbler, S!Plays
    <3> QED
      BY <2>4, <3>1, <3>2, <3>3 DEF Next, Turn, StartTurn, PollSubscription, PollCommands, PollSender,
         AnswerSubscription, FrameArrives, AnswerSend, MetaAnswer, Shutdown, Stopped
  <2> QED
    BY <1>2, <2>3, <2>4 DEF Inv
<1> QED
  BY <1>1, <1>2 DEF Next, Turn, StartTurn, PollSubscription, PollCommands, PollScrobbler, PollSender,
     AnswerSubscription, FrameArrives, AnswerSend, MetaAnswer, Shutdown, Tick, Stopped, vars

-----------------------------------------------------------------------------
LEMMA UnpolledNext == Inv /\ [Next]_vars => Unpolled'
<1> SUFFICES ASSUME Inv, [Next]_vars PROVE Unpolled'
  OBVIOUS
<1> USE DEF Unpolled, Inv, inbox, outbox, closing, turn
<1>1. UNCHANGED scrobbler => UNCHANGED <<stage, auth_future, new_track_future>>
  BY DEF scrobbler
<1>2. CASE StartTurn \/ Shutdown \/ Stopped \/ UNCHANGED vars
  BY <1>1, <1>2 DEF StartTurn, Shutdown, Stopped, vars
<1>3. CASE PollSubscription
  BY <1>1, <1>3 DEF PollSubscription, HandleFrame, S!UpdateCurrentTrack, S!current, S!futures
<1>4. CASE PollCommands
  BY <1>1, <1>4 DEF PollCommands, EnterScrobbler, S!StartPoll, S!futures
<1>5. CASE PollScrobbler
  <2>1. CASE stage' = "ready"
    <3>1. /\ auth_future' = "spent" => auth_future = "err"
          /\ auth_future' \in {"empty", "spent"}
          /\ UNCHANGED new_track_future
      BY <1>5, <2>1, SamePoll, P!PollEnds, SpircAssumption DEF PollScrobbler
    <3> QED
      BY <1>5, <2>1, <3>1 DEF PollScrobbler
  <2>2. CASE stage' # "ready"
    <3>1. auth_future' \in {"empty", "spent"} /\ (auth_future' = "spent" => stage' = "panicked")
      <4>1. stage # "auth" => auth_future = "empty"
        BY <1>5 DEF PollScrobbler, Places, P!PollInv
      <4> QED
        BY <1>5, <2>2, <4>1 DEF PollScrobbler, S!Poll, S!PollAuth, S!Fails, S!PollCanScrobble,
           S!PollScrobble, S!PollNewTrack, S!PollMeta, S!PollNowPlaying
    <3> QED
      BY <1>5, <3>1 DEF PollScrobbler
  <2> QED
    BY <2>1, <2>2
<1>6. CASE PollSender
  BY <1>1, <1>6 DEF PollSender
<1>7. CASE Tick
  BY <1>7 DEF Tick, S!Tick, S!futures
<1>8. ASSUME NEW a \in Answers, MetaAnswer(a) PROVE Unpolled'
  BY <1>8 DEF MetaAnswer, S!MetaAnswer
<1>9. ASSUME NEW a \in SubAnswers, AnswerSubscription(a) PROVE Unpolled'
  BY <1>1, <1>9 DEF AnswerSubscription
<1>10. ASSUME NEW f \in Frames, FrameArrives(f) PROVE Unpolled'
  BY <1>1, <1>10 DEF FrameArrives
<1>11. ASSUME NEW i \in DOMAIN pending, NEW a \in SendAnswers, AnswerSend(i, a) PROVE Unpolled'
  BY <1>1, <1>11 DEF AnswerSend
<1> QED
  BY <1>2, <1>3, <1>4, <1>5, <1>6, <1>7, <1>8, <1>9, <1>10, <1>11 DEF Next, Turn

\* A pass ends with everything polled or with progress, which asks for another.
LEMMA DrainedNext == Inv /\ [Next]_vars => Drained'
<1> SUFFICES ASSUME Inv, [Next]_vars PROVE Drained'
  OBVIOUS
<1> USE DEF Drained, Asleep, Inv, inbox, outbox, closing, turn
<1>1. UNCHANGED scrobbler =>
        UNCHANGED <<meta_fetch_future, new_track_future, scrobble_future, auth_future>>
  BY DEF scrobbler
<1>2. UNCHANGED outbox => UNCHANGED FrontAnswer
  BY DEF FrontAnswer, Flushed
<1>3. CASE StartTurn
  BY <1>3 DEF StartTurn
<1>4. CASE PollSubscription
  BY <1>4 DEF PollSubscription, HandleFrame
<1>5. CASE PollCommands
  BY <1>5 DEF PollCommands, EnterScrobbler, TypeOK
<1>6. CASE PollScrobbler
  <2>1. stage' = "ready" =>
          /\ meta_fetch_future'.answer \in {"pending", "spent"}
          /\ new_track_future' = "ok" => scrobble_future' = "spent" \/ auth_future' = "spent"
    BY <1>6, SamePoll, P!PollEnds, SpircAssumption DEF PollScrobbler
  <2> QED
    BY <1>6, <2>1 DEF PollScrobbler
<1>7. CASE PollSender
  <2>1. CASE phase' = "parked" /\ FrontAnswer = "none" /\ ~ progress /\ UNCHANGED pending
    <3>1. FrontAnswer' = "none"
      BY <2>1 DEF FrontAnswer, Flushed
    <3> QED
      BY <1>1, <1>7, <2>1, <3>1 DEF PollSender
  <2>2. CASE phase' = "sender" /\ (UNCHANGED progress \/ shutdown)
    BY <1>1, <1>7, <2>2 DEF PollSender
  <2>3. CASE phase' \in {"panicked", "done", "subscription"}
    BY <2>3
  <2> QED
    BY <1>7, <2>1, <2>2, <2>3 DEF PollSender
<1>8. CASE Tick
  BY <1>2, <1>8 DEF Tick, S!Tick, S!futures
<1>9. CASE Shutdown \/ (\E a \in Answers : MetaAnswer(a)) \/ (\E a \in SubAnswers : AnswerSubscription(a))
           \/ (\E f \in Frames : FrameArrives(f))
  BY <1>9 DEF Shutdown, MetaAnswer, AnswerSubscription, FrameArrives
<1>10. ASSUME NEW i \in DOMAIN pending, NEW a \in SendAnswers, AnswerSend(i, a) PROVE Drained'
  <2>1. i # 1 => FrontAnswer' = FrontAnswer
    <3>1. pending \in Seq(Requests) /\ pending # <<>> /\ i \in 1 .. Len(pending)
      BY DEF TypeOK
    <3>2. i # 1 => pending'[1] = pending[1] /\ pending' # <<>>
      BY <1>10, <3>1 DEF AnswerSend
    <3> QED
      BY <3>1, <3>2, <1>10 DEF FrontAnswer, Flushed, AnswerSend
  <2> QED
    BY <1>1, <1>10, <2>1 DEF AnswerSend
<1>11. CASE Stopped \/ UNCHANGED vars
  BY <1>1, <1>2, <1>11 DEF Stopped, vars
<1> QED
  BY <1>3, <1>4, <1>5, <1>6, <1>7, <1>8, <1>9, <1>10, <1>11 DEF Next, Turn

-----------------------------------------------------------------------------
LEMMA InvAlways == Spec => []Inv
<1>1. Init => Inv
  BY InitInv
<1>2. Inv /\ [Next]_vars => Inv'
  BY NextScrobbler, NextType, PlacesNext, ClosingNext, ExitNext, DrainedNext, UnpolledNext DEF Inv
<1> QED
  BY <1>1, <1>2, PTL DEF Spec

\* SpircTask uses its Scrobbler as Scrobbler.tla says it may be used: what is
\* proved of the Scrobbler by itself is true of the one inside SpircTask.
THEOREM DrivesScrobbler == Spec => S!Spec
<1>1. Init => S!Init
  BY DEF Init
<1>2. Inv /\ [Next]_vars => [S!Next]_(S!vars)
  BY NextStep DEF Inv
<1> QED
  BY <1>1, <1>2, InvAlways, PTL DEF Spec, S!Spec

\* The invariant behind the theorems that follow.
THEOREM InvariantHolds == Spec => [](TypeOK /\ Places /\ Closing /\ Exit /\ Drained /\ Unpolled)
<1>1. Inv => TypeOK /\ Places /\ Closing /\ Exit /\ Drained /\ Unpolled
  BY DEF Inv
<1> QED
  BY <1>1, InvAlways, PTL

\* handle_command says Goodbye once, as the last frame SpircTask ever sends.
THEOREM GoodbyeCloses == Spec => []GoodbyeIsLast
<1>1. Inv => GoodbyeIsLast
  BY DEF Inv, Closing
<1> QED
  BY <1>1, InvAlways, PTL

\* A poll of SpircTask that returns NotReady has left nothing behind that was
\* ready: whoever comes next finds the task registered and wakes it.
THEOREM NothingIsSleptOn == Spec => []NoLostWakeup
<1>1. Inv => NoLostWakeup
  <2> SUFFICES ASSUME Inv, Asleep PROVE NoLostWakeup
    BY DEF NoLostWakeup, Asleep
  <2>1. FrontAnswer = "none"
    BY DEF Inv, Drained
  <2>2. ASSUME ~ shutdown
        PROVE  /\ frames = <<>> /\ commands = 0
               /\ meta_fetch_future.answer \in {"pending", "spent"}
    BY <2>2 DEF Inv, Drained
  <2>3. ASSUME ~ shutdown, new_track_future = "ok" PROVE scrobble_future = "spent"
    <3>1. auth_future = "empty"
      BY <2>3 DEF Inv, Unpolled, Asleep
    <3> QED
      BY <2>3, <3>1 DEF Inv, Drained, Asleep
  <2> QED
    BY <2>1, <2>2, <2>3 DEF NoLostWakeup
<1> QED
  BY <1>1, InvAlways, PTL

\* What is due when the user stops the service is scrobbled before it stops.
THEOREM LastPlayIsScrobbled == Spec => []ShutdownScrobbles
<1>1. Inv => ShutdownScrobbles
  BY DEF Inv, Exit, ShutdownScrobbles
<1> QED
  BY <1>1, InvAlways, PTL

-----------------------------------------------------------------------------
LEMMA LifeStep == Inv /\ [Next]_vars => [Life!Next]_(Life!vars)
<1> SUFFICES ASSUME Inv, [Next]_vars PROVE [Life!Next]_(Life!vars)
  OBVIOUS
<1> USE DEF Life!Next, Life!Work, Life!Ask, Life!Close, Life!End, Life!Panic, Life!vars,
        inbox, outbox, closing, turn
<1>1. CASE UNCHANGED <<commands, shutdown>> /\ (phase' = phase \/ {phase, phase'} \cap {"done", "panicked"} = {})
  BY <1>1
<1>2. CASE PollSubscription
  <2>1. CASE phase' = "panicked"
    BY <1>2, <2>1 DEF PollSubscription
  <2>2. CASE phase' = "commands"
    BY <1>1, <1>2, <2>2 DEF PollSubscription
  <2> QED
    BY <1>2, <2>1, <2>2 DEF PollSubscription, HandleFrame
<1>3. CASE PollCommands
  <2>1. ~ shutdown /\ commands \in Nat
    BY <1>3, SpircAssumption DEF PollCommands, Inv, Closing, TypeOK
  <2> QED
    BY <1>1, <1>3, <2>1 DEF PollCommands, EnterScrobbler
<1>4. CASE PollScrobbler
  BY <1>4 DEF PollScrobbler
<1>5. CASE PollSender
  BY <1>5 DEF PollSender
<1>6. CASE Shutdown
  BY <1>6, SpircAssumption DEF Shutdown, Inv, TypeOK
<1>7. CASE StartTurn \/ Tick \/ Stopped \/ UNCHANGED vars
  BY <1>1, <1>7 DEF StartTurn, Tick, Stopped, vars
<1>8. CASE (\E a \in Answers : MetaAnswer(a)) \/ (\E a \in SubAnswers : AnswerSubscription(a))
           \/ (\E f \in Frames : FrameArrives(f))
           \/ (\E i \in DOMAIN pending, a \in SendAnswers : AnswerSend(i, a))
  BY <1>1, <1>8 DEF MetaAnswer, AnswerSubscription, FrameArrives, AnswerSend
<1> QED
  BY <1>2, <1>3, <1>4, <1>5, <1>6, <1>7, <1>8 DEF Next, Turn

\* What Main relies on: SpircTask ends only after Spirc::shutdown was called and
\* its Goodbye was sent, or by a panic.
THEOREM RefinesLife == Spec => ImplementsLife
<1>1. Init => Life!Init
  BY DEF Init, Life!Init
<1>2. Inv /\ [Next]_vars => [Life!Next]_(Life!vars)
  BY LifeStep
<1> QED
  BY <1>1, <1>2, InvAlways, PTL DEF Spec, ImplementsLife, Life!Spec
=============================================================================
