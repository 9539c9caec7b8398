------------------------------ MODULE Scrobbler ------------------------------
(***************************************************************************)
(* src/src/scrobbler.rs: the Scrobbler that SpircTask owns.  It learns of  *)
(* tracks through update_current_track, fetches their meta-data over       *)
(* Mercury, tells Last.fm what is playing and scrobbles what has played    *)
(* for long enough.                                                        *)
(*                                                                         *)
(* poll() is a fixed sequence of matches, each on one future.  The module  *)
(* gives every match an action of its own and strings them together with   *)
(* `stage'; nothing but the clock moves between two of them, as the        *)
(* reactor has one thread.  A return Err(()) ends the poll, the caller     *)
(* (SpircTask::poll) logs it and polls again later; a future that has      *)
(* yielded its error is spent, and polling it again panics (futures 0.1:   *)
(* "cannot poll Result twice", "cannot poll a chained future twice").      *)
(*                                                                         *)
(* Calls to Last.fm block and return a finished future, so their result is *)
(* chosen when they are made.                                              *)
(***************************************************************************)
EXTENDS Integers, Sequences

CONSTANTS
  Tracks,         \* Spotify track ids
  None,           \* Option::None
  MaxPlays,       \* bound: how many times set_new_track is called
  ScrobbleAfter,  \* Duration::new(20, 0), in ticks of the clock
  Answers,        \* how the access point may answer a meta-data request:
                  \* "ok", "err" (status >= 400), "bad" (one that makes the
                  \* parsing closures panic: no artist, no payload, no gid)
  LastfmResults   \* how a blocking Last.fm call may end: "ok", "err"

ASSUME ScrobblerAssumption ==
  /\ None \notin Tracks
  /\ MaxPlays \in Nat
  /\ ScrobbleAfter \in Nat
  /\ Answers \subseteq {"ok", "err", "bad"}
  /\ LastfmResults \subseteq {"ok", "err"}

Plays == 1 .. MaxPlays

VARIABLES
  current_track_id,
  play_time,                \* current_track_start.elapsed(), capped
  current_track_meta,
  current_track_scrobbled,
  auth_future,
  new_track_future,
  now_playing_future,
  meta_fetch_future,
  scrobble_future,
  stage,      \* the match poll() has reached, "ready" between two calls
  \* History: what Last.fm was sent, for each call of set_new_track.
  play, tracks, announced, posts

current == <<current_track_id, play_time, current_track_meta,
             current_track_scrobbled>>
futures == <<auth_future, new_track_future, now_playing_future,
             meta_fetch_future, scrobble_future>>
history == <<play, tracks, announced, posts>>
vars == <<current, futures, stage, history>>

-----------------------------------------------------------------------------
\* future::ok / future::err, future::empty, and a future whose error was taken.
Resolved == {"ok", "err"}
Future == {"empty", "spent"} \cup Resolved

Stages == {"ready", "auth", "can_scrobble", "scrobble", "new_track",
           "meta", "now_playing", "panicked"}

NoMeta == [track |-> None, play |-> 0]

\* get_track_meta chains three requests; `request' is the one outstanding.
\* `play' records on behalf of which play the chain was started.
Requests == {"track", "artist", "album"}
EmptyFetch ==
  [request |-> "none", answer |-> "pending", track |-> None, play |-> 0]

TypeOK ==
  /\ current_track_id \in Tracks \cup {None}
  /\ play_time \in 0 .. ScrobbleAfter + 1
  /\ current_track_meta \in [track : Tracks \cup {None}, play : 0 .. MaxPlays]
  /\ current_track_scrobbled \in BOOLEAN
  /\ auth_future \in Future
  /\ new_track_future \in {"empty", "ok"}
  /\ now_playing_future \in Future
  /\ meta_fetch_future \in
       [request : {"none"} \cup Requests,
        answer : {"pending", "ok", "err", "bad", "spent"},
        track : Tracks \cup {None}, play : 0 .. MaxPlays]
  /\ scrobble_future \in {"none", "spent"} \cup Resolved
  /\ stage \in Stages
  /\ play \in 0 .. MaxPlays
  /\ tracks \in [Plays -> Tracks \cup {None}]
  /\ announced \in [Plays -> Seq(Tracks)]
  /\ posts \in [Plays -> Seq(Tracks)]

\* Scrobbler::new, with the result of start_auth already in hand.
Init ==
  /\ current_track_id = None
  /\ play_time = 0
  /\ current_track_meta = NoMeta
  /\ current_track_scrobbled = FALSE
  /\ auth_future \in LastfmResults
  /\ new_track_future = "empty"
  /\ now_playing_future = "empty"
  /\ meta_fetch_future = EmptyFetch
  /\ scrobble_future = "none"
  /\ stage = "ready"
  /\ play = 0
  /\ tracks = [p \in Plays |-> None]
  /\ announced = [p \in Plays |-> <<>>]
  /\ posts = [p \in Plays |-> <<>>]

-----------------------------------------------------------------------------
\* Mutants of CanScrobbleTrack: the flag forgotten, and >= instead of >.
CanScrobbleTwice == scrobble_future = "none" /\ play_time > ScrobbleAfter

CanScrobbleEarly ==
  /\ ~ current_track_scrobbled
  /\ scrobble_future = "none"
  /\ play_time >= ScrobbleAfter

CanScrobbleTrack ==
  /\ ~ current_track_scrobbled
  /\ scrobble_future = "none"
  /\ play_time > ScrobbleAfter

\* Mutant of StartScrobble: the match on current_track_meta is lost.
StartScrobbleBlindly ==
  /\ scrobble_future' \in LastfmResults
  /\ posts' = [posts EXCEPT ![play] = Append(@, current_track_meta.track)]

\* start_scrobble: with no meta-data it only logs, and leaves no future.
StartScrobble ==
  IF current_track_meta = NoMeta
  THEN scrobble_future' = "none" /\ UNCHANGED posts
  ELSE /\ scrobble_future' \in LastfmResults
       /\ posts' = [posts EXCEPT ![play] = Append(@, current_track_meta.track)]

ScrobbleIfDue ==
  IF CanScrobbleTrack THEN StartScrobble ELSE UNCHANGED <<scrobble_future, posts>>

\* Mutant of SetNewTrack: current_track_meta is not reset.
SetNewTrackKeepsMeta(t) ==
  /\ current_track_id' = t
  /\ play_time' = 0
  /\ UNCHANGED current_track_meta
  /\ current_track_scrobbled' = FALSE
  /\ new_track_future' = "ok"
  /\ play' = play + 1
  /\ tracks' = [tracks EXCEPT ![play + 1] = t]

SetNewTrack(t) ==
  /\ current_track_id' = t
  /\ play_time' = 0
  /\ current_track_meta' = NoMeta
  /\ current_track_scrobbled' = FALSE
  /\ new_track_future' = "ok"
  /\ play' = play + 1
  /\ tracks' = [tracks EXCEPT ![play + 1] = t]

IsNewTrack(t, force) == force \/ current_track_id # t

\* update_current_track, called by SpircTask::handle_frame, which always goes
\* on to poll: the call leaves the Scrobbler at the first match of poll().
UpdateCurrentTrack(t, force) ==
  /\ stage = "ready"
  /\ \/ /\ IsNewTrack(t, force)
        /\ play < MaxPlays
        /\ ScrobbleIfDue
        /\ SetNewTrack(t)
        /\ UNCHANGED <<auth_future, now_playing_future, meta_fetch_future, announced>>
     \/ /\ ~ IsNewTrack(t, force)
        /\ UNCHANGED <<current, futures, history>>
  /\ stage' = "auth"

\* poll() called with no track to report.
StartPoll ==
  /\ stage = "ready"
  /\ stage' = "auth"
  /\ UNCHANGED <<current, futures, history>>

-----------------------------------------------------------------------------
\* The arms of a match on a future that can fail: Err ends the poll and spends
\* the future, and a spent future panics.
Fails(future) ==
  \/ future = "err" /\ future' = "spent" /\ stage' = "ready"
  \/ future = "spent" /\ future' = "spent" /\ stage' = "panicked"

PollAuth ==
  /\ stage = "auth"
  /\ \/ auth_future \in {"ok", "empty"} /\ auth_future' = "empty" /\ stage' = "can_scrobble"
     \/ Fails(auth_future)
  /\ UNCHANGED <<current, new_track_future, now_playing_future,
                 meta_fetch_future, scrobble_future, history>>

PollCanScrobble ==
  /\ stage = "can_scrobble"
  /\ stage' = "scrobble"
  /\ ScrobbleIfDue
  /\ UNCHANGED <<current, auth_future, new_track_future, now_playing_future,
                 meta_fetch_future, play, tracks, announced>>

PollScrobble ==
  /\ stage = "scrobble"
  /\ \/ /\ scrobble_future = "none"
        /\ stage' = "new_track"
        /\ UNCHANGED <<scrobble_future, current_track_scrobbled>>
     \/ /\ scrobble_future = "ok"
        /\ stage' = "new_track"
        /\ scrobble_future' = "none"
        /\ current_track_scrobbled' = TRUE
     \/ Fails(scrobble_future) /\ UNCHANGED current_track_scrobbled
  /\ UNCHANGED <<current_track_id, play_time, current_track_meta, auth_future,
                 new_track_future, now_playing_future, meta_fetch_future, history>>

\* get_track_meta(track_id): the first request leaves at once.
GetTrackMeta(t) ==
  [request |-> "track", answer |-> "pending", track |-> t, play |-> play]

\* Mutants of PollNewTrack.  The scrobble of the previous play may have set
\* current_track_scrobbled earlier in the same poll: here it is not reset.
PollNewTrackKeepsFlag ==
  /\ stage = "new_track"
  /\ stage' = "meta"
  /\ new_track_future' = "empty"
  /\ meta_fetch_future' = IF new_track_future = "ok"
                          THEN GetTrackMeta(current_track_id) ELSE meta_fetch_future
  /\ UNCHANGED <<current, auth_future, now_playing_future, scrobble_future, history>>

\* And here new_track_future is not put back to future::empty.
PollNewTrackRefetches ==
  /\ stage = "new_track"
  /\ stage' = "meta"
  /\ meta_fetch_future' = IF new_track_future = "ok"
                          THEN GetTrackMeta(current_track_id) ELSE meta_fetch_future
  /\ current_track_scrobbled' = (current_track_scrobbled /\ new_track_future # "ok")
  /\ UNCHANGED <<current_track_id, play_time, current_track_meta, auth_future,
                 new_track_future, now_playing_future, scrobble_future, history>>

\* new_track_future is only ever future::ok or future::empty: its Err arm
\* cannot be taken.  The fetch of an earlier track is dropped here.
PollNewTrack ==
  /\ stage = "new_track"
  /\ stage' = "meta"
  /\ \/ /\ new_track_future = "ok"
        /\ new_track_future' = "empty"
        /\ current_track_scrobbled' = FALSE
        /\ meta_fetch_future' = GetTrackMeta(current_track_id)
     \/ /\ new_track_future = "empty"
        /\ UNCHANGED <<new_track_future, current_track_scrobbled, meta_fetch_future>>
  /\ UNCHANGED <<current_track_id, play_time, current_track_meta, auth_future,
                 now_playing_future, scrobble_future, history>>

NextRequest == [track |-> "artist", artist |-> "album"]

\* Polling the chain Track -> Artist -> Album.
PollMeta ==
  /\ stage = "meta"
  /\ \/ /\ meta_fetch_future.answer = "pending"
        /\ stage' = "now_playing"
        /\ UNCHANGED <<meta_fetch_future, now_playing_future, current_track_meta, announced>>
     \/ /\ meta_fetch_future.answer = "ok"
        /\ meta_fetch_future.request \in DOMAIN NextRequest
        /\ stage' = "now_playing"
        /\ meta_fetch_future' =
             [meta_fetch_future EXCEPT !.request = NextRequest[@], !.answer = "pending"]
        /\ UNCHANGED <<now_playing_future, current_track_meta, announced>>
     \/ /\ meta_fetch_future.answer = "ok"
        /\ meta_fetch_future.request = "album"
        /\ stage' = "now_playing"
        /\ meta_fetch_future' = EmptyFetch
        /\ now_playing_future' \in LastfmResults
        /\ announced' = [announced EXCEPT ![play] = Append(@, meta_fetch_future.track)]
        /\ current_track_meta' =
             [track |-> meta_fetch_future.track, play |-> meta_fetch_future.play]
     \/ /\ meta_fetch_future.answer = "err"
        /\ stage' = "ready"
        /\ meta_fetch_future' = [meta_fetch_future EXCEPT !.answer = "spent"]
        /\ UNCHANGED <<now_playing_future, current_track_meta, announced>>
     \/ /\ meta_fetch_future.answer \in {"bad", "spent"}
        /\ stage' = "panicked"
        /\ UNCHANGED <<meta_fetch_future, now_playing_future, current_track_meta, announced>>
  /\ UNCHANGED <<current_track_id, play_time, current_track_scrobbled, auth_future,
                 new_track_future, scrobble_future, play, tracks, posts>>

PollNowPlaying ==
  /\ stage = "now_playing"
  /\ \/ now_playing_future \in {"ok", "empty"} /\ now_playing_future' = "empty" /\ stage' = "ready"
     \/ Fails(now_playing_future)
  /\ UNCHANGED <<current, auth_future, new_track_future, meta_fetch_future,
                 scrobble_future, history>>

Poll == \/ PollAuth \/ PollCanScrobble \/ PollScrobble
        \/ PollNewTrack \/ PollMeta \/ PollNowPlaying

-----------------------------------------------------------------------------
\* The answer to the outstanding request of the chain reaches its oneshot,
\* which happens in another task and so never inside poll().
MetaAnswer(a) ==
  /\ stage = "ready"
  /\ meta_fetch_future.request \in Requests
  /\ meta_fetch_future.answer = "pending"
  /\ meta_fetch_future' = [meta_fetch_future EXCEPT !.answer = a]
  /\ UNCHANGED <<current, auth_future, new_track_future, now_playing_future,
                 scrobble_future, stage, history>>

\* Time passes, whatever the Scrobbler is doing.
Tick ==
  /\ current_track_id # None
  /\ play_time <= ScrobbleAfter
  /\ play_time' = play_time + 1
  /\ UNCHANGED <<current_track_id, current_track_meta, current_track_scrobbled,
                 futures, stage, history>>

\* A panic unwinds out of Core::run: the process is gone.
Panicked == stage = "panicked" /\ UNCHANGED vars

Next ==
  \/ \E t \in Tracks, force \in BOOLEAN : UpdateCurrentTrack(t, force)
  \/ StartPoll
  \/ Poll
  \/ \E a \in Answers : MetaAnswer(a)
  \/ Tick
  \/ Panicked

Spec == Init /\ [][Next]_vars

-----------------------------------------------------------------------------
\* The meta-data a scrobble is made of were fetched for the play that is
\* current, and for its track: a fetch that outlives its play never gets in.
MetaBelongsToPlay ==
  current_track_meta # NoMeta =>
    current_track_meta = [track |-> current_track_id, play |-> play]

\* Last.fm hears of a play at most once as "now playing" and at most once as a
\* scrobble, in that order, and by the name of the track that was playing.
OneEntryPerPlay ==
  \A p \in Plays :
    /\ announced[p] \in {<<>>, <<tracks[p]>>}
    /\ posts[p] \in {<<>>, announced[p]}

\* update_current_track never replaces a play that has lasted long enough and
\* whose meta-data are known without having scrobbled it.
DuePlayIsScrobbledOnExit ==
  [][ /\ play' # play
      /\ play_time > ScrobbleAfter
      /\ current_track_meta # NoMeta
      => posts'[play] # <<>> ]_vars

\* Every step is a step of the promise made to the user, or changes nothing
\* the user can see.
Promise == INSTANCE PlayLog
ImplementsPlayLog == Promise!Spec

\* README.md:15: "The service will sit in the background and log all Spotify
\* tracks played".  A call to Last.fm that fails costs that call, never the
\* process.
LastfmErrorIsSurvived == stage # "panicked"

-----------------------------------------------------------------------------
\* The invariant behind the safety properties.  While new_track_future waits
\* to be polled the play is new and nothing is known or sent about it; after
\* that, meta_fetch_future, current_track_meta, current_track_scrobbled and
\* scrobble_future all speak of the current play.
NewTrackPending ==
  new_track_future = "ok" =>
    /\ stage \in {"ready", "auth", "can_scrobble", "scrobble", "new_track", "panicked"}
    /\ play \in Plays
    /\ current_track_meta = NoMeta
    /\ announced[play] = <<>>

FetchIsForPlay ==
  new_track_future = "empty" /\ meta_fetch_future.request # "none" =>
    /\ play \in Plays
    /\ meta_fetch_future.track = current_track_id
    /\ meta_fetch_future.play = play
    /\ announced[play] = <<>>

KnownIffAnnounced ==
  play \in Plays => (current_track_meta # NoMeta <=> announced[play] # <<>>)

ScrobbledFlagIsTrue ==
  play \in Plays /\ new_track_future = "empty" /\ current_track_scrobbled => posts[play] # <<>>

PostedIsRemembered ==
  play \in Plays /\ posts[play] # <<>> =>
    current_track_scrobbled \/ scrobble_future # "none"

ScrobbleInFlight ==
  scrobble_future # "none" =>
    /\ play \in Plays
    /\ posts[play] # <<>> \/ new_track_future = "ok"
    /\ stage \in {"ready", "auth", "can_scrobble", "scrobble", "panicked"}

CurrentPlay ==
  /\ play = 0 => current_track_id = None /\ play_time = 0
  /\ play \in Plays => current_track_id \in Tracks /\ tracks[play] = current_track_id
  /\ \A p \in Plays : p > play => tracks[p] = None /\ announced[p] = <<>> /\ posts[p] = <<>>

IInv ==
  /\ MetaBelongsToPlay /\ OneEntryPerPlay
  /\ NewTrackPending /\ FetchIsForPlay /\ KnownIffAnnounced
  /\ ScrobbledFlagIsTrue /\ PostedIsRemembered /\ ScrobbleInFlight
  /\ CurrentPlay
=============================================================================
