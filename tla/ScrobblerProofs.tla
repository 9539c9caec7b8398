-------------------------- MODULE ScrobblerProofs --------------------------
(***************************************************************************)
(* Proofs about Scrobbler.tla, for every set of tracks, every threshold    *)
(* and every number of plays.                                              *)
(*                                                                         *)
(* TypeOK alone is not inductive (a scrobble is typed only because it is   *)
(* made of meta-data that belong to a play), so the invariant is Inv, the  *)
(* conjunction of TypeOK and IInv.  Each action has a lemma saying that it *)
(* preserves Inv; the only step that writes `posts', ScrobbleIfDue, has a  *)
(* lemma of its own, shared by the invariant, by the action property and   *)
(* by the refinement of PlayLog.                                           *)
(***************************************************************************)
EXTENDS Scrobbler, TLAPS

Inv == TypeOK /\ IInv

USE ScrobblerAssumption
USE DEF Plays, NoMeta, EmptyFetch, Future, Resolved, Stages, Requests

LEMMA InitInv == Init => Inv
<1> SUFFICES ASSUME Init PROVE Inv
  OBVIOUS
<1> USE DEF Init
<1>1. <<>> \in Seq(Tracks)
  OBVIOUS
<1>2. TypeOK
  <2>1. EmptyFetch \in [request : {"none"} \cup Requests,
                       answer : {"pending", "ok", "err", "bad", "spent"},
                       track : Tracks \cup {None}, play : 0 .. MaxPlays]
    OBVIOUS
  <2>2. NoMeta \in [track : Tracks \cup {None}, play : 0 .. MaxPlays]
    OBVIOUS
  <2>3. /\ tracks \in [Plays -> Tracks \cup {None}]
        /\ announced \in [Plays -> Seq(Tracks)]
        /\ posts \in [Plays -> Seq(Tracks)]
    BY <1>1
  <2>4. /\ play_time \in 0 .. ScrobbleAfter + 1
        /\ play \in 0 .. MaxPlays
        /\ auth_future \in Future
    OBVIOUS
  <2> QED
    BY <2>1, <2>2, <2>3, <2>4 DEF TypeOK
<1>3. MetaBelongsToPlay /\ OneEntryPerPlay
  BY DEF MetaBelongsToPlay, OneEntryPerPlay
<1>4. NewTrackPending /\ FetchIsForPlay /\ KnownIffAnnounced
  BY DEF NewTrackPending, FetchIsForPlay, KnownIffAnnounced
<1>5. ScrobbledFlagIsTrue /\ PostedIsRemembered /\ ScrobbleInFlight /\ CurrentPlay
  BY DEF ScrobbledFlagIsTrue, PostedIsRemembered, ScrobbleInFlight, CurrentPlay
<1> QED
  BY <1>2, <1>3, <1>4, <1>5 DEF Inv, IInv

\* A scrobble leaves only for a play that has none, and names its track.
LEMMA ScrobbleIfDueStep ==
  ASSUME Inv, ScrobbleIfDue
  PROVE  \/ UNCHANGED <<scrobble_future, posts>>
         \/ /\ play \in Plays
            /\ play_time > ScrobbleAfter
            /\ scrobble_future' \in Resolved
            /\ tracks[play] \in Tracks
            /\ posts[play] = <<>>
            /\ announced[play] = <<tracks[play]>>
            /\ posts' = [posts EXCEPT ![play] = <<tracks[play]>>]
<1>1. CASE ~ CanScrobbleTrack \/ current_track_meta = NoMeta
  BY <1>1 DEF ScrobbleIfDue, StartScrobble, CanScrobbleTrack
<1>2. CASE CanScrobbleTrack /\ current_track_meta # NoMeta
  <2>1. play_time > ScrobbleAfter
    BY <1>2 DEF CanScrobbleTrack
  <2>2. play \in Plays
    BY <2>1 DEF Inv, IInv, TypeOK, CurrentPlay
  <2>3. posts[play] = <<>>
    BY <1>2, <2>2 DEF CanScrobbleTrack, Inv, IInv, PostedIsRemembered
  <2>4. current_track_meta.track = tracks[play] /\ tracks[play] \in Tracks
    BY <1>2, <2>2 DEF Inv, IInv, MetaBelongsToPlay, CurrentPlay
  <2>5. announced[play] = <<tracks[play]>>
    BY <1>2, <2>2 DEF Inv, IInv, KnownIffAnnounced, OneEntryPerPlay
  <2>6. Append(posts[play], current_track_meta.track) = <<tracks[play]>>
    BY <2>3, <2>4
  <2>7. /\ scrobble_future' \in LastfmResults
        /\ posts' = [posts EXCEPT ![play] = <<tracks[play]>>]
    BY <1>2, <2>6 DEF ScrobbleIfDue, StartScrobble
  <2> QED
    BY <2>1, <2>2, <2>3, <2>4, <2>5, <2>7
<1> QED
  BY <1>1, <1>2

LEMMA UpdateInv ==
  ASSUME Inv, NEW t \in Tracks, NEW force \in BOOLEAN, UpdateCurrentTrack(t, force)
  PROVE  Inv'
<1>1. CASE UNCHANGED <<current, futures, history>>
  BY <1>1 DEF UpdateCurrentTrack, current, futures, history, Inv, TypeOK, IInv,
     MetaBelongsToPlay, OneEntryPerPlay, NewTrackPending, FetchIsForPlay, KnownIffAnnounced,
     ScrobbledFlagIsTrue, PostedIsRemembered, ScrobbleInFlight, CurrentPlay
<1>2. CASE /\ play < MaxPlays
           /\ ScrobbleIfDue
           /\ SetNewTrack(t)
           /\ UNCHANGED <<auth_future, now_playing_future, meta_fetch_future, announced>>
  <2> USE <1>2 DEF SetNewTrack, UpdateCurrentTrack
  <2>1. play + 1 \in Plays /\ play # play + 1
    BY DEF Inv, TypeOK
  <2>2. \/ UNCHANGED <<scrobble_future, posts>>
        \/ /\ play \in Plays
           /\ scrobble_future' \in Resolved
           /\ tracks[play] \in Tracks
           /\ announced[play] = <<tracks[play]>>
           /\ posts' = [posts EXCEPT ![play] = <<tracks[play]>>]
    BY ScrobbleIfDueStep
  <2>3. posts' \in [Plays -> Seq(Tracks)]
    BY <2>2 DEF Inv, TypeOK
  <2>4. TypeOK'
    <3>1. tracks' \in [Plays -> Tracks \cup {None}]
      BY DEF Inv, TypeOK
    <3>2. current_track_meta' \in [track : Tracks \cup {None}, play : 0 .. MaxPlays]
      OBVIOUS
    <3>3. /\ play' \in 0 .. MaxPlays
          /\ play_time' \in 0 .. ScrobbleAfter + 1
      BY DEF Inv, TypeOK
    <3>4. scrobble_future' \in {"none", "spent"} \cup Resolved
      BY <2>2 DEF Inv, TypeOK
    <3> QED
      BY <2>3, <3>1, <3>2, <3>3, <3>4 DEF Inv, TypeOK
  <2>5. \A p \in Plays : p # play + 1 => tracks'[p] = tracks[p]
    BY DEF Inv, TypeOK
  <2>6. \A p \in Plays : p # play => posts'[p] = posts[p]
    BY <2>2 DEF Inv, TypeOK
  <2>7. CurrentPlay'
    <3>1. play' # 0 /\ tracks'[play'] = t
      BY <2>1 DEF Inv, TypeOK
    <3>2. ASSUME NEW p \in Plays, p > play'
          PROVE  tracks'[p] = None /\ announced[p] = <<>> /\ posts'[p] = <<>>
      <4>1. p > play /\ p # play /\ p # play + 1
        BY <3>2 DEF Inv, TypeOK
      <4> QED
        BY <4>1, <2>5, <2>6 DEF Inv, IInv, CurrentPlay
    <3> QED
      BY <3>1, <3>2 DEF CurrentPlay
  <2>8. posts'[play'] = <<>> /\ announced'[play'] = <<>>
    <3>1. play + 1 > play
      BY DEF Inv, TypeOK
    <3> QED
      BY <2>1, <2>6, <3>1 DEF Inv, IInv, CurrentPlay
  <2>9. OneEntryPerPlay'
    <3> SUFFICES ASSUME NEW p \in Plays
                 PROVE  /\ announced[p] \in {<<>>, <<tracks'[p]>>}
                        /\ posts'[p] \in {<<>>, announced[p]}
      BY DEF OneEntryPerPlay
    <3>1. CASE p = play + 1
      BY <3>1, <2>8 DEF OneEntryPerPlay
    <3>2. CASE p = play
      BY <3>2, <2>1, <2>2, <2>5 DEF Inv, IInv, TypeOK, OneEntryPerPlay
    <3>3. CASE p # play + 1 /\ p # play
      BY <3>3, <2>5, <2>6 DEF Inv, IInv, OneEntryPerPlay
    <3> QED
      BY <3>1, <3>2, <3>3
  <2>10. MetaBelongsToPlay' /\ NewTrackPending' /\ FetchIsForPlay' /\ KnownIffAnnounced'
    BY <2>1, <2>8 DEF MetaBelongsToPlay, NewTrackPending, FetchIsForPlay, KnownIffAnnounced
  <2>11. ScrobbledFlagIsTrue' /\ PostedIsRemembered' /\ ScrobbleInFlight'
    BY <2>1, <2>8 DEF ScrobbledFlagIsTrue, PostedIsRemembered, ScrobbleInFlight
  <2> QED
    BY <2>4, <2>7, <2>9, <2>10, <2>11 DEF Inv, IInv
<1> QED
  BY <1>1, <1>2 DEF UpdateCurrentTrack

LEMMA StartPollInv == Inv /\ StartPoll => Inv'
  BY DEF StartPoll, current, futures, history, Inv, TypeOK, IInv,
     MetaBelongsToPlay, OneEntryPerPlay, NewTrackPending, FetchIsForPlay, KnownIffAnnounced,
     ScrobbledFlagIsTrue, PostedIsRemembered, ScrobbleInFlight, CurrentPlay

LEMMA PollAuthInv == Inv /\ PollAuth => Inv'
  BY DEF PollAuth, Fails, current, history, Inv, TypeOK, IInv,
     MetaBelongsToPlay, OneEntryPerPlay, NewTrackPending, FetchIsForPlay, KnownIffAnnounced,
     ScrobbledFlagIsTrue, PostedIsRemembered, ScrobbleInFlight, CurrentPlay

LEMMA PollCanScrobbleInv == Inv /\ PollCanScrobble => Inv'
<1> SUFFICES ASSUME Inv, PollCanScrobble PROVE Inv'
  OBVIOUS
<1> USE DEF PollCanScrobble, current
<1>1. CASE UNCHANGED <<scrobble_future, posts>>
  BY <1>1 DEF Inv, TypeOK, IInv,
     MetaBelongsToPlay, OneEntryPerPlay, NewTrackPending, FetchIsForPlay, KnownIffAnnounced,
     ScrobbledFlagIsTrue, PostedIsRemembered, ScrobbleInFlight, CurrentPlay
<1>2. CASE /\ play \in Plays
           /\ scrobble_future' \in Resolved
           /\ tracks[play] \in Tracks
           /\ announced[play] = <<tracks[play]>>
           /\ posts' = [posts EXCEPT ![play] = <<tracks[play]>>]
  <2>1. posts' \in [Plays -> Seq(Tracks)] /\ posts'[play] = <<tracks[play]>>
    BY <1>2 DEF Inv, TypeOK
  <2>2. \A p \in Plays : p # play => posts'[p] = posts[p]
    BY <1>2 DEF Inv, TypeOK
  <2>3. TypeOK'
    BY <1>2, <2>1 DEF Inv, TypeOK
  <2>4. OneEntryPerPlay' /\ CurrentPlay'
    <3>1. OneEntryPerPlay'
      BY <1>2, <2>1, <2>2 DEF Inv, IInv, OneEntryPerPlay
    <3>2. \A p \in Plays : p > play => p # play
      BY DEF Inv, TypeOK
    <3>3. CurrentPlay'
      BY <1>2, <2>2, <3>2 DEF Inv, IInv, CurrentPlay
    <3> QED
      BY <3>1, <3>3
  <2>5. MetaBelongsToPlay' /\ NewTrackPending' /\ FetchIsForPlay' /\ KnownIffAnnounced'
    BY <1>2 DEF Inv, IInv, MetaBelongsToPlay, NewTrackPending, FetchIsForPlay, KnownIffAnnounced
  <2>6. ScrobbledFlagIsTrue' /\ PostedIsRemembered' /\ ScrobbleInFlight'
    BY <1>2, <2>1 DEF ScrobbledFlagIsTrue, PostedIsRemembered, ScrobbleInFlight
  <2> QED
    BY <2>3, <2>4, <2>5, <2>6 DEF Inv, IInv
<1> QED
  BY <1>1, <1>2, ScrobbleIfDueStep

LEMMA PollScrobbleInv == Inv /\ PollScrobble => Inv'
<1> SUFFICES ASSUME Inv, PollScrobble PROVE Inv'
  OBVIOUS
<1> USE DEF PollScrobble, Fails, history
<1>1. TypeOK'
  <2>1. /\ stage' \in Stages
        /\ scrobble_future' \in {"none", "spent"} \cup Resolved
    BY DEF Inv, TypeOK
  <2>2. current_track_scrobbled' \in BOOLEAN
    BY DEF Inv, TypeOK
  <2> QED
    BY <2>1, <2>2 DEF Inv, TypeOK
<1>2. MetaBelongsToPlay' /\ OneEntryPerPlay' /\ CurrentPlay' /\ KnownIffAnnounced'
  BY DEF Inv, IInv, MetaBelongsToPlay, OneEntryPerPlay, CurrentPlay, KnownIffAnnounced
<1>3. NewTrackPending' /\ FetchIsForPlay'
  BY DEF Inv, IInv, NewTrackPending, FetchIsForPlay
<1>4. ScrobbledFlagIsTrue' /\ PostedIsRemembered' /\ ScrobbleInFlight'
  BY DEF Inv, IInv, TypeOK, ScrobbledFlagIsTrue, PostedIsRemembered, ScrobbleInFlight
<1> QED
  BY <1>1, <1>2, <1>3, <1>4 DEF Inv, IInv

LEMMA PollNewTrackInv == Inv /\ PollNewTrack => Inv'
<1> SUFFICES ASSUME Inv, PollNewTrack PROVE Inv'
  OBVIOUS
<1> USE DEF PollNewTrack, GetTrackMeta, history
<1>1. TypeOK'
  <2>1. stage' \in Stages /\ new_track_future' \in {"empty", "ok"}
    BY DEF Inv, TypeOK
  <2>2. current_track_scrobbled' \in BOOLEAN
    BY DEF Inv, TypeOK
  <2>3. meta_fetch_future' \in [request : {"none"} \cup Requests,
                                answer : {"pending", "ok", "err", "bad", "spent"},
                                track : Tracks \cup {None}, play : 0 .. MaxPlays]
    BY DEF Inv, TypeOK
  <2> QED
    BY <2>1, <2>2, <2>3 DEF Inv, TypeOK
<1>2. MetaBelongsToPlay' /\ OneEntryPerPlay' /\ CurrentPlay' /\ KnownIffAnnounced'
  BY DEF Inv, IInv, MetaBelongsToPlay, OneEntryPerPlay, CurrentPlay, KnownIffAnnounced
<1>3. NewTrackPending' /\ FetchIsForPlay'
  BY DEF Inv, IInv, NewTrackPending, FetchIsForPlay, CurrentPlay
<1>4. ScrobbledFlagIsTrue' /\ PostedIsRemembered' /\ ScrobbleInFlight'
  BY DEF Inv, IInv, NewTrackPending, OneEntryPerPlay, ScrobbledFlagIsTrue,
         PostedIsRemembered, ScrobbleInFlight
<1> QED
  BY <1>1, <1>2, <1>3, <1>4 DEF Inv, IInv

\* The announcement leaves only for a play that has none, and names its track.
LEMMA AnnounceStep ==
  ASSUME Inv, PollMeta
  PROVE  \/ UNCHANGED <<announced, current_track_meta>>
         \/ /\ play \in Plays
            /\ new_track_future = "empty"
            /\ tracks[play] \in Tracks
            /\ announced[play] = <<>>
            /\ announced' = [announced EXCEPT ![play] = <<tracks[play]>>]
            /\ current_track_meta' = [track |-> current_track_id, play |-> play]
            /\ meta_fetch_future' = EmptyFetch
<1>1. CASE UNCHANGED <<announced, current_track_meta>>
  BY <1>1
<1>2. CASE /\ meta_fetch_future.request = "album"
           /\ announced' = [announced EXCEPT ![play] = Append(@, meta_fetch_future.track)]
           /\ current_track_meta' =
                [track |-> meta_fetch_future.track, play |-> meta_fetch_future.play]
           /\ meta_fetch_future' = EmptyFetch
  <2>1. new_track_future = "empty"
    BY DEF PollMeta, Inv, TypeOK, IInv, NewTrackPending
  <2>2. /\ play \in Plays
        /\ meta_fetch_future.track = current_track_id
        /\ meta_fetch_future.play = play
        /\ announced[play] = <<>>
    BY <1>2, <2>1 DEF Inv, IInv, FetchIsForPlay
  <2>3. current_track_id = tracks[play] /\ tracks[play] \in Tracks
    BY <2>2 DEF Inv, IInv, CurrentPlay
  <2>4. Append(announced[play], meta_fetch_future.track) = <<tracks[play]>>
    BY <2>2, <2>3
  <2> QED
    BY <1>2, <2>1, <2>2, <2>3, <2>4
<1> QED
  BY <1>1, <1>2 DEF PollMeta

LEMMA PollMetaInv == Inv /\ PollMeta => Inv'
<1> SUFFICES ASSUME Inv, PollMeta PROVE Inv'
  OBVIOUS
<1> USE DEF PollMeta, NextRequest
<1>1. CASE UNCHANGED <<announced, current_track_meta>>
  <2>1. now_playing_future' \in Future
    BY <1>1 DEF Inv, TypeOK
  <2>2. meta_fetch_future' \in [request : {"none"} \cup Requests,
                                answer : {"pending", "ok", "err", "bad", "spent"},
                                track : Tracks \cup {None}, play : 0 .. MaxPlays]
    <3>1. CASE UNCHANGED meta_fetch_future
      BY <3>1 DEF Inv, TypeOK
    <3>2. CASE /\ meta_fetch_future.request \in {"track", "artist"}
               /\ meta_fetch_future' = [meta_fetch_future EXCEPT
                    !.request = NextRequest[@], !.answer = "pending"]
      <4>1. NextRequest[meta_fetch_future.request] \in Requests
        BY <3>2
      <4> QED
        BY <3>2, <4>1 DEF Inv, TypeOK
    <3>3. CASE meta_fetch_future' = [meta_fetch_future EXCEPT !.answer = "spent"]
      BY <3>3 DEF Inv, TypeOK
    <3>4. CASE meta_fetch_future' = EmptyFetch
      BY <3>4
    <3> QED
      BY <3>1, <3>2, <3>3, <3>4
  <2>3. TypeOK'
    BY <1>1, <2>1, <2>2 DEF Inv, TypeOK
  <2>4. MetaBelongsToPlay' /\ OneEntryPerPlay' /\ CurrentPlay' /\ KnownIffAnnounced'
    BY <1>1 DEF Inv, IInv, MetaBelongsToPlay, OneEntryPerPlay, CurrentPlay, KnownIffAnnounced
  <2>5. NewTrackPending'
    BY <1>1 DEF Inv, IInv, NewTrackPending
  <2>6. FetchIsForPlay'
    <3>1. CASE UNCHANGED meta_fetch_future
      BY <1>1, <3>1 DEF Inv, IInv, FetchIsForPlay
    <3>2. CASE /\ meta_fetch_future.request # "none"
               /\ meta_fetch_future'.track = meta_fetch_future.track
               /\ meta_fetch_future'.play = meta_fetch_future.play
      BY <1>1, <3>2 DEF Inv, IInv, FetchIsForPlay
    <3>3. CASE meta_fetch_future' = EmptyFetch
      BY <3>3 DEF FetchIsForPlay
    <3>4. CASE meta_fetch_future' = [meta_fetch_future EXCEPT !.answer = "spent"]
      <4>1. /\ meta_fetch_future'.track = meta_fetch_future.track
            /\ meta_fetch_future'.play = meta_fetch_future.play
            /\ meta_fetch_future'.request = meta_fetch_future.request
        BY <3>4 DEF Inv, TypeOK
      <4> QED
        BY <1>1, <4>1 DEF Inv, IInv, FetchIsForPlay
    <3>5. CASE /\ meta_fetch_future.request \in {"track", "artist"}
               /\ meta_fetch_future' = [meta_fetch_future EXCEPT
                    !.request = NextRequest[@], !.answer = "pending"]
      BY <3>2, <3>5 DEF Inv, TypeOK
    <3> QED
      BY <3>1, <3>3, <3>4, <3>5
  <2>7. ScrobbledFlagIsTrue' /\ PostedIsRemembered' /\ ScrobbleInFlight'
    BY <1>1 DEF Inv, IInv, ScrobbledFlagIsTrue, PostedIsRemembered, ScrobbleInFlight
  <2> QED
    BY <2>3, <2>4, <2>5, <2>6, <2>7 DEF Inv, IInv
<1>2. CASE /\ play \in Plays
           /\ new_track_future = "empty"
           /\ tracks[play] \in Tracks
           /\ announced[play] = <<>>
           /\ announced' = [announced EXCEPT ![play] = <<tracks[play]>>]
           /\ current_track_meta' = [track |-> current_track_id, play |-> play]
           /\ meta_fetch_future' = EmptyFetch
  <2>1. announced' \in [Plays -> Seq(Tracks)] /\ announced'[play] = <<tracks[play]>>
    BY <1>2 DEF Inv, TypeOK
  <2>2. \A p \in Plays : p # play => announced'[p] = announced[p]
    BY <1>2 DEF Inv, TypeOK
  <2>3. current_track_id \in Tracks /\ current_track_meta' # NoMeta
    BY <1>2 DEF Inv, IInv, CurrentPlay
  <2>4. now_playing_future' \in Future
    BY <1>2 DEF Inv, TypeOK
  <2>5. TypeOK'
    BY <1>2, <2>1, <2>3, <2>4 DEF Inv, TypeOK
  <2>6. OneEntryPerPlay' /\ CurrentPlay'
    BY <1>2, <2>1, <2>2 DEF Inv, TypeOK, IInv, OneEntryPerPlay, CurrentPlay
  <2>7. MetaBelongsToPlay' /\ KnownIffAnnounced'
    BY <1>2, <2>1, <2>3 DEF MetaBelongsToPlay, KnownIffAnnounced
  <2>8. NewTrackPending' /\ FetchIsForPlay'
    BY <1>2 DEF NewTrackPending, FetchIsForPlay
  <2>9. ScrobbledFlagIsTrue' /\ PostedIsRemembered' /\ ScrobbleInFlight'
    BY <1>2 DEF Inv, IInv, ScrobbledFlagIsTrue, PostedIsRemembered, ScrobbleInFlight
  <2> QED
    BY <2>5, <2>6, <2>7, <2>8, <2>9 DEF Inv, IInv
<1> QED
  BY <1>1, <1>2, AnnounceStep

LEMMA PollNowPlayingInv == Inv /\ PollNowPlaying => Inv'
  BY DEF PollNowPlaying, Fails, current, history, Inv, TypeOK, IInv,
     MetaBelongsToPlay, OneEntryPerPlay, NewTrackPending, FetchIsForPlay, KnownIffAnnounced,
     ScrobbledFlagIsTrue, PostedIsRemembered, ScrobbleInFlight, CurrentPlay

LEMMA MetaAnswerInv == ASSUME Inv, NEW a \in Answers, MetaAnswer(a) PROVE Inv'
<1> USE DEF MetaAnswer, current, history
<1>1. TypeOK'
  <2>1. meta_fetch_future' \in [request : {"none"} \cup Requests,
                                answer : {"pending", "ok", "err", "bad", "spent"},
                                track : Tracks \cup {None}, play : 0 .. MaxPlays]
    BY DEF Inv, TypeOK
  <2> QED
    BY <2>1 DEF Inv, TypeOK
<1>2. MetaBelongsToPlay' /\ OneEntryPerPlay' /\ CurrentPlay' /\ KnownIffAnnounced'
  BY DEF Inv, IInv, MetaBelongsToPlay, OneEntryPerPlay, CurrentPlay, KnownIffAnnounced
<1>3. NewTrackPending' /\ FetchIsForPlay'
  BY DEF Inv, TypeOK, IInv, NewTrackPending, FetchIsForPlay
<1>4. ScrobbledFlagIsTrue' /\ PostedIsRemembered' /\ ScrobbleInFlight'
  BY DEF Inv, IInv, ScrobbledFlagIsTrue, PostedIsRemembered, ScrobbleInFlight
<1> QED
  BY <1>1, <1>2, <1>3, <1>4 DEF Inv, IInv

LEMMA TickInv == Inv /\ Tick => Inv'
<1> SUFFICES ASSUME Inv, Tick PROVE Inv'
  OBVIOUS
<1> USE DEF Tick, futures, history
<1>1. play_time' \in 0 .. ScrobbleAfter + 1
  BY DEF Inv, TypeOK
<1>2. TypeOK'
  BY <1>1 DEF Inv, TypeOK
<1>3. CurrentPlay'
  BY DEF Inv, IInv, CurrentPlay
<1>4. MetaBelongsToPlay' /\ OneEntryPerPlay' /\ NewTrackPending' /\ FetchIsForPlay'
  BY DEF Inv, IInv, MetaBelongsToPlay, OneEntryPerPlay, NewTrackPending, FetchIsForPlay
<1>5. KnownIffAnnounced' /\ ScrobbledFlagIsTrue' /\ PostedIsRemembered' /\ ScrobbleInFlight'
  BY DEF Inv, IInv, KnownIffAnnounced, ScrobbledFlagIsTrue, PostedIsRemembered, ScrobbleInFlight
<1> QED
  BY <1>2, <1>3, <1>4, <1>5 DEF Inv, IInv

LEMMA StutterInv == Inv /\ UNCHANGED vars => Inv'
  BY DEF vars, current, futures, history, Inv, TypeOK, IInv,
     MetaBelongsToPlay, OneEntryPerPlay, NewTrackPending, FetchIsForPlay, KnownIffAnnounced,
     ScrobbledFlagIsTrue, PostedIsRemembered, ScrobbleInFlight, CurrentPlay

LEMMA NextInv == Inv /\ [Next]_vars => Inv'
<1> SUFFICES ASSUME Inv, [Next]_vars PROVE Inv'
  OBVIOUS
<1>1. ASSUME NEW t \in Tracks, NEW force \in BOOLEAN, UpdateCurrentTrack(t, force) PROVE Inv'
  BY <1>1, UpdateInv
<1>2. ASSUME NEW a \in Answers, MetaAnswer(a) PROVE Inv'
  BY <1>2, MetaAnswerInv
<1>3. CASE Poll
  BY <1>3, PollAuthInv, PollCanScrobbleInv, PollScrobbleInv, PollNewTrackInv,
     PollMetaInv, PollNowPlayingInv DEF Poll
<1>4. CASE StartPoll \/ Tick
  BY <1>4, StartPollInv, TickInv
<1>5. CASE Panicked \/ UNCHANGED vars
  BY <1>5, StutterInv DEF Panicked
<1> QED
  BY <1>1, <1>2, <1>3, <1>4, <1>5 DEF Next

-----------------------------------------------------------------------------
LEMMA InvAlways == Spec => []Inv
<1>1. Init => Inv
  BY InitInv
<1>2. Inv /\ [Next]_vars => Inv'
  BY NextInv
<1> QED
  BY <1>1, <1>2, PTL DEF Spec

\* The fields of Scrobbler keep their types: in particular start_scrobble
\* never builds a scrobble without a track.
THEOREM TypeCorrect == Spec => []TypeOK
<1>1. Inv => TypeOK
  BY DEF Inv
<1> QED
  BY <1>1, InvAlways, PTL

\* The invariant that ties the fields of Scrobbler to the current play.
THEOREM InvariantHolds == Spec => []IInv
<1>1. Inv => IInv
  BY DEF Inv
<1> QED
  BY <1>1, InvAlways, PTL

\* Last.fm gets at most one "now playing" and at most one scrobble for each
\* call of set_new_track, in that order, each naming the track it set.
THEOREM OneEntry == Spec => []OneEntryPerPlay
<1>1. Inv => OneEntryPerPlay
  BY DEF Inv, IInv
<1> QED
  BY <1>1, InvAlways, PTL

\* The meta-data Scrobbler holds are those of the current play: a fetch begun
\* for an earlier one never completes into current_track_meta.
THEOREM MetaIsCurrent == Spec => []MetaBelongsToPlay
<1>1. Inv => MetaBelongsToPlay
  BY DEF Inv, IInv
<1> QED
  BY <1>1, InvAlways, PTL

-----------------------------------------------------------------------------
\* The converse of ScrobbleIfDueStep: what is due is scrobbled.
LEMMA DueIsScrobbled ==
  ASSUME Inv, ScrobbleIfDue, Promise!Due
  PROVE  posts'[play] # <<>>
<1> USE DEF Promise!Due, Promise!Plays
<1>1. /\ play \in Plays
      /\ posts[play] = <<>>
      /\ play_time > ScrobbleAfter
  OBVIOUS
<1>2. new_track_future = "empty"
  BY DEF Inv, TypeOK, IInv, NewTrackPending
<1>3. ~ current_track_scrobbled /\ scrobble_future = "none"
  BY <1>1, <1>2 DEF Inv, IInv, ScrobbledFlagIsTrue, ScrobbleInFlight
<1>4. current_track_meta # NoMeta
  BY <1>1 DEF Inv, IInv, KnownIffAnnounced
<1>5. posts' = [posts EXCEPT ![play] = Append(@, current_track_meta.track)]
  BY <1>1, <1>3, <1>4 DEF ScrobbleIfDue, StartScrobble, CanScrobbleTrack
<1>6. ~ UNCHANGED <<scrobble_future, posts>>
  <2>1. Append(posts[play], current_track_meta.track) # posts[play]
    BY <1>1
  <2> QED
    BY <1>1, <1>5, <2>1 DEF Inv, TypeOK
<1>7. posts' = [posts EXCEPT ![play] = <<tracks[play]>>]
  BY <1>6, ScrobbleIfDueStep
<1> QED
  BY <1>1, <1>7 DEF Inv, TypeOK

LEMMA ExitStep ==
  ASSUME Inv, [Next]_vars, play' # play,
         play_time > ScrobbleAfter, current_track_meta # NoMeta
  PROVE  posts'[play] # <<>>
<1>1. ScrobbleIfDue
  BY DEF Next, UpdateCurrentTrack, StartPoll, Poll, PollAuth, PollCanScrobble, PollScrobble,
     PollNewTrack, PollMeta, PollNowPlaying, MetaAnswer, Tick, Panicked, vars, history
<1>2. play \in Plays
  BY DEF Inv, TypeOK, IInv, CurrentPlay
<1>3. announced[play] # <<>>
  BY <1>2 DEF Inv, IInv, KnownIffAnnounced
<1>4. CASE posts[play] = <<>>
  BY <1>1, <1>2, <1>3, <1>4, DueIsScrobbled DEF Promise!Due, Promise!Plays
<1>5. CASE posts[play] # <<>>
  BY <1>1, <1>5, ScrobbleIfDueStep
<1> QED
  BY <1>4, <1>5

\* No play that has lasted longer than the threshold and whose meta-data are
\* known is replaced by update_current_track without its scrobble.
THEOREM ExitScrobbles == Spec => DuePlayIsScrobbledOnExit
<1>1. Inv /\ [Next]_vars =>
        [ /\ play' # play
          /\ play_time > ScrobbleAfter
          /\ current_track_meta # NoMeta
          => posts'[play] # <<>> ]_vars
  BY ExitStep
<1> QED
  BY <1>1, InvAlways, PTL DEF Spec, DuePlayIsScrobbledOnExit

-----------------------------------------------------------------------------
LEMMA InitRefines == Init => Promise!Init
  BY DEF Init, Promise!Init, Promise!Plays

LEMMA PostIsDue ==
  ASSUME Inv, ScrobbleIfDue, ~ UNCHANGED posts
  PROVE  Promise!Due /\ Promise!Post
<1>1. /\ play \in Plays
      /\ play_time > ScrobbleAfter
      /\ posts[play] = <<>>
      /\ announced[play] = <<tracks[play]>>
      /\ posts' = [posts EXCEPT ![play] = <<tracks[play]>>]
  BY ScrobbleIfDueStep
<1>2. announced[play] # <<>>
  <2>1. \A x : <<x>> # <<>>
    OBVIOUS
  <2> QED
    BY <1>1, <2>1
<1> QED
  BY <1>1, <1>2 DEF Promise!Due, Promise!Post, Promise!Plays

LEMMA ScrobbleRefines ==
  ASSUME Inv, ScrobbleIfDue, UNCHANGED <<play, tracks, play_time, announced>>
  PROVE  [Promise!Next]_(Promise!vars)
<1>1. CASE UNCHANGED posts
  BY <1>1 DEF Promise!vars
<1>2. CASE ~ UNCHANGED posts
  <2>1. Promise!Due /\ Promise!Post
    BY <1>2, PostIsDue
  <2> QED
    BY <2>1 DEF Promise!Next, Promise!Scrobble
<1> QED
  BY <1>1, <1>2

LEMMA UpdateRefines ==
  ASSUME Inv, NEW t \in Tracks, NEW force \in BOOLEAN, UpdateCurrentTrack(t, force)
  PROVE  [Promise!Next]_(Promise!vars)
<1>1. CASE UNCHANGED <<current, futures, history>>
  BY <1>1 DEF Promise!vars, current, history
<1>2. CASE /\ play < MaxPlays
           /\ ScrobbleIfDue
           /\ SetNewTrack(t)
           /\ UNCHANGED <<auth_future, now_playing_future, meta_fetch_future, announced>>
  <2>1. ASSUME Promise!Due PROVE Promise!Post
    <3>1. posts'[play] # posts[play]
      BY <1>2, <2>1, DueIsScrobbled DEF Promise!Due
    <3> QED
      BY <1>2, <3>1, PostIsDue
  <2>2. ASSUME ~ Promise!Due PROVE UNCHANGED posts
    BY <1>2, <2>2, PostIsDue
  <2>3. Promise!Begin(t)
    BY <1>2, <2>1, <2>2 DEF Promise!Begin, SetNewTrack
  <2> QED
    BY <2>3 DEF Promise!Next
<1> QED
  BY <1>1, <1>2 DEF UpdateCurrentTrack

LEMMA MetaRefines == Inv /\ PollMeta => [Promise!Next]_(Promise!vars)
<1> SUFFICES ASSUME Inv, PollMeta PROVE [Promise!Next]_(Promise!vars)
  OBVIOUS
<1>1. UNCHANGED <<play, tracks, play_time, posts>>
  BY DEF PollMeta
<1>2. CASE UNCHANGED announced
  BY <1>1, <1>2 DEF Promise!vars
<1>3. CASE ~ UNCHANGED announced
  BY <1>1, <1>3, AnnounceStep DEF Promise!Next, Promise!Announce, Promise!Plays
<1> QED
  BY <1>2, <1>3

LEMMA TickRefines == Inv /\ Tick => [Promise!Next]_(Promise!vars)
<1> SUFFICES ASSUME Inv, Tick PROVE Promise!Tick
  BY DEF Promise!Next
<1>1. play \in Plays
  BY DEF Tick, Inv, TypeOK, IInv, CurrentPlay
<1> QED
  BY <1>1 DEF Tick, Promise!Tick, Promise!Plays, history

LEMMA NextRefines == Inv /\ [Next]_vars => [Promise!Next]_(Promise!vars)
<1> SUFFICES ASSUME Inv, [Next]_vars PROVE [Promise!Next]_(Promise!vars)
  OBVIOUS
<1>1. ASSUME NEW t \in Tracks, NEW force \in BOOLEAN, UpdateCurrentTrack(t, force)
      PROVE  [Promise!Next]_(Promise!vars)
  BY <1>1, UpdateRefines
<1>2. CASE PollCanScrobble
  BY <1>2, ScrobbleRefines DEF PollCanScrobble, current
<1>3. CASE PollMeta
  BY <1>3, MetaRefines
<1>4. CASE Tick
  BY <1>4, TickRefines
<1>5. CASE UNCHANGED <<play, tracks, play_time, announced, posts>>
  BY <1>5 DEF Promise!vars
<1>6. CASE StartPoll \/ PollAuth \/ PollScrobble \/ PollNewTrack \/ PollNowPlaying
           \/ Panicked \/ UNCHANGED vars
  BY <1>5, <1>6 DEF StartPoll, PollAuth, PollScrobble, PollNewTrack, PollNowPlaying,
     Panicked, vars, current, history
<1>7. ASSUME NEW a \in Answers, MetaAnswer(a) PROVE [Promise!Next]_(Promise!vars)
  BY <1>5, <1>7 DEF MetaAnswer, current, history
<1> QED
  BY <1>1, <1>2, <1>3, <1>4, <1>6, <1>7 DEF Next, Poll

\* What the user was promised: the Scrobbler, with its futures, its failures
\* and its seven matches, does to Last.fm only what PlayLog allows.
THEOREM Refinement == Spec => ImplementsPlayLog
<1>1. Init => Promise!Init
  BY InitRefines
<1>2. Inv /\ [Next]_vars => [Promise!Next]_(Promise!vars)
  BY NextRefines
<1> QED
  BY <1>1, <1>2, InvAlways, PTL DEF Spec, ImplementsPlayLog, Promise!Spec

-----------------------------------------------------------------------------
\* What a caller of poll() may rely on between two calls: no match is reached
\* before the one on auth_future has been passed for good, a chain of requests
\* that is over leaves an empty future behind, no chain is under way while a
\* scrobble is, and a poll that gets to its last match leaves no answer untaken.
PollInv ==
  /\ auth_future # "empty" =>
       /\ stage \in {"ready", "auth", "panicked"}
       /\ meta_fetch_future = EmptyFetch
       /\ \A p \in Plays : announced[p] = <<>>
  /\ meta_fetch_future.request = "none" => meta_fetch_future.answer = "pending"
  /\ scrobble_future # "none" => meta_fetch_future.request = "none"
  /\ stage = "now_playing" => meta_fetch_future.answer = "pending"

LEMMA InitPollInv == Init => PollInv
  BY DEF Init, PollInv

\* A scrobble leaves only when the chain of its play is over.
LEMMA ScrobbleAfterFetch ==
  ASSUME Inv, PollInv, ScrobbleIfDue
  PROVE  scrobble_future' # "none" => meta_fetch_future.request = "none"
<1>1. CASE UNCHANGED <<scrobble_future, posts>>
  BY <1>1 DEF PollInv
<1>2. CASE play \in Plays /\ announced[play] = <<tracks[play]>>
  <2>1. announced[play] # <<>>
    <3>1. \A x : <<x>> # <<>>
      OBVIOUS
    <3> QED
      BY <1>2, <3>1
  <2>2. new_track_future = "empty"
    BY <1>2, <2>1 DEF Inv, TypeOK, IInv, NewTrackPending
  <2> QED
    BY <1>2, <2>1, <2>2 DEF Inv, IInv, FetchIsForPlay
<1> QED
  BY <1>1, <1>2, ScrobbleIfDueStep

LEMMA NextPollInv == Inv /\ PollInv /\ [Next]_vars => PollInv'
<1> SUFFICES ASSUME Inv, PollInv, [Next]_vars PROVE PollInv'
  OBVIOUS
<1>1. ASSUME NEW t \in Tracks, NEW force \in BOOLEAN, UpdateCurrentTrack(t, force)
      PROVE  PollInv'
  <2>1. CASE UNCHANGED <<current, futures, history>>
    BY <1>1, <2>1 DEF UpdateCurrentTrack, PollInv, futures, history, current
  <2>2. CASE ScrobbleIfDue /\ UNCHANGED <<auth_future, meta_fetch_future, announced>>
    <3>1. stage = "ready" /\ stage' = "auth"
      BY <1>1 DEF UpdateCurrentTrack
    <3> QED
      BY <2>2, <3>1, ScrobbleAfterFetch DEF PollInv
  <2> QED
    BY <1>1, <2>1, <2>2 DEF UpdateCurrentTrack
<1>2. CASE PollCanScrobble
  BY <1>2, ScrobbleAfterFetch DEF PollCanScrobble, PollInv, current
<1>3. CASE PollNewTrack
  BY <1>3 DEF PollNewTrack, GetTrackMeta, PollInv, history, Inv, IInv, ScrobbleInFlight
<1>4. CASE PollMeta
  <2>1. auth_future' = "empty" /\ scrobble_future' = "none"
    BY <1>4 DEF PollMeta, PollInv, Inv, IInv, ScrobbleInFlight
  <2>2. /\ meta_fetch_future'.request = "none" => meta_fetch_future'.answer = "pending"
        /\ stage' = "now_playing" => meta_fetch_future'.answer = "pending"
    <3>1. CASE UNCHANGED meta_fetch_future /\ (stage' = "panicked" \/ meta_fetch_future.answer = "pending")
      BY <3>1 DEF PollInv
    <3>2. CASE /\ meta_fetch_future.request \in {"track", "artist"}
               /\ meta_fetch_future' = [meta_fetch_future EXCEPT
                    !.request = NextRequest[@], !.answer = "pending"]
      BY <3>2 DEF Inv, TypeOK
    <3>3. CASE meta_fetch_future' = EmptyFetch
      BY <3>3
    <3>4. CASE /\ stage' = "ready" /\ meta_fetch_future.answer = "err"
               /\ meta_fetch_future' = [meta_fetch_future EXCEPT !.answer = "spent"]
      <4>1. meta_fetch_future.request # "none"
        BY <3>4 DEF PollInv
      <4> QED
        BY <3>4, <4>1 DEF Inv, TypeOK
    <3> QED
      BY <1>4, <3>1, <3>2, <3>3, <3>4 DEF PollMeta, NextRequest
  <2> QED
    BY <2>1, <2>2 DEF PollInv
<1>5. ASSUME NEW a \in Answers, MetaAnswer(a) PROVE PollInv'
  BY <1>5 DEF MetaAnswer, PollInv, history, current, Inv, TypeOK
<1>6. CASE StartPoll \/ PollAuth \/ PollScrobble \/ PollNowPlaying
           \/ Tick \/ Panicked \/ UNCHANGED vars
  BY <1>6 DEF StartPoll, PollAuth, PollScrobble, PollNowPlaying, Tick, Panicked, Fails,
     vars, current, futures, history, PollInv, Inv, TypeOK
<1> QED
  BY <1>1, <1>2, <1>3, <1>4, <1>5, <1>6 DEF Next, Poll

\* Between two polls Scrobbler holds no future that would be polled out of turn.
THEOREM PollInvHolds == Spec => []PollInv
<1>1. Init => PollInv
  BY InitPollInv
<1>2. Inv /\ PollInv /\ [Next]_vars => PollInv'
  BY NextPollInv
<1> QED
  BY <1>1, <1>2, InvAlways, PTL DEF Spec

\* What a poll that is over leaves behind: no answer that could be taken, and a
\* new track only if an error ended the poll before it was reached.
LEMMA PollEnds ==
  ASSUME Inv, PollInv, Poll, stage' = "ready"
  PROVE  /\ meta_fetch_future'.answer \in {"pending", "spent"}
         /\ new_track_future' = "ok" => scrobble_future' = "spent" \/ auth_future' = "spent"
         /\ auth_future' = "spent" => auth_future = "err"
         /\ auth_future' \in {"empty", "spent"}
         /\ new_track_future' = new_track_future
<1>1. CASE PollAuth
  BY <1>1 DEF PollAuth, Fails, PollInv
<1>2. CASE PollScrobble
  BY <1>2 DEF PollScrobble, Fails, PollInv
<1>3. CASE PollMeta
  <2>1. new_track_future = "empty"
    BY <1>3 DEF PollMeta, Inv, TypeOK, IInv, NewTrackPending
  <2>2. meta_fetch_future'.answer = "spent"
    BY <1>3 DEF PollMeta, Inv, TypeOK
  <2> QED
    BY <1>3, <2>1, <2>2 DEF PollMeta, PollInv
<1>4. CASE PollNowPlaying
  BY <1>4 DEF PollNowPlaying, PollInv, Inv, TypeOK, IInv, NewTrackPending
<1> QED
  BY <1>1, <1>2, <1>3, <1>4 DEF Poll, PollCanScrobble, PollNewTrack

\* A poll that begins while a scrobble is due makes it.
LEMMA PollScrobblesDue ==
  ASSUME Inv, PollInv, Poll, Promise!Due, stage \in {"auth", "can_scrobble"}
  PROVE  \/ posts'[play'] # <<>>
         \/ stage' = "can_scrobble" /\ UNCHANGED <<play, posts, announced, play_time>>
<1>1. CASE PollAuth
  BY <1>1 DEF PollAuth, Fails, PollInv, Promise!Due, Promise!Plays, current, history
<1>2. CASE PollCanScrobble
  BY <1>2, DueIsScrobbled DEF PollCanScrobble
<1> QED
  BY <1>1, <1>2 DEF Poll, PollScrobble, PollNewTrack, PollMeta, PollNowPlaying

\* What was scrobbled stays scrobbled.
LEMMA PostsStay ==
  ASSUME Inv, [Next]_vars, NEW p \in Plays, posts[p] # <<>>
  PROVE  posts'[p] # <<>>
<1>1. CASE UNCHANGED posts
  BY <1>1
<1>2. CASE ScrobbleIfDue
  <2>1. \A x : <<x>> # <<>>
    OBVIOUS
  <2> QED
    BY <1>2, <2>1, ScrobbleIfDueStep DEF Inv, TypeOK
<1> QED
  BY <1>1, <1>2 DEF Next, UpdateCurrentTrack, StartPoll, Poll, PollAuth, PollCanScrobble,
     PollScrobble, PollNewTrack, PollMeta, PollNowPlaying, MetaAnswer, Tick, Panicked, vars, history
=============================================================================
