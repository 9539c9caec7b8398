------------------------------- MODULE PlayLog -------------------------------
(***************************************************************************)
(* What the Scrobbler promises its user, with no futures, no polling and   *)
(* no failures: plays follow one another; while a play is current it may   *)
(* be announced as "now playing" once, and it is scrobbled at most once,   *)
(* only after it has been announced and has lasted longer than             *)
(* ScrobbleAfter; a play that is due when the next one begins is scrobbled *)
(* on the way out.                                                         *)
(*                                                                         *)
(* Scrobbler.tla (src/src/scrobbler.rs) is shown to implement this module. *)
(***************************************************************************)
EXTENDS Integers, Sequences

CONSTANTS
  Tracks,         \* Spotify track ids
  None,           \* "no track"
  MaxPlays,       \* bound: how many plays one behaviour may contain
  ScrobbleAfter   \* the 20 seconds of can_scrobble_track, in clock ticks

Plays == 1 .. MaxPlays

VARIABLES
  play,       \* number of the current play, 0 before the first one
  tracks,     \* play -> the track it plays
  play_time,  \* age of the current play, capped just above ScrobbleAfter
  announced,  \* play -> the tracks sent to Last.fm as "now playing" for it
  posts       \* play -> the tracks sent to Last.fm as scrobbles for it

vars == <<play, tracks, play_time, announced, posts>>

Init ==
  /\ play = 0
  /\ tracks = [p \in Plays |-> None]
  /\ play_time = 0
  /\ announced = [p \in Plays |-> <<>>]
  /\ posts = [p \in Plays |-> <<>>]

\* The current play has earned its scrobble and has not had it yet.
Due ==
  /\ play \in Plays
  /\ announced[play] # <<>>
  /\ posts[play] = <<>>
  /\ play_time > ScrobbleAfter

Post == posts' = [posts EXCEPT ![play] = <<tracks[play]>>]

Scrobble == Due /\ Post /\ UNCHANGED <<play, tracks, play_time, announced>>

\* A new play begins; one that is due does not end without its scrobble.
Begin(t) ==
  /\ play < MaxPlays
  /\ IF Due THEN Post ELSE UNCHANGED posts
  /\ play' = play + 1
  /\ tracks' = [tracks EXCEPT ![play + 1] = t]
  /\ play_time' = 0
  /\ UNCHANGED announced

Announce ==
  /\ play \in Plays
  /\ announced[play] = <<>>
  /\ announced' = [announced EXCEPT ![play] = <<tracks[play]>>]
  /\ UNCHANGED <<play, tracks, play_time, posts>>

Tick ==
  /\ play \in Plays
  /\ play_time <= ScrobbleAfter
  /\ play_time' = play_time + 1
  /\ UNCHANGED <<play, tracks, announced, posts>>

Next ==
  \/ \E t \in Tracks : Begin(t)
  \/ Scrobble
  \/ Announce
  \/ Tick

Spec == Init /\ [][Next]_vars
=============================================================================
