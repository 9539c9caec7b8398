---------------------------- MODULE MCScrobbler ----------------------------
(* Model values and symmetry for checking Scrobbler with TLC. *)
EXTENDS Scrobbler, TLC

CONSTANTS t1, t2

MCTracks == {t1, t2}
AllAnswers == {"ok", "err", "bad"}
AllResults == {"ok", "err"}
OnlyOk == {"ok"}

Symmetry == Permutations(MCTracks)
=============================================================================
