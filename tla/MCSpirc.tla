------------------------------ MODULE MCSpirc ------------------------------
(***************************************************************************)
(* Frames for checking Spirc with TLC: one for each path of handle_frame   *)
(* and, of those that report a track, one for each way update_current_track *)
(* can go.                                                                 *)
(***************************************************************************)
EXTENDS Spirc

CONSTANTS t1, t2

MCTracks == {t1, t2}
AllAnswers == {"ok", "err", "bad"}
AllResults == {"ok", "err"}
OnlyOk == {"ok"}
AllSubAnswers == {"open", "failed"}
OnlyOpen == {"open"}

Report(t, start) ==
  [ident |-> "echo", recipient |-> {}, typ |-> "notify", active |-> TRUE,
   track |-> t, start |-> start]

HelloFrom(d) ==
  [ident |-> d, recipient |-> {}, typ |-> "hello", active |-> FALSE,
   track |-> None, start |-> FALSE]

Reports == {Report(t1, FALSE), Report(t1, TRUE), Report(t2, FALSE)}

Ignored == {
  [HelloFrom("me") EXCEPT !.ident = "me"],
  [Report(t2, TRUE) EXCEPT !.recipient = {"phone"}],
  [Report(t2, TRUE) EXCEPT !.active = FALSE],
  Report(None, TRUE),
  [Report(t2, TRUE) EXCEPT !.typ = "other"]}

\* Every path of handle_frame.
AllFrames ==
  Reports \cup Ignored \cup {Report(Bad, TRUE), HelloFrom("phone"),
    [Report(t1, TRUE) EXCEPT !.recipient = {"me", "phone"}]}

\* Those that change something.
FewFrames == {Report(t1, TRUE), Report(t2, FALSE), HelloFrom("phone")}
=============================================================================
