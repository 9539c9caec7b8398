------------------------------ MODULE SpircLife ------------------------------
(***************************************************************************)
(* What SpircTask promises to Main, which owns it: it ends of its own      *)
(* accord only after it has been asked to shut down, and then it does end, *)
(* unless a panic takes the process first.                                 *)
(*                                                                         *)
(* Spirc.tla (src/src/spirc.rs) is shown to implement this module, and     *)
(* Main.tla uses it in the place of Spirc.                                 *)
(***************************************************************************)
VARIABLES
  life,   \* "up", "closing" (Goodbye sent), "gone" (Ready was returned), "panicked"
  asked   \* Spirc::shutdown has been called

vars == <<life, asked>>

TypeOK == life \in {"up", "closing", "gone", "panicked"} /\ asked \in BOOLEAN

Init == life = "up" /\ asked = FALSE

Ask == life = "up" /\ asked' = TRUE /\ UNCHANGED life
Close == life = "up" /\ asked /\ life' = "closing" /\ UNCHANGED asked
End == life = "closing" /\ life' = "gone" /\ UNCHANGED asked
Panic == life \in {"up", "closing"} /\ life' = "panicked" /\ UNCHANGED asked

Work == Close \/ End \/ Panic

Next == Ask \/ Work

Spec == Init /\ [][Next]_vars
FairSpec == Spec /\ WF_vars(Close \/ End)
=============================================================================
