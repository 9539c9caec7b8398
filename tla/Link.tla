--------------------------------- MODULE Link ---------------------------------
(***************************************************************************)
(* What the connection promises the session: no packet is handed over      *)
(* before the access point has welcomed the user, and from then on its     *)
(* packets are handed over in order, whole, each once, until the link is   *)
(* over.                                                                   *)
(*                                                                         *)
(* Connection.tla (src/core/src/connection) is shown to implement it.      *)
(***************************************************************************)
EXTENDS Naturals, Sequences

CONSTANT Packets  \* records with a field cmd

VARIABLES
  link,      \* "down", "up", "over"
  sent,      \* the packets of the access point
  received   \* those that were handed over

vars == <<link, sent, received>>

Init == link = "down" /\ sent = <<>> /\ received = <<>>

Send(p) == sent' = Append(sent, p) /\ UNCHANGED <<link, received>>

Login ==
  /\ link = "down"
  /\ sent # <<>> /\ Head(sent).cmd = "welcome"
  /\ link' = "up"
  /\ received' = <<Head(sent)>>
  /\ UNCHANGED sent

Take ==
  /\ link = "up"
  /\ Len(received) < Len(sent)
  /\ received' = Append(received, sent[Len(received) + 1])
  /\ UNCHANGED <<link, sent>>

End == link' = "over" /\ UNCHANGED <<sent, received>>

Next == (\E p \in Packets : Send(p)) \/ Login \/ Take \/ End

Spec == Init /\ [][Next]_vars
=============================================================================
