--------------------------------- MODULE Rpc ---------------------------------
(***************************************************************************)
(* What MercuryManager promises its callers: a call is answered at most    *)
(* once, and with nothing but the outcome the access point settled on for  *)
(* that very call.                                                         *)
(*                                                                         *)
(* Mercury.tla (src/core/src/mercury/mod.rs) is shown to implement it.     *)
(***************************************************************************)
CONSTANTS
  Calls,   \* the calls that can be made
  Open     \* not settled, not answered

VARIABLES
  asked,     \* the calls made
  outcomes,  \* call -> what the access point settled on
  answers    \* call -> what the caller was told

vars == <<asked, outcomes, answers>>

Init ==
  /\ asked = {}
  /\ outcomes = [c \in Calls |-> Open]
  /\ answers = [c \in Calls |-> Open]

Ask(c) ==
  /\ c \notin asked
  /\ asked' = asked \cup {c}
  /\ UNCHANGED <<outcomes, answers>>

Settle(c) ==
  /\ c \in asked
  /\ outcomes[c] = Open
  /\ outcomes' = [outcomes EXCEPT ![c] = outcomes'[c]]
  /\ UNCHANGED <<asked, answers>>

Answer(c) ==
  /\ outcomes[c] # Open
  /\ answers[c] = Open
  /\ answers' = [answers EXCEPT ![c] = outcomes[c]]
  /\ UNCHANGED <<asked, outcomes>>

Next == \E c \in Calls : Ask(c) \/ Settle(c) \/ Answer(c)

Spec == Init /\ [][Next]_vars
=============================================================================
