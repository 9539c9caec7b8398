---------------------------- MODULE PubsubMessages ----------------------------
(***************************************************************************)
(* protocol/src/pubsub.rs: every field that a message has, in the order in *)
(* which it is written, and every value that an enum has, the default      *)
(* first. The answer to SUB.                                               *)
(***************************************************************************)
EXTENDS Schema


Subscription == <<
  Optional("uri", 1, String), Optional("expiry", 2, Int32), Optional("status_code", 3, Int32)>>

PubsubSchemas == [
  Subscription |-> Subscription]
=============================================================================
