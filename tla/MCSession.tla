------------------------------ MODULE MCSession ------------------------------
(***************************************************************************)
(* A file in three packets, an error in place of one, and a file that      *)
(* begins and then has a packet that cannot be read.                       *)
(***************************************************************************)
EXTENDS Session

MCStreams == {<<"last", "data", "empty">>, <<"error">>, <<"last", "garbled">>}
=============================================================================
