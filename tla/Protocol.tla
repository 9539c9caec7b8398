------------------------------- MODULE Protocol -------------------------------
(***************************************************************************)
(* protocol/src/lib.rs: the messages of all six files.                     *)
(***************************************************************************)
EXTENDS KeyexchangeMessages, AuthenticationMessages, MercuryMessages,
        PubsubMessages, MetadataMessages, SpircMessages, TLC

ProtocolSchemas ==
  KeyexchangeSchemas @@ AuthenticationSchemas @@ MercurySchemas @@ PubsubSchemas
    @@ MetadataSchemas @@ SpircSchemas
=============================================================================
