--------------------------- MODULE MercuryMessages ----------------------------
(***************************************************************************)
(* protocol/src/mercury.rs: every field that a message has, in the order   *)
(* in which it is written, and every value that an enum has, the default   *)
(* first. The header of a Mercury request or answer, and the messages of   *)
(* multi-get, which nothing in the repository sends.                       *)
(***************************************************************************)
EXTENDS Schema

MercuryReply_CachePolicy == <<1, 2, 3>>

MercuryMultiGetRequest == <<Repeated("request", 1, Message("MercuryRequest"))>>

MercuryMultiGetReply == <<Repeated("reply", 1, Message("MercuryReply"))>>

MercuryRequest == <<
  Optional("uri", 1, String), Optional("content_type", 2, String),
  Optional("body", 3, Bytes), Optional("etag", 4, Bytes)>>

MercuryReply == <<
  Optional("status_code", 1, SInt32), Optional("status_message", 2, String),
  Optional("cache_policy", 3, Enum(MercuryReply_CachePolicy)), Optional("ttl", 4, SInt32),
  Optional("etag", 5, Bytes), Optional("content_type", 6, String), Optional("body", 7, Bytes)>>

Header == <<
  Optional("uri", 1, String), Optional("content_type", 2, String),
  Optional("method", 3, String), Optional("status_code", 4, SInt32),
  Repeated("user_fields", 6, Message("UserField"))>>

UserField == <<Optional("key", 1, String), Optional("value", 2, Bytes)>>

MercurySchemas == [
  MercuryMultiGetRequest |-> MercuryMultiGetRequest,
  MercuryMultiGetReply |-> MercuryMultiGetReply, MercuryRequest |-> MercuryRequest,
  MercuryReply |-> MercuryReply, Header |-> Header, UserField |-> UserField]
=============================================================================
