-------------------------------- MODULE Schema --------------------------------
(***************************************************************************)
(* What the code that rust-protobuf generates for a message is generated   *)
(* from.  A message is the tuple of its fields; for each of them the       *)
(* struct has a member and its accessors, is_initialized a test if it is   *)
(* required or a message, merge_from an arm, and compute_size and          *)
(* write_to_with_cached_sizes a block, in the order of the tuple.          *)
(***************************************************************************)
EXTENDS Integers, Sequences

\* A kind: what a value is, how it travels ("varint" or "length", that is, with its
\* length before it), and what the getter of a member that is not set returns.
Bool == [type |-> "bool", wire |-> "varint", default |-> FALSE, values |-> <<>>, message |-> ""]
Int32 == [type |-> "int32", wire |-> "varint", default |-> 0, values |-> <<>>, message |-> ""]
Int64 == [type |-> "int64", wire |-> "varint", default |-> 0, values |-> <<>>, message |-> ""]
UInt32 == [type |-> "uint32", wire |-> "varint", default |-> 0, values |-> <<>>, message |-> ""]
UInt64 == [type |-> "uint64", wire |-> "varint", default |-> 0, values |-> <<>>, message |-> ""]
\* Zigzag: small when close to zero.
SInt32 == [type |-> "sint32", wire |-> "varint", default |-> 0, values |-> <<>>, message |-> ""]
String == [type |-> "string", wire |-> "length", default |-> <<>>, values |-> <<>>, message |-> ""]
Bytes == [type |-> "bytes", wire |-> "length", default |-> <<>>, values |-> <<>>, message |-> ""]
Enum(values) ==
  [type |-> "enum", wire |-> "varint", default |-> Head(values), values |-> values, message |-> ""]
Message(name) ==
  [type |-> "message", wire |-> "length", default |-> <<>>, values |-> <<>>, message |-> name]

Values(first, last) == [i \in 1 .. last - first + 1 |-> first + i - 1]

Optional(name, number, kind) ==
  [label |-> "optional", name |-> name, number |-> number, kind |-> kind]
Required(name, number, kind) ==
  [label |-> "required", name |-> name, number |-> number, kind |-> kind]
Repeated(name, number, kind) ==
  [label |-> "repeated", name |-> name, number |-> number, kind |-> kind]
=============================================================================
