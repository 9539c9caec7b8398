----------------------------- MODULE MCProtobuf ------------------------------
(* Numbers on both sides of a byte's 7 bits and of zero; texts whose length *)
(* is 0, and takes one byte and two; messages that are empty, minimal, or   *)
(* full, with minimal ones in them or such as a newer schema makes.         *)
EXTENDS Protobuf, Protocol

Texts == {[i \in 1 .. n |-> "a"] : n \in {0, 2, 130}}

MCSamples == [
  bool |-> {FALSE, TRUE}, int32 |-> {-1, 127, 128}, int64 |-> {-1, 16384},
  uint32 |-> {0, 300}, uint64 |-> {0, 300}, sint32 |-> {-65, -1, 63, 64},
  string |-> Texts, bytes |-> Texts]

\* The message of that type that has the given values in each of its fields.
With(type, Values_(_)) ==
  [Empty(type) EXCEPT !.fields = [i \in DOMAIN @ |-> Values_(Schemas[type][i])]]

\* The required fields alone.
RECURSIVE Minimal(_)
Minimal(type) ==
  LET Default(kind) == IF kind.type = "message" THEN Minimal(kind.message) ELSE kind.default
  IN With(type, LAMBDA f : IF f.label = "required" THEN <<Default(f.kind)>> ELSE <<>>)

\* Every field at once, the repeated ones twice.
Full(type) ==
  LET Some(kind) == CASE kind.type = "message" -> Minimal(kind.message)
                      [] kind.type = "enum" -> kind.values[Len(kind.values)]
                      [] OTHER -> CHOOSE value \in Samples[kind.type] : TRUE
      Filled(field, value) == IF field.label = "repeated" THEN <<value, value>> ELSE <<value>>
  IN With(type, LAMBDA f : Filled(f, Some(f.kind)))

Ours == [type \in DOMAIN Schemas |-> {Empty(type), Minimal(type), Full(type)}]

MCSchemas == ProtocolSchemas
MCMessages == Ours

MCNewNumbers == {1, 1000}
MCNewText == <<"new">>

\* With a field that we do not know, and with one whose type has changed too.
Added(type) == [Minimal(type) EXCEPT !.unknown = <<Newer(1000, "length")>>]

Altered(type) ==
  {[Empty(type) EXCEPT !.unknown = <<Newer(1000, "varint"), Changed(field)>>] :
     field \in {f \in {Schemas[type][i] : i \in DOMAIN Schemas[type] \cap {1}} : ~IsPackable(f)}}

Newers ==
  [type \in DOMAIN Schemas |-> Ours[type] \cup {Added(type)} \cup Altered(type)]

MCNewerMessages == Newers
=============================================================================
