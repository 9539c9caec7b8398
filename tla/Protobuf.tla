------------------------------- MODULE Protobuf -------------------------------
(***************************************************************************)
(* One program fills a message in and writes it, another reads it: the     *)
(* accessors, is_initialized, compute_size, write_to_with_cached_sizes and *)
(* merge_from of protocol/src/*.rs, for every message of the schemas.      *)
(* The reader is this program.  The writer is too, or, if peer, it is one  *)
(* that was built from a newer schema: it may have fields and enum values  *)
(* that are not in ours, have changed the type of a field, no longer       *)
(* require what we require, and pack its repeated numbers.                 *)
(*                                                                         *)
(* A message is a record of its type, the values of each of its fields (at *)
(* most one if it is not repeated) and the elements that are not fields.   *)
(* A stream is a sequence of elements: number and wire type (the tag),     *)
(* value, and bytes taken, tag included.  A nested message is an element   *)
(* whose value is the length announced, followed by its own elements.      *)
(***************************************************************************)
EXTENDS Integers, SequencesExt

CONSTANTS
  Schemas,       \* the fields of each message, as in module Schema
  Samples,       \* the values tried, by type (not of enums and messages)
  Messages,      \* the messages tried, by type: as values, and to begin with
  NewerMessages, \* those of a program with a newer schema, and ours
  NewNumbers,    \* numbers that a newer schema may have a field with
  NewText,       \* what is in such a field, if it is not a number
  MaxChanges     \* how often the writer changes the message it started with

VARIABLES
  peer,    \* the writer is another program, with a newer schema
  sent,    \* the message filled in, then written
  changes, \* how often it was changed
  status,  \* "filling", then "unwritten" or "reading", then "read" or "failed"
  stream,  \* the elements written
  next,    \* the index of the element to read next
  pos,     \* how many bytes have been read
  stack    \* the messages being read, outermost first, each with its end

vars == <<peer, sent, changes, status, stream, next, pos, stack>>

---------------------------------------------------------------------------
(* Messages *)

Empty(type) ==
  [type |-> type, fields |-> [i \in DOMAIN Schemas[type] |-> <<>>], unknown |-> <<>>]

\* A message is computed with by computing with those nested in it: what comes
\* of each of them is in a table, by type and message.
InitializedWith(message, nested) ==
  \A i \in DOMAIN message.fields :
    LET field == Schemas[message.type][i] IN
    /\ field.label = "required" => message.fields[i] # <<>>
    /\ field.kind.type = "message" =>
         \A j \in DOMAIN message.fields[i] : nested[field.kind.message][message.fields[i][j]]

NestedInitialized[type \in DOMAIN Schemas] ==
  [message \in NewerMessages[type] |-> InitializedWith(message, NestedInitialized)]

Initialized(message) == InitializedWith(message, NestedInitialized)

\* The index in the schema of the field with a number, or 0.
FieldOf(type, number) ==
  LET is == {i \in DOMAIN Schemas[type] : Schemas[type][i].number = number}
  IN IF is = {} THEN 0 ELSE CHOOSE i \in is : TRUE

---------------------------------------------------------------------------
(* Numbers on the wire *)

Raw(kind, value) ==
  CASE kind.type = "bool" -> IF value THEN 1 ELSE 0
    [] kind.type = "sint32" -> IF value < 0 THEN -2 * value - 1 ELSE 2 * value
    [] OTHER -> value

\* Mutant: a sint32 is read as if it were an int32.
FromRawPlain(kind, raw) == IF kind.type = "bool" THEN raw # 0 ELSE raw

FromRaw(kind, raw) ==
  CASE kind.type = "bool" -> raw # 0
    [] kind.type = "sint32" -> IF raw % 2 = 0 THEN raw \div 2 ELSE -((raw + 1) \div 2)
    [] OTHER -> raw

\* Seven bits to a byte; a negative number is extended to 64 bits first.
VarintBytes(raw) ==
  IF raw < 0 THEN 10 ELSE 1 + Cardinality({n \in 1 .. 4 : raw >= 128 ^ n})

Element(number, wire, value, bytes) ==
  [number |-> number, wire |-> wire, value |-> value,
   size |-> VarintBytes(8 * number) + bytes]

Number(number, raw) == Element(number, "varint", raw, VarintBytes(raw))
Text(number, text) == Element(number, "length", text, VarintBytes(Len(text)) + Len(text))

---------------------------------------------------------------------------
(* Writing *)

Total(numbers) ==
  LET n == Len(numbers)
      total[i \in 0 .. n] == IF i = 0 THEN 0 ELSE total[i - 1] + numbers[i]
  IN total[n]

SizeOf(elements) == Total([j \in DOMAIN elements |-> elements[j].size])

\* Mutant: a negative int32 is sized as the five bytes of its 32 bits.
ValueSizeNarrow(kind, value, nested) ==
  CASE kind.type = "message" -> VarintBytes(nested[kind.message][value]) + nested[kind.message][value]
    [] kind.type \in {"string", "bytes"} -> VarintBytes(Len(value)) + Len(value)
    [] kind.type = "int32" /\ value < 0 -> 5
    [] OTHER -> VarintBytes(Raw(kind, value))

\* What compute_size adds for a value, beside the tag.
ValueSize(kind, value, nested) ==
  CASE kind.type = "message" -> VarintBytes(nested[kind.message][value]) + nested[kind.message][value]
    [] kind.type \in {"string", "bytes"} -> VarintBytes(Len(value)) + Len(value)
    [] OTHER -> VarintBytes(Raw(kind, value))

FieldSize(field, values, nested) ==
  Total([j \in DOMAIN values |->
           VarintBytes(8 * field.number) + ValueSize(field.kind, values[j], nested)])

SizeWith(message, nested) ==
  Total([i \in DOMAIN message.fields |->
           FieldSize(Schemas[message.type][i], message.fields[i], nested)])
    + SizeOf(message.unknown)

NestedSize[type \in DOMAIN Schemas] ==
  [message \in NewerMessages[type] |-> SizeWith(message, NestedSize)]

ComputeSize(message) == SizeWith(message, NestedSize)

\* A nested message comes after the size it was computed to have.
Announced(field, size) == Element(field.number, "length", size, VarintBytes(size))

WrittenValue(field, value, nested) ==
  CASE field.kind.type = "message" ->
         <<Announced(field, NestedSize[field.kind.message][value])>>
           \o nested[field.kind.message][value]
    [] field.kind.type \in {"string", "bytes"} -> <<Text(field.number, value)>>
    [] OTHER -> <<Number(field.number, Raw(field.kind, value))>>

WrittenField(field, values, nested) ==
  FlattenSeq([j \in DOMAIN values |-> WrittenValue(field, values[j], nested)])

WrittenWith(message, nested) ==
  FlattenSeq([i \in DOMAIN message.fields |->
                WrittenField(Schemas[message.type][i], message.fields[i], nested)])
    \o message.unknown

NestedWritten[type \in DOMAIN Schemas] ==
  [message \in NewerMessages[type] |-> WrittenWith(message, NestedWritten)]

Written(message) == WrittenWith(message, NestedWritten)

---------------------------------------------------------------------------
(* What another program may write.  A number that is not in our schema; a  *)
(* field whose type has changed, which travels in another way; the same    *)
(* repeated numbers in one element.                                        *)

Newer(number, wire) ==
  IF wire = "varint" THEN Number(number, 300) ELSE Text(number, NewText)

IsPackable(field) == field.label = "repeated" /\ field.kind.wire = "varint"

Changed(field) ==
  IF field.kind.wire = "length" THEN Number(field.number, 1) ELSE Text(field.number, NewText)

Packed(field, values) ==
  LET raws == [j \in DOMAIN values |-> Raw(field.kind, values[j])]
      bytes == Total([j \in DOMAIN raws |-> VarintBytes(raws[j])])
  IN Element(field.number, "length", raws, VarintBytes(bytes) + bytes)

\* The stream with the outermost repeated numbers packed.
WrittenPacked(message) ==
  LET fields == Schemas[message.type]
      IsTight(i) == IsPackable(fields[i]) /\ message.fields[i] # <<>>
      loose == [message EXCEPT !.fields = [i \in DOMAIN @ |-> IF IsTight(i) THEN <<>> ELSE @[i]]]
  IN Written(loose) \o
       FlattenSeq([i \in DOMAIN message.fields |->
         IF IsTight(i) THEN <<Packed(fields[i], message.fields[i])>> ELSE <<>>])

---------------------------------------------------------------------------
(* What the schemas are like, and the messages that are tried.             *)

IsField(field) ==
  LET kind == field.kind IN
  /\ field.label \in {"optional", "required", "repeated"} /\ field.number \in Nat \ {0}
  /\ \/ /\ kind.type \in {"bool", "int32", "int64", "uint32", "uint64", "sint32", "enum"}
        /\ kind.wire = "varint"
     \/ kind.type \in {"string", "bytes", "message"} /\ kind.wire = "length"
  /\ kind.type = "enum" => kind.values \in Seq(Int) \ {<<>>}
  /\ kind.type = "message" => kind.message \in DOMAIN Schemas

ASSUME SchemasAssumption ==
  \A type \in DOMAIN Schemas :
    LET fields == Schemas[type] IN
    /\ Len(fields) \in Nat /\ fields = [i \in 1 .. Len(fields) |-> fields[i]]
    /\ \A i \in DOMAIN fields : IsField(fields[i])
    /\ \A i, k \in DOMAIN fields : fields[i].number = fields[k].number => i = k

\* The values of a kind that there are, to who knows those messages.
Possible(kind, messages) ==
  CASE kind.type = "message" -> messages[kind.message]
    [] kind.type = "bool" -> BOOLEAN
    [] kind.type \in {"string", "bytes"} -> Seq(STRING)
    [] OTHER -> Int

IsMessage(message, type, messages) ==
  LET fields == Schemas[type] IN
  /\ message = [type |-> type, fields |-> message.fields, unknown |-> message.unknown]
  /\ message.fields = [i \in DOMAIN fields |-> message.fields[i]]
  /\ \A i \in DOMAIN fields :
       /\ message.fields[i] \in Seq(Possible(fields[i].kind, messages))
       /\ fields[i].label # "repeated" => Len(message.fields[i]) <= 1

\* An element that is not of a field, or of one that has another type in it.
IsForeign(element, type) ==
  LET fields == Schemas[type]
      i == FieldOf(type, element.number)
  IN /\ element = [number |-> element.number, wire |-> element.wire,
                   value |-> element.value, size |-> element.size]
     /\ element.number \in Nat \ {0} /\ element.size \in Nat \ {0}
     /\ \/ element.wire = "varint" /\ element.value \in Int
        \/ element.wire = "length" /\ element.value \in Seq(STRING)
     /\ i # 0 => element.wire # fields[i].kind.wire /\ ~IsPackable(fields[i])

\* How deep messages nest in a message.
Depth[type \in DOMAIN Schemas] ==
  [message \in NewerMessages[type] |->
     LET nesting == {i \in DOMAIN message.fields : Schemas[type][i].kind.type = "message"}
     IN 1 + Max({0} \cup UNION {{Depth[Schemas[type][i].kind.message][message.fields[i][j]] :
                                   j \in DOMAIN message.fields[i]} : i \in nesting})]

ASSUME MessagesAssumption ==
  /\ \A kind \in {"int32", "int64", "uint32", "uint64", "sint32"} : Samples[kind] \subseteq Int
  /\ Samples.bool \subseteq BOOLEAN
  /\ Samples.string \subseteq Seq(STRING) /\ Samples.bytes \subseteq Seq(STRING)
  /\ NewNumbers \subseteq Nat \ {0} /\ NewText \in Seq(STRING)
  /\ \A type \in DOMAIN Schemas :
       /\ Messages[type] \subseteq NewerMessages[type]
       /\ \A message \in Messages[type] :
            /\ IsMessage(message, type, Messages) /\ message.unknown = <<>>
            /\ \A i \in DOMAIN message.fields :
                 LET kind == Schemas[type][i].kind IN
                 kind.type = "enum" => Range(message.fields[i]) \subseteq Range(kind.values)
       /\ \A message \in NewerMessages[type] :
            /\ IsMessage(message, type, NewerMessages)
            /\ Len(message.unknown) \in Nat
            /\ message.unknown = [j \in 1 .. Len(message.unknown) |-> message.unknown[j]]
            /\ \A j \in DOMAIN message.unknown : IsForeign(message.unknown[j], type)

\* No message is nested in itself.
ASSUME DepthAssumption ==
  \A type \in DOMAIN Schemas : \A message \in NewerMessages[type] :
    /\ Depth[type][message] \in Nat
    /\ \A i \in DOMAIN message.fields :
         LET kind == Schemas[type][i].kind IN
         kind.type = "message" =>
           \A j \in DOMAIN message.fields[i] :
             Depth[kind.message][message.fields[i][j]] < Depth[type][message]

---------------------------------------------------------------------------
(* The writer *)

\* What the writer may put together its messages from.
Known(type) == IF peer THEN NewerMessages[type] ELSE Messages[type]

ValuesFor(kind) ==
  CASE kind.type = "message" -> Known(kind.message)
    [] kind.type = "enum" ->
         {kind.values[1], kind.values[Len(kind.values)]} \cup IF peer THEN {1000} ELSE {}
    [] OTHER -> Samples[kind.type]

Reader(type) == [message |-> Empty(type), field |-> 0, end |-> 0]

Init ==
  /\ peer \in BOOLEAN
  /\ \E type \in DOMAIN Schemas : sent \in Known(type)
  /\ stack = <<Reader(sent.type)>>
  /\ changes = 0 /\ status = "filling" /\ stream = <<>> /\ next = 1 /\ pos = 0

Fields == Schemas[sent.type]

Change(message) ==
  /\ status = "filling" /\ changes < MaxChanges
  /\ sent' = message /\ changes' = changes + 1
  /\ UNCHANGED <<peer, status, stream, next, pos, stack>>

Set ==
  \E i \in DOMAIN Fields :
    /\ Fields[i].label # "repeated"
    /\ \E value \in ValuesFor(Fields[i].kind) : Change([sent EXCEPT !.fields[i] = <<value>>])

Push ==
  \E i \in DOMAIN Fields :
    /\ Fields[i].label = "repeated"
    /\ \E value \in ValuesFor(Fields[i].kind) :
         Change([sent EXCEPT !.fields[i] = Append(@, value)])

Clear ==
  \E i \in DOMAIN Fields : sent.fields[i] # <<>> /\ Change([sent EXCEPT !.fields[i] = <<>>])

ChangeSchema ==
  /\ peer
  /\ \/ \E number \in NewNumbers, wire \in {"varint", "length"} :
          /\ FieldOf(sent.type, number) = 0
          /\ Change([sent EXCEPT !.unknown = Append(@, Newer(number, wire))])
     \/ \E i \in DOMAIN Fields :
          /\ ~IsPackable(Fields[i])
          /\ Change([sent EXCEPT !.fields[i] = <<>>, !.unknown = Append(@, Changed(Fields[i]))])

Send(elements) ==
  /\ status = "filling"
  /\ status' = "reading" /\ stream' = elements
  /\ stack' = [stack EXCEPT ![1].end = SizeOf(elements)]
  /\ UNCHANGED <<peer, sent, changes, next, pos>>

\* write_to_bytes refuses a message that lacks a required field.
Write == ~peer /\ Initialized(sent) /\ Send(Written(sent))

Refuse ==
  /\ ~peer /\ ~Initialized(sent) /\ status = "filling"
  /\ status' = "unwritten"
  /\ UNCHANGED <<peer, sent, changes, stream, next, pos, stack>>

WriteNewer == peer /\ (Send(Written(sent)) \/ Send(WrittenPacked(sent)))

---------------------------------------------------------------------------
(* The reader *)

Top == stack[Len(stack)]

AtEnd == pos >= Top.end

\* The numbers in an element: one, or as many as it packs.
Numbers(field, element) ==
  IF IsPackable(field) /\ element.wire = "length" THEN element.value ELSE <<element.value>>

\* Mutant: a repeated number is only read one by one.
IsReadableUnpacked(field, element) ==
  /\ element.wire = field.kind.wire
  /\ field.kind.type = "enum" =>
       Range(Numbers(field, element)) \subseteq Range(field.kind.values)
  /\ pos + element.size + (IF field.kind.type = "message" THEN element.value ELSE 0) <= Top.end

\* The arm of merge_from can read what follows the tag: the wire type is that of
\* the field, or a packed one, its enum values are known, and it ends in time.
IsReadable(field, element) ==
  /\ element.wire = field.kind.wire \/ IsPackable(field)
  /\ field.kind.type = "enum" =>
       Range(Numbers(field, element)) \subseteq Range(field.kind.values)
  /\ pos + element.size + (IF field.kind.type = "message" THEN element.value ELSE 0) <= Top.end

Merge(i, field, element) ==
  LET old == IF field.label = "repeated" THEN Top.message.fields[i] ELSE <<>>
      new == IF field.kind.type = "message" THEN <<Empty(field.kind.message)>>
             ELSE [j \in DOMAIN Numbers(field, element) |->
                     FromRaw(field.kind, Numbers(field, element)[j])]
      merged == [stack EXCEPT ![Len(stack)].message.fields[i] = old \o new]
  IN IF field.kind.type = "message"
     THEN Append(merged, [message |-> new[1], field |-> i,
                          end |-> pos + element.size + element.value])
     ELSE merged

KeepUnknown(element) == [stack EXCEPT ![Len(stack)].message.unknown = Append(@, element)]

Advance(newStack) ==
  /\ pos' = pos + stream[next].size /\ next' = next + 1 /\ stack' = newStack
  /\ UNCHANGED <<peer, sent, changes, status, stream>>

\* One turn of merge_from's loop: a tag, and the arm for its number.
MergeField ==
  /\ status = "reading" /\ ~AtEnd
  /\ LET element == stream[next]
         i == FieldOf(Top.message.type, element.number)
         field == Schemas[Top.message.type][i]
     IN \/ i = 0 /\ Advance(KeepUnknown(element))
        \/ i # 0 /\ IsReadable(field, element) /\ Advance(Merge(i, field, element))
        \/ /\ i # 0 /\ ~IsReadable(field, element)
           /\ status' = "failed"
           /\ UNCHANGED <<peer, sent, changes, stream, next, pos, stack>>

\* The end of a nested message: its limit is popped.
EndMessage ==
  /\ status = "reading" /\ AtEnd /\ Len(stack) > 1
  /\ stack' = [Front(stack) EXCEPT ![Len(stack) - 1].message.fields[Top.field] =
                 Append(Front(@), Top.message)]
  /\ UNCHANGED <<peer, sent, changes, status, stream, next, pos>>

\* parse_from_bytes checks the message that it has read.
Finish ==
  /\ status = "reading" /\ AtEnd /\ Len(stack) = 1
  /\ status' = IF Initialized(Top.message) THEN "read" ELSE "failed"
  /\ UNCHANGED <<peer, sent, changes, stream, next, pos, stack>>

Done == status \in {"unwritten", "read", "failed"} /\ UNCHANGED vars

Next ==
  \/ Set \/ Push \/ Clear \/ ChangeSchema
  \/ Write \/ Refuse \/ WriteNewer
  \/ MergeField \/ EndMessage \/ Finish
  \/ Done

Spec == Init /\ [][Next]_vars

---------------------------------------------------------------------------
(* Properties *)

\* What this program writes takes as many bytes as compute_size said: the
\* handshake puts that number into the packet's length before it writes the
\* message (handshake.rs:100), and a nested message is read up to it.
SizeIsExact ==
  (~peer /\ status # "filling") =>
    SizeOf(stream)
      = IF status = "unwritten" THEN 0 ELSE ComputeSize(sent)

\* A message that is read is the message that was written: field by field, in
\* the order of the repeated ones, nested ones in their places, with what a
\* newer schema added beside it, and with all that is required.
ReadsWhatWasWritten ==
  status = "read" => Top.message = sent /\ Initialized(sent)

\* Why a message that was written cannot be read: a field of it has changed its
\* type, it has an enum value that we do not know (also in a field that is
\* optional, or that nothing here looks at), or it lacks what we require.
GarbledWith(message, nested) ==
  \/ \E j \in DOMAIN message.unknown : FieldOf(message.type, message.unknown[j].number) # 0
  \/ \E i \in DOMAIN message.fields :
       LET kind == Schemas[message.type][i].kind IN
       \/ kind.type = "enum" /\ ~(Range(message.fields[i]) \subseteq Range(kind.values))
       \/ /\ kind.type = "message"
          /\ \E j \in DOMAIN message.fields[i] : nested[kind.message][message.fields[i][j]]

NestedGarbled[type \in DOMAIN Schemas] ==
  [message \in NewerMessages[type] |-> GarbledWith(message, NestedGarbled)]

HasReason(message) == ~Initialized(message) \/ GarbledWith(message, NestedGarbled)

\* Reading fails for such a reason and no other, never because of a field that
\* was added or packed, and never what this program wrote itself; and it does
\* not get through when there is a reason.
FailsForAReason ==
  /\ status = "failed" => peer /\ HasReason(sent)
  /\ status = "read" => ~HasReason(sent)
  /\ status = "unwritten" => ~Initialized(sent)
=============================================================================
