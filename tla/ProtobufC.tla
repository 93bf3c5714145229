----------------------------- MODULE ProtobufC -----------------------------
(***************************************************************************)
(* The part of protobuf-c that the generated methods call: packing a       *)
(* struct by its descriptor, and unpacking a buffer by one.                *)
(*                                                                         *)
(* A buffer is the sequence of its fields: number, wire type and payload.  *)
(* The payload of a sub-message is a buffer; any other one is the value.   *)
(***************************************************************************)
EXTENDS SscMessages, SequencesExt

\* The calls that Pack and Unpack make of themselves for a sub-message.
\* Constants tie the knot, for a RECURSIVE operator cannot be proved about.
CONSTANTS
    PackPart(_),       \* Pack
    UnpackPart(_, _)   \* Unpack

WireType(ctype) ==
    CASE ctype \in {"INT32", "BOOL"} -> "VARINT"
      [] ctype = "FIXED64" -> "64BIT"
      [] ctype \in {"FIXED32", "FLOAT"} -> "32BIT"
      [] ctype \in {"STRING", "BYTES", "MESSAGE"} -> "LENGTH_PREFIXED"

Packable(ctype) == ctype \notin {"STRING", "BYTES", "MESSAGE"}

\* int_range_lookup: the position of the field of a number, 0 if there is none.
Lookup(descriptor, number) ==
    LET range == descriptor.number_ranges
        size(r) == range[r + 1][2] - range[r][2]
        hit == {r \in 1 .. Len(range) - 1 :
                  range[r][1] <= number /\ number < range[r][1] + size(r)}
    IN  IF hit = {} THEN 0
        ELSE LET r == CHOOSE r \in hit : TRUE IN range[r][2] + number - range[r][1] + 1

Entry(field, payload) ==
    [number |-> field.number, type |-> WireType(field.type), payload |-> payload]

\* A null pointer in a required field is packed as if it were empty.
Payload(field, value) ==
    CASE field.type = "MESSAGE" -> IF value = NULL THEN <<>> ELSE PackPart(value)
      [] field.type = "STRING" -> IF value = NULL THEN Empty ELSE value
      [] OTHER -> value

IsSet(message, field) ==
    IF field.has # Empty THEN message[field.has] ELSE message[field.name] # NULL

PackField(message, field) ==
    LET value == message[field.name] IN
    CASE field.label = "REPEATED" ->
            [k \in DOMAIN value |-> Entry(field, Payload(field, value[k]))]
      [] field.label = "OPTIONAL" /\ ~IsSet(message, field) -> <<>>
      [] OTHER -> <<Entry(field, Payload(field, value))>>

\* protobuf_c_message_pack, protobuf_c_message_pack_to_buffer.
Pack(message) ==
    LET fields == Type[message.base.descriptor].descriptor.fields
        packed[i \in 0 .. Len(fields)] ==
            IF i = 0 THEN <<>> ELSE packed[i - 1] \o PackField(message, fields[i])
    IN  packed[Len(fields)] \o message.base.unknown_fields

\* The values an entry gives its field, NULL for one that cannot be parsed.
\* A repeated number may also come packed, all of its values in one entry.
Values(field, entry) ==
    IF entry.type = WireType(field.type)
    THEN <<IF field.type = "MESSAGE" THEN UnpackPart(Type[field.of].descriptor, entry.payload)
           ELSE entry.payload>>
    ELSE IF entry.type = "LENGTH_PREFIXED" /\ field.label = "REPEATED" /\ Packable(field.type)
    THEN entry.payload
    ELSE <<NULL>>

\* What a buffer holds for the field at a position, and at 0 what is unknown.
Adds(descriptor, i, entry) ==
    IF Lookup(descriptor, entry.number) # i THEN <<>>
    ELSE IF i = 0 THEN <<entry>>
    ELSE Values(descriptor.fields[i], entry)
Given(descriptor, bytes, i) ==
    LET scanned[k \in 0 .. Len(bytes)] ==
            IF k = 0 THEN <<>> ELSE scanned[k - 1] \o Adds(descriptor, i, bytes[k])
    IN  scanned[Len(bytes)]

\* A field that cannot be parsed, or is required and missing.
Refuses(field, values) ==
    Contains(values, NULL) \/ (field.label = "REQUIRED" /\ values = <<>>)

\* The struct of what was given, NULL when a field refuses it.
Members(descriptor, given) ==
    LET fields == descriptor.fields
        initial == descriptor.message_init
        position(name) == {i \in DOMAIN fields : fields[i].name = name}
        switch(name) == {i \in DOMAIN fields : fields[i].has = name}
        member(i) ==
            IF fields[i].label = "REPEATED" THEN given[i]
            ELSE IF given[i] = <<>> THEN initial[fields[i].name]
            ELSE Last(given[i])
    IN  [name \in DOMAIN initial |->
            CASE name = "base" -> [initial.base EXCEPT !.unknown_fields = given[0]]
              [] position(name) # {} -> member(CHOOSE i \in position(name) : TRUE)
              [] OTHER -> \E i \in switch(name) : given[i] # <<>>]
Struct(descriptor, given) ==
    IF \E i \in DOMAIN descriptor.fields : Refuses(descriptor.fields[i], given[i]) THEN NULL
    ELSE Members(descriptor, given)

\* protobuf_c_message_unpack.
Unpack(descriptor, bytes) ==
    Struct(descriptor,
           [i \in 0 .. Len(descriptor.fields) |-> Given(descriptor, bytes, i)])
============================================================================
