---------------------------- MODULE SscExchange ----------------------------
(***************************************************************************)
(* A message between libssc and the sensor core: a sender initializes a    *)
(* struct, assigns its members in any order and packs it; the receiver,    *)
(* which may use another version of the protocol, unpacks it, passes it    *)
(* on, and frees it.  One action per generated method or caller's step.    *)
(***************************************************************************)
EXTENDS ProtobufC, Integers

CONSTANTS
    Sent,            \* the types of the messages that are exchanged
    Numbers, Texts,  \* the values of scalar members
    Parts(_),        \* the sub-messages of a type that a sender may use
    UnknownEntries,  \* the fields that only the other version may know of
    MaxRepeated,     \* bounds: the elements of a repeated member,
    MaxSkew          \* the differences between the two versions

Scalars(ctype) ==
    CASE ctype = "BOOL" -> BOOLEAN
      [] ctype \in {"STRING", "BYTES"} -> Texts
      [] OTHER -> Numbers

ASSUME SentAssumption == Sent \subseteq DOMAIN Type
ASSUME BoundsAssumption == MaxRepeated \in Nat /\ MaxSkew \in Nat
ASSUME ScalarsAssumption ==
    /\ Numbers \subseteq Int /\ {0, 1} \subseteq Numbers
    /\ Texts \subseteq STRING /\ Empty \in Texts
ASSUME EntriesAssumption ==
    UnknownEntries \subseteq [number : Nat, type : STRING, payload : Texts]

VARIABLES
    type,      \* the type whose methods the sender calls
    built,     \* its struct, NULL outside the sender's block
    sent,      \* the struct that was packed
    buffer,    \* the packed bytes, empty before that
    readAs,    \* the type whose "unpack" the receiver called, NULL before
    received,  \* what it returned
    added,     \* the unknown fields that the other version put in
    dropped,   \* the members that the other version does not send
    skew,      \* how many differences there were
    aborted    \* an assertion of a generated method failed

wireVars == <<buffer, added, dropped, skew>>
vars == <<type, built, sent, readAs, received, aborted, wireVars>>

Init ==
    /\ type = NULL /\ built = NULL /\ sent = NULL /\ aborted = FALSE
    /\ readAs = NULL /\ received = NULL
    /\ buffer = <<>> /\ added = <<>> /\ dropped = {} /\ skew = 0

-----------------------------------------------------------------------------
(* The sender.                                                             *)

init(t) ==
    /\ type = NULL
    /\ type' = t
    /\ built' = Type[t].init
    /\ UNCHANGED <<sent, readAs, received, aborted, wireVars>>

Fields(t) == LET d == Type[t].descriptor IN {d.fields[i] : i \in DOMAIN d.fields}
AssignedValues(field) == IF field.type = "MESSAGE" THEN Parts(field.of) ELSE Scalars(field.type)

\* The sender assigns a member, or adds an element to a repeated one.  It may
\* forget to set the "has_" member of an optional one.
Assign(field) ==
    /\ built # NULL
    /\ \E value \in AssignedValues(field) :
        IF field.label = "REPEATED"
        THEN /\ Len(built[field.name]) < MaxRepeated
             /\ built' = [built EXCEPT ![field.name] = Append(@, value)]
        ELSE \/ built' = [built EXCEPT ![field.name] = value]
             \/ /\ field.has # Empty
                /\ built' = [built EXCEPT ![field.name] = value, ![field.has] = TRUE]
    /\ UNCHANGED <<type, sent, readAs, received, aborted, wireVars>>

\* Mutant: the two proximity types assert the same descriptor.
Asserts_the_same_descriptor(message, t) ==
    aborted' = (message.base.descriptor #
        Type[IF t = "SscProximityResponseDavinci" THEN "SscProximityResponse" ELSE t].descriptor.name)
\* assert(message->base.descriptor == &...__descriptor): it ends the program.
Asserts(message, t) == aborted' = (message.base.descriptor # Type[t].descriptor.name)

pack ==
    /\ built # NULL
    /\ Asserts(built, type)
    /\ built' = NULL
    /\ IF aborted' THEN UNCHANGED <<buffer, sent>>
       ELSE buffer' = Pack(built) /\ sent' = built
    /\ UNCHANGED <<type, readAs, received, added, dropped, skew>>

-----------------------------------------------------------------------------
(* The sensor core's encoder is another one, of another version.           *)

OnTheWay == sent # NULL /\ readAs = NULL /\ skew < MaxSkew

Position(entry) == Lookup(Type[type].descriptor, entry.number)
FieldAt(i) == Type[type].descriptor.fields[Position(buffer[i])]

\* The differences are those of the message itself, not of its sub-messages.
\* The other version knows of a field that this side does not.
NewerField(entry) ==
    /\ OnTheWay /\ Position(entry) = 0
    /\ \/ buffer' = <<entry>> \o buffer /\ added' = <<entry>> \o added
       \/ buffer' = Append(buffer, entry) /\ added' = Append(added, entry)
    /\ skew' = skew + 1
    /\ UNCHANGED <<type, built, sent, readAs, received, aborted, dropped>>

\* It does not know of a field that this side does, one that is not repeated:
\* without its entries a repeated member is what it is when nobody assigned it.
OlderField(i) ==
    /\ OnTheWay /\ Position(buffer[i]) # 0 /\ FieldAt(i).label # "REPEATED"
    /\ buffer' = RemoveAt(buffer, i)
    /\ dropped' = dropped \cup {FieldAt(i).name}
    /\ skew' = skew + 1
    /\ UNCHANGED <<type, built, sent, readAs, received, aborted, added>>

\* It packs repeated numbers into one field.
PackedFields(i, j) ==
    /\ OnTheWay /\ Position(buffer[i]) # 0
    /\ FieldAt(i).label = "REPEATED" /\ Packable(FieldAt(i).type)
    /\ i <= j
    /\ \A k \in DOMAIN buffer : buffer[k].number = buffer[i].number <=> k \in i .. j
    /\ \A k \in i .. j : buffer[k].type # "LENGTH_PREFIXED"
    /\ LET values == [k \in 1 .. j - i + 1 |-> buffer[i + k - 1].payload]
           packed == [number |-> buffer[i].number, type |-> "LENGTH_PREFIXED", payload |-> values]
       IN  buffer' = SubSeq(buffer, 1, i - 1) \o SubSeq(buffer, j + 1, Len(buffer))
                        \o <<packed>>
    /\ skew' = skew + 1
    /\ UNCHANGED <<type, built, sent, readAs, received, aborted, added, dropped>>

\* It writes the fields in another order.
MovedField(i) ==
    /\ OnTheWay /\ i < Len(buffer)
    /\ buffer[i].number # buffer[i + 1].number
    /\ Position(buffer[i]) # 0
    /\ buffer' = [buffer EXCEPT ![i] = buffer[i + 1], ![i + 1] = buffer[i]]
    /\ skew' = skew + 1
    /\ UNCHANGED <<type, built, sent, readAs, received, aborted, added, dropped>>

-----------------------------------------------------------------------------
(* The receiver.  A buffer does not say which type it holds: of the two    *)
(* kinds of proximity sensors it may try either.                           *)

Kinds(t) ==
    IF t \in {"SscProximityResponse", "SscProximityResponseDavinci"}
    THEN {"SscProximityResponse", "SscProximityResponseDavinci"} ELSE {t}

\* Mutant: it unpacks by the descriptor of the type that it expected.
unpack_by_the_expected_descriptor(t) ==
    /\ sent # NULL /\ readAs = NULL
    /\ t \in Kinds(type)
    /\ readAs' = t
    /\ received' = Unpack(Type[type].descriptor, buffer)
    /\ UNCHANGED <<type, built, sent, aborted, wireVars>>
unpack(t) ==
    /\ sent # NULL /\ readAs = NULL
    /\ t \in Kinds(type)
    /\ readAs' = t
    /\ received' = Unpack(Type[t].descriptor, buffer)
    /\ UNCHANGED <<type, built, sent, aborted, wireVars>>

\* The receiver passes the message on.
pack_to_buffer ==
    /\ received # NULL /\ readAs = type
    /\ Asserts(received, readAs)
    /\ buffer' = IF aborted' THEN buffer ELSE Pack(received)
    /\ UNCHANGED <<type, built, sent, readAs, received, added, dropped, skew>>

free_unpacked ==
    /\ readAs # NULL
    /\ IF received = NULL THEN aborted' = aborted ELSE Asserts(received, readAs)
    /\ received' = NULL /\ readAs' = NULL
    /\ UNCHANGED <<type, built, sent, wireVars>>

\* The buffer is given up; the next message starts from nothing.
NextMessage ==
    /\ sent # NULL /\ readAs = NULL
    /\ type' = NULL /\ sent' = NULL
    /\ buffer' = <<>> /\ added' = <<>> /\ dropped' = {} /\ skew' = 0
    /\ UNCHANGED <<built, readAs, received, aborted>>

SenderStep ==
    \/ \E t \in Sent : init(t)
    \/ built # NULL /\ \E field \in Fields(type) : Assign(field)
    \/ pack
VersionSkew ==
    /\ sent # NULL
    /\ \/ \E entry \in UnknownEntries : NewerField(entry)
       \/ \E i \in DOMAIN buffer : OlderField(i) \/ MovedField(i)
       \/ \E i, j \in DOMAIN buffer : PackedFields(i, j)
ReceiverStep ==
    \/ sent # NULL /\ \E t \in Kinds(type) : unpack(t)
    \/ pack_to_buffer \/ free_unpacked \/ NextMessage

Next == SenderStep \/ VersionSkew \/ ReceiverStep

Spec == Init /\ [][Next]_vars

-----------------------------------------------------------------------------
(* The structs in memory.  Constants again stand for the calls that an     *)
(* operator makes of itself for a sub-message.                             *)

CONSTANTS
    Structs(_),       \* the sub-messages of a type that anyone may hold
    Depth(_),         \* how deep the sub-messages of a struct nest
    SeenPart(_),      \* Seen
    CompletePart(_)   \* Complete

Member(field) == IF field.type = "MESSAGE" THEN Structs(field.of) ELSE Scalars(field.type)

MemberOK(message, field) ==
    LET value == message[field.name] IN
    CASE field.label = "REPEATED" -> value \in Seq(Member(field))
      [] field.has # Empty -> value \in Member(field) /\ message[field.has] \in BOOLEAN
      [] OTHER -> \/ value \in Member(field)
                  \/ value = NULL /\ field.type \in {"MESSAGE", "STRING"}

StructOK(t, message) ==
    /\ message = [name \in DOMAIN Type[t].init |-> message[name]]
    /\ message.base = [Type[t].init.base EXCEPT !.unknown_fields = message.base.unknown_fields]
    /\ message.base.unknown_fields \in Seq(UnknownEntries)
    /\ \A k \in DOMAIN message.base.unknown_fields :
        Lookup(Type[t].descriptor, message.base.unknown_fields[k].number) = 0
    /\ \A field \in Fields(t) : MemberOK(message, field)

SubMessages(message, field) ==
    IF field.type # "MESSAGE" THEN {}
    ELSE IF field.label = "REPEATED" THEN {message[field.name][k] : k \in DOMAIN message[field.name]}
    ELSE {message[field.name]} \ {NULL}

-----------------------------------------------------------------------------
(* What a receiver should see of a struct whose members in "without" were  *)
(* not sent: these as they were initialized, members of optional fields    *)
(* only when their "has_" member is set, empty values for null pointers.   *)

SeenValue(field, value) ==
    CASE field.type = "MESSAGE" /\ value # NULL -> SeenPart(value)
      [] value = NULL /\ field.label = "REQUIRED" ->
            IF field.type = "MESSAGE" THEN Type[field.of].init ELSE Empty
      [] OTHER -> value
SeenMember(message, field, without) ==
    LET value == message[field.name] IN
    IF field.name \in without \/ (field.has # Empty /\ ~message[field.has])
    THEN Type[message.base.descriptor].init[field.name]
    ELSE IF field.label = "REPEATED" THEN [k \in DOMAIN value |-> SeenValue(field, value[k])]
    ELSE SeenValue(field, value)
SeenWithout(message, without) ==
    LET fields == Fields(message.base.descriptor)
        own(name) == {f \in fields : f.name = name}
        switch(name) == {f \in fields : f.has = name}
    IN  [name \in DOMAIN message |->
            IF own(name) # {} THEN SeenMember(message, CHOOSE f \in own(name) : TRUE, without)
            ELSE IF \E f \in switch(name) : f.name \in without THEN FALSE
            ELSE message[name]]
Seen(message) == SeenWithout(message, {})

\* A required sub-message is there, or has nothing that is required.
CompleteMember(message, field) ==
    field.type = "MESSAGE" =>
        LET value == message[field.name] IN
        IF field.label = "REPEATED" THEN \A k \in DOMAIN value : CompletePart(value[k])
        ELSE IF value # NULL THEN CompletePart(value)
        ELSE field.label = "REQUIRED" => \A g \in Fields(field.of) : g.label # "REQUIRED"
Complete(message) ==
    \A field \in Fields(message.base.descriptor) : CompleteMember(message, field)

\* Structs are trees: a sub-message is a struct too, and is less deep.
ASSUME StructsAssumption ==
    \A t \in DOMAIN Type :
        /\ Type[t].init \in Structs(t)
        /\ Parts(t) \subseteq Structs(t)
        /\ \A m \in Structs(t) :
            /\ StructOK(t, m)
            /\ SeenPart(m) \in Structs(t)
            /\ Depth(m) \in Nat
            /\ \A field \in Fields(t) : \A s \in SubMessages(m, field) : Depth(s) < Depth(m)

\* Each constant operator is the operator that it stands for.
ASSUME RecursionAssumption ==
    \A t \in DOMAIN Type :
        LET descriptor == Type[t].descriptor IN
        /\ UnpackPart(descriptor, <<>>) = Unpack(descriptor, <<>>)
        /\ \A m \in Structs(t) :
            /\ PackPart(m) = Pack(m)
            /\ UnpackPart(descriptor, Pack(m)) = Unpack(descriptor, Pack(m))
            /\ SeenPart(m) = Seen(m)
            /\ CompletePart(m) = Complete(m)

\* A null pointer is no name of a type, no value, and no struct.
AnyValue == STRING \cup Int \cup BOOLEAN \cup {NULL} \cup UNION {Structs(t) : t \in DOMAIN Type}
AnyMember ==
    AnyValue \cup Seq(AnyValue)
        \cup [descriptor : DOMAIN Type, unknown_fields : Seq(UnknownEntries)]
ASSUME NullAssumption ==
    /\ NULL \notin DOMAIN Type
    /\ NULL \notin STRING /\ NULL \notin Int /\ NULL \notin BOOLEAN
    /\ \A t \in DOMAIN Type : NULL \notin [DOMAIN Type[t].init -> AnyMember]

-----------------------------------------------------------------------------
(* Properties.                                                             *)

\* A struct is being filled in, or a message is on its way and may be read.
TypeOK ==
    /\ type \in Sent \cup {NULL}
    /\ built # NULL => sent = NULL /\ StructOK(type, built)
    /\ IF sent = NULL THEN buffer = <<>> ELSE StructOK(type, sent)
    /\ readAs # NULL => sent # NULL /\ readAs \in DOMAIN Type
    /\ received # NULL => readAs # NULL /\ DOMAIN received = DOMAIN Type[readAs].init
    /\ skew \in 0 .. MaxSkew /\ aborted \in BOOLEAN

\* No method is ever called on a struct of another type: "init", "unpack" and
\* the sub-messages' descriptors all give the struct its own descriptor.
NeverAborts == ~aborted

\* A message is refused exactly when a required member is missing, or a
\* sub-message in it that cannot be empty: one bad part refuses the whole
\* message, and no version skew refuses any other one.
RefusedForCause ==
    readAs # NULL /\ readAs = type =>
        (received # NULL <=>
            \A field \in Fields(type) :
                IF field.name \in dropped THEN field.label # "REQUIRED"
                ELSE CompleteMember(sent, field))

\* What is accepted is what was sent, what was not sent is as if never
\* assigned, and what is unknown is kept: also when fields were packed, moved
\* or added, and after the message was passed on.
ReceivedIsSent ==
    received # NULL /\ readAs = type =>
        received = [SeenWithout(sent, dropped) EXCEPT !.base.unknown_fields = added]

\* The two kinds of proximity messages cannot be taken for each other, unless
\* a field is missing that its own type requires.
NeverMistaken ==
    received # NULL /\ dropped = {} => readAs = type
============================================================================
