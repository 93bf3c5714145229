------------------------- MODULE SscExchangeProofs --------------------------
(***************************************************************************)
(* The invariants of SscExchange, for every choice of its constants: the   *)
(* types, values and sub-messages that are sent, and the number and kind   *)
(* of the differences between the two versions.                            *)
(***************************************************************************)
EXTENDS SscExchange, ProtobufCProofs

-----------------------------------------------------------------------------
(* Structs and their members.                                              *)

\* The fields of a type are the entries of its table.
LEMMA FieldsByIndex ==
    ASSUME NEW t \in DOMAIN Type
    PROVE  Fields(t) = {Type[t].descriptor.fields[i] : i \in 1 .. Len(Type[t].descriptor.fields)}
BY TableFacts DEF Fields

\* A scalar is a string, a number or a truth value, and no null pointer.
LEMMA ScalarsType ==
    ASSUME NEW ty, NEW v \in Scalars(ty)
    PROVE  v \in STRING \cup Int \cup BOOLEAN /\ v # NULL
<1>1. Scalars(ty) = BOOLEAN \/ Scalars(ty) = Texts \/ Scalars(ty) = Numbers
  <2>1. CASE ty = "BOOL" BY <2>1 DEF Scalars
  <2>2. CASE ty \in {"STRING", "BYTES"} BY <2>2 DEF Scalars
  <2>3. CASE ty \notin {"BOOL", "STRING", "BYTES"} BY <2>3 DEF Scalars
  <2> QED BY <2>1, <2>2, <2>3
<1>2. v \in BOOLEAN \/ v \in STRING \/ v \in Int BY <1>1, ScalarsAssumption
<1> QED BY <1>2, NullAssumption

\* What StructOK says of each member.
LEMMA StructMembers ==
    ASSUME NEW t \in DOMAIN Type, NEW m, StructOK(t, m)
    PROVE  LET d == Type[t].descriptor IN
           /\ m = [name \in DOMAIN Type[t].init |-> m[name]]
           /\ m.base = [descriptor |-> t, unknown_fields |-> m.base.unknown_fields]
           /\ m.base.unknown_fields \in Seq(UnknownEntries)
           /\ \A k \in 1 .. Len(m.base.unknown_fields) :
                Lookup(d, m.base.unknown_fields[k].number) = 0
           /\ \A i \in 1 .. Len(d.fields) :
                LET f == d.fields[i] IN
                /\ f.label = "REPEATED" => m[f.name] \in Seq(Member(f))
                /\ f.has # Empty => m[f.name] \in Member(f) /\ m[f.has] \in BOOLEAN
                /\ f.label # "REPEATED" /\ f.has = Empty =>
                    \/ m[f.name] \in Member(f)
                    \/ m[f.name] = NULL /\ f.type \in {"MESSAGE", "STRING"}
<1> DEFINE d == Type[t].descriptor
           initial == Type[t].init
           u == m.base.unknown_fields
           n == Len(d.fields)
<1>1. InitialOK(t, initial, d, n) /\ \A i \in 1 .. n : FieldOK(d.fields[i], initial)
  BY TableFacts
<1>2. m.base = [initial.base EXCEPT !.unknown_fields = u] /\ u \in Seq(UnknownEntries)
      /\ m = [name \in DOMAIN initial |-> m[name]]
      /\ \A k \in DOMAIN u : Lookup(d, u[k].number) = 0
  BY DEF StructOK
<1>3. m.base = [descriptor |-> t, unknown_fields |-> u]
  <2>1. initial.base = [descriptor |-> t, unknown_fields |-> <<>>] BY <1>1 DEF InitialOK
  <2> HIDE DEF u, initial
  <2> QED BY <1>2, <2>1
<1>4. DOMAIN u = 1 .. Len(u) BY <1>2, LenProperties
<1>5. ASSUME NEW i \in 1 .. n
      PROVE  LET f == d.fields[i] IN
             /\ f.label = "REPEATED" => m[f.name] \in Seq(Member(f))
             /\ f.has # Empty => m[f.name] \in Member(f) /\ m[f.has] \in BOOLEAN
             /\ f.label # "REPEATED" /\ f.has = Empty =>
                 \/ m[f.name] \in Member(f)
                 \/ m[f.name] = NULL /\ f.type \in {"MESSAGE", "STRING"}
  <2> DEFINE f == d.fields[i]
  <2>1. MemberOK(m, f) BY FieldsByIndex DEF StructOK
  <2>2. f.has # Empty => f.label = "OPTIONAL" BY <1>1 DEF FieldOK
  <2> HIDE DEF f
  <2>3. CASE f.label = "REPEATED" BY <2>1, <2>2, <2>3 DEF MemberOK, f
  <2>4. CASE f.has # Empty BY <2>1, <2>2, <2>4 DEF MemberOK, f
  <2>5. CASE f.label # "REPEATED" /\ f.has = Empty BY <2>1, <2>5 DEF MemberOK, f
  <2> QED BY <2>2, <2>3, <2>4, <2>5 DEF f
<1> QED BY <1>2, <1>3, <1>4, <1>5

\* A struct of a type has what Pack needs.
LEMMA StructPacks ==
    ASSUME NEW t \in DOMAIN Type, NEW m, StructOK(t, m)
    PROVE  Packs(t, m)
<1>1. m.base.descriptor = t
  <2>1. m.base = [descriptor |-> t, unknown_fields |-> m.base.unknown_fields] BY StructMembers
  <2> DEFINE u == m.base.unknown_fields
  <2>2. m.base = [descriptor |-> t, unknown_fields |-> u] BY <2>1
  <2> HIDE DEF u
  <2> QED BY <2>2
<1>a. Sequence(m.base.unknown_fields) BY StructMembers DEF Sequence
<1>2. \A k \in 1 .. Len(m.base.unknown_fields) :
        Lookup(Type[t].descriptor, m.base.unknown_fields[k].number) = 0
  BY StructMembers
<1>3. \A i \in 1 .. Len(Type[t].descriptor.fields) :
        Type[t].descriptor.fields[i].label = "REPEATED" =>
            Sequence(m[Type[t].descriptor.fields[i].name])
  BY StructMembers DEF Sequence
<1> QED BY <1>1, <1>a, <1>2, <1>3 DEF Packs

\* A member is some value.
LEMMA MemberAny ==
    ASSUME NEW t \in DOMAIN Type, NEW i \in 1 .. Len(Type[t].descriptor.fields),
           NEW v \in Member(Type[t].descriptor.fields[i])
    PROVE  v \in AnyValue
<1> DEFINE f == Type[t].descriptor.fields[i]
<1>1. f.type = "MESSAGE" => f.of \in DOMAIN Type BY TableFacts DEF FieldOK
<1>2. CASE f.type = "MESSAGE"
  <2>1. v \in Structs(f.of) BY <1>2 DEF Member
  <2> HIDE DEF f
  <2> QED BY <1>1, <1>2, <2>1 DEF AnyValue
<1>3. CASE f.type # "MESSAGE"
  <2>1. v \in Scalars(f.type) BY <1>3 DEF Member
  <2> HIDE DEF f
  <2> QED BY <2>1, ScalarsType DEF AnyValue
<1> QED BY <1>2, <1>3

\* A struct is some record of values, and no null pointer.
LEMMA StructAny ==
    ASSUME NEW t \in DOMAIN Type, NEW m, StructOK(t, m)
    PROVE  m \in [DOMAIN Type[t].init -> AnyMember] /\ m # NULL
<1> DEFINE d == Type[t].descriptor
           initial == Type[t].init
           n == Len(d.fields)
<1>1. InitialOK(t, initial, d, n) /\ \A i \in 1 .. n : FieldOK(d.fields[i], initial)
  BY TableFacts
<1>2. ASSUME NEW name \in DOMAIN initial PROVE m[name] \in AnyMember
  <2>1. CASE name = "base"
    <3>1. m.base = [descriptor |-> t, unknown_fields |-> m.base.unknown_fields]
          /\ m.base.unknown_fields \in Seq(UnknownEntries)
      BY StructMembers
    <3> DEFINE u == m.base.unknown_fields
    <3>2. m.base \in [descriptor : DOMAIN Type, unknown_fields : Seq(UnknownEntries)]
      <4> HIDE DEF u
      <4> QED BY <3>1 DEF u
    <3> QED BY <2>1, <3>2 DEF AnyMember
  <2>2. ASSUME NEW i \in 1 .. n, name = d.fields[i].name PROVE m[name] \in AnyMember
    <3> DEFINE f == d.fields[i]
    <3>1. \A v \in Member(f) : v \in AnyValue BY MemberAny
    <3>2. \/ m[name] \in Seq(Member(f)) \/ m[name] \in Member(f) \/ m[name] = NULL
      BY <2>2, StructMembers
    <3>3. NULL \in AnyValue BY DEF AnyValue
    <3> HIDE DEF f
    <3>4. CASE m[name] \in Seq(Member(f))
      <4>1. m[name] \in Seq(AnyValue) BY <3>1, <3>4, SeqMonotonic
      <4> QED BY <4>1 DEF AnyMember
    <3> QED BY <3>1, <3>2, <3>3, <3>4 DEF AnyMember
  <2>3. ASSUME NEW i \in 1 .. n, name = d.fields[i].has, name # Empty PROVE m[name] \in AnyMember
    <3>1. m[name] \in BOOLEAN BY <2>3, StructMembers
    <3> QED BY <3>1 DEF AnyMember, AnyValue
  <2>4. \/ name = "base"
        \/ \E i \in 1 .. n : name = d.fields[i].name
        \/ \E i \in 1 .. n : d.fields[i].has # Empty /\ name = d.fields[i].has
    BY <1>1 DEF InitialOK
  <2> QED BY <2>1, <2>2, <2>3, <2>4
<1>3. m = [name \in DOMAIN initial |-> m[name]] BY StructMembers
<1>4. m \in [DOMAIN initial -> AnyMember] BY <1>2, <1>3
<1> QED BY <1>4, NullAssumption

\* A packed struct is unpacked to what a receiver should see when it is complete
\* and refused otherwise, and what a receiver sees packs to the same bytes.
RoundTrip(t, m) ==
    /\ Unpack(Type[t].descriptor, Pack(m)) = IF Complete(m) THEN Seen(m) ELSE NULL
    /\ Complete(m) => Pack(Seen(m)) = Pack(m)

\* The constants are the operators that they stand for.
LEMMA Recursion ==
    ASSUME NEW t \in DOMAIN Type, NEW m \in Structs(t)
    PROVE  /\ StructOK(t, m) /\ m # NULL
           /\ PackPart(m) = Pack(m)
           /\ UnpackPart(Type[t].descriptor, Pack(m)) = Unpack(Type[t].descriptor, Pack(m))
           /\ SeenPart(m) = Seen(m) /\ CompletePart(m) = Complete(m)
           /\ SeenPart(m) \in Structs(t)
BY StructsAssumption, RecursionAssumption, StructAny

\* How a value is packed.
LEMMA PayloadCases ==
    ASSUME NEW f, NEW v
    PROVE  /\ f.type = "MESSAGE" /\ v = NULL => Payload(f, v) = <<>>
           /\ f.type = "MESSAGE" /\ v # NULL => Payload(f, v) = PackPart(v)
           /\ f.type = "STRING" /\ v = NULL => Payload(f, v) = Empty
           /\ f.type # "MESSAGE" /\ v # NULL => Payload(f, v) = v
<1>1. CASE f.type = "MESSAGE" BY <1>1 DEF Payload
<1>2. CASE f.type = "STRING" BY <1>2 DEF Payload
<1>3. CASE f.type # "MESSAGE" /\ f.type # "STRING" BY <1>3 DEF Payload
<1> QED BY <1>1, <1>2, <1>3

\* What a receiver sees of a value.
LEMMA SeenValueCases ==
    ASSUME NEW f, NEW v
    PROVE  /\ f.type = "MESSAGE" /\ v # NULL => SeenValue(f, v) = SeenPart(v)
           /\ f.type = "MESSAGE" /\ v = NULL /\ f.label = "REQUIRED" => SeenValue(f, v) = Type[f.of].init
           /\ f.type # "MESSAGE" /\ v = NULL /\ f.label = "REQUIRED" => SeenValue(f, v) = Empty
           /\ v = NULL /\ f.label # "REQUIRED" => SeenValue(f, v) = NULL
           /\ f.type # "MESSAGE" /\ v # NULL => SeenValue(f, v) = v
<1>1. CASE f.type = "MESSAGE" /\ v # NULL BY <1>1 DEF SeenValue
<1>2. CASE v = NULL /\ f.label = "REQUIRED" BY <1>2 DEF SeenValue
<1>3. CASE ~(f.type = "MESSAGE" /\ v # NULL) /\ ~(v = NULL /\ f.label = "REQUIRED")
  BY <1>3 DEF SeenValue
<1> QED BY <1>1, <1>2, <1>3

\* A message with no required field.
NothingRequired(t) == \A g \in Fields(t) : g.label # "REQUIRED"

\* An empty buffer is the initialized message, unless something is required.
LEMMA EmptyUnpacks ==
    ASSUME NEW t \in DOMAIN Type
    PROVE  Unpack(Type[t].descriptor, <<>>) = IF NothingRequired(t) THEN Type[t].init ELSE NULL
<1> DEFINE d == Type[t].descriptor
           initial == Type[t].init
           n == Len(d.fields)
           given == [i \in 0 .. n |-> Given(d, <<>>, i)]
<1>1. Unpack(d, <<>>) = Struct(d, given) BY DEF Unpack
<1>2. /\ n \in Nat /\ DOMAIN d.fields = 1 .. n /\ InitialOK(t, initial, d, n)
      /\ \A i \in 1 .. n : FieldOK(d.fields[i], initial)
  BY TableFacts
<1>3. \A i \in 0 .. n : given[i] = <<>> BY GivenEmpty
<1>4. Fields(t) = {d.fields[i] : i \in 1 .. n} BY FieldsByIndex
<1>5. ~Contains(<<>>, NULL) BY SequenceEmpty DEF Contains
<1>a. \A i \in 1 .. n : i \in 0 .. n BY <1>2
<1>c. 0 \in 0 .. n BY <1>2
<1>b. d = Type[t].descriptor OBVIOUS
<1> HIDE DEF given, n
<1>6. CASE ~NothingRequired(t)
  <2>1. PICK i \in 1 .. n : d.fields[i].label = "REQUIRED" BY <1>4, <1>6 DEF NothingRequired
  <2>2. Refuses(d.fields[i], given[i]) BY <1>3, <1>a, <2>1 DEF Refuses
  <2>3. Struct(d, given) = NULL BY <1>2, <2>2, StructRefused
  <2> QED BY <1>1, <1>6, <2>3
<1>7. CASE NothingRequired(t)
  <2> DEFINE s == Struct(d, given)
  <2>1. \A i \in 1 .. n : ~Refuses(d.fields[i], given[i])
    <3> TAKE i \in 1 .. n
    <3>1. given[i] = <<>> BY <1>3, <1>a
    <3>2. d.fields[i].label # "REQUIRED" BY <1>4, <1>7 DEF NothingRequired
    <3> QED BY <1>5, <3>1, <3>2 DEF Refuses
  <2>2. /\ s = [name \in DOMAIN initial |-> s[name]]
        /\ s.base = [descriptor |-> t, unknown_fields |-> given[0]]
        /\ \A i \in 1 .. n :
             /\ s[d.fields[i].name] = MemberOf(d.fields[i], given[i], initial)
             /\ d.fields[i].has # Empty => s[d.fields[i].has] = (given[i] # <<>>)
    BY <2>1, StructAccepted DEF n
  <2> HIDE DEF s, d, initial
  <2>3. s.base = initial.base BY <1>2, <1>3, <1>c, <2>2 DEF InitialOK
  <2>4. ASSUME NEW i \in 1 .. n PROVE s[d.fields[i].name] = initial[d.fields[i].name]
    <3>1. given[i] = <<>> BY <1>3, <1>a
    <3>2. d.fields[i].label = "REPEATED" => initial[d.fields[i].name] = <<>> BY <1>2 DEF FieldOK
    <3>3. MemberOf(d.fields[i], <<>>, initial) = initial[d.fields[i].name] BY <3>2 DEF MemberOf
    <3> QED BY <2>2, <3>1, <3>3
  <2>5. ASSUME NEW i \in 1 .. n, d.fields[i].has # Empty
        PROVE  s[d.fields[i].has] = initial[d.fields[i].has]
    <3>1. given[i] = <<>> BY <1>3, <1>a
    <3>2. initial[d.fields[i].has] = FALSE BY <1>2, <2>5 DEF FieldOK
    <3> QED BY <2>2, <2>5, <3>1, <3>2
  <2>6. \A name \in DOMAIN initial : s[name] = initial[name]
    BY <1>2, <2>3, <2>4, <2>5 DEF InitialOK
  <2>7. s = initial BY <1>2, <2>2, <2>6 DEF InitialOK
  <2> QED BY <1>1, <1>7, <2>7 DEF s, d, initial
<1> QED BY <1>6, <1>7

\* An initialized message with nothing required packs to nothing.
LEMMA InitialPacks ==
    ASSUME NEW t \in DOMAIN Type, NothingRequired(t)
    PROVE  Pack(Type[t].init) = <<>>
<1> DEFINE d == Type[t].descriptor
           initial == Type[t].init
           n == Len(d.fields)
           s == Packed(d.fields, initial)
<1>1. /\ n \in Nat /\ Sequence(d.fields) /\ InitialOK(t, initial, d, n)
      /\ \A i \in 1 .. n : FieldOK(d.fields[i], initial)
  BY TableFacts
<1>2. initial.base.descriptor = t /\ initial.base.unknown_fields = <<>> BY <1>1 DEF InitialOK
<1>3. ASSUME NEW i \in 1 .. n PROVE PackField(initial, d.fields[i]) = <<>>
  <2> DEFINE f == d.fields[i]
  <2>1. f.label # "REQUIRED" BY FieldsByIndex DEF NothingRequired
  <2>2. FieldOK(f, initial) BY <1>1
  <2> HIDE DEF f, initial
  <2>3. CASE f.label = "REPEATED"
    <3>1. initial[f.name] = <<>> BY <2>2, <2>3 DEF FieldOK
    <3>2. DOMAIN initial[f.name] = {} BY <3>1
    <3> DEFINE part(k) == Entry(f, Payload(f, initial[f.name][k]))
    <3>3. PackField(initial, f) = [k \in DOMAIN initial[f.name] |-> part(k)]
      BY <2>3, PackFieldCases
    <3> HIDE DEF part
    <3> QED BY <3>2, <3>3 DEF f
  <2>4. CASE f.label = "OPTIONAL"
    <3>1. ~IsSet(initial, f) BY <2>2, <2>4 DEF FieldOK, IsSet
    <3> QED BY <2>4, <3>1, PackFieldCases DEF f
  <2> QED BY <2>1, <2>2, <2>3, <2>4 DEF FieldOK
<1>4. /\ Lists(s) /\ Len(s) = n
      /\ Pack(initial) = FlattenSeq(s) \o initial.base.unknown_fields
  <2>1. \A i \in 1 .. n : Sequence(PackField(initial, d.fields[i])) BY <1>3, SequenceEmpty
  <2> QED BY <1>1, <1>2, <2>1, PackFlattens
<1>5. \A k \in 1 .. n : s[k] = <<>> BY <1>3 DEF Packed
<1>6. 0 \notin 1 .. n OBVIOUS
<1> HIDE DEF s, n, initial, d
<1>7. FlattenSeq(s) = <<>> BY <1>4, <1>5, <1>6, FlattenOnly
<1>8. <<>> \o <<>> = <<>> BY SequenceEmpty, JoinEmpty
<1> QED BY <1>2, <1>4, <1>7, <1>8 DEF initial

\* A value that is not a sub-message, or a complete one.
PartOK(f, v) ==
    f.type = "MESSAGE" => IF v # NULL THEN CompletePart(v) ELSE NothingRequired(f.of)

\* A packed value is unpacked to what a receiver should see of it, when it is
\* complete; that is never a null pointer, and it packs to the same bytes.
LEMMA GotMember ==
    ASSUME NEW t \in DOMAIN Type, NEW i \in 1 .. Len(Type[t].descriptor.fields), NEW v,
           LET f == Type[t].descriptor.fields[i] IN
           /\ \/ v \in Member(f)
              \/ v = NULL /\ f.label = "REQUIRED" /\ f.type \in {"MESSAGE", "STRING"}
           /\ f.type = "MESSAGE" /\ v # NULL => RoundTrip(f.of, v)
    PROVE  LET f == Type[t].descriptor.fields[i] IN
           /\ Got(f, v) = IF PartOK(f, v) THEN SeenValue(f, v) ELSE NULL
           /\ SeenValue(f, v) # NULL
           /\ SeenValue(f, v) \in AnyValue
           /\ PartOK(f, v) => Payload(f, SeenValue(f, v)) = Payload(f, v)
<1> DEFINE f == Type[t].descriptor.fields[i]
           o == f.of
<1>1. \/ v \in Member(f)
      \/ v = NULL /\ f.label = "REQUIRED" /\ f.type \in {"MESSAGE", "STRING"}
  OBVIOUS
<1>2. f.type = "MESSAGE" /\ v # NULL => RoundTrip(o, v) OBVIOUS
<1>3. f.type = "MESSAGE" => o \in DOMAIN Type BY TableFacts DEF FieldOK
<1> HIDE DEF f
<1>4. CASE f.type = "MESSAGE" /\ v # NULL
  <2>1. v \in Structs(o) BY <1>1, <1>4 DEF Member
  <2>2. o \in DOMAIN Type BY <1>3, <1>4
  <2>3. /\ PackPart(v) = Pack(v) /\ SeenPart(v) = Seen(v) /\ CompletePart(v) = Complete(v)
        /\ UnpackPart(Type[o].descriptor, Pack(v)) = Unpack(Type[o].descriptor, Pack(v))
        /\ SeenPart(v) \in Structs(o)
    BY <2>1, <2>2, Recursion
  <2>4. PackPart(SeenPart(v)) = Pack(SeenPart(v)) /\ SeenPart(v) # NULL BY <2>2, <2>3, Recursion
  <2>5. SeenValue(f, v) = SeenPart(v) BY <1>4, SeenValueCases
  <2>6. Payload(f, v) = Pack(v) BY <1>4, <2>3, PayloadCases
  <2>7. Payload(f, SeenPart(v)) = Pack(Seen(v)) BY <1>4, <2>3, <2>4, PayloadCases
  <2>8. PartOK(f, v) <=> Complete(v) BY <1>4, <2>3 DEF PartOK
  <2>9. Got(f, v) = IF Complete(v) THEN Seen(v) ELSE NULL
    BY <1>2, <1>4, <2>3, <2>6 DEF Got, RoundTrip
  <2>10. Complete(v) => Pack(Seen(v)) = Pack(v) BY <1>2, <1>4 DEF RoundTrip
  <2>11. SeenPart(v) \in AnyValue BY <2>2, <2>3 DEF AnyValue
  <2> QED BY <2>3, <2>4, <2>5, <2>6, <2>7, <2>8, <2>9, <2>10, <2>11 DEF f
<1>5. CASE f.type = "MESSAGE" /\ v = NULL
  <2>1. f.label = "REQUIRED"
    <3>1. v \notin Member(f)
      <4>1. \A x \in Structs(o) : x # NULL BY <1>3, <1>5, Recursion
      <4> QED BY <1>5, <4>1 DEF Member
    <3> QED BY <1>1, <3>1
  <2>2. o \in DOMAIN Type BY <1>3, <1>5
  <2>3. Type[o].init \in Structs(o) BY <2>2, StructsAssumption
  <2>4. Type[o].init # NULL /\ PackPart(Type[o].init) = Pack(Type[o].init)
    BY <2>2, <2>3, Recursion
  <2>5. SeenValue(f, v) = Type[o].init BY <1>5, <2>1, SeenValueCases
  <2>6. Payload(f, v) = <<>> BY <1>5, PayloadCases
  <2>7. Got(f, v) = Unpack(Type[o].descriptor, <<>>)
    BY <1>5, <2>2, <2>6, RecursionAssumption DEF Got
  <2>8. PartOK(f, v) <=> NothingRequired(o) BY <1>5 DEF PartOK
  <2>9. Got(f, v) = IF NothingRequired(o) THEN Type[o].init ELSE NULL
    BY <2>2, <2>7, EmptyUnpacks
  <2>10. NothingRequired(o) => Payload(f, Type[o].init) = <<>>
    <3>1. Payload(f, Type[o].init) = Pack(Type[o].init) BY <1>5, <2>4, PayloadCases
    <3> QED BY <2>2, <3>1, InitialPacks
  <2>11. Type[o].init \in AnyValue BY <2>2, <2>3 DEF AnyValue
  <2> QED BY <2>4, <2>5, <2>6, <2>8, <2>9, <2>10, <2>11 DEF f
<1>6. CASE f.type # "MESSAGE" /\ v = NULL
  <2>1. f.label = "REQUIRED" /\ f.type = "STRING"
    <3>1. v \notin Member(f)
      <4>1. \A x \in Scalars(f.type) : x # NULL BY ScalarsType
      <4> QED BY <1>6, <4>1 DEF Member
    <3> QED BY <1>1, <1>6, <3>1
  <2>2. Empty # NULL /\ Empty \in AnyValue BY ScalarsAssumption, NullAssumption DEF AnyValue
  <2>3. SeenValue(f, v) = Empty BY <1>6, <2>1, SeenValueCases
  <2>4. Payload(f, v) = Empty BY <1>6, <2>1, PayloadCases
  <2>5. Payload(f, Empty) = Empty BY <1>6, <2>2, PayloadCases
  <2>6. PartOK(f, v) BY <1>6 DEF PartOK
  <2>7. Got(f, v) = Empty BY <1>6, <2>4 DEF Got
  <2> QED BY <2>2, <2>3, <2>4, <2>5, <2>6, <2>7 DEF f
<1>7. CASE f.type # "MESSAGE" /\ v # NULL
  <2>1. SeenValue(f, v) = v BY <1>7, SeenValueCases
  <2>2. Payload(f, v) = v BY <1>7, PayloadCases
  <2>3. Got(f, v) = v BY <1>7, <2>2 DEF Got
  <2>4. PartOK(f, v) BY <1>7 DEF PartOK
  <2>5. v \in AnyValue
    <3>1. v \in Scalars(f.type) BY <1>1, <1>7 DEF Member
    <3> QED BY <3>1, ScalarsType DEF AnyValue
  <2> QED BY <1>7, <2>1, <2>2, <2>3, <2>4, <2>5 DEF f
<1> QED BY <1>4, <1>5, <1>6, <1>7

\* The sub-messages of a member round-trip.
PartsRoundTrip(m, f) == \A v \in SubMessages(m, f) : RoundTrip(f.of, v)

\* The values of a packed member are refused exactly when the member is not
\* complete, and otherwise set what a receiver should see.
LEMMA FieldSeen ==
    ASSUME NEW t \in DOMAIN Type, NEW m, StructOK(t, m),
           NEW i \in 1 .. Len(Type[t].descriptor.fields),
           PartsRoundTrip(m, Type[t].descriptor.fields[i]),
           NEW w, Type[t].descriptor.fields[i].name \notin w
    PROVE  LET f == Type[t].descriptor.fields[i]
               g == PartGiven(m, f)
           IN  /\ Refuses(f, g) <=> ~CompleteMember(m, f)
               /\ CompleteMember(m, f) => MemberOf(f, g, Type[t].init) = SeenMember(m, f, w)
               /\ f.has # Empty => (g # <<>>) = m[f.has]
               /\ SeenMember(m, f, w) \in AnyMember
<1> DEFINE f == Type[t].descriptor.fields[i]
           initial == Type[t].init
           value == m[f.name]
           g == PartGiven(m, f)
<1>1. FieldOK(f, initial) BY TableFacts
<1>2. /\ f.label = "REPEATED" => value \in Seq(Member(f))
      /\ f.has # Empty => value \in Member(f) /\ m[f.has] \in BOOLEAN
      /\ f.label # "REPEATED" /\ f.has = Empty =>
             value \in Member(f) \/ (value = NULL /\ f.type \in {"MESSAGE", "STRING"})
  BY StructMembers
<1>3. ASSUME NEW v, \/ v \in Member(f)
                    \/ v = NULL /\ f.label = "REQUIRED" /\ f.type \in {"MESSAGE", "STRING"},
                    f.type = "MESSAGE" /\ v # NULL => RoundTrip(f.of, v)
      PROVE  /\ Got(f, v) = IF PartOK(f, v) THEN SeenValue(f, v) ELSE NULL
             /\ SeenValue(f, v) # NULL /\ SeenValue(f, v) \in AnyValue
  BY <1>3, GotMember
<1>4. f.name \notin w /\ PartsRoundTrip(m, f) OBVIOUS
<1>5. m.base.descriptor = t BY StructPacks DEF Packs
<1>6. ~(f.has # Empty /\ ~m[f.has]) =>
        SeenMember(m, f, w) = IF f.label = "REPEATED" THEN [k \in DOMAIN value |-> SeenValue(f, value[k])]
                              ELSE SeenValue(f, value)
  BY <1>4 DEF SeenMember
<1>7. f.has # Empty /\ ~m[f.has] => SeenMember(m, f, w) = initial[f.name]
  BY <1>5 DEF SeenMember
<1>8. StructOK(t, initial) BY StructsAssumption, Recursion
<1>9. initial[f.name] \in AnyMember BY <1>1, <1>8, StructAny DEF FieldOK
<1>10. AnyValue \subseteq AnyMember /\ NULL \in AnyMember /\ Seq(AnyValue) \subseteq AnyMember
  BY DEF AnyMember, AnyValue
<1> HIDE DEF f, initial
<1>11. CASE f.label = "REPEATED"
  <2>1. f.has = Empty /\ value \in Seq(Member(f)) BY <1>1, <1>2, <1>11 DEF FieldOK
  <2>2. /\ Len(value) \in Nat /\ DOMAIN value = 1 .. Len(value)
        /\ \A k \in 1 .. Len(value) : value[k] \in Member(f)
    BY <2>1, LenProperties, ElementOfSeq
  <2>3. g = [k \in DOMAIN value |-> Got(f, value[k])] BY <1>11, PackFieldCases
  <2> DEFINE see == [k \in DOMAIN value |-> SeenValue(f, value[k])]
  <2>4. SeenMember(m, f, w) = see BY <1>6, <1>11, <2>1
  <2>5. g = [k \in 1 .. Len(value) |-> g[k]] /\ see = [k \in 1 .. Len(value) |-> see[k]]
    BY <2>2, <2>3
  <2>6. \A k \in 1 .. Len(value) : g[k] = Got(f, value[k]) /\ see[k] = SeenValue(f, value[k])
    BY <2>2, <2>3
  <2>7. ASSUME NEW k \in 1 .. Len(value)
        PROVE  /\ g[k] = IF PartOK(f, value[k]) THEN see[k] ELSE NULL
               /\ see[k] # NULL /\ see[k] \in AnyValue
    <3>1. f.type = "MESSAGE" => value[k] \in SubMessages(m, f)
      BY <1>11, <2>2 DEF SubMessages
    <3>2. f.type = "MESSAGE" => RoundTrip(f.of, value[k]) BY <1>4, <3>1 DEF PartsRoundTrip
    <3> HIDE DEF value, g, see
    <3> QED BY <1>3, <2>2, <2>6, <3>2
  <2>8. CompleteMember(m, f) <=> \A k \in 1 .. Len(value) : PartOK(f, value[k])
    <3>1. ASSUME NEW k \in 1 .. Len(value) PROVE PartOK(f, value[k]) <=> (f.type = "MESSAGE" => CompletePart(value[k]))
      <4>1. f.type = "MESSAGE" => value[k] # NULL
        <5>1. f.type = "MESSAGE" => f.of \in DOMAIN Type BY <1>1 DEF FieldOK
        <5>2. f.type = "MESSAGE" => value[k] \in Structs(f.of) BY <2>2 DEF Member
        <5> QED BY <5>1, <5>2, Recursion
      <4> QED BY <4>1 DEF PartOK
    <3>2. CompleteMember(m, f) <=> (f.type = "MESSAGE" => \A k \in DOMAIN value : CompletePart(value[k]))
      BY <1>11 DEF CompleteMember
    <3> HIDE DEF value
    <3> QED BY <2>2, <3>1, <3>2
  <2> HIDE DEF value, g, see
  <2>9. Sequence(g) /\ Len(g) = Len(value) BY <2>2, <2>5, FunctionIsSequence
  <2>10. Refuses(f, g) <=> \E k \in 1 .. Len(value) : g[k] = NULL
    BY <1>11, <2>9 DEF Refuses, Contains
  <2>11. Refuses(f, g) <=> ~CompleteMember(m, f) BY <2>7, <2>8, <2>10
  <2>12. CompleteMember(m, f) => g = see BY <2>5, <2>7, <2>8
  <2>13. MemberOf(f, g, initial) = g BY <1>11 DEF MemberOf
  <2>14. see \in AnyMember
    <3>1. see \in [1 .. Len(value) -> AnyValue] BY <2>5, <2>7
    <3>2. see \in Seq(AnyValue) BY <2>2, <3>1, SeqDef
    <3> QED BY <1>10, <3>2
  <2> QED BY <2>1, <2>4, <2>11, <2>12, <2>13, <2>14 DEF g, f, initial
<1>12. CASE f.label = "OPTIONAL" /\ ~IsSet(m, f)
  <2>1. g = <<>> BY <1>12, PackFieldCases
  <2>2. f.has = Empty => value = NULL BY <1>12 DEF IsSet
  <2>3. f.has # Empty => m[f.has] = FALSE BY <1>2, <1>12 DEF IsSet
  <2>4. ~Refuses(f, <<>>) BY <1>12, SequenceEmpty DEF Refuses, Contains
  <2>5. CompleteMember(m, f)
    <3>1. f.type = "MESSAGE" => f.has = Empty BY <1>1 DEF FieldOK
    <3> QED BY <1>12, <2>2, <3>1 DEF CompleteMember
  <2>6. MemberOf(f, <<>>, initial) = initial[f.name] BY <1>12 DEF MemberOf
  <2>7. SeenMember(m, f, w) = initial[f.name]
    <3>1. CASE f.has # Empty BY <1>7, <2>3, <3>1
    <3>2. CASE f.has = Empty
      <4>1. initial[f.name] = NULL BY <1>1, <1>12, <3>2 DEF FieldOK
      <4>2. SeenValue(f, value) = NULL BY <1>12, <2>2, <3>2, SeenValueCases
      <4>3. SeenMember(m, f, w) = SeenValue(f, value) BY <1>6, <1>12, <3>2
      <4> QED BY <4>1, <4>2, <4>3
    <3> QED BY <3>1, <3>2
  <2> HIDE DEF g, value
  <2>8. f.has # Empty => (g # <<>>) = m[f.has] BY <2>1, <2>3
  <2> QED BY <1>9, <2>1, <2>4, <2>5, <2>6, <2>7, <2>8 DEF g, f, initial
<1>13. CASE f.label # "REPEATED" /\ ~(f.label = "OPTIONAL" /\ ~IsSet(m, f))
  <2>1. g = <<Got(f, value)>> BY <1>13, PackFieldCases
  <2>2. f.label = "REQUIRED" \/ (f.label = "OPTIONAL" /\ IsSet(m, f)) BY <1>1, <1>13 DEF FieldOK
  <2>3. f.has # Empty => m[f.has] = TRUE BY <1>1, <1>2, <2>2 DEF FieldOK, IsSet
  <2>4. \/ value \in Member(f)
        \/ value = NULL /\ f.label = "REQUIRED" /\ f.type \in {"MESSAGE", "STRING"}
    BY <1>1, <1>2, <1>13, <2>2 DEF IsSet
  <2>5. f.type = "MESSAGE" /\ value # NULL => RoundTrip(f.of, value)
    BY <1>4, <1>13 DEF PartsRoundTrip, SubMessages
  <2>6. /\ Got(f, value) = IF PartOK(f, value) THEN SeenValue(f, value) ELSE NULL
        /\ SeenValue(f, value) # NULL /\ SeenValue(f, value) \in AnyValue
    <3> HIDE DEF value
    <3> QED BY <1>3, <2>4, <2>5
  <2>7. CompleteMember(m, f) <=> PartOK(f, value)
    <3>1. value = NULL => f.label = "REQUIRED" \/ f.type # "MESSAGE"
      <4>1. f.type = "MESSAGE" => f.of \in DOMAIN Type BY <1>1 DEF FieldOK
      <4>2. f.type = "MESSAGE" /\ value \in Member(f) => value # NULL
        BY <4>1, Recursion DEF Member
      <4> QED BY <2>4, <4>2
    <3> QED BY <1>13, <3>1 DEF CompleteMember, PartOK, NothingRequired
  <2>8. SeenMember(m, f, w) = SeenValue(f, value) BY <1>6, <1>13, <2>3
  <2> DEFINE x == Got(f, value)
  <2>9. Sequence(<<x>>) /\ Len(<<x>>) = 1 /\ <<x>>[1] = x BY SequenceOne
  <2> HIDE DEF x, value
  <2>10. Refuses(f, <<x>>) <=> x = NULL BY <2>9 DEF Refuses, Contains
  <2>11. MemberOf(f, <<x>>, initial) = x BY <1>13, <2>9 DEF MemberOf, Last
  <2>12. g = <<x>> BY <2>1 DEF x
  <2> HIDE DEF g
  <2>13. f.has # Empty => (g # <<>>) = m[f.has] BY <2>3, <2>12
  <2>14. SeenMember(m, f, w) \in AnyMember BY <1>10, <2>6, <2>8
  <2> QED BY <2>6, <2>7, <2>8, <2>10, <2>11, <2>12, <2>13, <2>14 DEF g, x, f, initial
<1> QED BY <1>11, <1>12, <1>13

-----------------------------------------------------------------------------
(* What a receiver sees of a packed struct.                                *)

\* A struct has what a receiver should see of each member.
ShowsMembers(s, t, m, w) ==
    LET d == Type[t].descriptor IN
    /\ s = [name \in DOMAIN Type[t].init |-> s[name]]
    /\ \A i \in 1 .. Len(d.fields) :
        /\ s[d.fields[i].name] = SeenMember(m, d.fields[i], w)
        /\ d.fields[i].has # Empty /\ d.fields[i].name \in w => s[d.fields[i].has] = FALSE
        /\ d.fields[i].has # Empty /\ d.fields[i].name \notin w =>
            s[d.fields[i].has] = m[d.fields[i].has]

\* SeenWithout shows every member.
LEMMA SeenCases ==
    ASSUME NEW t \in DOMAIN Type, NEW m, StructOK(t, m), NEW w
    PROVE  ShowsMembers(SeenWithout(m, w), t, m, w) /\ SeenWithout(m, w).base = m.base
<1> DEFINE d == Type[t].descriptor
           initial == Type[t].init
           n == Len(d.fields)
           own(name) == {f \in Fields(t) : f.name = name}
           switch(name) == {f \in Fields(t) : f.has = name}
           pick(name) == CHOOSE f \in own(name) : TRUE
           s == SeenWithout(m, w)
<1>1. /\ DOMAIN m = DOMAIN initial /\ m.base.descriptor = t
  <2>1. m = [name \in DOMAIN initial |-> m[name]] BY StructMembers
  <2>2. m.base.descriptor = t BY StructPacks DEF Packs
  <2> QED BY <2>1, <2>2
<1>2. /\ InitialOK(t, initial, d, n) /\ NamesOK(d, n) /\ \A i \in 1 .. n : FieldOK(d.fields[i], initial)
  BY TableFacts
<1>3. Fields(t) = {d.fields[i] : i \in 1 .. n} BY FieldsByIndex
<1>4. s = [name \in DOMAIN initial |->
              IF own(name) # {} THEN SeenMember(m, pick(name), w)
              ELSE IF \E f \in switch(name) : f.name \in w THEN FALSE
              ELSE m[name]]
  BY <1>1 DEF SeenWithout
<1> HIDE DEF s, initial, d, n
<1>5. s.base = m.base
  <2>1. "base" \in DOMAIN initial BY <1>2 DEF InitialOK
  <2>2. own("base") = {} BY <1>2, <1>3 DEF FieldOK
  <2>3. switch("base") = {}
    <3>1. \A i \in 1 .. n : d.fields[i].has # "base"
      <4>1. Empty # "base" BY Zenon DEF Empty
      <4> QED BY <1>2, <4>1 DEF FieldOK
    <3> QED BY <1>3, <3>1
  <2> HIDE DEF own, switch, pick
  <2> QED BY <1>4, <2>1, <2>2, <2>3
<1>6. ASSUME NEW i \in 1 .. n PROVE s[d.fields[i].name] = SeenMember(m, d.fields[i], w)
  <2>1. d.fields[i].name \in DOMAIN initial BY <1>2 DEF FieldOK
  <2>2. own(d.fields[i].name) = {d.fields[i]} BY <1>2, <1>3 DEF NamesOK
  <2>3. pick(d.fields[i].name) = d.fields[i] /\ own(d.fields[i].name) # {} BY <2>2
  <2> HIDE DEF own, switch, pick
  <2> QED BY <1>4, <2>1, <2>3
<1>7. ASSUME NEW i \in 1 .. n, d.fields[i].has # Empty
      PROVE  /\ d.fields[i].name \in w => s[d.fields[i].has] = FALSE
             /\ d.fields[i].name \notin w => s[d.fields[i].has] = m[d.fields[i].has]
  <2>1. d.fields[i].has \in DOMAIN initial BY <1>2, <1>7 DEF FieldOK
  <2>2. own(d.fields[i].has) = {} BY <1>2, <1>3 DEF NamesOK
  <2>3. switch(d.fields[i].has) = {d.fields[i]} BY <1>2, <1>3, <1>7 DEF NamesOK
  <2>4. (\E f \in switch(d.fields[i].has) : f.name \in w) <=> d.fields[i].name \in w BY <2>3
  <2> HIDE DEF own, switch, pick
  <2>5. CASE d.fields[i].name \in w BY <1>4, <2>1, <2>2, <2>4, <2>5
  <2>6. CASE d.fields[i].name \notin w BY <1>4, <2>1, <2>2, <2>4, <2>6
  <2> QED BY <2>5, <2>6
<1>8. s = [name \in DOMAIN initial |-> s[name]] BY <1>4
<1>9. ShowsMembers(s, t, m, w) BY <1>6, <1>7, <1>8 DEF ShowsMembers, initial, d, n
<1> QED BY <1>5, <1>9 DEF s

\* What is left of a packed message without the fields in w, with the unknown
\* fields u.
Left(t, m, w, u) ==
    LET fields == Type[t].descriptor.fields IN
    [i \in 0 .. Len(fields) |->
        IF i = 0 THEN u ELSE IF fields[i].name \in w THEN <<>> ELSE PartGiven(m, fields[i])]

\* No required member is missing, and no part is incomplete.
Accepts(t, m, w) ==
    \A f \in Fields(t) : IF f.name \in w THEN f.label # "REQUIRED" ELSE CompleteMember(m, f)

\* What a receiver sees then.
SeenAs(m, w, u) == [SeenWithout(m, w) EXCEPT !.base.unknown_fields = u]

\* SeenAs shows every member, and the unknown fields.
LEMMA SeenAsCases ==
    ASSUME NEW t \in DOMAIN Type, NEW m, StructOK(t, m), NEW w, NEW u
    PROVE  /\ ShowsMembers(SeenAs(m, w, u), t, m, w)
           /\ SeenAs(m, w, u).base = [descriptor |-> t, unknown_fields |-> u]
<1> DEFINE d == Type[t].descriptor
           initial == Type[t].init
           n == Len(d.fields)
           r == SeenWithout(m, w)
           s == SeenAs(m, w, u)
           known == m.base.unknown_fields
<1>a. ShowsMembers(r, t, m, w) /\ r.base = m.base BY SeenCases
<1>2. m.base = [descriptor |-> t, unknown_fields |-> known] BY StructMembers
<1>3. /\ InitialOK(t, initial, d, n) /\ \A i \in 1 .. n : FieldOK(d.fields[i], initial)
  BY TableFacts
<1>4. s = [r EXCEPT !.base.unknown_fields = u] BY DEF SeenAs
<1> HIDE DEF s, r, known
<1>1. /\ r = [name \in DOMAIN initial |-> r[name]]
      /\ \A i \in 1 .. n :
            /\ r[d.fields[i].name] = SeenMember(m, d.fields[i], w)
            /\ d.fields[i].has # Empty /\ d.fields[i].name \in w => r[d.fields[i].has] = FALSE
            /\ d.fields[i].has # Empty /\ d.fields[i].name \notin w =>
                r[d.fields[i].has] = m[d.fields[i].has]
  BY <1>a DEF ShowsMembers
<1> HIDE DEF initial, d, n
<1>5. "base" \in DOMAIN initial BY <1>3 DEF InitialOK
<1>6. s.base = [r.base EXCEPT !.unknown_fields = u] BY <1>1, <1>4, <1>5
<1>7. s.base = [descriptor |-> t, unknown_fields |-> u] BY <1>a, <1>2, <1>6
<1>8. \A name \in DOMAIN initial : name # "base" => s[name] = r[name] BY <1>1, <1>4
<1>9. s = [name \in DOMAIN initial |-> s[name]] BY <1>1, <1>4
<1>10. ASSUME NEW i \in 1 .. n
       PROVE /\ s[d.fields[i].name] = r[d.fields[i].name]
             /\ d.fields[i].has # Empty => s[d.fields[i].has] = r[d.fields[i].has]
  BY <1>3, <1>8 DEF FieldOK
<1>11. ShowsMembers(s, t, m, w) BY <1>1, <1>9, <1>10 DEF ShowsMembers, initial, d, n
<1> QED BY <1>7, <1>11 DEF s

\* Only fields that are not repeated are dropped.
MayDrop(t, w) ==
    LET fields == Type[t].descriptor.fields IN
    \A i \in 1 .. Len(fields) : fields[i].name \in w => fields[i].label # "REPEATED"

\* What is left is unpacked to what a receiver should see, or refused.
LEMMA StructSeen ==
    ASSUME NEW t \in DOMAIN Type, NEW m, StructOK(t, m), NEW w, MayDrop(t, w), NEW u,
           \A i \in 1 .. Len(Type[t].descriptor.fields) : PartsRoundTrip(m, Type[t].descriptor.fields[i])
    PROVE  Struct(Type[t].descriptor, Left(t, m, w, u)) = IF Accepts(t, m, w) THEN SeenAs(m, w, u) ELSE NULL
<1> DEFINE d == Type[t].descriptor
           initial == Type[t].init
           n == Len(d.fields)
           left == Left(t, m, w, u)
           s == SeenAs(m, w, u)
           r == Struct(d, left)
<1>1. /\ n \in Nat /\ DOMAIN d.fields = 1 .. n
      /\ InitialOK(t, initial, d, n) /\ \A i \in 1 .. n : FieldOK(d.fields[i], initial)
  BY TableFacts
<1>2. Fields(t) = {d.fields[i] : i \in 1 .. n} BY FieldsByIndex
<1>3. left = [i \in 0 .. n |-> IF i = 0 THEN u ELSE IF d.fields[i].name \in w THEN <<>>
                               ELSE PartGiven(m, d.fields[i])]
  BY DEF Left
<1>a. ShowsMembers(s, t, m, w) /\ s.base = [descriptor |-> t, unknown_fields |-> u]
  BY SeenAsCases
<1>4. /\ s = [name \in DOMAIN initial |-> s[name]]
      /\ \A i \in 1 .. n :
            /\ s[d.fields[i].name] = SeenMember(m, d.fields[i], w)
            /\ d.fields[i].has # Empty /\ d.fields[i].name \in w => s[d.fields[i].has] = FALSE
            /\ d.fields[i].has # Empty /\ d.fields[i].name \notin w =>
                s[d.fields[i].has] = m[d.fields[i].has]
  <2> HIDE DEF s
  <2> QED BY <1>a DEF ShowsMembers
<1>5. ASSUME NEW i \in 1 .. n, d.fields[i].name \notin w
      PROVE  LET f == d.fields[i]
                 g == PartGiven(m, f)
             IN  /\ Refuses(f, g) <=> ~CompleteMember(m, f)
                 /\ CompleteMember(m, f) => MemberOf(f, g, initial) = SeenMember(m, f, w)
                 /\ f.has # Empty => (g # <<>>) = m[f.has]
  BY <1>5, FieldSeen
<1>6. ASSUME NEW i \in 1 .. n, d.fields[i].name \in w
      PROVE  LET f == d.fields[i]
             IN  /\ Refuses(f, <<>>) <=> f.label = "REQUIRED"
                 /\ MemberOf(f, <<>>, initial) = SeenMember(m, f, w)
  <2>1. d.fields[i].label # "REPEATED" BY <1>6 DEF MayDrop
  <2>2. m.base.descriptor = t BY StructPacks DEF Packs
  <2>3. ~Contains(<<>>, NULL) BY SequenceEmpty DEF Contains
  <2> HIDE DEF d
  <2>4. Refuses(d.fields[i], <<>>) <=> d.fields[i].label = "REQUIRED" BY <2>3 DEF Refuses
  <2>5. MemberOf(d.fields[i], <<>>, initial) = initial[d.fields[i].name] BY <2>1 DEF MemberOf
  <2>6. SeenMember(m, d.fields[i], w) = initial[d.fields[i].name] BY <1>6, <2>2 DEF SeenMember
  <2> QED BY <2>4, <2>5, <2>6
<1>7. /\ left[0] = u
      /\ \A i \in 1 .. n : left[i] = IF d.fields[i].name \in w THEN <<>> ELSE PartGiven(m, d.fields[i])
  <2>1. 0 \in 0 .. n /\ \A i \in 1 .. n : i \in 0 .. n /\ i # 0 BY <1>1
  <2> HIDE DEF left, d, n
  <2> QED BY <1>3, <2>1
<1>8. \A i \in 1 .. n : Refuses(d.fields[i], left[i]) <=>
            ~(IF d.fields[i].name \in w THEN d.fields[i].label # "REQUIRED"
              ELSE CompleteMember(m, d.fields[i]))
  <2> HIDE DEF left, d, n
  <2> QED BY <1>5, <1>6, <1>7
<1>9. CASE ~Accepts(t, m, w)
  <2>1. PICK i \in 1 .. n : ~(IF d.fields[i].name \in w THEN d.fields[i].label # "REQUIRED"
                              ELSE CompleteMember(m, d.fields[i]))
    BY <1>2, <1>9 DEF Accepts
  <2>2. Refuses(d.fields[i], left[i]) BY <1>8, <2>1
  <2>3. r = NULL BY <1>1, <2>2, StructRefused
  <2> QED BY <1>9, <2>3
<1>10. CASE Accepts(t, m, w)
  <2>1. \A i \in 1 .. n : IF d.fields[i].name \in w THEN d.fields[i].label # "REQUIRED"
                          ELSE CompleteMember(m, d.fields[i])
    BY <1>2, <1>10 DEF Accepts
  <2>2. \A i \in 1 .. n : ~Refuses(d.fields[i], left[i]) BY <1>8, <2>1
  <2>3. /\ r = [name \in DOMAIN initial |-> r[name]]
        /\ r.base = [descriptor |-> t, unknown_fields |-> left[0]]
        /\ \A i \in 1 .. n :
             /\ r[d.fields[i].name] = MemberOf(d.fields[i], left[i], initial)
             /\ d.fields[i].has # Empty => r[d.fields[i].has] = (left[i] # <<>>)
    BY <2>2, StructAccepted
  <2> HIDE DEF r, s, left, d, n, initial
  <2>4. r.base = s.base BY <1>a, <1>7, <2>3
  <2>5. ASSUME NEW i \in 1 .. n PROVE r[d.fields[i].name] = s[d.fields[i].name]
    <3>1. r[d.fields[i].name] = MemberOf(d.fields[i], left[i], initial) BY <2>3
    <3>2. s[d.fields[i].name] = SeenMember(m, d.fields[i], w) BY <1>4
    <3>3. CASE d.fields[i].name \in w BY <1>6, <1>7, <3>1, <3>2, <3>3
    <3>4. CASE d.fields[i].name \notin w BY <1>5, <1>7, <2>1, <3>1, <3>2, <3>4
    <3> QED BY <3>3, <3>4
  <2>6. ASSUME NEW i \in 1 .. n, d.fields[i].has # Empty PROVE r[d.fields[i].has] = s[d.fields[i].has]
    <3>1. CASE d.fields[i].name \in w
      <4>1. left[i] = <<>> BY <1>7, <3>1
      <4>2. r[d.fields[i].has] = FALSE BY <2>3, <2>6, <4>1
      <4> QED BY <1>4, <2>6, <3>1, <4>2
    <3>2. CASE d.fields[i].name \notin w
      <4>1. left[i] = PartGiven(m, d.fields[i]) BY <1>7, <3>2
      <4>2. r[d.fields[i].has] = m[d.fields[i].has] BY <1>5, <2>3, <2>6, <3>2, <4>1
      <4> QED BY <1>4, <2>6, <3>2, <4>2
    <3> QED BY <3>1, <3>2
  <2>7. \A name \in DOMAIN initial : r[name] = s[name] BY <1>1, <2>4, <2>5, <2>6 DEF InitialOK
  <2>8. r = s BY <1>4, <2>3, <2>7
  <2> QED BY <1>10, <2>8 DEF r, s, left, d
<1> QED BY <1>9, <1>10

\* A member that was seen packs like the one that was sent.
LEMMA FieldPacked ==
    ASSUME NEW t \in DOMAIN Type, NEW m, StructOK(t, m),
           NEW i \in 1 .. Len(Type[t].descriptor.fields),
           PartsRoundTrip(m, Type[t].descriptor.fields[i]),
           NEW w, MayDrop(t, w), Accepts(t, m, w), NEW s, ShowsMembers(s, t, m, w)
    PROVE  LET f == Type[t].descriptor.fields[i] IN
           /\ PackField(s, f) = IF f.name \in w THEN <<>> ELSE PackField(m, f)
           /\ f.label = "REPEATED" => Sequence(s[f.name])
<1> DEFINE f == Type[t].descriptor.fields[i]
           initial == Type[t].init
           value == m[f.name]
<1>1. FieldOK(f, initial) BY TableFacts
<1>2. /\ f.label = "REPEATED" => value \in Seq(Member(f))
      /\ f.has # Empty => value \in Member(f) /\ m[f.has] \in BOOLEAN
      /\ f.label # "REPEATED" /\ f.has = Empty =>
             value \in Member(f) \/ (value = NULL /\ f.type \in {"MESSAGE", "STRING"})
  BY StructMembers
<1>3. ASSUME NEW v, \/ v \in Member(f)
                    \/ v = NULL /\ f.label = "REQUIRED" /\ f.type \in {"MESSAGE", "STRING"},
                    f.type = "MESSAGE" /\ v # NULL => RoundTrip(f.of, v)
      PROVE  /\ PartOK(f, v) => Payload(f, SeenValue(f, v)) = Payload(f, v)
             /\ SeenValue(f, v) # NULL
  BY <1>3, GotMember
<1>4. PartsRoundTrip(m, f) OBVIOUS
<1>5. m.base.descriptor = t BY StructPacks DEF Packs
<1>6. /\ s[f.name] = SeenMember(m, f, w)
      /\ f.has # Empty /\ f.name \in w => s[f.has] = FALSE
      /\ f.has # Empty /\ f.name \notin w => s[f.has] = m[f.has]
  BY DEF ShowsMembers
<1>7. IF f.name \in w THEN f.label # "REQUIRED" ELSE CompleteMember(m, f)
  BY FieldsByIndex DEF Accepts
<1>8. f.name \in w => f.label # "REPEATED" BY DEF MayDrop
<1>9. SeenMember(m, f, w) =
        IF f.name \in w \/ (f.has # Empty /\ ~m[f.has]) THEN initial[f.name]
        ELSE IF f.label = "REPEATED" THEN [k \in DOMAIN value |-> SeenValue(f, value[k])]
        ELSE SeenValue(f, value)
  BY <1>5 DEF SeenMember
<1>s. f.type = "MESSAGE" => f.of \in DOMAIN Type BY <1>1 DEF FieldOK
<1> HIDE DEF f, initial
<1>10. CASE f.name \in w
  <2>1. f.label = "OPTIONAL" BY <1>1, <1>7, <1>8, <1>10 DEF FieldOK
  <2>2. ~IsSet(s, f) BY <1>1, <1>6, <1>9, <1>10, <2>1 DEF IsSet, FieldOK
  <2>3. PackField(s, f) = <<>> BY <2>1, <2>2, PackFieldCases
  <2> QED BY <1>10, <2>1, <2>3 DEF f
<1>11. CASE f.name \notin w /\ f.label = "REPEATED"
  <2>1. f.has = Empty /\ value \in Seq(Member(f)) BY <1>1, <1>2, <1>11 DEF FieldOK
  <2>2. /\ Len(value) \in Nat /\ DOMAIN value = 1 .. Len(value)
        /\ \A k \in 1 .. Len(value) : value[k] \in Member(f)
    BY <2>1, LenProperties, ElementOfSeq
  <2> DEFINE see == [k \in 1 .. Len(value) |-> SeenValue(f, value[k])]
  <2>3. s[f.name] = see BY <1>6, <1>9, <1>11, <2>1, <2>2
  <2>4. /\ DOMAIN see = 1 .. Len(value)
        /\ \A k \in 1 .. Len(value) : see[k] = SeenValue(f, value[k]) OBVIOUS
  <2>5. see = [k \in 1 .. Len(value) |-> see[k]] OBVIOUS
  <2>6. ASSUME NEW k \in 1 .. Len(value) PROVE Payload(f, see[k]) = Payload(f, value[k])
    <3>1. f.type = "MESSAGE" => value[k] \in SubMessages(m, f)
      BY <1>11, <2>2 DEF SubMessages
    <3>2. f.type = "MESSAGE" => RoundTrip(f.of, value[k]) BY <1>4, <3>1 DEF PartsRoundTrip
    <3>3. f.type = "MESSAGE" => CompletePart(value[k]) BY <1>7, <1>11, <2>2 DEF CompleteMember
    <3>4. f.type = "MESSAGE" => value[k] # NULL
      <4>1. f.type = "MESSAGE" => value[k] \in Structs(f.of) BY <2>2 DEF Member
      <4> QED BY <1>s, <4>1, Recursion
    <3>5. PartOK(f, value[k]) BY <3>3, <3>4 DEF PartOK
    <3>6. Payload(f, SeenValue(f, value[k])) = Payload(f, value[k])
      <4> HIDE DEF value, see
      <4> QED BY <1>3, <2>2, <3>2, <3>5
    <3> QED BY <2>4, <3>6
  <2> DEFINE x == [k \in DOMAIN see |-> Entry(f, Payload(f, see[k]))]
             y == [k \in DOMAIN value |-> Entry(f, Payload(f, value[k]))]
  <2>7. x = y BY <2>2, <2>4, <2>6
  <2>8. PackField(m, f) = y BY <1>11, PackFieldCases
  <2>9. PackField(s, f) = x
    <3>1. PackField(s, f) = [k \in DOMAIN s[f.name] |-> Entry(f, Payload(f, s[f.name][k]))]
      BY <1>11, PackFieldCases
    <3> HIDE DEF see
    <3> QED BY <2>3, <3>1
  <2> HIDE DEF see
  <2>10. Sequence(s[f.name]) BY <2>2, <2>3, <2>5, FunctionIsSequence
  <2> QED BY <1>11, <2>7, <2>8, <2>9, <2>10 DEF f
<1>12. CASE f.name \notin w /\ f.label = "OPTIONAL" /\ ~IsSet(m, f)
  <2>1. ~IsSet(s, f)
    <3>1. CASE f.has # Empty BY <1>6, <1>12, <3>1 DEF IsSet
    <3>2. CASE f.has = Empty
      <4>1. value = NULL BY <1>12, <3>2 DEF IsSet
      <4>2. s[f.name] = SeenValue(f, value) BY <1>6, <1>9, <1>12, <3>2
      <4>3. SeenValue(f, value) = NULL BY <1>12, <4>1, SeenValueCases
      <4> QED BY <3>2, <4>2, <4>3 DEF IsSet
    <3> QED BY <3>1, <3>2
  <2>2. PackField(s, f) = <<>> /\ PackField(m, f) = <<>> BY <1>12, <2>1, PackFieldCases
  <2> QED BY <1>12, <2>2 DEF f
<1>13. CASE f.name \notin w /\ f.label # "REPEATED" /\ ~(f.label = "OPTIONAL" /\ ~IsSet(m, f))
  <2>2. f.label = "REQUIRED" \/ (f.label = "OPTIONAL" /\ IsSet(m, f)) BY <1>1, <1>13 DEF FieldOK
  <2>3. f.has # Empty => m[f.has] = TRUE BY <1>1, <1>2, <2>2 DEF FieldOK, IsSet
  <2>4. \/ value \in Member(f)
        \/ value = NULL /\ f.label = "REQUIRED" /\ f.type \in {"MESSAGE", "STRING"}
    BY <1>1, <1>2, <1>13, <2>2 DEF IsSet
  <2>5. f.type = "MESSAGE" /\ value # NULL => RoundTrip(f.of, value)
    BY <1>4, <1>13 DEF PartsRoundTrip, SubMessages
  <2>6. s[f.name] = SeenValue(f, value) BY <1>6, <1>9, <1>13, <2>3
  <2>7. PartOK(f, value)
    <3>1. value = NULL => f.label = "REQUIRED" \/ f.type # "MESSAGE"
      <4>1. f.type = "MESSAGE" /\ value \in Member(f) => value # NULL
        BY <1>s, Recursion DEF Member
      <4> QED BY <2>4, <4>1
    <3> QED BY <1>7, <1>13, <3>1 DEF CompleteMember, PartOK, NothingRequired
  <2>8. /\ Payload(f, SeenValue(f, value)) = Payload(f, value) /\ SeenValue(f, value) # NULL
    <3> HIDE DEF value
    <3> QED BY <1>3, <2>4, <2>5, <2>7
  <2>9. f.label = "OPTIONAL" => IsSet(s, f) BY <1>6, <1>13, <2>3, <2>6, <2>8 DEF IsSet
  <2>10. PackField(m, f) = <<Entry(f, Payload(f, value))>> BY <1>13, PackFieldCases
  <2>11. PackField(s, f) = <<Entry(f, Payload(f, s[f.name]))>> BY <1>13, <2>9, PackFieldCases
  <2> QED BY <1>13, <2>6, <2>8, <2>10, <2>11 DEF f
<1>14. f.label \in {"REQUIRED", "OPTIONAL", "REPEATED"} BY <1>1 DEF FieldOK
<1> QED BY <1>10, <1>11, <1>12, <1>13, <1>14

\* Structs whose members pack alike pack alike.
LEMMA PackAlike ==
    ASSUME NEW t \in DOMAIN Type, NEW m, NEW s,
           m.base.descriptor = t, s.base.descriptor = t, Sequence(m.base.unknown_fields),
           s.base.unknown_fields = m.base.unknown_fields,
           \A i \in 1 .. Len(Type[t].descriptor.fields) :
             PackField(s, Type[t].descriptor.fields[i]) = PackField(m, Type[t].descriptor.fields[i]),
           \A i \in 1 .. Len(Type[t].descriptor.fields) :
             Sequence(PackField(m, Type[t].descriptor.fields[i]))
    PROVE  Pack(s) = Pack(m)
<1> DEFINE fields == Type[t].descriptor.fields
<1>1. Sequence(fields) BY TableFacts
<1>2. Packed(fields, s) = Packed(fields, m) BY DEF Packed
<1>3. Pack(s) = FlattenSeq(Packed(fields, s)) \o s.base.unknown_fields BY <1>1, PackFlattens
<1>4. Pack(m) = FlattenSeq(Packed(fields, m)) \o m.base.unknown_fields BY <1>1, PackFlattens
<1> QED BY <1>2, <1>3, <1>4

\* Without version skew a receiver sees the whole message.
LEMMA SeenWhole ==
    ASSUME NEW t \in DOMAIN Type, NEW m, StructOK(t, m)
    PROVE  SeenAs(m, {}, m.base.unknown_fields) = Seen(m)
<1> DEFINE u == m.base.unknown_fields
           s == SeenAs(m, {}, u)
           r == SeenWithout(m, {})
<1>1. ShowsMembers(s, t, m, {}) /\ s.base = [descriptor |-> t, unknown_fields |-> u]
  BY SeenAsCases
<1>2. ShowsMembers(r, t, m, {}) /\ r.base = m.base BY SeenCases
<1>3. m.base = [descriptor |-> t, unknown_fields |-> u] BY StructMembers
<1>4. s = [r EXCEPT !.base.unknown_fields = u] BY DEF SeenAs
<1> HIDE DEF s, r, u
<1>5. s = [name \in DOMAIN Type[t].init |-> s[name]] BY <1>1 DEF ShowsMembers
<1>6. r = [name \in DOMAIN Type[t].init |-> r[name]] BY <1>2 DEF ShowsMembers
<1>7. ASSUME NEW name \in DOMAIN Type[t].init PROVE s[name] = r[name]
  <2>1. CASE name = "base" BY <1>1, <1>2, <1>3, <2>1
  <2>2. CASE name # "base" BY <1>4, <1>6, <2>2
  <2> QED BY <2>1, <2>2
<1>8. s = r BY <1>5, <1>6, <1>7
<1> QED BY <1>8 DEF Seen, s, r, u

\* A packed struct is unpacked from all that Pack left of it.
LEMMA GivenLeft ==
    ASSUME NEW t \in DOMAIN Type, NEW m, StructOK(t, m)
    PROVE  Unpack(Type[t].descriptor, Pack(m)) =
             Struct(Type[t].descriptor, Left(t, m, {}, m.base.unknown_fields))
<1> DEFINE d == Type[t].descriptor
           n == Len(d.fields)
<1>1. Packs(t, m) BY StructPacks
<1>2. n \in Nat BY TableFacts
<1>3. \A j \in 0 .. n : Given(d, Pack(m), j) =
                          IF j = 0 THEN m.base.unknown_fields ELSE PartGiven(m, d.fields[j])
  BY <1>1, PackGiven
<1>4. [j \in 0 .. n |-> Given(d, Pack(m), j)] = Left(t, m, {}, m.base.unknown_fields)
  BY <1>3 DEF Left
<1> QED BY <1>4 DEF Unpack

\* A sub-message is a struct of its type.
LEMMA PartsAreStructs ==
    ASSUME NEW t \in DOMAIN Type, NEW m, StructOK(t, m),
           NEW i \in 1 .. Len(Type[t].descriptor.fields),
           NEW v \in SubMessages(m, Type[t].descriptor.fields[i])
    PROVE  LET f == Type[t].descriptor.fields[i] IN f.of \in DOMAIN Type /\ v \in Structs(f.of)
<1> DEFINE f == Type[t].descriptor.fields[i]
           value == m[f.name]
<1>1. FieldOK(f, Type[t].init) BY TableFacts
<1>2. /\ f.label = "REPEATED" => value \in Seq(Member(f))
      /\ f.has # Empty => value \in Member(f)
      /\ f.label # "REPEATED" /\ f.has = Empty =>
             value \in Member(f) \/ (value = NULL /\ f.type \in {"MESSAGE", "STRING"})
  BY StructMembers
<1>3. v \in SubMessages(m, f) OBVIOUS
<1> HIDE DEF f
<1>4. f.type = "MESSAGE" BY <1>3 DEF SubMessages
<1>5. f.of \in DOMAIN Type BY <1>1, <1>4 DEF FieldOK
<1>6. v \in Member(f)
  <2>1. CASE f.label = "REPEATED"
    <3>1. DOMAIN value = 1 .. Len(value) BY <1>2, <2>1, LenProperties
    <3>2. \A k \in 1 .. Len(value) : value[k] \in Member(f) BY <1>2, <2>1, ElementOfSeq
    <3> QED BY <1>3, <1>4, <2>1, <3>1, <3>2 DEF SubMessages
  <2>2. CASE f.label # "REPEATED" BY <1>2, <1>3, <1>4, <2>2 DEF SubMessages
  <2> QED BY <2>1, <2>2
<1> QED BY <1>4, <1>5, <1>6 DEF Member, f

\* A struct round-trips when its sub-messages do.
LEMMA RoundTripStep ==
    ASSUME NEW t \in DOMAIN Type, NEW m, StructOK(t, m),
           \A i \in 1 .. Len(Type[t].descriptor.fields) : PartsRoundTrip(m, Type[t].descriptor.fields[i])
    PROVE  RoundTrip(t, m)
<1> DEFINE u == m.base.unknown_fields
           d == Type[t].descriptor
           n == Len(d.fields)
<1>1. MayDrop(t, {}) BY DEF MayDrop
<1>2. m.base.descriptor = t /\ Sequence(u) BY StructPacks DEF Packs
<1>3. Accepts(t, m, {}) <=> Complete(m) BY <1>2 DEF Accepts, Complete
<1>4. Unpack(d, Pack(m)) = IF Complete(m) THEN Seen(m) ELSE NULL
  BY <1>1, <1>3, GivenLeft, SeenWhole, StructSeen
<1>5. ASSUME Complete(m) PROVE Pack(Seen(m)) = Pack(m)
  <2> DEFINE s == SeenAs(m, {}, u)
  <2>1. ShowsMembers(s, t, m, {}) /\ s.base = [descriptor |-> t, unknown_fields |-> u]
    BY SeenAsCases
  <2>2. \A i \in 1 .. n : PackField(s, d.fields[i]) = PackField(m, d.fields[i])
    <3> HIDE DEF s
    <3> QED BY <1>1, <1>3, <1>5, <2>1, FieldPacked
  <2>3. \A i \in 1 .. n : Sequence(PackField(m, d.fields[i]))
    <3> TAKE i \in 1 .. n
    <3>1. i \in 0 .. n BY TableFacts
    <3>2. d.fields[i].label = "REPEATED" => Sequence(m[d.fields[i].name])
      BY StructPacks DEF Packs
    <3>3. Scannable(d, i, PackField(m, d.fields[i])) BY <3>1, <3>2, FieldGiven
    <3> QED BY <3>3 DEF Scannable
  <2>4. Pack(s) = Pack(m)
    <3>1. s.base.descriptor = t /\ s.base.unknown_fields = u
      <4> HIDE DEF s, u
      <4> QED BY <2>1
    <3> HIDE DEF s
    <3> QED BY <1>2, <2>2, <2>3, <3>1, PackAlike
  <2>5. s = Seen(m) BY SeenWhole
  <2> HIDE DEF s
  <2> QED BY <2>4, <2>5
<1> QED BY <1>4, <1>5 DEF RoundTrip

\* Every struct round-trips, however deep its sub-messages nest: by induction on
\* the depth.
THEOREM StructsRoundTrip ==
    ASSUME NEW t \in DOMAIN Type, NEW m \in Structs(t)
    PROVE  RoundTrip(t, m)
<1> DEFINE H == {k \in Nat : \A o \in DOMAIN Type : \A s \in Structs(o) : Depth(s) < k => RoundTrip(o, s)}
<1>1. 0 \in H BY StructsAssumption
<1>2. ASSUME NEW k \in H PROVE k + 1 \in H
  <2> SUFFICES ASSUME NEW o \in DOMAIN Type, NEW s \in Structs(o), Depth(s) < k + 1
               PROVE  RoundTrip(o, s)
    OBVIOUS
  <2>1. StructOK(o, s) /\ Depth(s) \in Nat BY StructsAssumption
  <2>2. ASSUME NEW i \in 1 .. Len(Type[o].descriptor.fields)
        PROVE  PartsRoundTrip(s, Type[o].descriptor.fields[i])
    <3> DEFINE f == Type[o].descriptor.fields[i]
    <3> SUFFICES ASSUME NEW v \in SubMessages(s, f) PROVE RoundTrip(f.of, v)
      BY DEF PartsRoundTrip
    <3>1. f.of \in DOMAIN Type /\ v \in Structs(f.of) BY <2>1, PartsAreStructs
    <3>2. Depth(v) < Depth(s)
      <4>1. f \in Fields(o) BY FieldsByIndex
      <4> HIDE DEF f
      <4> QED BY <4>1, StructsAssumption
    <3>3. Depth(v) \in Nat BY <3>1, StructsAssumption
    <3>4. Depth(v) < k BY <2>1, <3>2, <3>3
    <3> HIDE DEF f
    <3> QED BY <3>1, <3>4
  <2> QED BY <2>1, <2>2, RoundTripStep
<1>3. H \in SUBSET Nat OBVIOUS
<1>4. H = Nat
  <2> HIDE DEF H
  <2> QED BY <1>1, <1>2, <1>3, Induction
<1>5. Depth(m) \in Nat BY StructsAssumption
<1>6. Depth(m) + 1 \in H BY <1>4, <1>5
<1> QED BY <1>5, <1>6

\* So do the sub-messages of a struct that is being built.
LEMMA AllPartsRoundTrip ==
    ASSUME NEW t \in DOMAIN Type, NEW m, StructOK(t, m),
           NEW i \in 1 .. Len(Type[t].descriptor.fields)
    PROVE  PartsRoundTrip(m, Type[t].descriptor.fields[i])
BY PartsAreStructs, StructsRoundTrip DEF PartsRoundTrip

-----------------------------------------------------------------------------
(* What a buffer holds that version skew has changed.                      *)

\* An entry that its field can parse, or that is unknown.
EntryOK(t, e) ==
    LET d == Type[t].descriptor
        f == d.fields[Lookup(d, e.number)]
    IN  /\ e.number \in Nat
        /\ Lookup(d, e.number) # 0 =>
            \/ e.type = WireType(f.type)
            \/ /\ e.type = "LENGTH_PREFIXED" /\ f.label = "REPEATED" /\ Packable(f.type)
               /\ Sequence(e.payload)

\* A buffer of such entries.
BufferOK(t, b) == Sequence(b) /\ \A k \in 1 .. Len(b) : EntryOK(t, b[k])

\* Fields that a type does not know.
Unknown(t, u) ==
    /\ u \in Seq(UnknownEntries)
    /\ \A k \in 1 .. Len(u) : Lookup(Type[t].descriptor, u[k].number) = 0

\* A buffer holds a message without the fields in w and with the unknown fields
\* u, whatever the order of its entries is.
Holds(t, m, b, w, u) ==
    /\ BufferOK(t, b) /\ MayDrop(t, w) /\ Unknown(t, u)
    /\ \A j \in 0 .. Len(Type[t].descriptor.fields) :
        Given(Type[t].descriptor, b, j) = Left(t, m, w, u)[j]

\* A number is found where its field is, and nowhere else.
LEMMA LookupFacts ==
    ASSUME NEW t \in DOMAIN Type, NEW x \in Nat
    PROVE  LET d == Type[t].descriptor IN
           /\ Lookup(d, x) \in 0 .. Len(d.fields)
           /\ Lookup(d, x) # 0 => d.fields[Lookup(d, x)].number = x
           /\ \A y \in Nat : Lookup(d, x) # 0 /\ Lookup(d, y) = Lookup(d, x) => x = y
<1>1. RangesOK(Type[t].descriptor, Len(Type[t].descriptor.fields)) BY TableFacts
<1> QED BY <1>1 DEF RangesOK

\* An entry gives a sequence of values.
LEMMA EntryGives ==
    ASSUME NEW t \in DOMAIN Type, NEW e, EntryOK(t, e), NEW j
    PROVE  Sequence(Adds(Type[t].descriptor, j, e))
<1> DEFINE d == Type[t].descriptor
           f == d.fields[j]
<1>1. CASE Lookup(d, e.number) # j BY <1>1, AddsElsewhere, SequenceEmpty
<1>2. CASE Lookup(d, e.number) = j /\ j = 0
  <2>1. Adds(d, 0, e) = <<e>> BY <1>2, AddsUnknown
  <2> QED BY <1>2, <2>1, SequenceOne
<1>3. CASE Lookup(d, e.number) = j /\ j # 0
  <2>1. Adds(d, j, e) = Values(f, e) BY <1>3, AddsKnown
  <2>2. \/ e.type = WireType(f.type)
        \/ /\ e.type # WireType(f.type)
           /\ e.type = "LENGTH_PREFIXED" /\ f.label = "REPEATED" /\ Packable(f.type)
           /\ Sequence(e.payload)
    BY <1>3 DEF EntryOK
  <2> HIDE DEF f, d
  <2>3. CASE e.type = WireType(f.type)
    <3>1. PICK x : Values(f, e) = <<x>> BY <2>3, ValuesOne
    <3>2. Sequence(Adds(d, j, e)) BY <2>1, <3>1, SequenceOne
    <3> QED BY <3>2 DEF d
  <2>4. CASE e.type # WireType(f.type)
    <3>1. Values(f, e) = e.payload BY <2>2, <2>4, ValuesPacked
    <3>2. Sequence(Adds(d, j, e)) BY <2>1, <2>2, <2>4, <3>1
    <3> QED BY <3>2 DEF d
  <2> QED BY <2>3, <2>4
<1> QED BY <1>1, <1>2, <1>3

\* A buffer of such entries can be scanned for any field.
LEMMA BufferScans ==
    ASSUME NEW t \in DOMAIN Type, NEW b, BufferOK(t, b), NEW j
    PROVE  Scannable(Type[t].descriptor, j, b)
BY EntryGives DEF BufferOK, Scannable

\* Two such buffers joined are one,
LEMMA BufferJoin ==
    ASSUME NEW t, NEW a, NEW b, BufferOK(t, a), BufferOK(t, b)
    PROVE  BufferOK(t, a \o b)
<1>1. Sequence(a) /\ Sequence(b) BY DEF BufferOK
<1>2. /\ Sequence(a \o b) /\ Len(a \o b) = Len(a) + Len(b) /\ Len(a) \in Nat /\ Len(b) \in Nat
      /\ \A k \in 1 .. Len(a) : (a \o b)[k] = a[k]
      /\ \A k \in 1 .. Len(b) : (a \o b)[Len(a) + k] = b[k]
  BY <1>1, SequenceJoin, SequenceLen
<1>3. ASSUME NEW k \in 1 .. Len(a \o b) PROVE EntryOK(t, (a \o b)[k])
  <2>1. CASE k <= Len(a)
    <3>1. k \in 1 .. Len(a) /\ (a \o b)[k] = a[k] BY <1>2, <2>1
    <3> QED BY <3>1 DEF BufferOK
  <2>2. CASE k > Len(a)
    <3>1. k - Len(a) \in 1 .. Len(b) BY <1>2, <2>2
    <3>2. (a \o b)[Len(a) + (k - Len(a))] = b[k - Len(a)] BY <1>2, <3>1
    <3>3. Len(a) + (k - Len(a)) = k BY <1>2
    <3> QED BY <3>1, <3>2, <3>3 DEF BufferOK
  <2> QED BY <1>2, <2>1, <2>2
<1> QED BY <1>2, <1>3 DEF BufferOK

\* one entry is one,
LEMMA BufferOne ==
    ASSUME NEW t, NEW e, EntryOK(t, e)
    PROVE  BufferOK(t, <<e>>)
BY SequenceOne DEF BufferOK

\* and so is a part of one.
LEMMA BufferSlice ==
    ASSUME NEW t, NEW b, BufferOK(t, b), NEW x \in 1 .. Len(b) + 1, NEW y \in 0 .. Len(b)
    PROVE  BufferOK(t, SubSeq(b, x, y))
<1> DEFINE s == SubSeq(b, x, y)
<1>1. Sequence(b) /\ Len(b) \in Nat BY SequenceLen DEF BufferOK
<1>2. /\ Sequence(s) /\ Len(s) = IF x <= y THEN y - x + 1 ELSE 0
      /\ \A i \in 1 .. y - x + 1 : s[i] = b[x + i - 1]
  BY <1>1, Slice
<1>3. ASSUME NEW i \in 1 .. Len(s) PROVE EntryOK(t, s[i])
  <2>1. i \in 1 .. y - x + 1 /\ x + i - 1 \in 1 .. Len(b) BY <1>1, <1>2
  <2> QED BY <1>2, <2>1 DEF BufferOK
<1> QED BY <1>2, <1>3 DEF BufferOK

\* An entry of a newer version has a number.
LEMMA UnknownEntry ==
    ASSUME NEW e \in UnknownEntries
    PROVE  e.number \in Nat
BY EntriesAssumption

\* Pack makes such a buffer.
LEMMA PackedBuffer ==
    ASSUME NEW t \in DOMAIN Type, NEW m, Packs(t, m), Unknown(t, m.base.unknown_fields)
    PROVE  BufferOK(t, Pack(m))
<1> DEFINE d == Type[t].descriptor
           fields == d.fields
           u == m.base.unknown_fields
           p == Packed(fields, m)
<1>1. m.base.descriptor = t /\ Sequence(u) BY DEF Packs
<1>2. Sequence(fields) /\ Len(fields) \in Nat BY TableFacts
<1>3. ASSUME NEW i \in 1 .. Len(fields)
      PROVE  Sequence(PackField(m, fields[i])) /\ BufferOK(t, PackField(m, fields[i]))
  <2> DEFINE f == fields[i]
             value == m[f.name]
  <2>1. f.label = "REPEATED" => Sequence(value) BY DEF Packs
  <2>2. i \in 0 .. Len(fields) BY <1>2
  <2>3. Sequence(PackField(m, f)) BY <2>1, <2>2, FieldGiven DEF Scannable
  <2>4. \A v : EntryOK(t, Entry(f, Payload(f, v)))
    <3> TAKE v
    <3>1. f.number \in Nat /\ Lookup(d, f.number) = i BY TableFacts DEF RangesOK
    <3> HIDE DEF f
    <3>2. /\ Entry(f, Payload(f, v)).number = f.number
          /\ Entry(f, Payload(f, v)).type = WireType(f.type)
      BY DEF Entry
    <3> QED BY <3>1, <3>2 DEF EntryOK, f
  <2> HIDE DEF f
  <2>5. CASE f.label = "REPEATED"
    <3> DEFINE b == [k \in DOMAIN value |-> Entry(f, Payload(f, value[k]))]
    <3>1. PackField(m, f) = b BY <2>5, PackFieldCases
    <3>2. Len(value) \in Nat /\ DOMAIN value = 1 .. Len(value) BY <2>1, <2>5, SequenceLen
    <3>3. b = [k \in 1 .. Len(value) |-> b[k]] /\ \A k \in 1 .. Len(value) : EntryOK(t, b[k])
      BY <2>4, <3>2
    <3> HIDE DEF b
    <3>4. Sequence(b) /\ Len(b) = Len(value) BY <3>2, <3>3, FunctionIsSequence
    <3>5. BufferOK(t, PackField(m, f)) BY <3>1, <3>3, <3>4 DEF BufferOK
    <3> QED BY <2>3, <3>5 DEF f
  <2>6. CASE f.label = "OPTIONAL" /\ ~IsSet(m, f)
    <3>1. PackField(m, f) = <<>> BY <2>6, PackFieldCases
    <3>2. BufferOK(t, PackField(m, f)) BY <3>1, SequenceEmpty DEF BufferOK
    <3> QED BY <2>3, <3>2 DEF f
  <2>7. CASE f.label # "REPEATED" /\ ~(f.label = "OPTIONAL" /\ ~IsSet(m, f))
    <3>1. PackField(m, f) = <<Entry(f, Payload(f, value))>> BY <2>7, PackFieldCases
    <3>2. BufferOK(t, PackField(m, f)) BY <2>4, <3>1, BufferOne
    <3> QED BY <2>3, <3>2 DEF f
  <2> QED BY <2>5, <2>6, <2>7
<1>4. /\ Lists(p) /\ Len(p) = Len(fields)
      /\ Pack(m) = FlattenSeq(p) \o u
  BY <1>1, <1>2, <1>3, PackFlattens
<1>5. \A i \in 1 .. Len(p) : BufferOK(t, p[i]) BY <1>3, <1>4 DEF Packed
<1> HIDE DEF p
<1>6. BufferOK(t, FlattenSeq(p))
  <2> DEFINE H == {k \in Nat : k <= Len(p) => BufferOK(t, FlattenSeq(SubSeq(p, 1, k)))}
  <2>1. Sequence(p) /\ Len(p) \in Nat BY <1>2, <1>4 DEF Lists
  <2>2. 0 \in H
    <3>1. FlattenSeq(SubSeq(p, 1, 0)) = <<>> BY <2>1, WholeSlice, FlattenSeqEmpty
    <3>2. BufferOK(t, FlattenSeq(SubSeq(p, 1, 0))) BY <3>1, SequenceEmpty DEF BufferOK
    <3> QED BY <3>2
  <2>3. ASSUME NEW k \in H PROVE k + 1 \in H
    <3> SUFFICES ASSUME k + 1 <= Len(p) PROVE BufferOK(t, FlattenSeq(SubSeq(p, 1, k + 1))) OBVIOUS
    <3>1. k \in Nat /\ k <= Len(p) /\ BufferOK(t, FlattenSeq(SubSeq(p, 1, k))) BY <2>1
    <3> DEFINE q == SubSeq(p, 1, k)
    <3>2. SubSeq(p, 1, k + 1) = q \o <<p[k + 1]>> BY <2>1, <3>1, PrefixStep
    <3>3. 1 \in 1 .. Len(p) + 1 /\ k \in 0 .. Len(p) BY <2>1, <3>1
    <3>4. Lists(q) BY <1>4, <2>1, <3>3, Slice
    <3>5. BufferOK(t, p[k + 1]) BY <1>5, <2>1, <3>1
    <3>6. Sequence(p[k + 1]) BY <3>5 DEF BufferOK
    <3> HIDE DEF q
    <3>7. FlattenSeq(q \o <<p[k + 1]>>) = FlattenSeq(q) \o p[k + 1] BY <3>4, <3>6, ListsAppend
    <3>8. BufferOK(t, FlattenSeq(q)) BY <3>1 DEF q
    <3> QED BY <3>2, <3>5, <3>7, <3>8, BufferJoin
  <2>4. H \in SUBSET Nat OBVIOUS
  <2>5. H = Nat
    <3> HIDE DEF H
    <3> QED BY <2>2, <2>3, <2>4, Induction
  <2>6. Len(p) \in H BY <2>1, <2>5
  <2>7. SubSeq(p, 1, Len(p)) = p BY <2>1, WholeSlice
  <2>8. BufferOK(t, FlattenSeq(SubSeq(p, 1, Len(p)))) BY <2>1, <2>6
  <2> HIDE DEF H
  <2> QED BY <2>7, <2>8
<1>7. BufferOK(t, u)
  <2>1. \A k \in 1 .. Len(u) : u[k] \in UnknownEntries /\ Lookup(d, u[k].number) = 0
    BY ElementOfSeq DEF Unknown
  <2>2. \A k \in 1 .. Len(u) : EntryOK(t, u[k]) BY <2>1, UnknownEntry DEF EntryOK
  <2> QED BY <1>1, <2>2 DEF BufferOK
<1> QED BY <1>4, <1>6, <1>7, BufferJoin

\* What is left, field by field.
LEMMA LeftCases ==
    ASSUME NEW t \in DOMAIN Type, NEW m, NEW w, NEW u
    PROVE  LET fields == Type[t].descriptor.fields IN
           /\ Left(t, m, w, u)[0] = u
           /\ \A i \in 1 .. Len(fields) :
                Left(t, m, w, u)[i] = IF fields[i].name \in w THEN <<>> ELSE PartGiven(m, fields[i])
<1>1. Len(Type[t].descriptor.fields) \in Nat BY TableFacts
<1> QED BY <1>1 DEF Left

\* A packed struct is held by its buffer.
LEMMA HoldsPacked ==
    ASSUME NEW t \in DOMAIN Type, NEW m, StructOK(t, m)
    PROVE  Holds(t, m, Pack(m), {}, m.base.unknown_fields)
<1> DEFINE u == m.base.unknown_fields
           d == Type[t].descriptor
<1>1. Packs(t, m) BY StructPacks
<1>2. Unknown(t, u) BY StructMembers DEF Unknown
<1>3. BufferOK(t, Pack(m)) BY <1>1, <1>2, PackedBuffer
<1>4. MayDrop(t, {}) BY DEF MayDrop
<1>5. ASSUME NEW j \in 0 .. Len(d.fields) PROVE Given(d, Pack(m), j) = Left(t, m, {}, u)[j]
  <2>1. Given(d, Pack(m), j) = IF j = 0 THEN u ELSE PartGiven(m, d.fields[j]) BY <1>1, PackGiven
  <2> HIDE DEF u
  <2>2. Left(t, m, {}, u)[j] = IF j = 0 THEN u ELSE PartGiven(m, d.fields[j]) BY DEF Left
  <2> QED BY <2>1, <2>2
<1> QED BY <1>2, <1>3, <1>4, <1>5 DEF Holds

\* A newer field, put first or last, is one more unknown field.
LEMMA HoldsNewer ==
    ASSUME NEW t \in DOMAIN Type, NEW m, NEW b, NEW w, NEW u, Holds(t, m, b, w, u),
           NEW e \in UnknownEntries, Lookup(Type[t].descriptor, e.number) = 0
    PROVE  /\ Holds(t, m, <<e>> \o b, w, <<e>> \o u)
           /\ Holds(t, m, Append(b, e), w, Append(u, e))
<1> DEFINE d == Type[t].descriptor
           n == Len(d.fields)
<1>1. /\ BufferOK(t, b) /\ MayDrop(t, w) /\ Unknown(t, u)
      /\ \A j \in 0 .. n : Given(d, b, j) = Left(t, m, w, u)[j]
  BY DEF Holds
<1>2. EntryOK(t, e) BY UnknownEntry DEF EntryOK
<1>3. BufferOK(t, <<e>>) BY <1>2, BufferOne
<1>4. BufferOK(t, <<e>> \o b) /\ BufferOK(t, b \o <<e>>) BY <1>1, <1>3, BufferJoin
<1>5. Sequence(b) /\ Sequence(u) BY <1>1 DEF BufferOK, Unknown, Sequence
<1>6. Append(b, e) = b \o <<e>> /\ Append(u, e) = u \o <<e>> BY <1>5, AppendIsJoin
<1>7. Unknown(t, <<e>> \o u) /\ Unknown(t, u \o <<e>>)
  <2>1. u \in Seq(UnknownEntries) /\ <<e>> \in Seq(UnknownEntries) BY <1>1 DEF Unknown
  <2>2. <<e>> \o u \in Seq(UnknownEntries) /\ u \o <<e>> \in Seq(UnknownEntries)
    BY <2>1, ConcatProperties
  <2>3. \A k \in 1 .. Len(<<e>> \o u) : Lookup(d, (<<e>> \o u)[k].number) = 0
    BY <1>1, <2>1, ConcatProperties DEF Unknown
  <2>4. \A k \in 1 .. Len(u \o <<e>>) : Lookup(d, (u \o <<e>>)[k].number) = 0
    BY <1>1, <2>1, ConcatProperties DEF Unknown
  <2> QED BY <2>2, <2>3, <2>4 DEF Unknown
<1>8. ASSUME NEW j \in 0 .. n
      PROVE  /\ Given(d, <<e>> \o b, j) = Left(t, m, w, <<e>> \o u)[j]
             /\ Given(d, b \o <<e>>, j) = Left(t, m, w, u \o <<e>>)[j]
  <2>1. Scannable(d, j, b) BY <1>1, BufferScans
  <2>2. Scannable(d, j, <<e>>) BY <1>3, BufferScans
  <2>3. /\ Given(d, <<e>> \o b, j) = Given(d, <<e>>, j) \o Given(d, b, j)
        /\ Given(d, b \o <<e>>, j) = Given(d, b, j) \o Given(d, <<e>>, j)
    <3> HIDE DEF d
    <3>1. Given(d, <<e>> \o b, j) = Given(d, <<e>>, j) \o Given(d, b, j)
      BY <2>1, <2>2, GivenJoin
    <3>2. Given(d, b \o <<e>>, j) = Given(d, b, j) \o Given(d, <<e>>, j)
      BY <2>1, <2>2, GivenJoin
    <3> QED BY <3>1, <3>2
  <2>4. Sequence(<<e>>) /\ Len(<<e>>) = 1 /\ <<e>>[1] = e BY SequenceOne
  <2>5. Given(d, <<e>>, j) = IF j = 0 THEN <<e>> ELSE <<>> BY <2>4, UnknownGiven
  <2>6. Given(d, b, j) = Left(t, m, w, u)[j] BY <1>1
  <2>7. CASE j = 0
    <3>1. Given(d, b, 0) = u BY <2>6, <2>7, LeftCases
    <3> DEFINE before == <<e>> \o u
               after == u \o <<e>>
    <3>2. Given(d, <<e>> \o b, 0) = before /\ Given(d, b \o <<e>>, 0) = after
      BY <2>3, <2>5, <2>7, <3>1
    <3> HIDE DEF before, after
    <3>3. Left(t, m, w, before)[0] = before /\ Left(t, m, w, after)[0] = after BY LeftCases
    <3>4. /\ Given(d, <<e>> \o b, 0) = Left(t, m, w, before)[0]
          /\ Given(d, b \o <<e>>, 0) = Left(t, m, w, after)[0]
      BY <3>2, <3>3
    <3> QED BY <2>7, <3>4 DEF before, after
  <2>8. CASE j # 0
    <3>1. Sequence(Given(d, b, j)) BY <2>1, GivenFlattens
    <3>2. Given(d, <<e>> \o b, j) = Given(d, b, j) /\ Given(d, b \o <<e>>, j) = Given(d, b, j)
      BY <2>3, <2>5, <2>8, <3>1, JoinEmpty
    <3>3. j \in 1 .. n BY <2>8
    <3>4. \A z : Left(t, m, w, z)[j] = IF d.fields[j].name \in w THEN <<>> ELSE PartGiven(m, d.fields[j])
      BY <3>3, LeftCases
    <3>5. \A z : Given(d, b, j) = Left(t, m, w, z)[j] BY <2>6, <3>4
    <3> QED BY <3>2, <3>5
  <2> QED BY <2>7, <2>8
<1>9. Holds(t, m, <<e>> \o b, w, <<e>> \o u) BY <1>1, <1>4, <1>7, <1>8 DEF Holds
<1>10. Holds(t, m, b \o <<e>>, w, u \o <<e>>) BY <1>1, <1>4, <1>7, <1>8 DEF Holds
<1> QED BY <1>6, <1>9, <1>10

\* A buffer cut into what is before an entry, the entry, and what is after it.
Around(t, b, x, e, y, j) ==
    LET d == Type[t].descriptor IN
    /\ BufferOK(t, x) /\ BufferOK(t, y) /\ EntryOK(t, e) /\ b = (x \o <<e>>) \o y
    /\ Given(d, b, j) = (Given(d, x, j) \o Adds(d, j, e)) \o Given(d, y, j)
    /\ Given(d, x \o y, j) = Given(d, x, j) \o Given(d, y, j)
    /\ Sequence(Given(d, x, j)) /\ Sequence(Given(d, y, j)) /\ Sequence(Adds(d, j, e))

\* Every buffer can be cut at any entry.
LEMMA AroundOne ==
    ASSUME NEW t \in DOMAIN Type, NEW b, BufferOK(t, b), NEW i \in 1 .. Len(b), NEW j
    PROVE  Around(t, b, SubSeq(b, 1, i - 1), b[i], SubSeq(b, i + 1, Len(b)), j)
<1> DEFINE d == Type[t].descriptor
           x == SubSeq(b, 1, i - 1)
           y == SubSeq(b, i + 1, Len(b))
           e == b[i]
<1>1. Sequence(b) /\ Len(b) \in Nat BY SequenceLen DEF BufferOK
<1>2. BufferOK(t, x) /\ BufferOK(t, y)
  <2>1. 1 \in 1 .. Len(b) + 1 /\ i - 1 \in 0 .. Len(b) BY <1>1
  <2>2. i + 1 \in 1 .. Len(b) + 1 /\ Len(b) \in 0 .. Len(b) BY <1>1
  <2> QED BY <2>1, <2>2, BufferSlice
<1>3. EntryOK(t, e) BY DEF BufferOK
<1>4. SubSeq(b, 1, i) = x \o <<e>>
  <2>1. i - 1 \in Nat /\ (i - 1) + 1 <= Len(b) /\ (i - 1) + 1 = i BY <1>1
  <2>2. SubSeq(b, 1, (i - 1) + 1) = SubSeq(b, 1, i - 1) \o <<b[(i - 1) + 1]>>
    BY <1>1, <2>1, PrefixStep
  <2> QED BY <2>1, <2>2
<1>5. b = (x \o <<e>>) \o y
  <2>1. SubSeq(b, 1, i) \o SubSeq(b, i + 1, Len(b)) = b
    <3>1. i \in 0 .. Len(b) BY <1>1
    <3> QED BY <1>1, <3>1, SplitAt
  <2> QED BY <1>4, <2>1
<1>6. BufferOK(t, <<e>>) BY <1>3, BufferOne
<1> HIDE DEF x, y, e
<1>7. Scannable(d, j, x) /\ Scannable(d, j, y) /\ Scannable(d, j, <<e>>)
  BY <1>2, <1>6, BufferScans
<1>8. Sequence(Adds(d, j, e)) BY <1>3, EntryGives
<1>9. Given(d, <<e>>, j) = Adds(d, j, e) BY <1>8, GivenOne
<1>10. /\ Scannable(d, j, x \o <<e>>)
       /\ Given(d, x \o <<e>>, j) = Given(d, x, j) \o Adds(d, j, e)
  BY <1>7, <1>9, GivenJoin
<1>11. Given(d, b, j) = (Given(d, x, j) \o Adds(d, j, e)) \o Given(d, y, j)
  <2>1. PICK z : z = x \o <<e>> OBVIOUS
  <2>2. b = z \o y BY <1>5, <2>1
  <2>3. Scannable(d, j, z) /\ Given(d, z, j) = Given(d, x, j) \o Adds(d, j, e) BY <1>10, <2>1
  <2>4. Given(d, z \o y, j) = Given(d, z, j) \o Given(d, y, j)
    <3>1. Scannable(d, j, z) BY <2>3
    <3>2. Scannable(d, j, y) BY <1>7
    <3> HIDE DEF d
    <3> QED BY <3>1, <3>2, GivenJoin
  <2>5. Given(d, b, j) = Given(d, z, j) \o Given(d, y, j) BY <2>2, <2>4
  <2> QED BY <2>3, <2>5
<1>12. Given(d, x \o y, j) = Given(d, x, j) \o Given(d, y, j) BY <1>7, GivenJoin
<1>13. Sequence(Given(d, x, j)) /\ Sequence(Given(d, y, j)) BY <1>7, GivenFlattens
<1>14. Around(t, b, x, e, y, j) BY <1>2, <1>3, <1>5, <1>8, <1>11, <1>12, <1>13 DEF Around
<1> QED BY <1>14 DEF x, y, e

\* A field that is not repeated has one value at most.
LEMMA LeftOnce ==
    ASSUME NEW t \in DOMAIN Type, NEW m, NEW w, NEW u, NEW i \in 1 .. Len(Type[t].descriptor.fields),
           Type[t].descriptor.fields[i].label # "REPEATED"
    PROVE  Sequence(Left(t, m, w, u)[i]) /\ Len(Left(t, m, w, u)[i]) <= 1
<1> DEFINE f == Type[t].descriptor.fields[i]
<1>1. Left(t, m, w, u)[i] = IF f.name \in w THEN <<>> ELSE PartGiven(m, f) BY LeftCases
<1>2. f.label # "REPEATED" OBVIOUS
<1> HIDE DEF f
<1>3. PartGiven(m, f) = <<>> \/ PartGiven(m, f) = <<Got(f, m[f.name])>> BY <1>2, PackFieldCases
<1>4. \/ Left(t, m, w, u)[i] = <<>>
      \/ Left(t, m, w, u)[i] = <<Got(f, m[f.name])>>
  BY <1>1, <1>3
<1>5. CASE Left(t, m, w, u)[i] = <<>> BY <1>5, SequenceEmpty
<1>6. CASE Left(t, m, w, u)[i] = <<Got(f, m[f.name])>>
  <2> DEFINE v == Got(f, m[f.name])
  <2> HIDE DEF v
  <2>1. Sequence(<<v>>) /\ Len(<<v>>) = 1 BY SequenceOne
  <2>2. Left(t, m, w, u)[i] = <<v>> BY <1>6 DEF v
  <2> QED BY <2>1, <2>2
<1> QED BY <1>4, <1>5, <1>6

\* One value in a list of one at most: there is nothing before and after it.
LEMMA OnlyOne ==
    ASSUME NEW x, NEW v, NEW y, Sequence(x), Sequence(y), Len((x \o <<v>>) \o y) <= 1
    PROVE  x = <<>> /\ y = <<>>
<1>1. Sequence(<<v>>) /\ Len(<<v>>) = 1 BY SequenceOne
<1>2. Sequence(x \o <<v>>) /\ Len(x \o <<v>>) = Len(x) + 1 BY <1>1, SequenceJoin
<1>3. Len((x \o <<v>>) \o y) = Len(x) + 1 + Len(y) BY <1>2, SequenceJoin
<1>4. Len(x) \in Nat /\ Len(y) \in Nat BY SequenceLen
<1>5. Len(x) = 0 /\ Len(y) = 0 BY <1>3, <1>4
<1>6. Sequence(<<>>) /\ Len(<<>>) = 0 BY SequenceEmpty
<1>7. x = <<>>
  <2>1. \A k \in 1 .. Len(x) : x[k] = <<>>[k] BY <1>5
  <2> QED BY <1>5, <1>6, <2>1, SequenceEqual
<1>8. y = <<>>
  <2>1. \A k \in 1 .. Len(y) : y[k] = <<>>[k] BY <1>5
  <2> QED BY <1>5, <1>6, <2>1, SequenceEqual
<1> QED BY <1>7, <1>8

\* Without an entry the buffer holds the message without its field.
LEMMA HoldsOlder ==
    ASSUME NEW t \in DOMAIN Type, NEW m, NEW b, NEW w, NEW u, Holds(t, m, b, w, u),
           NEW i \in 1 .. Len(b), NEW p, p = Lookup(Type[t].descriptor, b[i].number), p # 0,
           Type[t].descriptor.fields[p].label # "REPEATED"
    PROVE  Holds(t, m, RemoveAt(b, i), w \cup {Type[t].descriptor.fields[p].name}, u)
<1> DEFINE d == Type[t].descriptor
           n == Len(d.fields)
           x == SubSeq(b, 1, i - 1)
           y == SubSeq(b, i + 1, Len(b))
           e == b[i]
           f == d.fields[p]
           v == w \cup {f.name}
<1>1. /\ BufferOK(t, b) /\ MayDrop(t, w) /\ Unknown(t, u)
      /\ \A j \in 0 .. n : Given(d, b, j) = Left(t, m, w, u)[j]
  BY DEF Holds
<1>2. RemoveAt(b, i) = x \o y BY DEF RemoveAt
<1>a. \A j : Around(t, b, x, e, y, j) BY <1>1, AroundOne
<1>3. BufferOK(t, x) /\ BufferOK(t, y) /\ EntryOK(t, e) BY <1>a DEF Around
<1>4. BufferOK(t, x \o y) BY <1>3, BufferJoin
<1>5. p \in 1 .. n
  <2>1. e.number \in Nat BY <1>3 DEF EntryOK
  <2>2. p \in 0 .. n BY <2>1, LookupFacts
  <2> QED BY <2>2
<1>6. NamesOK(d, n) /\ n \in Nat BY TableFacts
<1>7. MayDrop(t, v)
  <2>1. ASSUME NEW k \in 1 .. n, d.fields[k].name \in v PROVE d.fields[k].label # "REPEATED"
    <3>1. CASE d.fields[k].name \in w BY <1>1, <3>1 DEF MayDrop
    <3>2. CASE d.fields[k].name = f.name
      <4>1. k = p BY <1>5, <1>6, <3>2 DEF NamesOK
      <4> QED BY <4>1
    <3> QED BY <2>1, <3>1, <3>2
  <2> QED BY <2>1 DEF MayDrop
<1>8. ASSUME NEW j \in 0 .. n PROVE Given(d, x \o y, j) = Left(t, m, v, u)[j]
  <2>1. /\ Given(d, b, j) = (Given(d, x, j) \o Adds(d, j, e)) \o Given(d, y, j)
        /\ Given(d, x \o y, j) = Given(d, x, j) \o Given(d, y, j)
        /\ Sequence(Given(d, x, j)) /\ Sequence(Given(d, y, j))
    <3> HIDE DEF x, y, e
    <3>1. Around(t, b, x, e, y, j) BY <1>a
    <3> QED BY <3>1 DEF Around
  <2>2. Given(d, b, j) = Left(t, m, w, u)[j] BY <1>1
  <2>3. CASE j # p
    <3>1. Adds(d, j, e) = <<>> BY <2>3, AddsElsewhere
    <3>2. Given(d, x \o y, j) = Given(d, b, j)
      <4> HIDE DEF x, y, e, d
      <4> QED BY <2>1, <3>1, JoinEmpty
    <3>3. Left(t, m, v, u)[j] = Left(t, m, w, u)[j]
      <4>1. CASE j = 0 BY <4>1, LeftCases
      <4>2. CASE j # 0
        <5>1. j \in 1 .. n BY <4>2
        <5>2. d.fields[j].name # f.name BY <1>5, <1>6, <2>3, <5>1 DEF NamesOK
        <5>3. d.fields[j].name \in v <=> d.fields[j].name \in w BY <5>2
        <5>4. Left(t, m, v, u)[j] = IF d.fields[j].name \in v THEN <<>> ELSE PartGiven(m, d.fields[j])
          <6> HIDE DEF v
          <6> QED BY <5>1, LeftCases
        <5>5. Left(t, m, w, u)[j] = IF d.fields[j].name \in w THEN <<>> ELSE PartGiven(m, d.fields[j])
          BY <5>1, LeftCases
        <5> QED BY <5>3, <5>4, <5>5
      <4> QED BY <4>1, <4>2
    <3> QED BY <2>2, <3>2, <3>3
  <2>4. CASE j = p
    <3>1. PICK r : Adds(d, p, e) = <<r>>
      <4>1. Adds(d, p, e) = Values(f, e) BY AddsKnown
      <4>2. f.label # "REPEATED" OBVIOUS
      <4>3. e.type = WireType(f.type) BY <1>3, <4>2 DEF EntryOK
      <4> HIDE DEF f, e
      <4> QED BY <4>1, <4>3, ValuesOne
    <3>2. Len(Given(d, b, p)) <= 1 BY <1>5, <2>2, <2>4, LeftOnce
    <3>3. Given(d, x, p) = <<>> /\ Given(d, y, p) = <<>>
      <4> HIDE DEF x, y, e, d
      <4> QED BY <2>1, <2>4, <3>1, <3>2, OnlyOne
    <3>4. Given(d, x \o y, p) = <<>> BY <2>1, <2>4, <3>3, SequenceEmpty, JoinEmpty
    <3>5. f.name \in v OBVIOUS
    <3>6. Left(t, m, v, u)[p] = <<>>
      <4> HIDE DEF v
      <4> QED BY <1>5, <3>5, LeftCases
    <3> QED BY <2>4, <3>4, <3>6
  <2> QED BY <2>3, <2>4
<1>9. Holds(t, m, x \o y, v, u)
  <2> HIDE DEF x, y, v
  <2> QED BY <1>1, <1>4, <1>7, <1>8 DEF Holds
<1> QED BY <1>2, <1>9

\* Two neighbours of which one is empty may be swapped.
LEMMA Swap ==
    ASSUME NEW x, NEW a, NEW c, NEW y, Sequence(x), Sequence(a), Sequence(c), Sequence(y),
           a = <<>> \/ c = <<>>
    PROVE  ((x \o a) \o c) \o y = ((x \o c) \o a) \o y
<1>1. CASE a = <<>>
  <2>1. x \o a = x BY <1>1, JoinEmpty
  <2>2. Sequence(x \o c) BY SequenceJoin
  <2>3. (x \o c) \o a = x \o c BY <1>1, <2>2, JoinEmpty
  <2>4. ((x \o a) \o c) \o y = (x \o c) \o y BY <2>1
  <2>5. ((x \o c) \o a) \o y = (x \o c) \o y BY <2>3
  <2> QED BY <2>4, <2>5
<1>2. CASE c = <<>>
  <2>1. x \o c = x BY <1>2, JoinEmpty
  <2>2. Sequence(x \o a) BY SequenceJoin
  <2>3. (x \o a) \o c = x \o a BY <1>2, <2>2, JoinEmpty
  <2>4. ((x \o a) \o c) \o y = (x \o a) \o y BY <2>3
  <2>5. ((x \o c) \o a) \o y = (x \o a) \o y BY <2>1
  <2> QED BY <2>4, <2>5
<1> QED BY <1>1, <1>2

\* A buffer cut into what is before two neighbours, the two, and what is after.
Four(t, j, b, x, e, g, y) ==
    LET d == Type[t].descriptor IN
    /\ BufferOK(t, b)
    /\ Given(d, b, j) = ((Given(d, x, j) \o Adds(d, j, e)) \o Adds(d, j, g)) \o Given(d, y, j)

\* What such a buffer holds.
LEMMA GivenFour ==
    ASSUME NEW t \in DOMAIN Type, NEW j, NEW x, NEW e, NEW g, NEW y,
           BufferOK(t, x), EntryOK(t, e), EntryOK(t, g), BufferOK(t, y),
           NEW b, b = ((x \o <<e>>) \o <<g>>) \o y
    PROVE  Four(t, j, b, x, e, g, y)
<1> DEFINE d == Type[t].descriptor
<1>1. BufferOK(t, <<e>>) /\ BufferOK(t, <<g>>) BY BufferOne
<1>a. PICK r : r = <<e>> OBVIOUS
<1>b. PICK z : z = <<g>> OBVIOUS
<1>2. PICK u : u = x \o r OBVIOUS
<1>3. PICK v : v = u \o z OBVIOUS
<1>4. BufferOK(t, u) BY <1>1, <1>a, <1>2, BufferJoin
<1>5. BufferOK(t, v) BY <1>1, <1>b, <1>3, <1>4, BufferJoin
<1>6. BufferOK(t, v \o y) BY <1>5, BufferJoin
<1>7. /\ Scannable(d, j, x) /\ Scannable(d, j, r) /\ Scannable(d, j, z)
      /\ Scannable(d, j, y) /\ Scannable(d, j, u) /\ Scannable(d, j, v)
  BY <1>1, <1>a, <1>b, <1>4, <1>5, BufferScans
<1>8. Sequence(Adds(d, j, e)) /\ Sequence(Adds(d, j, g)) BY EntryGives
<1>9. Given(d, r, j) = Adds(d, j, e) /\ Given(d, z, j) = Adds(d, j, g)
  BY <1>8, <1>a, <1>b, GivenOne
<1> HIDE DEF d
<1>10. Given(d, x \o r, j) = Given(d, x, j) \o Given(d, r, j) BY <1>7, GivenJoin
<1>11. Given(d, u \o z, j) = Given(d, u, j) \o Given(d, z, j) BY <1>7, GivenJoin
<1>12. Given(d, v \o y, j) = Given(d, v, j) \o Given(d, y, j) BY <1>7, GivenJoin
<1>13. Given(d, u, j) = Given(d, x, j) \o Adds(d, j, e) BY <1>2, <1>9, <1>10
<1>14. Given(d, v, j) = Given(d, u, j) \o Adds(d, j, g) BY <1>3, <1>9, <1>11
<1>15. b = v \o y BY <1>a, <1>b, <1>2, <1>3
<1>16. Given(d, b, j) =
         ((Given(d, x, j) \o Adds(d, j, e)) \o Adds(d, j, g)) \o Given(d, y, j)
  BY <1>12, <1>13, <1>14, <1>15
<1>17. BufferOK(t, b) BY <1>6, <1>15
<1> QED BY <1>16, <1>17 DEF d, Four

\* Every buffer can be cut at any two neighbours, and swapping them swaps them.
LEMMA AroundTwo ==
    ASSUME NEW b, Sequence(b), NEW i \in 1 .. Len(b), i < Len(b)
    PROVE  LET x == SubSeq(b, 1, i - 1)
               y == SubSeq(b, i + 2, Len(b))
           IN  /\ b = ((x \o <<b[i]>>) \o <<b[i + 1]>>) \o y
               /\ [b EXCEPT ![i] = b[i + 1], ![i + 1] = b[i]] =
                    ((x \o <<b[i + 1]>>) \o <<b[i]>>) \o y
<1> DEFINE n == Len(b)
           x == SubSeq(b, 1, i - 1)
           y == SubSeq(b, i + 2, Len(b))
           s == [b EXCEPT ![i] = b[i + 1], ![i + 1] = b[i]]
<1>1. n \in Nat /\ DOMAIN b = 1 .. n /\ i + 1 \in 1 .. n BY SequenceLen
<1>2. Sequence(x) /\ Len(x) = i - 1 /\ \A k \in 1 .. i - 1 : x[k] = b[k]
  <2>1. 1 \in 1 .. n + 1 /\ i - 1 \in 0 .. n BY <1>1
  <2>2. /\ Sequence(x) /\ Len(x) = IF 1 <= i - 1 THEN (i - 1) - 1 + 1 ELSE 0
        /\ \A k \in 1 .. (i - 1) - 1 + 1 : x[k] = b[1 + k - 1]
    BY <2>1, Slice
  <2> HIDE DEF x
  <2>3. Len(x) = i - 1 BY <1>1, <2>2
  <2>4. ASSUME NEW k \in 1 .. i - 1 PROVE x[k] = b[k]
    <3>1. k \in 1 .. (i - 1) - 1 + 1 /\ 1 + k - 1 = k BY <1>1
    <3>2. x[k] = b[1 + k - 1] BY <2>2, <3>1
    <3> QED BY <3>1, <3>2
  <2> QED BY <2>2, <2>3, <2>4
<1>3. Sequence(y) /\ Len(y) = n - i - 1 /\ \A k \in 1 .. n - i - 1 : y[k] = b[i + 1 + k]
  <2>1. i + 2 \in 1 .. n + 1 /\ n \in 0 .. n BY <1>1
  <2>2. /\ Sequence(y) /\ Len(y) = IF i + 2 <= n THEN n - (i + 2) + 1 ELSE 0
        /\ \A k \in 1 .. n - (i + 2) + 1 : y[k] = b[(i + 2) + k - 1]
    BY <2>1, Slice
  <2> HIDE DEF y
  <2>3. Len(y) = n - i - 1
    <3>1. CASE i + 2 <= n BY <1>1, <2>2, <3>1
    <3>2. CASE ~(i + 2 <= n)
      <4>1. Len(y) = 0 BY <2>2, <3>2
      <4>2. n \in Nat /\ i \in 1 .. n /\ i + 1 \in 1 .. n BY <1>1
      <4>3. n - i - 1 = 0
        <5> HIDE DEF n
        <5> QED BY <3>2, <4>2
      <4> QED BY <4>1, <4>3
    <3> QED BY <3>1, <3>2
  <2>4. ASSUME NEW k \in 1 .. n - i - 1 PROVE y[k] = b[i + 1 + k]
    <3>1. k \in 1 .. n - (i + 2) + 1 /\ (i + 2) + k - 1 = i + 1 + k BY <1>1
    <3>2. y[k] = b[(i + 2) + k - 1] BY <2>2, <3>1
    <3> QED BY <3>1, <3>2
  <2> QED BY <2>2, <2>3, <2>4
<1>4. Sequence(s) /\ Len(s) = n
  <2>1. s = [k \in 1 .. n |-> s[k]] BY <1>1
  <2> QED BY <1>1, <2>1, FunctionIsSequence
<1>5. s[i] = b[i + 1] /\ s[i + 1] = b[i] /\ \A k \in 1 .. n : k # i /\ k # i + 1 => s[k] = b[k]
  BY <1>1
<1> HIDE DEF x, y, s
<1>6. ASSUME NEW r, Sequence(r), Len(r) = n, NEW e, NEW g, r[i] = e, r[i + 1] = g,
             \A k \in 1 .. n : k # i /\ k # i + 1 => r[k] = b[k]
      PROVE  r = ((x \o <<e>>) \o <<g>>) \o y
  <2>1. Sequence(<<e>>) /\ Len(<<e>>) = 1 /\ <<e>>[1] = e BY SequenceOne
  <2>2. Sequence(<<g>>) /\ Len(<<g>>) = 1 /\ <<g>>[1] = g BY SequenceOne
  <2>3. PICK u : u = x \o <<e>> OBVIOUS
  <2>4. PICK v : v = u \o <<g>> OBVIOUS
  <2>5. PICK z : z = v \o y OBVIOUS
  <2>6. /\ Sequence(u) /\ Len(u) = i /\ (\A k \in 1 .. i - 1 : u[k] = b[k]) /\ u[i] = e
    <3>1. Sequence(u) /\ Len(u) = Len(x) + 1 BY <1>2, <2>1, <2>3, SequenceJoin
    <3>2. \A k \in 1 .. Len(x) : u[k] = x[k] BY <1>2, <2>1, <2>3, SequenceJoin
    <3>3. u[Len(x) + 1] = e
      <4>1. 1 \in 1 .. Len(<<e>>) BY <2>1
      <4>2. (x \o <<e>>)[Len(x) + 1] = <<e>>[1] BY <1>2, <2>1, <4>1, SequenceJoin
      <4> QED BY <2>1, <2>3, <4>2
    <3>4. Len(x) + 1 = i BY <1>1, <1>2
    <3> QED BY <1>2, <3>1, <3>2, <3>3, <3>4
  <2>7. /\ Sequence(v) /\ Len(v) = i + 1 /\ (\A k \in 1 .. i : v[k] = u[k]) /\ v[i + 1] = g
    <3>1. Sequence(v) /\ Len(v) = Len(u) + 1 BY <2>2, <2>4, <2>6, SequenceJoin
    <3>2. \A k \in 1 .. Len(u) : v[k] = u[k] BY <2>2, <2>4, <2>6, SequenceJoin
    <3>3. v[Len(u) + 1] = g
      <4>1. 1 \in 1 .. Len(<<g>>) BY <2>2
      <4>2. (u \o <<g>>)[Len(u) + 1] = <<g>>[1] BY <2>2, <2>6, <4>1, SequenceJoin
      <4> QED BY <2>2, <2>4, <4>2
    <3> QED BY <2>6, <3>1, <3>2, <3>3
  <2>8. /\ Sequence(z) /\ Len(z) = n /\ (\A k \in 1 .. i + 1 : z[k] = v[k])
        /\ \A k \in 1 .. n - i - 1 : z[i + 1 + k] = b[i + 1 + k]
    <3>1. Sequence(z) /\ Len(z) = Len(v) + Len(y) BY <1>3, <2>5, <2>7, SequenceJoin
    <3>2. \A k \in 1 .. Len(v) : z[k] = v[k] BY <1>3, <2>5, <2>7, SequenceJoin
    <3>3. \A k \in 1 .. Len(y) : z[Len(v) + k] = y[k] BY <1>3, <2>5, <2>7, SequenceJoin
    <3>4. Len(z) = n BY <1>1, <1>3, <2>7, <3>1
    <3>5. \A k \in 1 .. i + 1 : z[k] = v[k] BY <2>7, <3>2
    <3>6. \A k \in 1 .. n - i - 1 : z[i + 1 + k] = b[i + 1 + k] BY <1>3, <2>7, <3>3
    <3> QED BY <3>1, <3>4, <3>5, <3>6
  <2>9. ASSUME NEW k \in 1 .. n PROVE r[k] = z[k]
    <3>1. CASE k < i BY <1>1, <1>6, <2>6, <2>7, <2>8, <3>1
    <3>2. CASE k = i BY <1>1, <1>6, <2>6, <2>7, <2>8, <3>2
    <3>3. CASE k = i + 1 BY <1>1, <1>6, <2>7, <2>8, <3>3
    <3>4. CASE k > i + 1
      <4>1. k - i - 1 \in 1 .. n - i - 1 /\ i + 1 + (k - i - 1) = k BY <1>1, <3>4
      <4>2. z[i + 1 + (k - i - 1)] = b[i + 1 + (k - i - 1)] BY <2>8, <4>1
      <4>3. r[k] = b[k] BY <1>1, <1>6, <3>4
      <4> QED BY <4>1, <4>2, <4>3
    <3> QED BY <1>1, <3>1, <3>2, <3>3, <3>4
  <2>10. r = z BY <1>1, <1>6, <2>8, <2>9, SequenceEqual
  <2> QED BY <2>3, <2>4, <2>5, <2>10
<1>7. b = ((x \o <<b[i]>>) \o <<b[i + 1]>>) \o y BY <1>6
<1>8. s = ((x \o <<b[i + 1]>>) \o <<b[i]>>) \o y BY <1>4, <1>5, <1>6
<1> QED BY <1>7, <1>8 DEF x, y, s

\* Entries of different fields may be swapped.
LEMMA HoldsMoved ==
    ASSUME NEW t \in DOMAIN Type, NEW m, NEW b, NEW w, NEW u, Holds(t, m, b, w, u),
           NEW i \in 1 .. Len(b), i < Len(b), b[i].number # b[i + 1].number,
           Lookup(Type[t].descriptor, b[i].number) # 0
    PROVE  Holds(t, m, [b EXCEPT ![i] = b[i + 1], ![i + 1] = b[i]], w, u)
<1> DEFINE d == Type[t].descriptor
           x == SubSeq(b, 1, i - 1)
           y == SubSeq(b, i + 2, Len(b))
           s == [b EXCEPT ![i] = b[i + 1], ![i + 1] = b[i]]
           e == b[i]
           g == b[i + 1]
<1>1. /\ BufferOK(t, b) /\ MayDrop(t, w) /\ Unknown(t, u)
      /\ \A j \in 0 .. Len(d.fields) : Given(d, b, j) = Left(t, m, w, u)[j]
  BY DEF Holds
<1>2. Sequence(b) /\ Len(b) \in Nat BY <1>1, SequenceLen DEF BufferOK
<1>3. b = ((x \o <<e>>) \o <<g>>) \o y BY <1>2, AroundTwo
<1>4. s = ((x \o <<g>>) \o <<e>>) \o y BY <1>2, AroundTwo
<1>5. BufferOK(t, x)
  <2>1. 1 \in 1 .. Len(b) + 1 /\ i - 1 \in 0 .. Len(b) BY <1>2
  <2> QED BY <1>1, <2>1, BufferSlice
<1>6. BufferOK(t, y)
  <2>1. i + 2 \in 1 .. Len(b) + 1 /\ Len(b) \in 0 .. Len(b) BY <1>2
  <2> QED BY <1>1, <2>1, BufferSlice
<1>7. EntryOK(t, e) /\ EntryOK(t, g)
  <2>1. i + 1 \in 1 .. Len(b) BY <1>2
  <2> QED BY <1>1, <2>1 DEF BufferOK
<1>8. Lookup(d, e.number) # Lookup(d, g.number)
  <2>1. e.number \in Nat /\ g.number \in Nat BY <1>7 DEF EntryOK
  <2> QED BY <2>1, LookupFacts
<1> HIDE DEF x, y, s, e, g
<1>a. \A j : Four(t, j, b, x, e, g, y) BY <1>3, <1>5, <1>6, <1>7, GivenFour
<1>b. \A j : Four(t, j, s, x, g, e, y) BY <1>4, <1>5, <1>6, <1>7, GivenFour
<1>9. BufferOK(t, s) BY <1>b DEF Four
<1>10. ASSUME NEW j PROVE Given(d, s, j) = Given(d, b, j)
  <2>1. Given(d, b, j) = ((Given(d, x, j) \o Adds(d, j, e)) \o Adds(d, j, g)) \o Given(d, y, j)
    BY <1>a DEF Four
  <2>2. Given(d, s, j) = ((Given(d, x, j) \o Adds(d, j, g)) \o Adds(d, j, e)) \o Given(d, y, j)
    BY <1>b DEF Four
  <2>3. Adds(d, j, e) = <<>> \/ Adds(d, j, g) = <<>> BY <1>8, AddsElsewhere
  <2>4. Sequence(Adds(d, j, e)) /\ Sequence(Adds(d, j, g)) BY <1>7, EntryGives
  <2>5. Sequence(Given(d, x, j)) /\ Sequence(Given(d, y, j))
    <3>1. Scannable(d, j, x) /\ Scannable(d, j, y) BY <1>5, <1>6, BufferScans
    <3> QED BY <3>1, GivenFlattens
  <2> HIDE DEF d
  <2>6. PICK a, c : a = Adds(d, j, e) /\ c = Adds(d, j, g) OBVIOUS
  <2>7. PICK p, q : p = Given(d, x, j) /\ q = Given(d, y, j) OBVIOUS
  <2>8. Sequence(a) /\ Sequence(c) /\ Sequence(p) /\ Sequence(q) /\ (a = <<>> \/ c = <<>>)
    BY <2>3, <2>4, <2>5, <2>6, <2>7
  <2>9. Given(d, b, j) = ((p \o a) \o c) \o q BY <2>1, <2>6, <2>7
  <2>10. Given(d, s, j) = ((p \o c) \o a) \o q BY <2>2, <2>6, <2>7
  <2>11. ((p \o a) \o c) \o q = ((p \o c) \o a) \o q BY <2>8, Swap
  <2> QED BY <2>9, <2>10, <2>11
<1>11. Holds(t, m, s, w, u) BY <1>1, <1>9, <1>10 DEF Holds
<1> QED BY <1>11 DEF s

\* A buffer cut into what is before a part, the part, and what is after it.
LEMMA AroundPart ==
    ASSUME NEW b, Sequence(b), NEW i \in 1 .. Len(b), NEW j \in 1 .. Len(b), i <= j
    PROVE  b = (SubSeq(b, 1, i - 1) \o SubSeq(b, i, j)) \o SubSeq(b, j + 1, Len(b))
<1> DEFINE n == Len(b)
           x == SubSeq(b, 1, i - 1)
           c == SubSeq(b, i, j)
           z == SubSeq(b, 1, j)
<1>1. n \in Nat /\ i \in 1 .. n /\ j \in 1 .. n BY SequenceLen
<1>2. Sequence(x) /\ Len(x) = i - 1 /\ \A k \in 1 .. i - 1 : x[k] = b[k]
  <2>1. 1 \in 1 .. n + 1 /\ i - 1 \in 0 .. n BY <1>1
  <2>2. /\ Sequence(x) /\ Len(x) = IF 1 <= i - 1 THEN (i - 1) - 1 + 1 ELSE 0
        /\ \A k \in 1 .. (i - 1) - 1 + 1 : x[k] = b[1 + k - 1]
    BY <2>1, Slice
  <2> HIDE DEF x
  <2>3. Len(x) = i - 1 BY <1>1, <2>2
  <2>4. ASSUME NEW k \in 1 .. i - 1 PROVE x[k] = b[k]
    <3>1. k \in 1 .. (i - 1) - 1 + 1 /\ 1 + k - 1 = k BY <1>1
    <3>2. x[k] = b[1 + k - 1] BY <2>2, <3>1
    <3> QED BY <3>1, <3>2
  <2> QED BY <2>2, <2>3, <2>4
<1>3. Sequence(c) /\ Len(c) = j - i + 1 /\ \A k \in 1 .. j - i + 1 : c[k] = b[i + k - 1]
  <2>1. i \in 1 .. n + 1 /\ j \in 0 .. n BY <1>1
  <2> QED BY <2>1, Slice
<1>4. Sequence(z) /\ Len(z) = j /\ \A k \in 1 .. j : z[k] = b[k]
  <2>1. 1 \in 1 .. n + 1 /\ j \in 0 .. n BY <1>1
  <2>2. /\ Sequence(z) /\ Len(z) = IF 1 <= j THEN j - 1 + 1 ELSE 0
        /\ \A k \in 1 .. j - 1 + 1 : z[k] = b[1 + k - 1]
    BY <2>1, Slice
  <2> HIDE DEF z
  <2>3. Len(z) = j BY <1>1, <2>2
  <2>4. ASSUME NEW k \in 1 .. j PROVE z[k] = b[k]
    <3>1. k \in 1 .. j - 1 + 1 /\ 1 + k - 1 = k BY <1>1
    <3>2. z[k] = b[1 + k - 1] BY <2>2, <3>1
    <3> QED BY <3>1, <3>2
  <2> QED BY <2>2, <2>3, <2>4
<1> HIDE DEF x, c, z
<1>5. PICK y : y = x \o c OBVIOUS
<1>6. /\ Sequence(y) /\ Len(y) = Len(x) + Len(c)
      /\ \A k \in 1 .. Len(x) : y[k] = x[k]
      /\ \A k \in 1 .. Len(c) : y[Len(x) + k] = c[k]
  <2>1. Sequence(y) /\ Len(y) = Len(x) + Len(c) BY <1>2, <1>3, <1>5, SequenceJoin
  <2>2. \A k \in 1 .. Len(x) : y[k] = x[k] BY <1>2, <1>3, <1>5, SequenceJoin
  <2>3. \A k \in 1 .. Len(c) : y[Len(x) + k] = c[k]
    <3>1. \A k \in 1 .. Len(c) : (x \o c)[Len(x) + k] = c[k]
      <4>1. Sequence(x) /\ Sequence(c) BY <1>2, <1>3
      <4> QED BY <4>1, SequenceJoin
    <3> QED BY <1>5, <3>1
  <2> QED BY <2>1, <2>2, <2>3
<1>7. Len(y) = j BY <1>1, <1>2, <1>3, <1>6
<1>8. ASSUME NEW k \in 1 .. j PROVE y[k] = z[k]
  <2>1. CASE k < i
    <3>1. k \in 1 .. i - 1 BY <1>1, <2>1
    <3> QED BY <1>2, <1>4, <1>6, <3>1
  <2>2. CASE k >= i
    <3>1. k - i + 1 \in 1 .. j - i + 1 /\ (i - 1) + (k - i + 1) = k /\ i + (k - i + 1) - 1 = k
      BY <1>1, <2>2
    <3>2. y[(i - 1) + (k - i + 1)] = c[k - i + 1] BY <1>2, <1>3, <1>6, <3>1
    <3>3. c[k - i + 1] = b[i + (k - i + 1) - 1] BY <1>3, <3>1
    <3>4. y[k] = c[k - i + 1] /\ c[k - i + 1] = b[k] BY <3>1, <3>2, <3>3
    <3> QED BY <1>4, <3>4
  <2> QED BY <1>1, <2>1, <2>2
<1>9. y = z BY <1>4, <1>6, <1>7, <1>8, SequenceEqual
<1>10. z \o SubSeq(b, j + 1, n) = b
  <2>1. j \in 0 .. n BY <1>1
  <2> QED BY <2>1, SplitAt DEF z
<1> QED BY <1>5, <1>9, <1>10 DEF x, c

\* What such a buffer holds, and what it holds without the part.
Three(t, p, b, x, c, y) ==
    LET d == Type[t].descriptor IN
    /\ Given(d, b, p) = (Given(d, x, p) \o Given(d, c, p)) \o Given(d, y, p)
    /\ Given(d, x \o y, p) = Given(d, x, p) \o Given(d, y, p)
    /\ Sequence(Given(d, x, p)) /\ Sequence(Given(d, c, p)) /\ Sequence(Given(d, y, p))

\* It holds what the three hold, joined.
LEMMA GivenPart ==
    ASSUME NEW t \in DOMAIN Type, NEW p, NEW x, NEW c, NEW y,
           BufferOK(t, x), BufferOK(t, c), BufferOK(t, y),
           NEW b, b = (x \o c) \o y
    PROVE  Three(t, p, b, x, c, y)
<1> DEFINE d == Type[t].descriptor
<1>1. PICK z : z = x \o c OBVIOUS
<1>2. BufferOK(t, z) BY <1>1, BufferJoin
<1>3. Scannable(d, p, x) /\ Scannable(d, p, c) /\ Scannable(d, p, y) /\ Scannable(d, p, z)
  BY <1>2, BufferScans
<1> HIDE DEF d
<1>4. Given(d, x \o c, p) = Given(d, x, p) \o Given(d, c, p) BY <1>3, GivenJoin
<1>5. Given(d, z \o y, p) = Given(d, z, p) \o Given(d, y, p) BY <1>3, GivenJoin
<1>6. Given(d, x \o y, p) = Given(d, x, p) \o Given(d, y, p) BY <1>3, GivenJoin
<1>7. Sequence(Given(d, x, p)) /\ Sequence(Given(d, c, p)) /\ Sequence(Given(d, y, p))
  BY <1>3, GivenFlattens
<1>8. b = z \o y BY <1>1
<1>9. Given(d, b, p) = (Given(d, x, p) \o Given(d, c, p)) \o Given(d, y, p)
  BY <1>1, <1>4, <1>5, <1>8
<1> QED BY <1>6, <1>7, <1>9 DEF d, Three

\* The entries of a repeated number may be packed into one, at the end.
LEMMA HoldsPackedFields ==
    ASSUME NEW t \in DOMAIN Type, NEW m, NEW b, NEW w, NEW u, Holds(t, m, b, w, u),
           NEW i \in 1 .. Len(b), NEW j \in 1 .. Len(b), i <= j,
           NEW p, p = Lookup(Type[t].descriptor, b[i].number), p # 0,
           Type[t].descriptor.fields[p].label = "REPEATED",
           Packable(Type[t].descriptor.fields[p].type),
           \A k \in 1 .. Len(b) : b[k].number = b[i].number <=> k \in i .. j,
           \A k \in i .. j : b[k].type # "LENGTH_PREFIXED",
           NEW e, e.number = b[i].number, e.type = "LENGTH_PREFIXED",
           e.payload = [k \in 1 .. j - i + 1 |-> b[i + k - 1].payload]
    PROVE  Holds(t, m, (SubSeq(b, 1, i - 1) \o SubSeq(b, j + 1, Len(b))) \o <<e>>, w, u)
<1> DEFINE d == Type[t].descriptor
           f == d.fields[p]
           n == Len(b)
           x == SubSeq(b, 1, i - 1)
           c == SubSeq(b, i, j)
           y == SubSeq(b, j + 1, n)
           values == [k \in 1 .. j - i + 1 |-> b[i + k - 1].payload]
<1>1. /\ BufferOK(t, b) /\ MayDrop(t, w) /\ Unknown(t, u)
      /\ \A q \in 0 .. Len(d.fields) : Given(d, b, q) = Left(t, m, w, u)[q]
  BY DEF Holds
<1>2. Sequence(b) /\ n \in Nat /\ i \in 1 .. n /\ j \in 1 .. n BY <1>1, SequenceLen DEF BufferOK
<1>3. b = (x \o c) \o y BY <1>2, AroundPart
<1>4. BufferOK(t, x) /\ BufferOK(t, c) /\ BufferOK(t, y)
  <2>1. 1 \in 1 .. n + 1 /\ i - 1 \in 0 .. n BY <1>2
  <2>2. i \in 1 .. n + 1 /\ j \in 0 .. n BY <1>2
  <2>3. j + 1 \in 1 .. n + 1 /\ n \in 0 .. n BY <1>2
  <2> QED BY <1>1, <2>1, <2>2, <2>3, BufferSlice
<1>5. Len(x) = i - 1 /\ \A k \in 1 .. i - 1 : x[k] = b[k]
  <2>1. 1 \in 1 .. n + 1 /\ i - 1 \in 0 .. n BY <1>2
  <2>2. /\ Len(x) = IF 1 <= i - 1 THEN (i - 1) - 1 + 1 ELSE 0
        /\ \A k \in 1 .. (i - 1) - 1 + 1 : x[k] = b[1 + k - 1]
    BY <1>2, <2>1, Slice
  <2> HIDE DEF x
  <2>3. Len(x) = i - 1 BY <1>2, <2>2
  <2>4. ASSUME NEW k \in 1 .. i - 1 PROVE x[k] = b[k]
    <3>1. k \in 1 .. (i - 1) - 1 + 1 /\ 1 + k - 1 = k BY <1>2
    <3>2. x[k] = b[1 + k - 1] BY <2>2, <3>1
    <3> QED BY <3>1, <3>2
  <2> QED BY <2>3, <2>4
<1>6. Len(c) = j - i + 1 /\ \A k \in 1 .. j - i + 1 : c[k] = b[i + k - 1]
  <2>1. i \in 1 .. n + 1 /\ j \in 0 .. n BY <1>2
  <2> QED BY <1>2, <2>1, Slice
<1>7. Len(y) = n - j /\ \A k \in 1 .. n - j : y[k] = b[j + k]
  <2>1. j + 1 \in 1 .. n + 1 /\ n \in 0 .. n BY <1>2
  <2>2. /\ Len(y) = IF j + 1 <= n THEN n - (j + 1) + 1 ELSE 0
        /\ \A k \in 1 .. n - (j + 1) + 1 : y[k] = b[(j + 1) + k - 1]
    BY <1>2, <2>1, Slice
  <2> HIDE DEF y, n
  <2>3. CASE j + 1 <= n
    <3>1. Len(y) = n - j BY <1>2, <2>2, <2>3
    <3>2. ASSUME NEW k \in 1 .. n - j PROVE y[k] = b[j + k]
      <4>1. k \in 1 .. n - (j + 1) + 1 /\ (j + 1) + k - 1 = j + k BY <1>2
      <4>2. y[k] = b[(j + 1) + k - 1] BY <2>2, <4>1
      <4> QED BY <4>1, <4>2
    <3> QED BY <3>1, <3>2
  <2>4. CASE ~(j + 1 <= n)
    <3>1. n - j = 0 BY <1>2, <2>4
    <3>2. Len(y) = 0 BY <2>2, <2>4
    <3> QED BY <3>1, <3>2
  <2> QED BY <2>3, <2>4
<1>8. Sequence(x) /\ Sequence(c) /\ Sequence(y) BY <1>4 DEF BufferOK
<1>9. \A k \in 1 .. n : EntryOK(t, b[k]) /\ b[k].number \in Nat BY <1>1 DEF BufferOK, EntryOK
<1>10. p \in 1 .. Len(d.fields)
  <2>1. p \in 0 .. Len(d.fields) BY <1>2, <1>9, LookupFacts
  <2> QED BY <2>1
<1>11. \A k \in 1 .. n : Lookup(d, b[k].number) = p <=> k \in i .. j BY <1>2, <1>9, LookupFacts
<1>12. ASSUME NEW k \in 1 .. i - 1 PROVE Lookup(d, x[k].number) # p
  <2>1. k \in 1 .. n /\ k \notin i .. j BY <1>2
  <2> QED BY <1>5, <1>11, <2>1
<1>13. ASSUME NEW k \in 1 .. n - j PROVE Lookup(d, y[k].number) # p
  <2>1. j + k \in 1 .. n /\ j + k \notin i .. j BY <1>2
  <2>2. y[k] = b[j + k] BY <1>7
  <2> QED BY <1>11, <2>1, <2>2
<1>14. ASSUME NEW k \in 1 .. j - i + 1
       PROVE  /\ Lookup(d, c[k].number) = p /\ Values(f, c[k]) = <<values[k]>>
  <2>1. i + k - 1 \in i .. j /\ i + k - 1 \in 1 .. n BY <1>2
  <2>2. c[k] = b[i + k - 1] BY <1>6
  <2>3. Lookup(d, c[k].number) = p BY <1>11, <2>1, <2>2
  <2>4. EntryOK(t, c[k]) BY <1>9, <2>1, <2>2
  <2>5. c[k].type # "LENGTH_PREFIXED" BY <2>1, <2>2
  <2>6. c[k].type = WireType(f.type) BY <2>3, <2>4, <2>5 DEF EntryOK
  <2>7. f.type # "MESSAGE" BY DEF Packable
  <2> HIDE DEF f, c
  <2>8. Values(f, c[k]) = <<c[k].payload>> BY <2>6, <2>7, ValuesOne
  <2>9. values[k] = c[k].payload BY <2>2
  <2> QED BY <2>3, <2>8, <2>9
<1>15. values = [k \in 1 .. j - i + 1 |-> values[k]] /\ j - i + 1 \in Nat BY <1>2
<1>16. e.payload = values OBVIOUS
<1>17. Lookup(d, e.number) = p /\ e.number \in Nat BY <1>9
<1>18. f.type \in FieldTypes
  <2>1. FieldOK(f, Type[t].init) BY <1>10, TableFacts
  <2> QED BY <2>1 DEF FieldOK, FieldTypes
<1>f. \A z : Lookup(d, z.number) = p => Adds(d, p, z) = Values(f, z)
  <2>1. p # 0 OBVIOUS
  <2>2. \A z : Lookup(d, z.number) = p => Adds(d, p, z) = Values(d.fields[p], z)
    <3> HIDE DEF d
    <3> QED BY <2>1 DEF Adds
  <2> QED BY <2>2
<1>19. e.type # WireType(f.type) BY <1>18, WireTypes
<1>20. f.label = "REPEATED" /\ Packable(f.type) OBVIOUS
<1> HIDE DEF values
<1>21. Sequence(values) /\ Len(values) = j - i + 1 BY <1>15, FunctionIsSequence
<1>22. EntryOK(t, e) BY <1>16, <1>17, <1>20, <1>21 DEF EntryOK
<1>23. Values(f, e) = values
  <2> HIDE DEF f
  <2> QED BY <1>16, <1>19, <1>20, ValuesPacked
<1> HIDE DEF x, c, y, f, n
<1>24. BufferOK(t, x \o y) /\ BufferOK(t, <<e>>) BY <1>4, <1>22, BufferJoin, BufferOne
<1>25. BufferOK(t, (x \o y) \o <<e>>) BY <1>24, BufferJoin
<1>26. ASSUME NEW q \in 0 .. Len(d.fields)
       PROVE  Given(d, (x \o y) \o <<e>>, q) = Left(t, m, w, u)[q]
  <2>0. Three(t, q, b, x, c, y) BY <1>3, <1>4, GivenPart
  <2>1. Given(d, b, q) = (Given(d, x, q) \o Given(d, c, q)) \o Given(d, y, q) BY <2>0 DEF Three
  <2>2. Given(d, x \o y, q) = Given(d, x, q) \o Given(d, y, q) BY <2>0 DEF Three
  <2>3. Sequence(Given(d, x, q)) /\ Sequence(Given(d, c, q)) /\ Sequence(Given(d, y, q))
    BY <2>0 DEF Three
  <2>4. Sequence(Adds(d, q, e)) BY <1>22, EntryGives
  <2>5. Given(d, (x \o y) \o <<e>>, q) = Given(d, x \o y, q) \o Adds(d, q, e)
    <3>1. PICK z : z = x \o y OBVIOUS
    <3>2. PICK r : r = <<e>> OBVIOUS
    <3>3. Scannable(d, q, z) /\ Scannable(d, q, r) BY <1>24, <3>1, <3>2, BufferScans
    <3>4. Given(d, r, q) = Adds(d, q, e) BY <2>4, <3>2, GivenOne
    <3>5. Given(d, z \o r, q) = Given(d, z, q) \o Given(d, r, q) BY <3>3, GivenJoin
    <3> QED BY <3>1, <3>2, <3>4, <3>5
  <2>6. Given(d, b, q) = Left(t, m, w, u)[q] BY <1>1
  <2>7. CASE q = p
    <3>1. Given(d, x, q) = <<>>
      <4>1. \A k \in 1 .. Len(x) : Adds(d, q, x[k]) = <<>> BY <1>5, <1>12, <2>7, AddsElsewhere
      <4>2. Sequence(x) BY <1>8
      <4> HIDE DEF d
      <4> QED BY <4>1, <4>2, GivenNone
    <3>2. Given(d, y, q) = <<>>
      <4>1. \A k \in 1 .. Len(y) : Adds(d, q, y[k]) = <<>> BY <1>7, <1>13, <2>7, AddsElsewhere
      <4>2. Sequence(y) BY <1>8
      <4> HIDE DEF d
      <4> QED BY <4>1, <4>2, GivenNone
    <3>3. Given(d, c, q) = values
      <4>1. ASSUME NEW k \in 1 .. Len(values) PROVE Adds(d, q, c[k]) = <<values[k]>>
        <5>1. Lookup(d, c[k].number) = p /\ Values(f, c[k]) = <<values[k]>> BY <1>14, <1>21
        <5>2. Adds(d, p, c[k]) = Values(f, c[k]) BY <1>f, <5>1
        <5> QED BY <2>7, <5>1, <5>2
      <4>2. Len(c) = Len(values) BY <1>6, <1>21
      <4>3. Sequence(c) /\ Sequence(values) BY <1>8, <1>21
      <4>4. \A k \in 1 .. Len(values) : Adds(d, q, c[k]) = <<values[k]>> BY <4>1
      <4> HIDE DEF d
      <4>5. Scannable(d, q, c) /\ Given(d, c, q) = values BY <4>2, <4>3, <4>4, GivenSingles
      <4> QED BY <4>5
    <3>4. Given(d, b, q) = values BY <1>21, <2>1, <3>1, <3>2, <3>3, JoinEmpty
    <3>5. Adds(d, q, e) = values
      <4>1. Adds(d, p, e) = Values(f, e) BY <1>f, <1>17
      <4> QED BY <1>23, <2>7, <4>1
    <3>6. Given(d, x \o y, q) = <<>> BY <2>2, <3>1, <3>2, SequenceEmpty, JoinEmpty
    <3>7. Given(d, (x \o y) \o <<e>>, q) = values BY <1>21, <2>5, <3>5, <3>6, JoinEmpty
    <3> QED BY <2>6, <3>4, <3>7
  <2>8. CASE q # p
    <3>1. Adds(d, q, e) = <<>> BY <1>17, <2>8, AddsElsewhere
    <3>2. Given(d, c, q) = <<>>
      <4>1. ASSUME NEW k \in 1 .. Len(c) PROVE Adds(d, q, c[k]) = <<>>
        <5>1. k \in 1 .. j - i + 1 BY <1>6
        <5>2. Lookup(d, c[k].number) = p BY <1>14, <5>1
        <5> QED BY <2>8, <5>2, AddsElsewhere
      <4>2. Sequence(c) BY <1>8
      <4> HIDE DEF d
      <4> QED BY <4>1, <4>2, GivenNone
    <3>3. Given(d, b, q) = Given(d, x, q) \o Given(d, y, q) BY <2>1, <2>3, <3>2, JoinEmpty
    <3>4. Sequence(Given(d, x \o y, q)) BY <2>2, <2>3, SequenceJoin
    <3>5. Given(d, (x \o y) \o <<e>>, q) = Given(d, x \o y, q) BY <2>5, <3>1, <3>4, JoinEmpty
    <3> QED BY <2>2, <2>6, <3>3, <3>5
  <2> QED BY <2>7, <2>8
<1>27. Holds(t, m, (x \o y) \o <<e>>, w, u) BY <1>1, <1>25, <1>26 DEF Holds
<1> QED BY <1>27 DEF x, y, n

-----------------------------------------------------------------------------
(* What the receiver makes of such a buffer.                               *)

\* Whatever version skew did to a buffer that holds a message, it is unpacked to
\* what a receiver should see, and refused exactly when a required member is
\* missing or a part incomplete.
THEOREM HoldsUnpack ==
    ASSUME NEW t \in DOMAIN Type, NEW m, StructOK(t, m), NEW b, NEW w, NEW u, Holds(t, m, b, w, u)
    PROVE  Unpack(Type[t].descriptor, b) = IF Accepts(t, m, w) THEN SeenAs(m, w, u) ELSE NULL
<1> DEFINE d == Type[t].descriptor
           n == Len(d.fields)
<1>1. MayDrop(t, w) /\ \A j \in 0 .. n : Given(d, b, j) = Left(t, m, w, u)[j] BY DEF Holds
<1>2. [j \in 0 .. n |-> Given(d, b, j)] = Left(t, m, w, u)
  <2>1. Left(t, m, w, u) = [j \in 0 .. n |-> Left(t, m, w, u)[j]] BY DEF Left
  <2> QED BY <1>1, <2>1
<1>3. Unpack(d, b) = Struct(d, Left(t, m, w, u)) BY <1>2 DEF Unpack
<1>4. \A i \in 1 .. n : PartsRoundTrip(m, d.fields[i]) BY AllPartsRoundTrip
<1> QED BY <1>1, <1>3, <1>4, StructSeen

\* What a receiver sees is no null pointer.
LEMMA SeenAsAny ==
    ASSUME NEW t \in DOMAIN Type, NEW m, StructOK(t, m), NEW w, NEW u \in Seq(UnknownEntries)
    PROVE  SeenAs(m, w, u) # NULL
<1> DEFINE d == Type[t].descriptor
           n == Len(d.fields)
           initial == Type[t].init
           s == SeenAs(m, w, u)
<1>1. ShowsMembers(s, t, m, w) /\ s.base = [descriptor |-> t, unknown_fields |-> u]
  BY SeenAsCases
<1> HIDE DEF s
<1>2. s = [name \in DOMAIN initial |-> s[name]] BY <1>1 DEF ShowsMembers
<1>3. InitialOK(t, initial, d, n) /\ \A i \in 1 .. n : FieldOK(d.fields[i], initial)
  BY TableFacts
<1>4. initial \in [DOMAIN initial -> AnyMember]
  <2>1. StructOK(t, initial) BY StructsAssumption
  <2> QED BY <2>1, StructAny
<1>5. ASSUME NEW i \in 1 .. n PROVE s[d.fields[i].name] \in AnyMember
  <2> DEFINE f == d.fields[i]
  <2>1. s[f.name] = SeenMember(m, f, w) BY <1>1 DEF ShowsMembers
  <2>2. CASE f.name \notin w
    <3>1. PartsRoundTrip(m, f) BY AllPartsRoundTrip
    <3>2. SeenMember(m, f, w) \in AnyMember BY <2>2, <3>1, FieldSeen
    <3> QED BY <2>1, <3>2
  <2>3. CASE f.name \in w
    <3>1. m.base.descriptor = t BY StructPacks DEF Packs
    <3>2. SeenMember(m, f, w) = initial[f.name] BY <2>3, <3>1 DEF SeenMember
    <3>3. f.name \in DOMAIN initial BY <1>3 DEF FieldOK
    <3> QED BY <1>4, <2>1, <3>2, <3>3
  <2> QED BY <2>2, <2>3
<1>6. ASSUME NEW i \in 1 .. n, d.fields[i].has # Empty PROVE s[d.fields[i].has] \in AnyMember
  <2> DEFINE f == d.fields[i]
  <2>1. /\ f.name \in w => s[f.has] = FALSE
        /\ f.name \notin w => s[f.has] = m[f.has]
    BY <1>1, <1>6 DEF ShowsMembers
  <2>2. m[f.has] \in BOOLEAN BY <1>6, StructMembers
  <2>3. s[f.has] \in BOOLEAN BY <2>1, <2>2
  <2>4. BOOLEAN \subseteq AnyMember BY DEF AnyMember, AnyValue
  <2> QED BY <2>3, <2>4
<1>7. s.base \in AnyMember
  <2>1. s.base \in [descriptor : DOMAIN Type, unknown_fields : Seq(UnknownEntries)] BY <1>1
  <2> QED BY <2>1 DEF AnyMember
<1>8. ASSUME NEW name \in DOMAIN initial PROVE s[name] \in AnyMember
  <2>1. \/ name = "base"
        \/ \E i \in 1 .. n : name = d.fields[i].name
        \/ \E i \in 1 .. n : d.fields[i].has # Empty /\ name = d.fields[i].has
    BY <1>3 DEF InitialOK
  <2> QED BY <1>5, <1>6, <1>7, <2>1
<1>9. s \in [DOMAIN initial -> AnyMember] BY <1>2, <1>8
<1>10. s # NULL BY <1>9, NullAssumption
<1> QED BY <1>10 DEF s

\* What a receiver sees is packed to a buffer that holds the same message: it
\* may be passed on any number of times.
THEOREM HoldsAgain ==
    ASSUME NEW t \in DOMAIN Type, NEW m, StructOK(t, m), NEW b, NEW w, NEW u,
           Holds(t, m, b, w, u), Accepts(t, m, w)
    PROVE  /\ SeenAs(m, w, u).base.descriptor = t
           /\ Holds(t, m, Pack(SeenAs(m, w, u)), w, u)
<1> DEFINE d == Type[t].descriptor
           n == Len(d.fields)
           s == SeenAs(m, w, u)
<1>1. ShowsMembers(s, t, m, w) /\ s.base = [descriptor |-> t, unknown_fields |-> u]
  BY SeenAsCases
<1> HIDE DEF s
<1>2. MayDrop(t, w) /\ Unknown(t, u) BY DEF Holds
<1>3. n \in Nat BY TableFacts
<1>4. ASSUME NEW i \in 1 .. n
      PROVE  LET f == d.fields[i] IN
             /\ PackField(s, f) = IF f.name \in w THEN <<>> ELSE PackField(m, f)
             /\ f.label = "REPEATED" => Sequence(s[f.name])
  <2>1. PartsRoundTrip(m, d.fields[i]) BY AllPartsRoundTrip
  <2> QED BY <1>1, <1>2, <2>1, FieldPacked
<1>5. s.base.descriptor = t /\ s.base.unknown_fields = u BY <1>1
<1>6. Packs(t, s)
  <2>1. Sequence(u) BY <1>2 DEF Unknown, Sequence
  <2>2. \A k \in 1 .. Len(u) : Lookup(d, u[k].number) = 0 BY <1>2 DEF Unknown
  <2>3. \A i \in 1 .. n : d.fields[i].label = "REPEATED" => Sequence(s[d.fields[i].name])
    BY <1>4
  <2> QED BY <1>5, <2>1, <2>2, <2>3 DEF Packs
<1>7. BufferOK(t, Pack(s)) BY <1>2, <1>5, <1>6, PackedBuffer
<1>8. Packs(t, m) BY StructPacks
<1>9. ASSUME NEW i \in 1 .. n
      PROVE  PartGiven(s, d.fields[i]) =
               IF d.fields[i].name \in w THEN <<>> ELSE PartGiven(m, d.fields[i])
  <2> DEFINE f == d.fields[i]
  <2>1. i \in 0 .. n BY <1>3
  <2>2. f.label = "REPEATED" => Sequence(s[f.name]) BY <1>4
  <2>3. f.label = "REPEATED" => Sequence(m[f.name]) BY <1>8 DEF Packs
  <2>4. Given(d, PackField(s, f), i) = PartGiven(s, f) BY <2>1, <2>2, FieldGiven
  <2>5. Given(d, PackField(m, f), i) = PartGiven(m, f) BY <2>1, <2>3, FieldGiven
  <2>6. PackField(s, f) = IF f.name \in w THEN <<>> ELSE PackField(m, f) BY <1>4
  <2>7. Given(d, <<>>, i) = <<>> BY GivenEmpty
  <2> HIDE DEF f, d
  <2>8. CASE f.name \in w BY <2>4, <2>6, <2>7, <2>8 DEF f
  <2>9. CASE f.name \notin w BY <2>4, <2>5, <2>6, <2>9 DEF f
  <2> QED BY <2>8, <2>9
<1>10. ASSUME NEW j \in 0 .. n PROVE Given(d, Pack(s), j) = Left(t, m, w, u)[j]
  <2>1. Given(d, Pack(s), j) = IF j = 0 THEN s.base.unknown_fields ELSE PartGiven(s, d.fields[j])
    BY <1>6, PackGiven
  <2>2. CASE j = 0
    <3>1. Given(d, Pack(s), j) = u BY <1>5, <2>1, <2>2
    <3>2. Left(t, m, w, u)[0] = u BY LeftCases
    <3> QED BY <2>2, <3>1, <3>2
  <2>3. CASE j # 0
    <3>1. j \in 1 .. n BY <2>3
    <3>2. Left(t, m, w, u)[j] = IF d.fields[j].name \in w THEN <<>> ELSE PartGiven(m, d.fields[j])
      BY <3>1, LeftCases
    <3> QED BY <1>9, <2>1, <2>3, <3>1, <3>2
  <2> QED BY <2>2, <2>3
<1>11. Holds(t, m, Pack(s), w, u) BY <1>2, <1>7, <1>10 DEF Holds
<1> QED BY <1>5, <1>11 DEF s

\* What was accepted has the members of the type it was unpacked by, and says so.
LEMMA UnpackShape ==
    ASSUME NEW r \in DOMAIN Type, NEW b, Unpack(Type[r].descriptor, b) # NULL
    PROVE  LET s == Unpack(Type[r].descriptor, b) IN
           DOMAIN s = DOMAIN Type[r].init /\ s.base.descriptor = r
<1> DEFINE d == Type[r].descriptor
           n == Len(d.fields)
           given == [i \in 0 .. n |-> Given(d, b, i)]
           s == Struct(d, given)
<1>1. Unpack(d, b) = s BY DEF Unpack
<1>2. DOMAIN d.fields = 1 .. n BY TableFacts
<1> HIDE DEF given
<1>3. \A i \in 1 .. n : ~Refuses(d.fields[i], given[i])
  <2> SUFFICES ASSUME NEW i \in 1 .. n, Refuses(d.fields[i], given[i]) PROVE FALSE OBVIOUS
  <2>1. i \in DOMAIN d.fields BY <1>2
  <2>2. s = NULL BY <2>1, StructRefused
  <2> QED BY <1>1, <2>2
<1>4. /\ s = [name \in DOMAIN Type[r].init |-> s[name]]
      /\ s.base = [descriptor |-> r, unknown_fields |-> given[0]]
  BY <1>3, StructAccepted
<1> HIDE DEF s
<1>5. DOMAIN s = DOMAIN Type[r].init /\ s.base.descriptor = r BY <1>4
<1> QED BY <1>1, <1>5

\* Both kinds of proximity messages have their first field at number 1.
LEMMA ProximityFields ==
    /\ "SscProximityResponse" \in DOMAIN Type /\ "SscProximityResponseDavinci" \in DOMAIN Type
    /\ LET d == Type["SscProximityResponse"].descriptor IN
       /\ 1 \in 1 .. Len(d.fields) /\ d.fields[1].number = 1
       /\ d.fields[1].label = "REQUIRED" /\ d.fields[1].type = "INT32" /\ d.fields[1].name = "near"
    /\ LET d == Type["SscProximityResponseDavinci"].descriptor IN
       /\ 1 \in 1 .. Len(d.fields) /\ d.fields[1].number = 1
       /\ d.fields[1].label = "REPEATED" /\ d.fields[1].type = "BYTES"
<1>1. "SscProximityResponse" \in DOMAIN Type /\ "SscProximityResponseDavinci" \in DOMAIN Type
  BY TypeNames
<1>2. LET d == Type["SscProximityResponse"].descriptor IN
      /\ 1 \in 1 .. Len(d.fields) /\ d.fields[1].number = 1
      /\ d.fields[1].label = "REQUIRED" /\ d.fields[1].type = "INT32" /\ d.fields[1].name = "near"
  <2>1. Type["SscProximityResponse"].descriptor = ssc_proximity_response__descriptor
    BY TypeMethods DEF ssc_proximity_response__methods, Methods
  <2>2. ssc_proximity_response__descriptor.fields =
          <<Required("near", 1, "INT32"), Required("distance", 2, "INT32"),
              Required("accuracy", 3, "INT32")>>
    BY DEF ssc_proximity_response__descriptor, Descriptor
  <2> QED BY <2>1, <2>2 DEF Required, Field
<1>3. LET d == Type["SscProximityResponseDavinci"].descriptor IN
      /\ 1 \in 1 .. Len(d.fields) /\ d.fields[1].number = 1
      /\ d.fields[1].label = "REPEATED" /\ d.fields[1].type = "BYTES"
  <2>1. Type["SscProximityResponseDavinci"].descriptor = ssc_proximity_response_davinci__descriptor
    BY TypeMethods DEF ssc_proximity_response_davinci__methods, Methods
  <2>2. ssc_proximity_response_davinci__descriptor.fields =
          <<Repeated("data", 1, "BYTES"), Required("accuracy", 2, "INT32")>>
    BY DEF ssc_proximity_response_davinci__descriptor, Descriptor
  <2> QED BY <2>1, <2>2 DEF Repeated, Required, Field
<1> QED BY <1>1, <1>2, <1>3

\* One entry that cannot be parsed refuses the message.
LEMMA BadEntryRefuses ==
    ASSUME NEW r \in DOMAIN Type, NEW i \in 1 .. Len(Type[r].descriptor.fields), NEW b, Sequence(b),
           \A k \in 1 .. Len(b) : Lookup(Type[r].descriptor, b[k].number) = i =>
             Values(Type[r].descriptor.fields[i], b[k]) = <<NULL>>,
           NEW k \in 1 .. Len(b), Lookup(Type[r].descriptor, b[k].number) = i
    PROVE  Unpack(Type[r].descriptor, b) = NULL
<1> DEFINE d == Type[r].descriptor
           f == d.fields[i]
           n == Len(d.fields)
           x == SubSeq(b, 1, k - 1)
           c == SubSeq(b, k, k)
           y == SubSeq(b, k + 1, Len(b))
<1>1. n \in Nat /\ i \in 0 .. n /\ i # 0 /\ DOMAIN d.fields = 1 .. n BY TableFacts
<1>2. Len(b) \in Nat /\ k \in 1 .. Len(b) BY SequenceLen
<1>3. ASSUME NEW q \in 1 .. Len(b)
      PROVE  Adds(d, i, b[q]) = IF Lookup(d, b[q].number) = i THEN <<NULL>> ELSE <<>>
  <2>1. CASE Lookup(d, b[q].number) # i BY <2>1, AddsElsewhere
  <2>2. CASE Lookup(d, b[q].number) = i
    <3>1. Values(f, b[q]) = <<NULL>> BY <2>2
    <3>2. Adds(d, i, b[q]) = Values(d.fields[i], b[q])
      <4> HIDE DEF d
      <4> QED BY <1>1, <2>2 DEF Adds
    <3> QED BY <2>2, <3>1, <3>2
  <2> QED BY <2>1, <2>2
<1>4. Scannable(d, i, b)
  <2>1. Sequence(<<NULL>>) /\ Sequence(<<>>) BY SequenceOne, SequenceEmpty
  <2>2. \A q \in 1 .. Len(b) : Sequence(Adds(d, i, b[q])) BY <1>3, <2>1
  <2> QED BY <2>2 DEF Scannable
<1>5. b = (x \o c) \o y
  <2>1. \A j \in 1 .. Len(b) : k <= j =>
          b = (SubSeq(b, 1, k - 1) \o SubSeq(b, k, j)) \o SubSeq(b, j + 1, Len(b))
    BY AroundPart
  <2>2. k <= k BY <1>2
  <2> QED BY <2>1, <2>2
<1>6. Scannable(d, i, x) /\ Scannable(d, i, c) /\ Scannable(d, i, y)
  <2>1. 1 \in 1 .. Len(b) + 1 /\ k - 1 \in 0 .. Len(b) BY <1>2
  <2>2. k \in 1 .. Len(b) + 1 /\ k \in 0 .. Len(b) BY <1>2
  <2>3. k + 1 \in 1 .. Len(b) + 1 /\ Len(b) \in 0 .. Len(b) BY <1>2
  <2> QED BY <1>4, <2>1, <2>2, <2>3, ScannableSlice
<1>7. Sequence(c) /\ Len(c) = 1 /\ c[1] = b[k]
  <2>1. k \in 1 .. Len(b) + 1 /\ k \in 0 .. Len(b) BY <1>2
  <2>2. /\ Sequence(c) /\ Len(c) = IF k <= k THEN k - k + 1 ELSE 0
        /\ \A q \in 1 .. k - k + 1 : c[q] = b[k + q - 1]
    BY <2>1, Slice
  <2> HIDE DEF c
  <2>3. Len(c) = 1 BY <1>2, <2>2
  <2>4. c[1] = b[k + 1 - 1]
    <3>1. 1 \in 1 .. k - k + 1 BY <1>2
    <3> QED BY <2>2, <3>1
  <2>5. k + 1 - 1 = k BY <1>2
  <2> QED BY <2>2, <2>3, <2>4, <2>5
<1> HIDE DEF x, c, y
<1>8. Given(d, c, i) = <<NULL>>
  <2>0. PICK v : v = <<NULL>> OBVIOUS
  <2>1. Sequence(v) /\ Len(v) = 1 /\ v[1] = NULL BY <2>0, SequenceOne
  <2>2. Adds(d, i, c[1]) = <<v[1]>> BY <1>3, <1>7, <2>1
  <2>3. \A q \in 1 .. Len(v) : Adds(d, i, c[q]) = <<v[q]>> BY <2>1, <2>2
  <2>4. Scannable(d, i, c) /\ Given(d, c, i) = v
    <3> HIDE DEF d
    <3> QED BY <1>7, <2>1, <2>3, GivenSingles
  <2> QED BY <2>0, <2>4
<1>9. PICK p : p = Given(d, x, i) OBVIOUS
<1>10. PICK q : q = Given(d, y, i) OBVIOUS
<1>11. Sequence(p) /\ Sequence(q) BY <1>6, <1>9, <1>10, GivenFlattens
<1>12. Given(d, b, i) = (p \o <<NULL>>) \o q
  <2>1. PICK z : z = x \o c OBVIOUS
  <2>2. Scannable(d, i, z) /\ Given(d, z, i) = Given(d, x, i) \o Given(d, c, i)
    BY <1>6, <2>1, GivenJoin
  <2>3. Given(d, z, i) = p \o <<NULL>> BY <1>8, <1>9, <2>2
  <2>4. Scannable(d, i, z) BY <2>2
  <2>5. Given(d, z \o y, i) = Given(d, z, i) \o Given(d, y, i)
    <3> HIDE DEF d
    <3> QED BY <1>6, <2>4, GivenJoin
  <2>6. b = z \o y BY <1>5, <2>1
  <2> QED BY <1>10, <2>3, <2>5, <2>6
<1>13. Contains((p \o <<NULL>>) \o q, NULL)
  <2>1. Sequence(<<NULL>>) /\ Len(<<NULL>>) = 1 /\ <<NULL>>[1] = NULL BY SequenceOne
  <2>2. PICK z : z = p \o <<NULL>> OBVIOUS
  <2>3. Sequence(z) /\ Len(z) = Len(p) + 1 BY <1>11, <2>1, <2>2, SequenceJoin
  <2>4. z[Len(p) + 1] = NULL
    <3>1. 1 \in 1 .. Len(<<NULL>>) BY <2>1
    <3>2. (p \o <<NULL>>)[Len(p) + 1] = <<NULL>>[1] BY <1>11, <2>1, <3>1, SequenceJoin
    <3> QED BY <2>1, <2>2, <3>2
  <2>5. PICK a : a = z \o q OBVIOUS
  <2>6. Sequence(a) /\ Len(a) = Len(z) + Len(q) BY <1>11, <2>3, <2>5, SequenceJoin
  <2>7. \A j \in 1 .. Len(z) : a[j] = z[j] BY <1>11, <2>3, <2>5, SequenceJoin
  <2>8. Len(p) \in Nat /\ Len(q) \in Nat BY <1>11, SequenceLen
  <2>9. Len(p) + 1 \in 1 .. Len(a) /\ a[Len(p) + 1] = NULL BY <2>3, <2>4, <2>6, <2>7, <2>8
  <2>10. Contains(a, NULL) BY <2>9 DEF Contains
  <2> QED BY <2>2, <2>5, <2>10
<1>14. Contains(Given(d, b, i), NULL) BY <1>12, <1>13
<1>15. Refuses(f, Given(d, b, i)) BY <1>14 DEF Refuses
<1> DEFINE given == [j \in 0 .. n |-> Given(d, b, j)]
<1>16. given[i] = Given(d, b, i) BY <1>1
<1>17. Unpack(d, b) = Struct(d, given) BY DEF Unpack
<1> HIDE DEF given
<1>18. Struct(d, given) = NULL
  <2>1. Refuses(d.fields[i], given[i]) BY <1>15, <1>16
  <2>2. i \in DOMAIN d.fields BY <1>1
  <2> HIDE DEF d
  <2> QED BY <2>1, <2>2, StructRefused
<1> QED BY <1>17, <1>18

\* A required field without an entry refuses the message.
LEMMA MissingRefuses ==
    ASSUME NEW r \in DOMAIN Type, NEW i \in 1 .. Len(Type[r].descriptor.fields), NEW b, Sequence(b),
           Type[r].descriptor.fields[i].label = "REQUIRED",
           \A k \in 1 .. Len(b) : Lookup(Type[r].descriptor, b[k].number) # i
    PROVE  Unpack(Type[r].descriptor, b) = NULL
<1> DEFINE d == Type[r].descriptor
           n == Len(d.fields)
           given == [j \in 0 .. n |-> Given(d, b, j)]
<1>1. n \in Nat /\ i \in 0 .. n /\ DOMAIN d.fields = 1 .. n BY TableFacts
<1>2. \A k \in 1 .. Len(b) : Adds(d, i, b[k]) = <<>> BY AddsElsewhere
<1>3. Given(d, b, i) = <<>> BY <1>2, GivenNone
<1>4. given[i] = <<>> BY <1>1, <1>3
<1>5. Unpack(d, b) = Struct(d, given) BY DEF Unpack
<1> HIDE DEF given
<1>6. Refuses(d.fields[i], given[i]) BY <1>4 DEF Refuses
<1>7. Struct(d, given) = NULL
  <2>1. i \in DOMAIN d.fields BY <1>1
  <2> HIDE DEF d
  <2> QED BY <1>6, <2>1, StructRefused
<1> QED BY <1>5, <1>7

\* A buffer that holds all of a message of one kind of proximity sensor is
\* refused by the unpack of the other kind.
THEOREM TypesDiffer ==
    ASSUME NEW t \in DOMAIN Type, NEW m, NEW b, NEW u, Holds(t, m, b, {}, u),
           NEW r \in Kinds(t), r # t
    PROVE  Unpack(Type[r].descriptor, b) = NULL
<1>1. \/ t = "SscProximityResponse" /\ r = "SscProximityResponseDavinci"
      \/ t = "SscProximityResponseDavinci" /\ r = "SscProximityResponse"
  BY DEF Kinds
<1> DEFINE d == Type[t].descriptor
           e == Type[r].descriptor
<1>2. BufferOK(t, b) /\ Given(d, b, 1) = Left(t, m, {}, u)[1]
  <2>1. 1 \in 0 .. Len(d.fields) BY <1>1, ProximityFields
  <2> QED BY <2>1 DEF Holds
<1>3. Sequence(b) /\ \A k \in 1 .. Len(b) : EntryOK(t, b[k]) /\ b[k].number \in Nat
  BY <1>2 DEF BufferOK, EntryOK
<1>4. r \in DOMAIN Type /\ 1 \in 1 .. Len(e.fields) /\ 1 \in 1 .. Len(d.fields)
  BY <1>1, ProximityFields
<1>5. /\ \A k \in 1 .. Len(b) : Lookup(d, b[k].number) = 1 <=> b[k].number = 1
      /\ \A k \in 1 .. Len(b) : Lookup(e, b[k].number) = 1 <=> b[k].number = 1
  <2>1. d.fields[1].number = 1 /\ e.fields[1].number = 1 BY <1>1, ProximityFields
  <2>2. Lookup(d, 1) = 1 /\ Lookup(e, 1) = 1
    <3>1. RangesOK(d, Len(d.fields)) /\ RangesOK(e, Len(e.fields)) BY <1>4, TableFacts
    <3> QED BY <1>4, <2>1, <3>1 DEF RangesOK
  <2>3. ASSUME NEW x \in Nat PROVE (Lookup(d, x) = 1 => x = 1) /\ (Lookup(e, x) = 1 => x = 1)
    <3>1. Lookup(d, x) # 0 => d.fields[Lookup(d, x)].number = x BY LookupFacts
    <3>2. Lookup(e, x) # 0 => e.fields[Lookup(e, x)].number = x BY <1>4, LookupFacts
    <3> HIDE DEF d, e
    <3>3. Lookup(d, x) = 1 => x = 1
      <4> SUFFICES ASSUME Lookup(d, x) = 1 PROVE x = 1 OBVIOUS
      <4>1. d.fields[1].number = x BY <3>1
      <4> QED BY <2>1, <4>1
    <3>4. Lookup(e, x) = 1 => x = 1
      <4> SUFFICES ASSUME Lookup(e, x) = 1 PROVE x = 1 OBVIOUS
      <4>1. e.fields[1].number = x BY <3>2
      <4> QED BY <2>1, <4>1
    <3> QED BY <3>3, <3>4
  <2> QED BY <1>3, <2>2, <2>3
<1>6. WireType("INT32") = "VARINT" /\ WireType("BYTES") = "LENGTH_PREFIXED"
  <2>1. WireType("INT32") = "VARINT" BY DEF WireType
  <2>2. WireType("BYTES") = "LENGTH_PREFIXED" BY DEF WireType
  <2> QED BY <2>1, <2>2
<1>7. ASSUME NEW k \in 1 .. Len(b), b[k].number = 1 PROVE Values(e.fields[1], b[k]) = <<NULL>>
  <2>1. Lookup(d, b[k].number) = 1 /\ EntryOK(t, b[k]) BY <1>3, <1>5, <1>7
  <2>2. CASE t = "SscProximityResponse"
    <3>1. d.fields[1].type = "INT32" /\ d.fields[1].label = "REQUIRED" BY <2>2, ProximityFields
    <3>2. b[k].type = "VARINT" BY <1>6, <2>1, <3>1 DEF EntryOK
    <3>3. e.fields[1].type = "BYTES" BY <1>1, <2>2, ProximityFields
    <3> HIDE DEF e
    <3> QED BY <1>6, <3>2, <3>3, ValuesRefused
  <2>3. CASE t = "SscProximityResponseDavinci"
    <3>1. d.fields[1].type = "BYTES" BY <2>3, ProximityFields
    <3>2. b[k].type = "LENGTH_PREFIXED" BY <1>6, <2>1, <3>1 DEF EntryOK
    <3>3. e.fields[1].type = "INT32" /\ e.fields[1].label = "REQUIRED"
      BY <1>1, <2>3, ProximityFields
    <3> HIDE DEF e
    <3> QED BY <1>6, <3>2, <3>3, ValuesRefused
  <2> QED BY <1>1, <2>2, <2>3
<1>8. \A k \in 1 .. Len(b) : Lookup(e, b[k].number) = 1 => Values(e.fields[1], b[k]) = <<NULL>>
  BY <1>5, <1>7
<1>9. CASE \E k \in 1 .. Len(b) : b[k].number = 1
  <2>1. PICK k \in 1 .. Len(b) : Lookup(e, b[k].number) = 1 BY <1>5, <1>9
  <2> QED BY <1>3, <1>4, <1>8, <2>1, BadEntryRefuses
<1>10. CASE \A k \in 1 .. Len(b) : b[k].number # 1
  <2>1. CASE t = "SscProximityResponse"
    <3>1. \A k \in 1 .. Len(b) : Adds(d, 1, b[k]) = <<>> BY <1>5, <1>10, AddsElsewhere
    <3>2. Given(d, b, 1) = <<>> BY <1>3, <3>1, GivenNone
    <3>3. Left(t, m, {}, u)[1] = PartGiven(m, d.fields[1])
      <4>1. Left(t, m, {}, u)[1] = IF d.fields[1].name \in {} THEN <<>> ELSE PartGiven(m, d.fields[1])
        BY <1>4, LeftCases
      <4> QED BY <4>1
    <3>4. d.fields[1].label = "REQUIRED" BY <2>1, ProximityFields
    <3>5. PartGiven(m, d.fields[1]) = <<Got(d.fields[1], m[d.fields[1].name])>>
      <4> HIDE DEF d
      <4> QED BY <3>4, PackFieldCases
    <3>6. <<Got(d.fields[1], m[d.fields[1].name])>> # <<>>
      <4> DEFINE g == Got(d.fields[1], m[d.fields[1].name])
      <4> HIDE DEF g
      <4>1. Len(<<g>>) = 1 /\ Len(<<>>) = 0 BY SequenceOne, SequenceEmpty
      <4>2. <<g>> # <<>> BY <4>1
      <4> QED BY <4>2 DEF g
    <3> QED BY <1>2, <3>2, <3>3, <3>5, <3>6
  <2>2. CASE t = "SscProximityResponseDavinci"
    <3>1. e.fields[1].label = "REQUIRED" BY <1>1, <2>2, ProximityFields
    <3>2. \A k \in 1 .. Len(b) : Lookup(e, b[k].number) # 1 BY <1>5, <1>10
    <3> QED BY <1>3, <1>4, <3>1, <3>2, MissingRefuses
  <2> QED BY <1>1, <2>1, <2>2
<1> QED BY <1>9, <1>10

-----------------------------------------------------------------------------
(* The struct that a sender fills in.                                      *)

\* A struct that a sender filled in has no unknown fields.
Fresh(t, m) == StructOK(t, m) /\ m.base.unknown_fields = <<>>

\* "init" gives such a struct.
LEMMA InitFresh ==
    ASSUME NEW t \in DOMAIN Type
    PROVE  Fresh(t, Type[t].init) /\ Type[t].init # NULL
<1>1. StructOK(t, Type[t].init) BY StructsAssumption
<1>2. Type[t].init.base.unknown_fields = <<>>
  <2>1. Type[t].init.base = [descriptor |-> t, unknown_fields |-> <<>>]
    BY TableFacts DEF InitialOK
  <2> QED BY <2>1
<1> QED BY <1>1, <1>2, StructAny DEF Fresh

\* Two structs differ in the members of one field at most.
SameElse(t, m, r, i) ==
    \A j \in 1 .. Len(Type[t].descriptor.fields) \ {i} :
        LET g == Type[t].descriptor.fields[j] IN
        r[g.name] = m[g.name] /\ (g.has # Empty => r[g.has] = m[g.has])

\* What MemberOK says, case by case.
LEMMA MemberCases ==
    ASSUME NEW m, NEW f, f.has # Empty => f.label = "OPTIONAL"
    PROVE  MemberOK(m, f) <=>
             /\ f.label = "REPEATED" => m[f.name] \in Seq(Member(f))
             /\ f.has # Empty => m[f.name] \in Member(f) /\ m[f.has] \in BOOLEAN
             /\ f.label # "REPEATED" /\ f.has = Empty =>
                 \/ m[f.name] \in Member(f)
                 \/ m[f.name] = NULL /\ f.type \in {"MESSAGE", "STRING"}
<1>1. CASE f.label = "REPEATED" BY <1>1 DEF MemberOK
<1>2. CASE f.label # "REPEATED" /\ f.has # Empty BY <1>2 DEF MemberOK
<1>3. CASE f.label # "REPEATED" /\ f.has = Empty BY <1>3 DEF MemberOK
<1> QED BY <1>1, <1>2, <1>3

\* A struct with the member of one field replaced by a right one is a struct.
LEMMA MemberReplaced ==
    ASSUME NEW t \in DOMAIN Type, NEW m, Fresh(t, m),
           NEW i \in 1 .. Len(Type[t].descriptor.fields), NEW r,
           r = [name \in DOMAIN Type[t].init |-> r[name]], r.base = m.base,
           SameElse(t, m, r, i), MemberOK(r, Type[t].descriptor.fields[i])
    PROVE  Fresh(t, r) /\ r # NULL
<1> DEFINE d == Type[t].descriptor
           n == Len(d.fields)
<1>1. StructOK(t, m) /\ m.base.unknown_fields = <<>> BY DEF Fresh
<1>2. /\ m.base = [Type[t].init.base EXCEPT !.unknown_fields = m.base.unknown_fields]
      /\ m.base.unknown_fields \in Seq(UnknownEntries)
      /\ \A k \in DOMAIN m.base.unknown_fields : Lookup(d, m.base.unknown_fields[k].number) = 0
      /\ \A g \in Fields(t) : MemberOK(m, g)
  BY <1>1 DEF StructOK
<1>3. ASSUME NEW j \in 1 .. n PROVE MemberOK(r, d.fields[j])
  <2>1. CASE j = i BY <2>1
  <2>2. CASE j # i
    <3> DEFINE g == d.fields[j]
    <3>1. MemberOK(m, g) BY <1>2, FieldsByIndex
    <3>2. r[g.name] = m[g.name] /\ (g.has # Empty => r[g.has] = m[g.has]) BY <2>2 DEF SameElse
    <3>3. g.has # Empty => g.label = "OPTIONAL" BY TableFacts DEF FieldOK
    <3> HIDE DEF g
    <3>6. MemberOK(r, g) BY <3>1, <3>2, <3>3, MemberCases
    <3> QED BY <3>6 DEF g
  <2> QED BY <2>1, <2>2
<1>4. \A g \in Fields(t) : MemberOK(r, g) BY <1>3, FieldsByIndex
<1>5. StructOK(t, r) BY <1>2, <1>4 DEF StructOK
<1> QED BY <1>1, <1>5, StructAny DEF Fresh

\* A value that is assigned is one that the member may have.
LEMMA AssignedMember ==
    ASSUME NEW t \in DOMAIN Type, NEW i \in 1 .. Len(Type[t].descriptor.fields),
           NEW v \in AssignedValues(Type[t].descriptor.fields[i])
    PROVE  v \in Member(Type[t].descriptor.fields[i])
<1> DEFINE f == Type[t].descriptor.fields[i]
<1>1. FieldOK(f, Type[t].init) BY TableFacts
<1>2. v \in AssignedValues(f) OBVIOUS
<1> HIDE DEF f
<1>3. CASE f.type = "MESSAGE"
  <2>1. f.of \in DOMAIN Type BY <1>1, <1>3 DEF FieldOK
  <2>2. Parts(f.of) \subseteq Structs(f.of) BY <2>1, StructsAssumption
  <2> QED BY <1>2, <1>3, <2>2 DEF AssignedValues, Member, f
<1>4. CASE f.type # "MESSAGE" BY <1>2, <1>4 DEF AssignedValues, Member, f
<1> QED BY <1>3, <1>4

\* Assigning a member keeps a struct right,
LEMMA AssignOne ==
    ASSUME NEW t \in DOMAIN Type, NEW m, Fresh(t, m),
           NEW i \in 1 .. Len(Type[t].descriptor.fields),
           NEW v, NEW r, r = [m EXCEPT ![Type[t].descriptor.fields[i].name] = v],
           v \in IF Type[t].descriptor.fields[i].label = "REPEATED"
                 THEN Seq(Member(Type[t].descriptor.fields[i]))
                 ELSE Member(Type[t].descriptor.fields[i])
    PROVE  Fresh(t, r) /\ r # NULL
<1> DEFINE d == Type[t].descriptor
           n == Len(d.fields)
           f == d.fields[i]
           initial == Type[t].init
<1>1. m = [name \in DOMAIN initial |-> m[name]] BY StructMembers DEF Fresh
<1>2. FieldOK(f, initial) /\ NamesOK(d, n) /\ "base" \in DOMAIN initial
  BY TableFacts DEF InitialOK
<1>3. /\ f.has # Empty => m[f.has] \in BOOLEAN BY StructMembers DEF Fresh
<1>4. r = [m EXCEPT ![f.name] = v] OBVIOUS
<1>5. /\ r = [name \in DOMAIN initial |-> r[name]] /\ r[f.name] = v
      /\ \A name \in DOMAIN initial : name # f.name => r[name] = m[name]
  <2> HIDE DEF f
  <2>1. f.name \in DOMAIN initial BY <1>2 DEF FieldOK
  <2>2. DOMAIN m = DOMAIN initial BY <1>1
  <2>3. DOMAIN r = DOMAIN initial /\ r = [name \in DOMAIN r |-> r[name]] BY <1>4, <2>2
  <2>4. r = [name \in DOMAIN initial |-> r[name]] BY <2>3
  <2>5. r[f.name] = v /\ \A name \in DOMAIN initial : name # f.name => r[name] = m[name]
    BY <1>4, <2>1, <2>2
  <2> QED BY <2>4, <2>5
<1>6. r.base = m.base
  <2>1. f.name # "base" BY <1>2 DEF FieldOK
  <2> QED BY <1>2, <1>5, <2>1
<1>7. ASSUME NEW j \in 1 .. n, j # i
      PROVE  LET g == d.fields[j] IN r[g.name] = m[g.name] /\ (g.has # Empty => r[g.has] = m[g.has])
  <2> DEFINE g == d.fields[j]
  <2>1. FieldOK(g, initial) BY TableFacts
  <2>2. g.name # f.name /\ f.name # g.has BY <1>2, <1>7 DEF NamesOK
  <2>3. g.name \in DOMAIN initial /\ (g.has # Empty => g.has \in DOMAIN initial)
    BY <2>1 DEF FieldOK
  <2> QED BY <1>5, <2>2, <2>3
<1>8. MemberOK(r, f)
  <2>1. \/ f.label = "REPEATED" /\ v \in Seq(Member(f))
        \/ f.label # "REPEATED" /\ v \in Member(f)
    OBVIOUS
  <2>2. f.has # Empty => r[f.has] = m[f.has]
    <3>1. f.name # f.has BY <1>2 DEF NamesOK
    <3>2. f.has # Empty => f.has \in DOMAIN initial BY <1>2 DEF FieldOK
    <3> QED BY <1>5, <3>1, <3>2
  <2>3. r[f.name] = v BY <1>5
  <2> HIDE DEF f
  <2>4. f.has # Empty => f.label = "OPTIONAL" BY <1>2 DEF FieldOK
  <2>5. MemberOK(r, f) BY <1>3, <2>1, <2>2, <2>3, <2>4, MemberCases
  <2> QED BY <2>5 DEF f
<1>9. SameElse(t, m, r, i) BY <1>7 DEF SameElse
<1>10. r = [name \in DOMAIN Type[t].init |-> r[name]] BY <1>5
<1>11. MemberOK(r, Type[t].descriptor.fields[i]) BY <1>8
<1> HIDE DEF d, n, f, initial
<1> QED BY <1>6, <1>9, <1>10, <1>11, MemberReplaced

\* and so does setting its "has_" member,
LEMMA AssignHas ==
    ASSUME NEW t \in DOMAIN Type, NEW m, Fresh(t, m),
           NEW i \in 1 .. Len(Type[t].descriptor.fields), Type[t].descriptor.fields[i].has # Empty,
           NEW r, r = [m EXCEPT ![Type[t].descriptor.fields[i].has] = TRUE]
    PROVE  Fresh(t, r) /\ r # NULL
<1> DEFINE d == Type[t].descriptor
           n == Len(d.fields)
           f == d.fields[i]
           initial == Type[t].init
<1>1. m = [name \in DOMAIN initial |-> m[name]] BY StructMembers DEF Fresh
<1>2. FieldOK(f, initial) /\ NamesOK(d, n) /\ "base" \in DOMAIN initial
  BY TableFacts DEF InitialOK
<1>3. m[f.name] \in Member(f) BY StructMembers DEF Fresh
<1>4. r = [m EXCEPT ![f.has] = TRUE] /\ f.has # Empty OBVIOUS
<1>5. /\ r = [name \in DOMAIN initial |-> r[name]] /\ r[f.has] = TRUE
      /\ \A name \in DOMAIN initial : name # f.has => r[name] = m[name]
  <2> HIDE DEF f
  <2>1. f.has \in DOMAIN initial BY <1>2, <1>4 DEF FieldOK
  <2>2. DOMAIN m = DOMAIN initial BY <1>1
  <2>3. DOMAIN r = DOMAIN initial /\ r = [name \in DOMAIN r |-> r[name]] BY <1>4, <2>2
  <2>4. r = [name \in DOMAIN initial |-> r[name]] BY <2>3
  <2>5. r[f.has] = TRUE /\ \A name \in DOMAIN initial : name # f.has => r[name] = m[name]
    BY <1>4, <2>1, <2>2
  <2> QED BY <2>4, <2>5
<1>6. r.base = m.base
  <2>1. f.has # "base" BY <1>2, <1>4 DEF FieldOK
  <2> QED BY <1>2, <1>5, <2>1
<1>7. ASSUME NEW j \in 1 .. n, j # i
      PROVE  LET g == d.fields[j] IN r[g.name] = m[g.name] /\ (g.has # Empty => r[g.has] = m[g.has])
  <2> DEFINE g == d.fields[j]
  <2>1. FieldOK(g, initial) BY TableFacts
  <2>2. g.name # f.has /\ (g.has # Empty => g.has # f.has) BY <1>2, <1>4, <1>7 DEF NamesOK
  <2>3. g.name \in DOMAIN initial /\ (g.has # Empty => g.has \in DOMAIN initial)
    BY <2>1 DEF FieldOK
  <2> QED BY <1>5, <2>2, <2>3
<1>8. MemberOK(r, f)
  <2>1. f.label = "OPTIONAL" BY <1>2, <1>4 DEF FieldOK
  <2>2. r[f.name] = m[f.name]
    <3>1. f.name # f.has BY <1>2 DEF NamesOK
    <3>2. f.name \in DOMAIN initial BY <1>2 DEF FieldOK
    <3> QED BY <1>5, <3>1, <3>2
  <2> HIDE DEF f
  <2> QED BY <1>3, <1>4, <1>5, <2>1, <2>2 DEF MemberOK
<1>9. SameElse(t, m, r, i) BY <1>7 DEF SameElse
<1>10. r = [name \in DOMAIN Type[t].init |-> r[name]] BY <1>5
<1>11. MemberOK(r, Type[t].descriptor.fields[i]) BY <1>8
<1> HIDE DEF d, n, f, initial
<1> QED BY <1>6, <1>9, <1>10, <1>11, MemberReplaced

\* and both at once.
LEMMA AssignBoth ==
    ASSUME NEW t \in DOMAIN Type, NEW m, Fresh(t, m),
           NEW i \in 1 .. Len(Type[t].descriptor.fields), Type[t].descriptor.fields[i].has # Empty,
           Type[t].descriptor.fields[i].label # "REPEATED",
           NEW v \in Member(Type[t].descriptor.fields[i]), NEW r,
           r = [m EXCEPT ![Type[t].descriptor.fields[i].name] = v,
                         ![Type[t].descriptor.fields[i].has] = TRUE]
    PROVE  Fresh(t, r) /\ r # NULL
<1> DEFINE f == Type[t].descriptor.fields[i]
           s == [m EXCEPT ![f.name] = v]
<1>1. Fresh(t, s)
  <2>1. v \in IF f.label = "REPEATED" THEN Seq(Member(f)) ELSE Member(f) OBVIOUS
  <2>2. PICK x : x = s OBVIOUS
  <2>3. Fresh(t, x) BY <2>1, <2>2, AssignOne
  <2> QED BY <2>2, <2>3
<1>2. r = [s EXCEPT ![f.has] = TRUE] OBVIOUS
<1>3. f.has # Empty OBVIOUS
<1> HIDE DEF s
<1> QED BY <1>1, <1>2, <1>3, AssignHas

-----------------------------------------------------------------------------
(* The inductive invariant.                                                *)

\* No message is being built and none is on its way.
Idle == type = NULL /\ built = NULL /\ sent = NULL

\* A sender is filling in a struct.
Building == type \in Sent /\ built # NULL /\ Fresh(type, built) /\ sent = NULL

\* A message is on its way: the buffer holds what was sent.
OnWay ==
    /\ type \in Sent /\ built = NULL /\ sent # NULL
    /\ Fresh(type, sent) /\ Holds(type, sent, buffer, dropped, added)

\* Nothing is left of the message before.
Nothing == buffer = <<>> /\ added = <<>> /\ dropped = {} /\ skew = 0

\* What the unpack of the right type returned.
ReadAsOwn == received = IF Accepts(type, sent, dropped) THEN SeenAs(sent, dropped, added) ELSE NULL

\* What the unpack of the other type of proximity message returned.
ReadAsOther ==
    received # NULL =>
        /\ dropped # {} /\ DOMAIN received = DOMAIN Type[readAs].init
        /\ received.base.descriptor = readAs

\* What the receiver holds.
Read ==
    IF readAs = NULL THEN received = NULL
    ELSE /\ sent # NULL /\ readAs \in Kinds(type) /\ readAs \in DOMAIN Type
         /\ readAs = type => ReadAsOwn
         /\ readAs # type => ReadAsOther

\* The inductive invariant.  What the buffer holds says nothing of the order of
\* its entries, for version skew changes it: Holds relates the values of each
\* field to the struct that was sent.
IInv ==
    /\ Idle \/ Building \/ OnWay
    /\ sent = NULL => Nothing
    /\ Read
    /\ skew \in 0 .. MaxSkew /\ aborted = FALSE

\* A type is no null pointer, and what may be read for it are types.
LEMMA TypesAreNames == NULL \notin DOMAIN Type /\ \A t \in DOMAIN Type : Kinds(t) \subseteq DOMAIN Type
<1>2. NULL \notin DOMAIN Type BY NullAssumption
<1>3. \A t \in DOMAIN Type : Kinds(t) \subseteq DOMAIN Type BY ProximityFields DEF Kinds
<1> QED BY <1>2, <1>3

\* The types that are sent are types.
LEMMA SentTypes == \A t \in Sent : t \in DOMAIN Type /\ t # NULL
BY SentAssumption, TypesAreNames

\* Nothing is going on at first.
LEMMA InitIInv == Init => IInv
<1> HAVE Init
<1>1. Idle BY DEF Init, Idle
<1>2. Nothing BY DEF Init, Nothing
<1>3. Read BY DEF Init, Read
<1>4. skew \in 0 .. MaxSkew /\ aborted = FALSE BY BoundsAssumption DEF Init
<1> QED BY <1>1, <1>2, <1>3, <1>4 DEF IInv

\* "init" starts building a fresh struct.
LEMMA InitStep == ASSUME IInv, NEW t \in Sent, init(t) PROVE IInv'
<1>1. built = NULL /\ sent = NULL /\ readAs = NULL /\ received = NULL
  <2>1. type = NULL BY DEF init
  <2>2. Idle BY <2>1, SentTypes DEF IInv, Building, OnWay
  <2>3. Read /\ sent = NULL BY <2>2 DEF IInv, Idle
  <2> QED BY <2>2, <2>3 DEF Idle, Read
<1>2. Fresh(t, Type[t].init) /\ Type[t].init # NULL BY SentTypes, InitFresh
<1>3. Building' BY <1>1, <1>2 DEF init, Building
<1>4. Nothing' BY <1>1 DEF IInv, init, Nothing, wireVars
<1>5. Read' BY <1>1 DEF init, Read
<1> QED BY <1>3, <1>4, <1>5 DEF IInv, init, wireVars

\* What an assignment makes of a struct.
Filled(t, m, r, i, v) ==
    LET f == Type[t].descriptor.fields[i] IN
    \/ /\ f.label = "REPEATED" /\ v \in Seq(Member(f))
       /\ r = [m EXCEPT ![f.name] = v]
    \/ /\ f.label # "REPEATED" /\ v \in Member(f)
       /\ r = [m EXCEPT ![f.name] = v]
    \/ /\ f.label # "REPEATED" /\ v \in Member(f) /\ f.has # Empty
       /\ r = [m EXCEPT ![f.name] = v, ![f.has] = TRUE]

\* It is still a struct that a sender filled in.
LEMMA AssignFilled ==
    ASSUME NEW t \in DOMAIN Type, NEW m, Fresh(t, m),
           NEW i \in 1 .. Len(Type[t].descriptor.fields), NEW v, NEW r, Filled(t, m, r, i, v)
    PROVE  Fresh(t, r) /\ r # NULL
<1> DEFINE f == Type[t].descriptor.fields[i]
<1>1. CASE f.label = "REPEATED" /\ v \in Seq(Member(f)) /\ r = [m EXCEPT ![f.name] = v]
  <2>1. v \in IF f.label = "REPEATED" THEN Seq(Member(f)) ELSE Member(f) BY <1>1
  <2>2. r = [m EXCEPT ![f.name] = v] BY <1>1
  <2>3. Fresh(t, r) BY <2>1, <2>2, AssignOne
  <2>4. r # NULL BY <2>3, StructAny DEF Fresh
  <2> QED BY <2>3, <2>4
<1>2. CASE f.label # "REPEATED" /\ v \in Member(f) /\ r = [m EXCEPT ![f.name] = v]
  <2>1. v \in IF f.label = "REPEATED" THEN Seq(Member(f)) ELSE Member(f) BY <1>2
  <2>2. r = [m EXCEPT ![f.name] = v] BY <1>2
  <2>3. Fresh(t, r) BY <2>1, <2>2, AssignOne
  <2>4. r # NULL BY <2>3, StructAny DEF Fresh
  <2> QED BY <2>3, <2>4
<1>3. CASE /\ f.label # "REPEATED" /\ v \in Member(f) /\ f.has # Empty
           /\ r = [m EXCEPT ![f.name] = v, ![f.has] = TRUE]
  BY <1>3, AssignBoth
<1> QED BY <1>1, <1>2, <1>3 DEF Filled

\* An assignment keeps building.
LEMMA AssignStep ==
    ASSUME IInv, NEW field \in Fields(type), Assign(field)
    PROVE  IInv'
<1>1. Building BY DEF IInv, Assign, Idle, OnWay
<1>2. type \in DOMAIN Type /\ Fresh(type, built) BY <1>1, SentTypes DEF Building
<1>3. PICK i \in 1 .. Len(Type[type].descriptor.fields) : field = Type[type].descriptor.fields[i]
  BY <1>2, FieldsByIndex
<1>4. Fresh(type, built') /\ built' # NULL
  <2>1. PICK value \in AssignedValues(field) :
            IF field.label = "REPEATED"
            THEN built' = [built EXCEPT ![field.name] = Append(built[field.name], value)]
            ELSE \/ built' = [built EXCEPT ![field.name] = value]
                 \/ /\ field.has # Empty
                    /\ built' = [built EXCEPT ![field.name] = value, ![field.has] = TRUE]
    BY DEF Assign
  <2>2. value \in Member(field) BY <1>2, <1>3, AssignedMember
  <2>3. CASE field.label = "REPEATED"
    <3>1. built[field.name] \in Seq(Member(field)) BY <1>2, <1>3, <2>3, StructMembers DEF Fresh
    <3>2. PICK v : v = Append(built[field.name], value) OBVIOUS
    <3>3. v \in Seq(Member(field)) BY <2>2, <3>1, <3>2
    <3>4. built' = [built EXCEPT ![field.name] = v] BY <2>1, <2>3, <3>2
    <3>5. Filled(type, built, built', i, v) BY <1>3, <2>3, <3>3, <3>4 DEF Filled
    <3> QED BY <1>2, <3>5, AssignFilled
  <2>4. CASE field.label # "REPEATED" /\ built' = [built EXCEPT ![field.name] = value]
    <3>1. Filled(type, built, built', i, value) BY <1>3, <2>2, <2>4 DEF Filled
    <3> QED BY <1>2, <3>1, AssignFilled
  <2>5. CASE /\ field.label # "REPEATED" /\ field.has # Empty
             /\ built' = [built EXCEPT ![field.name] = value, ![field.has] = TRUE]
    <3>1. Filled(type, built, built', i, value) BY <1>3, <2>2, <2>5 DEF Filled
    <3> QED BY <1>2, <3>1, AssignFilled
  <2> QED BY <2>1, <2>3, <2>4, <2>5
<1>5. Building' BY <1>1, <1>4 DEF Assign, Building
<1>6. Nothing' /\ Read' BY <1>1 DEF IInv, Assign, Building, Nothing, Read, wireVars
<1> QED BY <1>5, <1>6 DEF IInv, Assign, wireVars

\* Packing does not abort, and puts the message into the buffer.
LEMMA PackStep == ASSUME IInv, pack PROVE IInv'
<1>1. Building BY DEF IInv, pack, Idle, OnWay
<1>2. type \in DOMAIN Type /\ StructOK(type, built) /\ built.base.unknown_fields = <<>>
  BY <1>1, SentTypes DEF Building, Fresh
<1>3. built.base.descriptor = type BY <1>2, StructPacks DEF Packs
<1>4. aborted' = FALSE BY <1>2, <1>3, TableFacts DEF pack, Asserts
<1>5. buffer' = Pack(built) /\ sent' = built BY <1>4 DEF pack
<1>6. Holds(type, built, Pack(built), {}, <<>>) BY <1>2, HoldsPacked
<1>7. dropped' = {} /\ added' = <<>> BY <1>1 DEF IInv, Building, Nothing, pack
<1>8. OnWay' BY <1>1, <1>5, <1>6, <1>7 DEF pack, OnWay, Building
<1>9. Read' /\ sent' # NULL BY <1>1, <1>5 DEF IInv, Building, Read, pack
<1> QED BY <1>4, <1>8, <1>9 DEF IInv, pack

\* On the way only the buffer changes, and what it holds.
LEMMA WayStep ==
    ASSUME IInv, OnTheWay, skew' = skew + 1,
           UNCHANGED <<type, built, sent, readAs, received, aborted>>,
           Holds(type, sent, buffer', dropped', added')
    PROVE  IInv'
<1>1. OnWay BY DEF IInv, OnTheWay, Idle, Building
<1>2. OnWay' BY <1>1 DEF OnWay
<1>3. readAs' = NULL /\ received' = NULL /\ sent' # NULL BY DEF IInv, OnTheWay, Read
<1>4. Read' BY <1>3 DEF Read
<1>5. skew' \in 0 .. MaxSkew BY BoundsAssumption DEF IInv, OnTheWay
<1> QED BY <1>2, <1>3, <1>4, <1>5 DEF IInv

\* The buffer on the way holds the message, and its positions are numbers.
LEMMA OnWayHolds ==
    ASSUME IInv, OnTheWay
    PROVE  /\ type \in DOMAIN Type /\ Holds(type, sent, buffer, dropped, added)
           /\ DOMAIN buffer = 1 .. Len(buffer) /\ Len(buffer) \in Nat
<1>1. OnWay BY DEF IInv, OnTheWay, Idle, Building
<1>2. Sequence(buffer) BY <1>1 DEF OnWay, Holds, BufferOK
<1> QED BY <1>1, <1>2, SentTypes, SequenceLen DEF OnWay

\* A newer version puts a field in.
LEMMA NewerStep ==
    ASSUME IInv, NEW entry \in UnknownEntries, NewerField(entry)
    PROVE  IInv'
<1>1. type \in DOMAIN Type /\ Holds(type, sent, buffer, dropped, added)
  BY OnWayHolds DEF NewerField
<1>2. Lookup(Type[type].descriptor, entry.number) = 0 BY DEF NewerField, Position
<1>3. \/ buffer' = <<entry>> \o buffer /\ added' = <<entry>> \o added
      \/ buffer' = Append(buffer, entry) /\ added' = Append(added, entry)
  BY DEF NewerField
<1>4. /\ Holds(type, sent, <<entry>> \o buffer, dropped, <<entry>> \o added)
      /\ Holds(type, sent, Append(buffer, entry), dropped, Append(added, entry))
  BY <1>1, <1>2, HoldsNewer
<1>5. Holds(type, sent, buffer', dropped, added')
  <2>1. CASE buffer' = <<entry>> \o buffer /\ added' = <<entry>> \o added BY <1>4, <2>1, Zenon
  <2>2. CASE buffer' = Append(buffer, entry) /\ added' = Append(added, entry)
    BY <1>4, <2>2, Zenon
  <2> QED BY <1>3, <2>1, <2>2
<1> QED BY <1>5, WayStep DEF NewerField

\* An older version leaves a field out.
LEMMA OlderStep ==
    ASSUME IInv, NEW i \in DOMAIN buffer, OlderField(i)
    PROVE  IInv'
<1>1. /\ type \in DOMAIN Type /\ Holds(type, sent, buffer, dropped, added)
      /\ i \in 1 .. Len(buffer)
  BY OnWayHolds DEF OlderField
<1>2. PICK p : p = Lookup(Type[type].descriptor, buffer[i].number) OBVIOUS
<1>3. p # 0 /\ Type[type].descriptor.fields[p].label # "REPEATED"
  BY <1>2 DEF OlderField, Position, FieldAt
<1>4. Holds(type, sent, RemoveAt(buffer, i), dropped \cup {Type[type].descriptor.fields[p].name}, added)
  BY <1>1, <1>2, <1>3, HoldsOlder
<1>5. /\ buffer' = RemoveAt(buffer, i) /\ added' = added
      /\ dropped' = dropped \cup {Type[type].descriptor.fields[p].name}
  BY <1>2 DEF OlderField, Position, FieldAt
<1>6. Holds(type, sent, buffer', dropped', added') BY <1>4, <1>5
<1> QED BY <1>6, WayStep DEF OlderField

\* Another encoder packs repeated numbers.
LEMMA PackedStep ==
    ASSUME IInv, NEW i \in DOMAIN buffer, NEW j \in DOMAIN buffer, PackedFields(i, j)
    PROVE  IInv'
<1>1. /\ type \in DOMAIN Type /\ Holds(type, sent, buffer, dropped, added)
      /\ DOMAIN buffer = 1 .. Len(buffer)
  BY OnWayHolds DEF PackedFields
<1>2. PICK p : p = Lookup(Type[type].descriptor, buffer[i].number) OBVIOUS
<1>3. /\ p # 0 /\ Type[type].descriptor.fields[p].label = "REPEATED"
      /\ Packable(Type[type].descriptor.fields[p].type)
  BY <1>2 DEF PackedFields, Position, FieldAt
<1>4. /\ i <= j
      /\ \A k \in 1 .. Len(buffer) : buffer[k].number = buffer[i].number <=> k \in i .. j
      /\ \A k \in i .. j : buffer[k].type # "LENGTH_PREFIXED"
  BY <1>1 DEF PackedFields
<1>5. PICK e : e = [number |-> buffer[i].number, type |-> "LENGTH_PREFIXED",
                    payload |-> [k \in 1 .. j - i + 1 |-> buffer[i + k - 1].payload]]
  OBVIOUS
<1>6. /\ e.number = buffer[i].number /\ e.type = "LENGTH_PREFIXED"
      /\ e.payload = [k \in 1 .. j - i + 1 |-> buffer[i + k - 1].payload]
  BY <1>5
<1>7. buffer' = (SubSeq(buffer, 1, i - 1) \o SubSeq(buffer, j + 1, Len(buffer))) \o <<e>>
  BY <1>5 DEF PackedFields
<1>8. Holds(type, sent, (SubSeq(buffer, 1, i - 1) \o SubSeq(buffer, j + 1, Len(buffer))) \o <<e>>,
            dropped, added)
  BY <1>1, <1>2, <1>3, <1>4, <1>6, HoldsPackedFields
<1>9. Holds(type, sent, buffer', dropped', added') BY <1>7, <1>8 DEF PackedFields
<1> QED BY <1>9, WayStep DEF PackedFields

\* Another encoder moves a field.
LEMMA MovedStep ==
    ASSUME IInv, NEW i \in DOMAIN buffer, MovedField(i)
    PROVE  IInv'
<1>1. /\ type \in DOMAIN Type /\ Holds(type, sent, buffer, dropped, added)
      /\ i \in 1 .. Len(buffer)
  BY OnWayHolds DEF MovedField
<1>2. /\ i < Len(buffer) /\ buffer[i].number # buffer[i + 1].number
      /\ Lookup(Type[type].descriptor, buffer[i].number) # 0
  BY DEF MovedField, Position
<1>3. Holds(type, sent, [buffer EXCEPT ![i] = buffer[i + 1], ![i + 1] = buffer[i]], dropped, added)
  BY <1>1, <1>2, HoldsMoved
<1>4. Holds(type, sent, buffer', dropped', added') BY <1>3 DEF MovedField
<1> QED BY <1>4, WayStep DEF MovedField

\* The receiver unpacks, by its own type or by the other one.
LEMMA UnpackStep ==
    ASSUME IInv, NEW t \in Kinds(type), unpack(t)
    PROVE  IInv'
<1>1. OnWay BY DEF IInv, unpack, Idle, Building
<1>2. type \in DOMAIN Type /\ StructOK(type, sent) /\ Holds(type, sent, buffer, dropped, added)
  BY <1>1, SentTypes DEF OnWay, Fresh
<1>3. t \in DOMAIN Type /\ t # NULL BY <1>2, TypesAreNames
<1>4. received' = Unpack(Type[t].descriptor, buffer) /\ readAs' = t BY DEF unpack
<1>5. UNCHANGED <<type, built, sent, aborted, buffer, added, dropped, skew>>
  BY DEF unpack, wireVars
<1>6. t = type => ReadAsOwn'
  <2> HAVE t = type
  <2>1. Unpack(Type[type].descriptor, buffer) =
            IF Accepts(type, sent, dropped) THEN SeenAs(sent, dropped, added) ELSE NULL
    BY <1>2, HoldsUnpack
  <2> QED BY <1>4, <1>5, <2>1 DEF ReadAsOwn
<1>7. t # type => ReadAsOther'
  <2> HAVE t # type
  <2>1. dropped = {} => received' = NULL BY <1>2, <1>4, TypesDiffer
  <2>2. received' # NULL =>
            DOMAIN received' = DOMAIN Type[t].init /\ received'.base.descriptor = t
    BY <1>3, <1>4, UnpackShape
  <2> QED BY <1>4, <1>5, <2>1, <2>2 DEF ReadAsOther
<1>8. Read' BY <1>1, <1>3, <1>4, <1>5, <1>6, <1>7 DEF Read, OnWay
<1>9. OnWay' /\ sent' # NULL BY <1>1, <1>5 DEF OnWay
<1> QED BY <1>5, <1>8, <1>9 DEF IInv

\* The receiver packs again, and the buffer holds the same message.
LEMMA PackAgainStep == ASSUME IInv, pack_to_buffer PROVE IInv'
<1>1. /\ received # NULL /\ readAs = type /\ sent # NULL /\ readAs \in DOMAIN Type
      /\ ReadAsOwn
  BY DEF IInv, pack_to_buffer, Read
<1>2. OnWay BY <1>1 DEF IInv, Idle, Building
<1>3. type \in DOMAIN Type /\ StructOK(type, sent) /\ Holds(type, sent, buffer, dropped, added)
  BY <1>2, SentTypes DEF OnWay, Fresh
<1>4. Accepts(type, sent, dropped) /\ received = SeenAs(sent, dropped, added)
  BY <1>1 DEF ReadAsOwn
<1>5. received.base.descriptor = type /\ Holds(type, sent, Pack(received), dropped, added)
  BY <1>3, <1>4, HoldsAgain
<1>6. aborted' = FALSE BY <1>1, <1>3, <1>5, TableFacts DEF pack_to_buffer, Asserts
<1>7. buffer' = Pack(received) BY <1>6 DEF pack_to_buffer
<1>8. OnWay' BY <1>2, <1>5, <1>7 DEF OnWay, pack_to_buffer
<1>9. Read' BY DEF IInv, Read, ReadAsOwn, ReadAsOther, pack_to_buffer
<1> QED BY <1>1, <1>6, <1>8, <1>9 DEF IInv, pack_to_buffer

\* Freeing does not abort.
LEMMA FreeStep == ASSUME IInv, free_unpacked PROVE IInv'
<1>1. sent # NULL /\ readAs \in DOMAIN Type BY DEF IInv, free_unpacked, Read
<1>2. OnWay BY <1>1 DEF IInv, Idle, Building
<1>3. type \in DOMAIN Type /\ StructOK(type, sent) /\ Holds(type, sent, buffer, dropped, added)
  BY <1>2, SentTypes DEF OnWay, Fresh
<1>4. aborted' = FALSE
  <2>1. CASE received = NULL BY <2>1 DEF IInv, free_unpacked
  <2>2. CASE received # NULL /\ readAs = type
    <3>1. ReadAsOwn BY <2>2 DEF IInv, free_unpacked, Read
    <3>2. Accepts(type, sent, dropped) /\ received = SeenAs(sent, dropped, added)
      BY <2>2, <3>1 DEF ReadAsOwn
    <3>3. received.base.descriptor = type BY <1>3, <3>2, HoldsAgain
    <3> QED BY <1>1, <2>2, <3>3, TableFacts DEF free_unpacked, Asserts
  <2>3. CASE received # NULL /\ readAs # type
    <3>1. received.base.descriptor = readAs BY <2>3 DEF IInv, free_unpacked, Read, ReadAsOther
    <3> QED BY <1>1, <2>3, <3>1, TableFacts DEF free_unpacked, Asserts
  <2> QED BY <2>1, <2>2, <2>3
<1>5. OnWay' BY <1>2 DEF OnWay, free_unpacked, wireVars
<1>6. Read' BY DEF Read, free_unpacked
<1> QED BY <1>1, <1>4, <1>5, <1>6 DEF IInv, free_unpacked, wireVars

\* The next message starts from nothing.
LEMMA NextMessageStep == ASSUME IInv, NextMessage PROVE IInv'
<1>1. OnWay BY DEF IInv, NextMessage, Idle, Building
<1>2. Idle' BY <1>1 DEF OnWay, Idle, NextMessage
<1>3. Nothing' BY DEF Nothing, NextMessage
<1>4. Read' BY DEF IInv, Read, NextMessage
<1> QED BY <1>2, <1>3, <1>4, BoundsAssumption DEF IInv, NextMessage

\* The invariant is about the variables only.
LEMMA StutterStep == ASSUME IInv, UNCHANGED vars PROVE IInv'
BY DEF IInv, vars, wireVars, Idle, Building, OnWay, Nothing, Read, ReadAsOwn, ReadAsOther

\* The inductive invariant holds in every reachable state.
THEOREM Invariant == Spec => []IInv
<1>1. Init => IInv BY InitIInv
<1>2. IInv /\ [Next]_vars => IInv'
  <2> SUFFICES ASSUME IInv, [Next]_vars PROVE IInv'
    OBVIOUS
  <2>1. CASE SenderStep BY <2>1, InitStep, AssignStep, PackStep DEF SenderStep
  <2>2. CASE VersionSkew BY <2>2, NewerStep, OlderStep, MovedStep, PackedStep DEF VersionSkew
  <2>3. CASE ReceiverStep
    BY <2>3, UnpackStep, PackAgainStep, FreeStep, NextMessageStep DEF ReceiverStep
  <2>4. CASE UNCHANGED vars BY <2>4, StutterStep
  <2> QED BY <2>1, <2>2, <2>3, <2>4 DEF Next
<1> QED BY <1>1, <1>2, PTL DEF Spec

-----------------------------------------------------------------------------
(* The properties of SscExchange.                                          *)

\* What is known once the right type was unpacked.
LEMMA ReadOwn ==
    ASSUME IInv, readAs # NULL, readAs = type
    PROVE  /\ type \in DOMAIN Type /\ StructOK(type, sent) /\ added \in Seq(UnknownEntries)
           /\ ReadAsOwn
<1>1. sent # NULL /\ ReadAsOwn BY DEF IInv, Read
<1>2. OnWay BY <1>1 DEF IInv, Idle, Building
<1> QED BY <1>1, <1>2, SentTypes DEF OnWay, Fresh, Holds, Unknown

\* The inductive invariant implies the type invariant.
LEMMA IInvTypeOK == IInv => TypeOK
<1> HAVE IInv
<1>1. type \in Sent \cup {NULL} BY DEF IInv, Idle, Building, OnWay
<1>2. built # NULL => sent = NULL /\ StructOK(type, built)
  BY DEF IInv, Idle, Building, OnWay, Fresh
<1>3. IF sent = NULL THEN buffer = <<>> ELSE StructOK(type, sent)
  BY DEF IInv, Idle, Building, OnWay, Fresh, Nothing
<1>4. readAs # NULL => sent # NULL /\ readAs \in DOMAIN Type BY DEF IInv, Read
<1>5. received # NULL => readAs # NULL BY DEF IInv, Read
<1>6. received # NULL => DOMAIN received = DOMAIN Type[readAs].init
  <2> HAVE received # NULL
  <2>1. CASE readAs = type
    <3>1. type \in DOMAIN Type /\ StructOK(type, sent) /\ ReadAsOwn BY <1>5, <2>1, ReadOwn
    <3>2. received = SeenAs(sent, dropped, added) BY <3>1 DEF ReadAsOwn
    <3>3. ShowsMembers(received, type, sent, dropped) BY <3>1, <3>2, SeenAsCases
    <3>4. received = [name \in DOMAIN Type[type].init |-> received[name]]
      BY <3>3 DEF ShowsMembers
    <3> QED BY <2>1, <3>4
  <2>2. CASE readAs # type BY <1>5, <2>2 DEF IInv, Read, ReadAsOther
  <2> QED BY <2>1, <2>2
<1>7. skew \in 0 .. MaxSkew /\ aborted \in BOOLEAN BY DEF IInv
<1> QED BY <1>1, <1>2, <1>3, <1>4, <1>5, <1>6, <1>7 DEF TypeOK

\* Type correctness: of what is built, sent and received.
THEOREM TypeCorrect == Spec => []TypeOK
BY Invariant, IInvTypeOK, PTL

\* No assert of a generated method ever fails: every struct that is packed or
\* freed has the descriptor of its own type.
THEOREM AssertionsHold == Spec => []NeverAborts
<1>1. IInv => NeverAborts BY DEF IInv, NeverAborts
<1> QED BY <1>1, Invariant, PTL

\* A message is refused exactly when a required member is missing or a part of
\* it is incomplete, however many differences between the versions there are.
THEOREM OnlyRefusedForCause == Spec => []RefusedForCause
<1>1. IInv => RefusedForCause
  <2> SUFFICES ASSUME IInv, readAs # NULL, readAs = type
               PROVE  received # NULL <=> Accepts(type, sent, dropped)
    BY DEF RefusedForCause, Accepts
  <2>1. /\ type \in DOMAIN Type /\ StructOK(type, sent) /\ added \in Seq(UnknownEntries)
        /\ ReadAsOwn
    BY ReadOwn
  <2>2. SeenAs(sent, dropped, added) # NULL BY <2>1, SeenAsAny
  <2> QED BY <2>1, <2>2 DEF ReadAsOwn
<1> QED BY <1>1, Invariant, PTL

\* What is accepted is what was sent, without what was dropped and with the
\* unknown fields, also after it was passed on.
THEOREM WhatIsReceivedWasSent == Spec => []ReceivedIsSent
<1>1. IInv => ReceivedIsSent
  <2> SUFFICES ASSUME IInv, received # NULL, readAs = type
               PROVE  received = SeenAs(sent, dropped, added)
    BY DEF ReceivedIsSent, SeenAs
  <2>1. readAs # NULL BY DEF IInv, Read
  <2>2. ReadAsOwn BY <2>1, ReadOwn
  <2> QED BY <2>2 DEF ReadAsOwn
<1> QED BY <1>1, Invariant, PTL

\* With nothing dropped, no message is taken for one of another type.
THEOREM TypesAreTold == Spec => []NeverMistaken
<1>1. IInv => NeverMistaken BY DEF IInv, Read, ReadAsOther, NeverMistaken
<1> QED BY <1>1, Invariant, PTL
=============================================================================
