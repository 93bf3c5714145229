-------------------------- MODULE ProtobufCProofs ---------------------------
(***************************************************************************)
(* What the generated tables, Pack and Unpack of protobuf-c guarantee, for *)
(* every type of message, every struct and every buffer.                   *)
(***************************************************************************)
EXTENDS ProtobufC, SequenceFacts

-----------------------------------------------------------------------------
(* The tables of the generated code: one lemma per message.                *)

\* The names of the messages.
LEMMA TypeNames ==
    DOMAIN Type = {"SscUid", "SscClientConfig", "SscClientRequestBody", "SscClientRequest",
        "SscClientResponseBody", "SscClientResponse", "SscAttrRequest", "SscAttrValueArray",
        "SscAttrValue", "SscAttrArrayValue", "SscAttr", "SscAttrResponse",
        "SscEnableConfigRequest", "SscConfigResponse", "SscSuidRequest", "SscSuidResponse",
        "SscProximityResponse", "SscProximityResponseDavinci", "SscAccelerometerResponse",
        "SscGyroscopeResponse", "SscLightResponse", "SscMagnetometerResponse",
        "SscRotationvectorResponse"}
BY DEF Type

\* The methods of each message.
LEMMA TypeMethods ==
    /\ Type["SscUid"] = ssc_uid__methods
    /\ Type["SscClientConfig"] = ssc_client_config__methods
    /\ Type["SscClientRequestBody"] = ssc_client_request_body__methods
    /\ Type["SscClientRequest"] = ssc_client_request__methods
    /\ Type["SscClientResponseBody"] = ssc_client_response_body__methods
    /\ Type["SscClientResponse"] = ssc_client_response__methods
    /\ Type["SscAttrRequest"] = ssc_attr_request__methods
    /\ Type["SscAttrValueArray"] = ssc_attr_value_array__methods
    /\ Type["SscAttrValue"] = ssc_attr_value__methods
    /\ Type["SscAttrArrayValue"] = ssc_attr_array_value__methods
    /\ Type["SscAttr"] = ssc_attr__methods
    /\ Type["SscAttrResponse"] = ssc_attr_response__methods
    /\ Type["SscEnableConfigRequest"] = ssc_enable_config_request__methods
    /\ Type["SscConfigResponse"] = ssc_config_response__methods
    /\ Type["SscSuidRequest"] = ssc_suid_request__methods
    /\ Type["SscSuidResponse"] = ssc_suid_response__methods
    /\ Type["SscProximityResponse"] = ssc_proximity_response__methods
    /\ Type["SscProximityResponseDavinci"] = ssc_proximity_response_davinci__methods
    /\ Type["SscAccelerometerResponse"] = ssc_accelerometer_response__methods
    /\ Type["SscGyroscopeResponse"] = ssc_gyroscope_response__methods
    /\ Type["SscLightResponse"] = ssc_light_response__methods
    /\ Type["SscMagnetometerResponse"] = ssc_magnetometer_response__methods
    /\ Type["SscRotationvectorResponse"] = ssc_rotationvector_response__methods
BY DEF Type

\* The methods of a type work on its descriptor and its initializer.
MethodsOK(t, d, initial) ==
    /\ Type[t].descriptor = d /\ Type[t].init = initial
    /\ d.name = t /\ d.message_init = initial

\* The table of a descriptor holds n fields.
FieldsOK(d, n) ==
    Sequence(d.fields) /\ Len(d.fields) = n

\* The number ranges find each field by its number, and nothing else.
RangesOK(d, n) ==
    /\ \A m \in Nat : Lookup(d, m) \in 0 .. n
    /\ \A m \in Nat : Lookup(d, m) # 0 => d.fields[Lookup(d, m)].number = m
    /\ \A i \in 1 .. n : d.fields[i].number \in Nat /\ Lookup(d, d.fields[i].number) = i

\* The initializer has the members that the fields name, and the base.
InitialOK(t, initial, d, n) ==
    /\ initial = [x \in DOMAIN initial |-> initial[x]] /\ "base" \in DOMAIN initial
    /\ initial.base = [descriptor |-> t, unknown_fields |-> <<>>]
    /\ \A x \in DOMAIN initial :
        \/ x = "base"
        \/ \E i \in 1 .. n : x = d.fields[i].name
        \/ \E i \in 1 .. n : d.fields[i].has # Empty /\ x = d.fields[i].has

\* What the generator guarantees of a field and its members.
FieldOK(f, initial) ==
    /\ f.name \in DOMAIN initial /\ f.name # "base"
    /\ f.label \in {"REQUIRED", "OPTIONAL", "REPEATED"}
    /\ f.type \in {"INT32", "BOOL", "FIXED32", "FIXED64", "FLOAT", "STRING", "BYTES", "MESSAGE"}
    /\ f.has # Empty =>
        /\ f.has \in DOMAIN initial /\ f.has # "base"
        /\ f.label = "OPTIONAL" /\ f.type # "MESSAGE" /\ initial[f.has] = FALSE
    /\ f.label = "REPEATED" => initial[f.name] = <<>>
    /\ f.label = "OPTIONAL" /\ f.has = Empty =>
        f.type \in {"STRING", "MESSAGE"} /\ initial[f.name] = NULL
    /\ f.type = "MESSAGE" => f.of \in DOMAIN Type

\* No two fields share a member.
NamesOK(d, n) ==
    \A i, j \in 1 .. n : 
        /\ d.fields[j].name = d.fields[i].name => i = j
        /\ d.fields[i].has # Empty /\ d.fields[j].has = d.fields[i].has => i = j
        /\ d.fields[j].name # d.fields[i].has

\* All of that for the descriptor of a type.
TableOK(t) ==
    \E n \in Nat :
        LET d == Type[t].descriptor
            initial == Type[t].init
        IN  /\ MethodsOK(t, d, initial) /\ FieldsOK(d, n) /\ RangesOK(d, n)
            /\ InitialOK(t, initial, d, n) /\ NamesOK(d, n)
            /\ \A i \in 1 .. n : FieldOK(d.fields[i], initial)

\* A descriptor whose numbers are consecutive needs one range.
LEMMA OneRangeOK ==
    ASSUME NEW d, NEW a \in Nat, NEW n \in Nat, d.number_ranges = <<<<a, 0>>, <<0, n>>>>,
           \A i \in 1 .. n : d.fields[i].number = a + i - 1
    PROVE  RangesOK(d, n)
<1>1. \A m \in Nat : Lookup(d, m) = IF a <= m /\ m < a + n THEN m - a + 1 ELSE 0
  BY DEF Lookup
<1> QED BY <1>1 DEF RangesOK

\* A tuple is a sequence of its length, here of one element;
LEMMA Tuple1 == ASSUME NEW a PROVE Sequence(<<a>>) /\ Len(<<a>>) = 1
BY SequenceOne

\* of two elements,
LEMMA Tuple2 == ASSUME NEW a, NEW b PROVE Sequence(<<a, b>>) /\ Len(<<a, b>>) = 2
<1>1. <<a, b>> \in Seq({a, b}) OBVIOUS
<1> QED BY <1>1 DEF Sequence

\* of three,
LEMMA Tuple3 == ASSUME NEW a, NEW b, NEW c PROVE Sequence(<<a, b, c>>) /\ Len(<<a, b, c>>) = 3
<1>1. <<a, b, c>> \in Seq({a, b, c}) OBVIOUS
<1> QED BY <1>1 DEF Sequence

\* of four,
LEMMA Tuple4 ==
    ASSUME NEW a, NEW b, NEW c, NEW d
    PROVE  Sequence(<<a, b, c, d>>) /\ Len(<<a, b, c, d>>) = 4
<1>1. <<a, b, c, d>> \in Seq({a, b, c, d}) OBVIOUS
<1> QED BY <1>1 DEF Sequence

\* and of five.
LEMMA Tuple5 ==
    ASSUME NEW a, NEW b, NEW c, NEW d, NEW e
    PROVE  Sequence(<<a, b, c, d, e>>) /\ Len(<<a, b, c, d, e>>) = 5
<1>1. <<a, b, c, d, e>> \in Seq({a, b, c, d, e}) OBVIOUS
<1> QED BY <1>1 DEF Sequence

\* The table of SscUid.
LEMMA SscUidTable == TableOK("SscUid")
<1>d. PICK d : d = ssc_uid__descriptor  OBVIOUS
<1>i. PICK initial : initial = SSC_UID__INIT  OBVIOUS
<1>e. Empty \notin {"base", "low", "high"}
  BY Zenon DEF Empty
<1>1. MethodsOK("SscUid", d, initial)
 
    BY <1>d, <1>i, TypeMethods
        DEF MethodsOK, ssc_uid__methods, Methods, ssc_uid__descriptor, Descriptor
<1>2. d.fields = <<Required("low", 1, "FIXED64"),
             Required("high", 2, "FIXED64")>>
  BY <1>d DEF ssc_uid__descriptor, Descriptor
<1>3. d.number_ranges = <<<<1, 0>>, <<0, 2>>>>
  BY <1>d DEF ssc_uid__descriptor, Descriptor
<1>4. FieldsOK(d, 2)  BY <1>2, Tuple2 DEF FieldsOK
<1>5. /\ d.fields[1] = Required("low", 1, "FIXED64")
      /\ d.fields[2] = Required("high", 2, "FIXED64")
  BY <1>2
<1>6. /\ d.fields[1].name = "low" /\ d.fields[1].has = Empty /\ d.fields[1].number = 1
      /\ d.fields[2].name = "high" /\ d.fields[2].has = Empty /\ d.fields[2].number = 2
  BY <1>5 DEF Required, Field
<1>7. NamesOK(d, 2)  BY <1>e, <1>6 DEF NamesOK
<1>8. RangesOK(d, 2)
  <2>1. \A i \in 1 .. 2 : d.fields[i].number = 1 + i - 1  BY <1>6
  <2>2. 1 \in Nat /\ 2 \in Nat  OBVIOUS
  <2> QED BY <1>3, <2>1, <2>2, OneRangeOK, Zenon
<1>9. InitialOK("SscUid", initial, d, 2)
  <2>1. /\ DOMAIN initial = {"base", "low", "high"}
        /\ initial.base = [descriptor |-> "SscUid", unknown_fields |-> <<>>]
        /\ initial = [x \in DOMAIN initial |-> initial[x]]
    BY <1>i DEF SSC_UID__INIT, Base
  <2> QED BY <1>e, <1>6, <2>1 DEF InitialOK
<1>10. \A i \in 1 .. 2 : FieldOK(d.fields[i], initial)
  <2>1. FieldOK(Required("low", 1, "FIXED64"), initial)
    BY <1>e, <1>i, TypeNames DEF FieldOK, SSC_UID__INIT, Required, Field
  <2>2. FieldOK(Required("high", 2, "FIXED64"), initial)
    BY <1>e, <1>i, TypeNames DEF FieldOK, SSC_UID__INIT, Required, Field
  <2> QED BY <1>5, <2>1, <2>2
<1> QED BY <1>1, <1>4, <1>7, <1>8, <1>9, <1>10 DEF TableOK, MethodsOK

\* The table of SscClientConfig.
LEMMA SscClientConfigTable == TableOK("SscClientConfig")
<1>d. PICK d : d = ssc_client_config__descriptor  OBVIOUS
<1>i. PICK initial : initial = SSC_CLIENT_CONFIG__INIT  OBVIOUS
<1>e. Empty \notin {"base", "processor", "suspend_mode"}
  BY Zenon DEF Empty
<1>1. MethodsOK("SscClientConfig", d, initial)
 
    BY <1>d, <1>i, TypeMethods DEF MethodsOK, ssc_client_config__methods, Methods,
        ssc_client_config__descriptor, Descriptor
<1>2. d.fields = <<Required("processor", 1, "INT32"),
             Required("suspend_mode", 2, "INT32")>>
  BY <1>d DEF ssc_client_config__descriptor, Descriptor
<1>3. d.number_ranges = <<<<1, 0>>, <<0, 2>>>>
  BY <1>d DEF ssc_client_config__descriptor, Descriptor
<1>4. FieldsOK(d, 2)  BY <1>2, Tuple2 DEF FieldsOK
<1>5. /\ d.fields[1] = Required("processor", 1, "INT32")
      /\ d.fields[2] = Required("suspend_mode", 2, "INT32")
  BY <1>2
<1>6. /\ d.fields[1].name = "processor" /\ d.fields[1].has = Empty /\ d.fields[1].number = 1
      /\ d.fields[2].name = "suspend_mode" /\ d.fields[2].has = Empty /\ d.fields[2].number = 2
  BY <1>5 DEF Required, Field
<1>7. NamesOK(d, 2)  BY <1>e, <1>6 DEF NamesOK
<1>8. RangesOK(d, 2)
  <2>1. \A i \in 1 .. 2 : d.fields[i].number = 1 + i - 1  BY <1>6
  <2>2. 1 \in Nat /\ 2 \in Nat  OBVIOUS
  <2> QED BY <1>3, <2>1, <2>2, OneRangeOK, Zenon
<1>9. InitialOK("SscClientConfig", initial, d, 2)
  <2>1. /\ DOMAIN initial = {"base", "processor", "suspend_mode"}
        /\ initial.base = [descriptor |-> "SscClientConfig", unknown_fields |-> <<>>]
        /\ initial = [x \in DOMAIN initial |-> initial[x]]
    BY <1>i DEF SSC_CLIENT_CONFIG__INIT, Base
  <2> QED BY <1>e, <1>6, <2>1 DEF InitialOK
<1>10. \A i \in 1 .. 2 : FieldOK(d.fields[i], initial)
  <2>1. FieldOK(Required("processor", 1, "INT32"), initial)
    BY <1>e, <1>i, TypeNames DEF FieldOK, SSC_CLIENT_CONFIG__INIT, Required, Field
  <2>2. FieldOK(Required("suspend_mode", 2, "INT32"), initial)
    BY <1>e, <1>i, TypeNames DEF FieldOK, SSC_CLIENT_CONFIG__INIT, Required, Field
  <2> QED BY <1>5, <2>1, <2>2
<1> QED BY <1>1, <1>4, <1>7, <1>8, <1>9, <1>10 DEF TableOK, MethodsOK

\* The table of SscClientRequestBody.
LEMMA SscClientRequestBodyTable == TableOK("SscClientRequestBody")
<1>d. PICK d : d = ssc_client_request_body__descriptor  OBVIOUS
<1>i. PICK initial : initial = SSC_CLIENT_REQUEST_BODY__INIT  OBVIOUS
<1>e. Empty \notin {"base", "unknown", "has_unknown", "msg", "has_msg", "is_passive",
    "has_is_passive"}
  BY Zenon DEF Empty
<1>1. MethodsOK("SscClientRequestBody", d, initial)
 
    BY <1>d, <1>i, TypeMethods DEF MethodsOK, ssc_client_request_body__methods, Methods,
        ssc_client_request_body__descriptor, Descriptor
<1>2. d.fields = <<Optional("unknown", "has_unknown", 1, "BYTES"),
             Optional("msg", "has_msg", 2, "BYTES"),
             Optional("is_passive", "has_is_passive", 3, "BOOL")>>
  BY <1>d DEF ssc_client_request_body__descriptor, Descriptor
<1>3. d.number_ranges = <<<<1, 0>>, <<0, 3>>>>
  BY <1>d DEF ssc_client_request_body__descriptor, Descriptor
<1>4. FieldsOK(d, 3)  BY <1>2, Tuple3 DEF FieldsOK
<1>5. /\ d.fields[1] = Optional("unknown", "has_unknown", 1, "BYTES")
      /\ d.fields[2] = Optional("msg", "has_msg", 2, "BYTES")
      /\ d.fields[3] = Optional("is_passive", "has_is_passive", 3, "BOOL")
  BY <1>2
<1>6. /\ d.fields[1].name = "unknown" /\ d.fields[1].has = "has_unknown"
      /\ d.fields[1].number = 1
      /\ d.fields[2].name = "msg" /\ d.fields[2].has = "has_msg" /\ d.fields[2].number = 2
      /\ d.fields[3].name = "is_passive" /\ d.fields[3].has = "has_is_passive"
      /\ d.fields[3].number = 3
  BY <1>5 DEF Optional, Field
<1>7. NamesOK(d, 3)  BY <1>e, <1>6 DEF NamesOK
<1>8. RangesOK(d, 3)
  <2>1. \A i \in 1 .. 3 : d.fields[i].number = 1 + i - 1  BY <1>6
  <2>2. 1 \in Nat /\ 3 \in Nat  OBVIOUS
  <2> QED BY <1>3, <2>1, <2>2, OneRangeOK, Zenon
<1>9. InitialOK("SscClientRequestBody", initial, d, 3)
  <2>1. /\ DOMAIN initial = {"base", "unknown", "has_unknown", "msg", "has_msg", "is_passive", "has_is_passive"}
        /\ initial.base = [descriptor |-> "SscClientRequestBody", unknown_fields |-> <<>>]
        /\ initial = [x \in DOMAIN initial |-> initial[x]]
    BY <1>i DEF SSC_CLIENT_REQUEST_BODY__INIT, Base
  <2> QED BY <1>e, <1>6, <2>1 DEF InitialOK
<1>10. \A i \in 1 .. 3 : FieldOK(d.fields[i], initial)
  <2>1. FieldOK(Optional("unknown", "has_unknown", 1, "BYTES"), initial)
    BY <1>e, <1>i, TypeNames DEF FieldOK, SSC_CLIENT_REQUEST_BODY__INIT, Optional, Field
  <2>2. FieldOK(Optional("msg", "has_msg", 2, "BYTES"), initial)
    BY <1>e, <1>i, TypeNames DEF FieldOK, SSC_CLIENT_REQUEST_BODY__INIT, Optional, Field
  <2>3. FieldOK(Optional("is_passive", "has_is_passive", 3, "BOOL"), initial)
    BY <1>e, <1>i, TypeNames DEF FieldOK, SSC_CLIENT_REQUEST_BODY__INIT, Optional, Field
  <2> QED BY <1>5, <2>1, <2>2, <2>3
<1> QED BY <1>1, <1>4, <1>7, <1>8, <1>9, <1>10 DEF TableOK, MethodsOK

\* The table of SscClientRequest.
LEMMA SscClientRequestTable == TableOK("SscClientRequest")
<1>d. PICK d : d = ssc_client_request__descriptor  OBVIOUS
<1>i. PICK initial : initial = SSC_CLIENT_REQUEST__INIT  OBVIOUS
<1>e. Empty \notin {"base", "uid", "msg_id", "config", "request"}
  BY Zenon DEF Empty
<1>1. MethodsOK("SscClientRequest", d, initial)
 
    BY <1>d, <1>i, TypeMethods DEF MethodsOK, ssc_client_request__methods, Methods,
        ssc_client_request__descriptor, Descriptor
<1>2. d.fields = <<RequiredMessage("uid", 1, "SscUid"),
             Required("msg_id", 2, "FIXED32"),
             RequiredMessage("config", 3, "SscClientConfig"),
             RequiredMessage("request", 4, "SscClientRequestBody")>>
  BY <1>d DEF ssc_client_request__descriptor, Descriptor
<1>3. d.number_ranges = <<<<1, 0>>, <<0, 4>>>>
  BY <1>d DEF ssc_client_request__descriptor, Descriptor
<1>4. FieldsOK(d, 4)  BY <1>2, Tuple4 DEF FieldsOK
<1>5. /\ d.fields[1] = RequiredMessage("uid", 1, "SscUid")
      /\ d.fields[2] = Required("msg_id", 2, "FIXED32")
      /\ d.fields[3] = RequiredMessage("config", 3, "SscClientConfig")
      /\ d.fields[4] = RequiredMessage("request", 4, "SscClientRequestBody")
  BY <1>2
<1>6. /\ d.fields[1].name = "uid" /\ d.fields[1].has = Empty /\ d.fields[1].number = 1
      /\ d.fields[2].name = "msg_id" /\ d.fields[2].has = Empty /\ d.fields[2].number = 2
      /\ d.fields[3].name = "config" /\ d.fields[3].has = Empty /\ d.fields[3].number = 3
      /\ d.fields[4].name = "request" /\ d.fields[4].has = Empty /\ d.fields[4].number = 4
  BY <1>5 DEF Required, RequiredMessage, Field
<1>7. NamesOK(d, 4)  BY <1>e, <1>6 DEF NamesOK
<1>8. RangesOK(d, 4)
  <2>1. \A i \in 1 .. 4 : d.fields[i].number = 1 + i - 1  BY <1>6
  <2>2. 1 \in Nat /\ 4 \in Nat  OBVIOUS
  <2> QED BY <1>3, <2>1, <2>2, OneRangeOK, Zenon
<1>9. InitialOK("SscClientRequest", initial, d, 4)
  <2>1. /\ DOMAIN initial = {"base", "uid", "msg_id", "config", "request"}
        /\ initial.base = [descriptor |-> "SscClientRequest", unknown_fields |-> <<>>]
        /\ initial = [x \in DOMAIN initial |-> initial[x]]
    BY <1>i DEF SSC_CLIENT_REQUEST__INIT, Base
  <2> QED BY <1>e, <1>6, <2>1 DEF InitialOK
<1>10. \A i \in 1 .. 4 : FieldOK(d.fields[i], initial)
  <2>1. FieldOK(RequiredMessage("uid", 1, "SscUid"), initial)
    BY <1>e, <1>i, TypeNames DEF FieldOK, SSC_CLIENT_REQUEST__INIT, RequiredMessage, Field
  <2>2. FieldOK(Required("msg_id", 2, "FIXED32"), initial)
    BY <1>e, <1>i, TypeNames DEF FieldOK, SSC_CLIENT_REQUEST__INIT, Required, Field
  <2>3. FieldOK(RequiredMessage("config", 3, "SscClientConfig"), initial)
    BY <1>e, <1>i, TypeNames DEF FieldOK, SSC_CLIENT_REQUEST__INIT, RequiredMessage, Field
  <2>4. FieldOK(RequiredMessage("request", 4, "SscClientRequestBody"), initial)
    BY <1>e, <1>i, TypeNames DEF FieldOK, SSC_CLIENT_REQUEST__INIT, RequiredMessage, Field
  <2> QED BY <1>5, <2>1, <2>2, <2>3, <2>4
<1> QED BY <1>1, <1>4, <1>7, <1>8, <1>9, <1>10 DEF TableOK, MethodsOK

\* The table of SscClientResponseBody.
LEMMA SscClientResponseBodyTable == TableOK("SscClientResponseBody")
<1>d. PICK d : d = ssc_client_response_body__descriptor  OBVIOUS
<1>i. PICK initial : initial = SSC_CLIENT_RESPONSE_BODY__INIT  OBVIOUS
<1>e. Empty \notin {"base", "msg_id", "timestamp", "msg"}
  BY Zenon DEF Empty
<1>1. MethodsOK("SscClientResponseBody", d, initial)
 
    BY <1>d, <1>i, TypeMethods DEF MethodsOK, ssc_client_response_body__methods, Methods,
        ssc_client_response_body__descriptor, Descriptor
<1>2. d.fields = <<Required("msg_id", 1, "FIXED32"),
             Required("timestamp", 2, "FIXED64"),
             Required("msg", 3, "BYTES")>>
  BY <1>d DEF ssc_client_response_body__descriptor, Descriptor
<1>3. d.number_ranges = <<<<1, 0>>, <<0, 3>>>>
  BY <1>d DEF ssc_client_response_body__descriptor, Descriptor
<1>4. FieldsOK(d, 3)  BY <1>2, Tuple3 DEF FieldsOK
<1>5. /\ d.fields[1] = Required("msg_id", 1, "FIXED32")
      /\ d.fields[2] = Required("timestamp", 2, "FIXED64")
      /\ d.fields[3] = Required("msg", 3, "BYTES")
  BY <1>2
<1>6. /\ d.fields[1].name = "msg_id" /\ d.fields[1].has = Empty /\ d.fields[1].number = 1
      /\ d.fields[2].name = "timestamp" /\ d.fields[2].has = Empty /\ d.fields[2].number = 2
      /\ d.fields[3].name = "msg" /\ d.fields[3].has = Empty /\ d.fields[3].number = 3
  BY <1>5 DEF Required, Field
<1>7. NamesOK(d, 3)  BY <1>e, <1>6 DEF NamesOK
<1>8. RangesOK(d, 3)
  <2>1. \A i \in 1 .. 3 : d.fields[i].number = 1 + i - 1  BY <1>6
  <2>2. 1 \in Nat /\ 3 \in Nat  OBVIOUS
  <2> QED BY <1>3, <2>1, <2>2, OneRangeOK, Zenon
<1>9. InitialOK("SscClientResponseBody", initial, d, 3)
  <2>1. /\ DOMAIN initial = {"base", "msg_id", "timestamp", "msg"}
        /\ initial.base = [descriptor |-> "SscClientResponseBody", unknown_fields |-> <<>>]
        /\ initial = [x \in DOMAIN initial |-> initial[x]]
    BY <1>i DEF SSC_CLIENT_RESPONSE_BODY__INIT, Base
  <2> QED BY <1>e, <1>6, <2>1 DEF InitialOK
<1>10. \A i \in 1 .. 3 : FieldOK(d.fields[i], initial)
  <2>1. FieldOK(Required("msg_id", 1, "FIXED32"), initial)
    BY <1>e, <1>i, TypeNames DEF FieldOK, SSC_CLIENT_RESPONSE_BODY__INIT, Required, Field
  <2>2. FieldOK(Required("timestamp", 2, "FIXED64"), initial)
    BY <1>e, <1>i, TypeNames DEF FieldOK, SSC_CLIENT_RESPONSE_BODY__INIT, Required, Field
  <2>3. FieldOK(Required("msg", 3, "BYTES"), initial)
    BY <1>e, <1>i, TypeNames DEF FieldOK, SSC_CLIENT_RESPONSE_BODY__INIT, Required, Field
  <2> QED BY <1>5, <2>1, <2>2, <2>3
<1> QED BY <1>1, <1>4, <1>7, <1>8, <1>9, <1>10 DEF TableOK, MethodsOK

\* The table of SscClientResponse.
LEMMA SscClientResponseTable == TableOK("SscClientResponse")
<1>d. PICK d : d = ssc_client_response__descriptor  OBVIOUS
<1>i. PICK initial : initial = SSC_CLIENT_RESPONSE__INIT  OBVIOUS
<1>e. Empty \notin {"base", "uid", "response"}
  BY Zenon DEF Empty
<1>1. MethodsOK("SscClientResponse", d, initial)
 
    BY <1>d, <1>i, TypeMethods DEF MethodsOK, ssc_client_response__methods, Methods,
        ssc_client_response__descriptor, Descriptor
<1>2. d.fields = <<RequiredMessage("uid", 1, "SscUid"),
             RepeatedMessage("response", 2, "SscClientResponseBody")>>
  BY <1>d DEF ssc_client_response__descriptor, Descriptor
<1>3. d.number_ranges = <<<<1, 0>>, <<0, 2>>>>
  BY <1>d DEF ssc_client_response__descriptor, Descriptor
<1>4. FieldsOK(d, 2)  BY <1>2, Tuple2 DEF FieldsOK
<1>5. /\ d.fields[1] = RequiredMessage("uid", 1, "SscUid")
      /\ d.fields[2] = RepeatedMessage("response", 2, "SscClientResponseBody")
  BY <1>2
<1>6. /\ d.fields[1].name = "uid" /\ d.fields[1].has = Empty /\ d.fields[1].number = 1
      /\ d.fields[2].name = "response" /\ d.fields[2].has = Empty /\ d.fields[2].number = 2
  BY <1>5 DEF RepeatedMessage, RequiredMessage, Field
<1>7. NamesOK(d, 2)  BY <1>e, <1>6 DEF NamesOK
<1>8. RangesOK(d, 2)
  <2>1. \A i \in 1 .. 2 : d.fields[i].number = 1 + i - 1  BY <1>6
  <2>2. 1 \in Nat /\ 2 \in Nat  OBVIOUS
  <2> QED BY <1>3, <2>1, <2>2, OneRangeOK, Zenon
<1>9. InitialOK("SscClientResponse", initial, d, 2)
  <2>1. /\ DOMAIN initial = {"base", "uid", "response"}
        /\ initial.base = [descriptor |-> "SscClientResponse", unknown_fields |-> <<>>]
        /\ initial = [x \in DOMAIN initial |-> initial[x]]
    BY <1>i DEF SSC_CLIENT_RESPONSE__INIT, Base
  <2> QED BY <1>e, <1>6, <2>1 DEF InitialOK
<1>10. \A i \in 1 .. 2 : FieldOK(d.fields[i], initial)
  <2>1. FieldOK(RequiredMessage("uid", 1, "SscUid"), initial)
    BY <1>e, <1>i, TypeNames DEF FieldOK, SSC_CLIENT_RESPONSE__INIT, RequiredMessage, Field
  <2>2. FieldOK(RepeatedMessage("response", 2, "SscClientResponseBody"), initial)
    BY <1>e, <1>i, TypeNames DEF FieldOK, SSC_CLIENT_RESPONSE__INIT, RepeatedMessage, Field
  <2> QED BY <1>5, <2>1, <2>2
<1> QED BY <1>1, <1>4, <1>7, <1>8, <1>9, <1>10 DEF TableOK, MethodsOK

\* The table of SscAttrRequest.
LEMMA SscAttrRequestTable == TableOK("SscAttrRequest")
<1>d. PICK d : d = ssc_attr_request__descriptor  OBVIOUS
<1>i. PICK initial : initial = SSC_ATTR_REQUEST__INIT  OBVIOUS
<1>e. Empty \notin {"base", "enable_updates", "has_enable_updates"}
  BY Zenon DEF Empty
<1>1. MethodsOK("SscAttrRequest", d, initial)
 
    BY <1>d, <1>i, TypeMethods DEF MethodsOK, ssc_attr_request__methods, Methods,
        ssc_attr_request__descriptor, Descriptor
<1>2. d.fields = <<Optional("enable_updates", "has_enable_updates", 2, "BOOL")>>
  BY <1>d DEF ssc_attr_request__descriptor, Descriptor
<1>3. d.number_ranges = <<<<2, 0>>, <<0, 1>>>>
  BY <1>d DEF ssc_attr_request__descriptor, Descriptor
<1>4. FieldsOK(d, 1)  BY <1>2, Tuple1 DEF FieldsOK
<1>5. /\ d.fields[1] = Optional("enable_updates", "has_enable_updates", 2, "BOOL")
  BY <1>2
<1>6. /\ d.fields[1].name = "enable_updates" /\ d.fields[1].has = "has_enable_updates"
      /\ d.fields[1].number = 2
  BY <1>5 DEF Optional, Field
<1>7. NamesOK(d, 1)  BY <1>e, <1>6 DEF NamesOK
<1>8. RangesOK(d, 1)
  <2>1. \A i \in 1 .. 1 : d.fields[i].number = 2 + i - 1  BY <1>6
  <2>2. 2 \in Nat /\ 1 \in Nat  OBVIOUS
  <2> QED BY <1>3, <2>1, <2>2, OneRangeOK, Zenon
<1>9. InitialOK("SscAttrRequest", initial, d, 1)
  <2>1. /\ DOMAIN initial = {"base", "enable_updates", "has_enable_updates"}
        /\ initial.base = [descriptor |-> "SscAttrRequest", unknown_fields |-> <<>>]
        /\ initial = [x \in DOMAIN initial |-> initial[x]]
    BY <1>i DEF SSC_ATTR_REQUEST__INIT, Base
  <2> QED BY <1>e, <1>6, <2>1 DEF InitialOK
<1>10. \A i \in 1 .. 1 : FieldOK(d.fields[i], initial)
  <2>1. FieldOK(Optional("enable_updates", "has_enable_updates", 2, "BOOL"), initial)
    BY <1>e, <1>i, TypeNames DEF FieldOK, SSC_ATTR_REQUEST__INIT, Optional, Field
  <2> QED BY <1>5, <2>1
<1> QED BY <1>1, <1>4, <1>7, <1>8, <1>9, <1>10 DEF TableOK, MethodsOK

\* The table of SscAttrValueArray.
LEMMA SscAttrValueArrayTable == TableOK("SscAttrValueArray")
<1>d. PICK d : d = ssc_attr_value_array__descriptor  OBVIOUS
<1>i. PICK initial : initial = SSC_ATTR_VALUE_ARRAY__INIT  OBVIOUS
<1>e. Empty \notin {"base", "element"}
  BY Zenon DEF Empty
<1>1. MethodsOK("SscAttrValueArray", d, initial)
 
    BY <1>d, <1>i, TypeMethods DEF MethodsOK, ssc_attr_value_array__methods, Methods,
        ssc_attr_value_array__descriptor, Descriptor
<1>2. d.fields = <<RepeatedMessage("element", 1, "SscAttrValue")>>
  BY <1>d DEF ssc_attr_value_array__descriptor, Descriptor
<1>3. d.number_ranges = <<<<1, 0>>, <<0, 1>>>>
  BY <1>d DEF ssc_attr_value_array__descriptor, Descriptor
<1>4. FieldsOK(d, 1)  BY <1>2, Tuple1 DEF FieldsOK
<1>5. /\ d.fields[1] = RepeatedMessage("element", 1, "SscAttrValue")
  BY <1>2
<1>6. /\ d.fields[1].name = "element" /\ d.fields[1].has = Empty /\ d.fields[1].number = 1
  BY <1>5 DEF RepeatedMessage, Field
<1>7. NamesOK(d, 1)  BY <1>e, <1>6 DEF NamesOK
<1>8. RangesOK(d, 1)
  <2>1. \A i \in 1 .. 1 : d.fields[i].number = 1 + i - 1  BY <1>6
  <2>2. 1 \in Nat /\ 1 \in Nat  OBVIOUS
  <2> QED BY <1>3, <2>1, <2>2, OneRangeOK, Zenon
<1>9. InitialOK("SscAttrValueArray", initial, d, 1)
  <2>1. /\ DOMAIN initial = {"base", "element"}
        /\ initial.base = [descriptor |-> "SscAttrValueArray", unknown_fields |-> <<>>]
        /\ initial = [x \in DOMAIN initial |-> initial[x]]
    BY <1>i DEF SSC_ATTR_VALUE_ARRAY__INIT, Base
  <2> QED BY <1>e, <1>6, <2>1 DEF InitialOK
<1>10. \A i \in 1 .. 1 : FieldOK(d.fields[i], initial)
  <2>1. FieldOK(RepeatedMessage("element", 1, "SscAttrValue"), initial)
    BY <1>e, <1>i, TypeNames DEF FieldOK, SSC_ATTR_VALUE_ARRAY__INIT, RepeatedMessage, Field
  <2> QED BY <1>5, <2>1
<1> QED BY <1>1, <1>4, <1>7, <1>8, <1>9, <1>10 DEF TableOK, MethodsOK

\* The table of SscAttrValue.
LEMMA SscAttrValueTable == TableOK("SscAttrValue")
<1>d. PICK d : d = ssc_attr_value__descriptor  OBVIOUS
<1>i. PICK initial : initial = SSC_ATTR_VALUE__INIT  OBVIOUS
<1>e. Empty \notin {"base", "a", "s", "f", "has_f", "i", "has_i", "b", "has_b"}
  BY Zenon DEF Empty
<1>1. MethodsOK("SscAttrValue", d, initial)
 
    BY <1>d, <1>i, TypeMethods
        DEF MethodsOK, ssc_attr_value__methods, Methods, ssc_attr_value__descriptor, Descriptor
<1>2. d.fields = <<OptionalMessage("a", 1, "SscAttrValueArray"),
             Optional("s", Empty, 2, "STRING"),
             Optional("f", "has_f", 3, "FLOAT"),
             Optional("i", "has_i", 4, "FIXED64"),
             Optional("b", "has_b", 5, "BOOL")>>
  BY <1>d DEF ssc_attr_value__descriptor, Descriptor
<1>3. d.number_ranges = <<<<1, 0>>, <<0, 5>>>>
  BY <1>d DEF ssc_attr_value__descriptor, Descriptor
<1>4. FieldsOK(d, 5)  BY <1>2, Tuple5 DEF FieldsOK
<1>5. /\ d.fields[1] = OptionalMessage("a", 1, "SscAttrValueArray")
      /\ d.fields[2] = Optional("s", Empty, 2, "STRING")
      /\ d.fields[3] = Optional("f", "has_f", 3, "FLOAT")
      /\ d.fields[4] = Optional("i", "has_i", 4, "FIXED64")
      /\ d.fields[5] = Optional("b", "has_b", 5, "BOOL")
  BY <1>2
<1>6. /\ d.fields[1].name = "a" /\ d.fields[1].has = Empty /\ d.fields[1].number = 1
      /\ d.fields[2].name = "s" /\ d.fields[2].has = Empty /\ d.fields[2].number = 2
      /\ d.fields[3].name = "f" /\ d.fields[3].has = "has_f" /\ d.fields[3].number = 3
      /\ d.fields[4].name = "i" /\ d.fields[4].has = "has_i" /\ d.fields[4].number = 4
      /\ d.fields[5].name = "b" /\ d.fields[5].has = "has_b" /\ d.fields[5].number = 5
  BY <1>5 DEF Optional, OptionalMessage, Field
<1>7. NamesOK(d, 5)  BY <1>e, <1>6 DEF NamesOK
<1>8. RangesOK(d, 5)
  <2>1. \A i \in 1 .. 5 : d.fields[i].number = 1 + i - 1  BY <1>6
  <2>2. 1 \in Nat /\ 5 \in Nat  OBVIOUS
  <2> QED BY <1>3, <2>1, <2>2, OneRangeOK, Zenon
<1>9. InitialOK("SscAttrValue", initial, d, 5)
  <2>1. /\ DOMAIN initial = {"base", "a", "s", "f", "has_f", "i", "has_i", "b", "has_b"}
        /\ initial.base = [descriptor |-> "SscAttrValue", unknown_fields |-> <<>>]
        /\ initial = [x \in DOMAIN initial |-> initial[x]]
    BY <1>i DEF SSC_ATTR_VALUE__INIT, Base
  <2> QED BY <1>e, <1>6, <2>1 DEF InitialOK
<1>10. \A i \in 1 .. 5 : FieldOK(d.fields[i], initial)
  <2>1. FieldOK(OptionalMessage("a", 1, "SscAttrValueArray"), initial)
    BY <1>e, <1>i, TypeNames DEF FieldOK, SSC_ATTR_VALUE__INIT, OptionalMessage, Field
  <2>2. FieldOK(Optional("s", Empty, 2, "STRING"), initial)
    BY <1>e, <1>i, TypeNames DEF FieldOK, SSC_ATTR_VALUE__INIT, Optional, Field
  <2>3. FieldOK(Optional("f", "has_f", 3, "FLOAT"), initial)
    BY <1>e, <1>i, TypeNames DEF FieldOK, SSC_ATTR_VALUE__INIT, Optional, Field
  <2>4. FieldOK(Optional("i", "has_i", 4, "FIXED64"), initial)
    BY <1>e, <1>i, TypeNames DEF FieldOK, SSC_ATTR_VALUE__INIT, Optional, Field
  <2>5. FieldOK(Optional("b", "has_b", 5, "BOOL"), initial)
    BY <1>e, <1>i, TypeNames DEF FieldOK, SSC_ATTR_VALUE__INIT, Optional, Field
  <2> QED BY <1>5, <2>1, <2>2, <2>3, <2>4, <2>5
<1> QED BY <1>1, <1>4, <1>7, <1>8, <1>9, <1>10 DEF TableOK, MethodsOK

\* The table of SscAttrArrayValue.
LEMMA SscAttrArrayValueTable == TableOK("SscAttrArrayValue")
<1>d. PICK d : d = ssc_attr_array_value__descriptor  OBVIOUS
<1>i. PICK initial : initial = SSC_ATTR_ARRAY_VALUE__INIT  OBVIOUS
<1>e. Empty \notin {"base", "v"}
  BY Zenon DEF Empty
<1>1. MethodsOK("SscAttrArrayValue", d, initial)
 
    BY <1>d, <1>i, TypeMethods DEF MethodsOK, ssc_attr_array_value__methods, Methods,
        ssc_attr_array_value__descriptor, Descriptor
<1>2. d.fields = <<RepeatedMessage("v", 1, "SscAttrValue")>>
  BY <1>d DEF ssc_attr_array_value__descriptor, Descriptor
<1>3. d.number_ranges = <<<<1, 0>>, <<0, 1>>>>
  BY <1>d DEF ssc_attr_array_value__descriptor, Descriptor
<1>4. FieldsOK(d, 1)  BY <1>2, Tuple1 DEF FieldsOK
<1>5. /\ d.fields[1] = RepeatedMessage("v", 1, "SscAttrValue")
  BY <1>2
<1>6. /\ d.fields[1].name = "v" /\ d.fields[1].has = Empty /\ d.fields[1].number = 1
  BY <1>5 DEF RepeatedMessage, Field
<1>7. NamesOK(d, 1)  BY <1>e, <1>6 DEF NamesOK
<1>8. RangesOK(d, 1)
  <2>1. \A i \in 1 .. 1 : d.fields[i].number = 1 + i - 1  BY <1>6
  <2>2. 1 \in Nat /\ 1 \in Nat  OBVIOUS
  <2> QED BY <1>3, <2>1, <2>2, OneRangeOK, Zenon
<1>9. InitialOK("SscAttrArrayValue", initial, d, 1)
  <2>1. /\ DOMAIN initial = {"base", "v"}
        /\ initial.base = [descriptor |-> "SscAttrArrayValue", unknown_fields |-> <<>>]
        /\ initial = [x \in DOMAIN initial |-> initial[x]]
    BY <1>i DEF SSC_ATTR_ARRAY_VALUE__INIT, Base
  <2> QED BY <1>e, <1>6, <2>1 DEF InitialOK
<1>10. \A i \in 1 .. 1 : FieldOK(d.fields[i], initial)
  <2>1. FieldOK(RepeatedMessage("v", 1, "SscAttrValue"), initial)
    BY <1>e, <1>i, TypeNames DEF FieldOK, SSC_ATTR_ARRAY_VALUE__INIT, RepeatedMessage, Field
  <2> QED BY <1>5, <2>1
<1> QED BY <1>1, <1>4, <1>7, <1>8, <1>9, <1>10 DEF TableOK, MethodsOK

\* The table of SscAttr.
LEMMA SscAttrTable == TableOK("SscAttr")
<1>d. PICK d : d = ssc_attr__descriptor  OBVIOUS
<1>i. PICK initial : initial = SSC_ATTR__INIT  OBVIOUS
<1>e. Empty \notin {"base", "id", "value_array"}
  BY Zenon DEF Empty
<1>1. MethodsOK("SscAttr", d, initial)
 
    BY <1>d, <1>i, TypeMethods
        DEF MethodsOK, ssc_attr__methods, Methods, ssc_attr__descriptor, Descriptor
<1>2. d.fields = <<Required("id", 1, "INT32"),
             RequiredMessage("value_array", 2, "SscAttrArrayValue")>>
  BY <1>d DEF ssc_attr__descriptor, Descriptor
<1>3. d.number_ranges = <<<<1, 0>>, <<0, 2>>>>
  BY <1>d DEF ssc_attr__descriptor, Descriptor
<1>4. FieldsOK(d, 2)  BY <1>2, Tuple2 DEF FieldsOK
<1>5. /\ d.fields[1] = Required("id", 1, "INT32")
      /\ d.fields[2] = RequiredMessage("value_array", 2, "SscAttrArrayValue")
  BY <1>2
<1>6. /\ d.fields[1].name = "id" /\ d.fields[1].has = Empty /\ d.fields[1].number = 1
      /\ d.fields[2].name = "value_array" /\ d.fields[2].has = Empty /\ d.fields[2].number = 2
  BY <1>5 DEF Required, RequiredMessage, Field
<1>7. NamesOK(d, 2)  BY <1>e, <1>6 DEF NamesOK
<1>8. RangesOK(d, 2)
  <2>1. \A i \in 1 .. 2 : d.fields[i].number = 1 + i - 1  BY <1>6
  <2>2. 1 \in Nat /\ 2 \in Nat  OBVIOUS
  <2> QED BY <1>3, <2>1, <2>2, OneRangeOK, Zenon
<1>9. InitialOK("SscAttr", initial, d, 2)
  <2>1. /\ DOMAIN initial = {"base", "id", "value_array"}
        /\ initial.base = [descriptor |-> "SscAttr", unknown_fields |-> <<>>]
        /\ initial = [x \in DOMAIN initial |-> initial[x]]
    BY <1>i DEF SSC_ATTR__INIT, Base
  <2> QED BY <1>e, <1>6, <2>1 DEF InitialOK
<1>10. \A i \in 1 .. 2 : FieldOK(d.fields[i], initial)
  <2>1. FieldOK(Required("id", 1, "INT32"), initial)
    BY <1>e, <1>i, TypeNames DEF FieldOK, SSC_ATTR__INIT, Required, Field
  <2>2. FieldOK(RequiredMessage("value_array", 2, "SscAttrArrayValue"), initial)
    BY <1>e, <1>i, TypeNames DEF FieldOK, SSC_ATTR__INIT, RequiredMessage, Field
  <2> QED BY <1>5, <2>1, <2>2
<1> QED BY <1>1, <1>4, <1>7, <1>8, <1>9, <1>10 DEF TableOK, MethodsOK

\* The table of SscAttrResponse.
LEMMA SscAttrResponseTable == TableOK("SscAttrResponse")
<1>d. PICK d : d = ssc_attr_response__descriptor  OBVIOUS
<1>i. PICK initial : initial = SSC_ATTR_RESPONSE__INIT  OBVIOUS
<1>e. Empty \notin {"base", "attr"}
  BY Zenon DEF Empty
<1>1. MethodsOK("SscAttrResponse", d, initial)
 
    BY <1>d, <1>i, TypeMethods DEF MethodsOK, ssc_attr_response__methods, Methods,
        ssc_attr_response__descriptor, Descriptor
<1>2. d.fields = <<RepeatedMessage("attr", 1, "SscAttr")>>
  BY <1>d DEF ssc_attr_response__descriptor, Descriptor
<1>3. d.number_ranges = <<<<1, 0>>, <<0, 1>>>>
  BY <1>d DEF ssc_attr_response__descriptor, Descriptor
<1>4. FieldsOK(d, 1)  BY <1>2, Tuple1 DEF FieldsOK
<1>5. /\ d.fields[1] = RepeatedMessage("attr", 1, "SscAttr")
  BY <1>2
<1>6. /\ d.fields[1].name = "attr" /\ d.fields[1].has = Empty /\ d.fields[1].number = 1
  BY <1>5 DEF RepeatedMessage, Field
<1>7. NamesOK(d, 1)  BY <1>e, <1>6 DEF NamesOK
<1>8. RangesOK(d, 1)
  <2>1. \A i \in 1 .. 1 : d.fields[i].number = 1 + i - 1  BY <1>6
  <2>2. 1 \in Nat /\ 1 \in Nat  OBVIOUS
  <2> QED BY <1>3, <2>1, <2>2, OneRangeOK, Zenon
<1>9. InitialOK("SscAttrResponse", initial, d, 1)
  <2>1. /\ DOMAIN initial = {"base", "attr"}
        /\ initial.base = [descriptor |-> "SscAttrResponse", unknown_fields |-> <<>>]
        /\ initial = [x \in DOMAIN initial |-> initial[x]]
    BY <1>i DEF SSC_ATTR_RESPONSE__INIT, Base
  <2> QED BY <1>e, <1>6, <2>1 DEF InitialOK
<1>10. \A i \in 1 .. 1 : FieldOK(d.fields[i], initial)
  <2>1. FieldOK(RepeatedMessage("attr", 1, "SscAttr"), initial)
    BY <1>e, <1>i, TypeNames DEF FieldOK, SSC_ATTR_RESPONSE__INIT, RepeatedMessage, Field
  <2> QED BY <1>5, <2>1
<1> QED BY <1>1, <1>4, <1>7, <1>8, <1>9, <1>10 DEF TableOK, MethodsOK

\* The table of SscEnableConfigRequest.
LEMMA SscEnableConfigRequestTable == TableOK("SscEnableConfigRequest")
<1>d. PICK d : d = ssc_enable_config_request__descriptor  OBVIOUS
<1>i. PICK initial : initial = SSC_ENABLE_CONFIG_REQUEST__INIT  OBVIOUS
<1>e. Empty \notin {"base", "sample_rate"}
  BY Zenon DEF Empty
<1>1. MethodsOK("SscEnableConfigRequest", d, initial)
 
    BY <1>d, <1>i, TypeMethods DEF MethodsOK, ssc_enable_config_request__methods, Methods,
        ssc_enable_config_request__descriptor, Descriptor
<1>2. d.fields = <<Required("sample_rate", 1, "FLOAT")>>
  BY <1>d DEF ssc_enable_config_request__descriptor, Descriptor
<1>3. d.number_ranges = <<<<1, 0>>, <<0, 1>>>>
  BY <1>d DEF ssc_enable_config_request__descriptor, Descriptor
<1>4. FieldsOK(d, 1)  BY <1>2, Tuple1 DEF FieldsOK
<1>5. /\ d.fields[1] = Required("sample_rate", 1, "FLOAT")
  BY <1>2
<1>6. /\ d.fields[1].name = "sample_rate" /\ d.fields[1].has = Empty /\ d.fields[1].number = 1
  BY <1>5 DEF Required, Field
<1>7. NamesOK(d, 1)  BY <1>e, <1>6 DEF NamesOK
<1>8. RangesOK(d, 1)
  <2>1. \A i \in 1 .. 1 : d.fields[i].number = 1 + i - 1  BY <1>6
  <2>2. 1 \in Nat /\ 1 \in Nat  OBVIOUS
  <2> QED BY <1>3, <2>1, <2>2, OneRangeOK, Zenon
<1>9. InitialOK("SscEnableConfigRequest", initial, d, 1)
  <2>1. /\ DOMAIN initial = {"base", "sample_rate"}
        /\ initial.base = [descriptor |-> "SscEnableConfigRequest", unknown_fields |-> <<>>]
        /\ initial = [x \in DOMAIN initial |-> initial[x]]
    BY <1>i DEF SSC_ENABLE_CONFIG_REQUEST__INIT, Base
  <2> QED BY <1>e, <1>6, <2>1 DEF InitialOK
<1>10. \A i \in 1 .. 1 : FieldOK(d.fields[i], initial)
  <2>1. FieldOK(Required("sample_rate", 1, "FLOAT"), initial)
    BY <1>e, <1>i, TypeNames DEF FieldOK, SSC_ENABLE_CONFIG_REQUEST__INIT, Required, Field
  <2> QED BY <1>5, <2>1
<1> QED BY <1>1, <1>4, <1>7, <1>8, <1>9, <1>10 DEF TableOK, MethodsOK

\* The table of SscConfigResponse.
LEMMA SscConfigResponseTable == TableOK("SscConfigResponse")
<1>d. PICK d : d = ssc_config_response__descriptor  OBVIOUS
<1>i. PICK initial : initial = SSC_CONFIG_RESPONSE__INIT  OBVIOUS
<1>e. Empty \notin {"base", "sample_rate", "has_sample_rate", "mode"}
  BY Zenon DEF Empty
<1>1. MethodsOK("SscConfigResponse", d, initial)
 
    BY <1>d, <1>i, TypeMethods DEF MethodsOK, ssc_config_response__methods, Methods,
        ssc_config_response__descriptor, Descriptor
<1>2. d.fields = <<Optional("sample_rate", "has_sample_rate", 1, "FLOAT"),
             Optional("mode", Empty, 5, "STRING")>>
  BY <1>d DEF ssc_config_response__descriptor, Descriptor
<1>3. d.number_ranges = <<<<1, 0>>, <<5, 1>>, <<0, 2>>>>
  BY <1>d DEF ssc_config_response__descriptor, Descriptor
<1>4. FieldsOK(d, 2)  BY <1>2, Tuple2 DEF FieldsOK
<1>5. /\ d.fields[1] = Optional("sample_rate", "has_sample_rate", 1, "FLOAT")
      /\ d.fields[2] = Optional("mode", Empty, 5, "STRING")
  BY <1>2
<1>6. /\ d.fields[1].name = "sample_rate" /\ d.fields[1].has = "has_sample_rate"
      /\ d.fields[1].number = 1
      /\ d.fields[2].name = "mode" /\ d.fields[2].has = Empty /\ d.fields[2].number = 5
  BY <1>5 DEF Optional, Field
<1>7. NamesOK(d, 2)  BY <1>e, <1>6 DEF NamesOK
<1>8. RangesOK(d, 2)
  <2>1. \A m \in Nat : Lookup(d, m) = IF m = 1 THEN 1 ELSE IF m = 5 THEN 2 ELSE 0
    BY <1>3 DEF Lookup
  <2> QED BY <1>6, <2>1 DEF RangesOK
<1>9. InitialOK("SscConfigResponse", initial, d, 2)
  <2>1. /\ DOMAIN initial = {"base", "sample_rate", "has_sample_rate", "mode"}
        /\ initial.base = [descriptor |-> "SscConfigResponse", unknown_fields |-> <<>>]
        /\ initial = [x \in DOMAIN initial |-> initial[x]]
    BY <1>i DEF SSC_CONFIG_RESPONSE__INIT, Base
  <2> QED BY <1>e, <1>6, <2>1 DEF InitialOK
<1>10. \A i \in 1 .. 2 : FieldOK(d.fields[i], initial)
  <2>1. FieldOK(Optional("sample_rate", "has_sample_rate", 1, "FLOAT"), initial)
    BY <1>e, <1>i, TypeNames DEF FieldOK, SSC_CONFIG_RESPONSE__INIT, Optional, Field
  <2>2. FieldOK(Optional("mode", Empty, 5, "STRING"), initial)
    BY <1>e, <1>i, TypeNames DEF FieldOK, SSC_CONFIG_RESPONSE__INIT, Optional, Field
  <2> QED BY <1>5, <2>1, <2>2
<1> QED BY <1>1, <1>4, <1>7, <1>8, <1>9, <1>10 DEF TableOK, MethodsOK

\* The table of SscSuidRequest.
LEMMA SscSuidRequestTable == TableOK("SscSuidRequest")
<1>d. PICK d : d = ssc_suid_request__descriptor  OBVIOUS
<1>i. PICK initial : initial = SSC_SUID_REQUEST__INIT  OBVIOUS
<1>e. Empty \notin {"base", "data_type", "enable_updates", "has_enable_updates",
    "only_default_values", "has_only_default_values"}
  BY Zenon DEF Empty
<1>1. MethodsOK("SscSuidRequest", d, initial)
 
    BY <1>d, <1>i, TypeMethods DEF MethodsOK, ssc_suid_request__methods, Methods,
        ssc_suid_request__descriptor, Descriptor
<1>2. d.fields = <<Required("data_type", 1, "STRING"),
             Optional("enable_updates", "has_enable_updates", 2, "BOOL"),
             Optional("only_default_values", "has_only_default_values", 3, "BOOL")>>
  BY <1>d DEF ssc_suid_request__descriptor, Descriptor
<1>3. d.number_ranges = <<<<1, 0>>, <<0, 3>>>>
  BY <1>d DEF ssc_suid_request__descriptor, Descriptor
<1>4. FieldsOK(d, 3)  BY <1>2, Tuple3 DEF FieldsOK
<1>5. /\ d.fields[1] = Required("data_type", 1, "STRING")
      /\ d.fields[2] = Optional("enable_updates", "has_enable_updates", 2, "BOOL")
      /\ d.fields[3] = Optional("only_default_values", "has_only_default_values", 3, "BOOL")
  BY <1>2
<1>6. /\ d.fields[1].name = "data_type" /\ d.fields[1].has = Empty /\ d.fields[1].number = 1
      /\ d.fields[2].name = "enable_updates" /\ d.fields[2].has = "has_enable_updates"
      /\ d.fields[2].number = 2
      /\ d.fields[3].name = "only_default_values"
      /\ d.fields[3].has = "has_only_default_values" /\ d.fields[3].number = 3
  BY <1>5 DEF Optional, Required, Field
<1>7. NamesOK(d, 3)  BY <1>e, <1>6 DEF NamesOK
<1>8. RangesOK(d, 3)
  <2>1. \A i \in 1 .. 3 : d.fields[i].number = 1 + i - 1  BY <1>6
  <2>2. 1 \in Nat /\ 3 \in Nat  OBVIOUS
  <2> QED BY <1>3, <2>1, <2>2, OneRangeOK, Zenon
<1>9. InitialOK("SscSuidRequest", initial, d, 3)
  <2>1. /\ DOMAIN initial = {"base", "data_type", "enable_updates", "has_enable_updates", "only_default_values", "has_only_default_values"}
        /\ initial.base = [descriptor |-> "SscSuidRequest", unknown_fields |-> <<>>]
        /\ initial = [x \in DOMAIN initial |-> initial[x]]
    BY <1>i DEF SSC_SUID_REQUEST__INIT, Base
  <2> QED BY <1>e, <1>6, <2>1 DEF InitialOK
<1>10. \A i \in 1 .. 3 : FieldOK(d.fields[i], initial)
  <2>1. FieldOK(Required("data_type", 1, "STRING"), initial)
    BY <1>e, <1>i, TypeNames DEF FieldOK, SSC_SUID_REQUEST__INIT, Required, Field
  <2>2. FieldOK(Optional("enable_updates", "has_enable_updates", 2, "BOOL"), initial)
    BY <1>e, <1>i, TypeNames DEF FieldOK, SSC_SUID_REQUEST__INIT, Optional, Field
  <2>3. FieldOK(Optional("only_default_values", "has_only_default_values", 3, "BOOL"), initial)
    BY <1>e, <1>i, TypeNames DEF FieldOK, SSC_SUID_REQUEST__INIT, Optional, Field
  <2> QED BY <1>5, <2>1, <2>2, <2>3
<1> QED BY <1>1, <1>4, <1>7, <1>8, <1>9, <1>10 DEF TableOK, MethodsOK

\* The table of SscSuidResponse.
LEMMA SscSuidResponseTable == TableOK("SscSuidResponse")
<1>d. PICK d : d = ssc_suid_response__descriptor  OBVIOUS
<1>i. PICK initial : initial = SSC_SUID_RESPONSE__INIT  OBVIOUS
<1>e. Empty \notin {"base", "data_type", "uid"}
  BY Zenon DEF Empty
<1>1. MethodsOK("SscSuidResponse", d, initial)
 
    BY <1>d, <1>i, TypeMethods DEF MethodsOK, ssc_suid_response__methods, Methods,
        ssc_suid_response__descriptor, Descriptor
<1>2. d.fields = <<Required("data_type", 1, "STRING"),
             RepeatedMessage("uid", 2, "SscUid")>>
  BY <1>d DEF ssc_suid_response__descriptor, Descriptor
<1>3. d.number_ranges = <<<<1, 0>>, <<0, 2>>>>
  BY <1>d DEF ssc_suid_response__descriptor, Descriptor
<1>4. FieldsOK(d, 2)  BY <1>2, Tuple2 DEF FieldsOK
<1>5. /\ d.fields[1] = Required("data_type", 1, "STRING")
      /\ d.fields[2] = RepeatedMessage("uid", 2, "SscUid")
  BY <1>2
<1>6. /\ d.fields[1].name = "data_type" /\ d.fields[1].has = Empty /\ d.fields[1].number = 1
      /\ d.fields[2].name = "uid" /\ d.fields[2].has = Empty /\ d.fields[2].number = 2
  BY <1>5 DEF RepeatedMessage, Required, Field
<1>7. NamesOK(d, 2)  BY <1>e, <1>6 DEF NamesOK
<1>8. RangesOK(d, 2)
  <2>1. \A i \in 1 .. 2 : d.fields[i].number = 1 + i - 1  BY <1>6
  <2>2. 1 \in Nat /\ 2 \in Nat  OBVIOUS
  <2> QED BY <1>3, <2>1, <2>2, OneRangeOK, Zenon
<1>9. InitialOK("SscSuidResponse", initial, d, 2)
  <2>1. /\ DOMAIN initial = {"base", "data_type", "uid"}
        /\ initial.base = [descriptor |-> "SscSuidResponse", unknown_fields |-> <<>>]
        /\ initial = [x \in DOMAIN initial |-> initial[x]]
    BY <1>i DEF SSC_SUID_RESPONSE__INIT, Base
  <2> QED BY <1>e, <1>6, <2>1 DEF InitialOK
<1>10. \A i \in 1 .. 2 : FieldOK(d.fields[i], initial)
  <2>1. FieldOK(Required("data_type", 1, "STRING"), initial)
    BY <1>e, <1>i, TypeNames DEF FieldOK, SSC_SUID_RESPONSE__INIT, Required, Field
  <2>2. FieldOK(RepeatedMessage("uid", 2, "SscUid"), initial)
    BY <1>e, <1>i, TypeNames DEF FieldOK, SSC_SUID_RESPONSE__INIT, RepeatedMessage, Field
  <2> QED BY <1>5, <2>1, <2>2
<1> QED BY <1>1, <1>4, <1>7, <1>8, <1>9, <1>10 DEF TableOK, MethodsOK

\* The table of SscProximityResponse.
LEMMA SscProximityResponseTable == TableOK("SscProximityResponse")
<1>d. PICK d : d = ssc_proximity_response__descriptor  OBVIOUS
<1>i. PICK initial : initial = SSC_PROXIMITY_RESPONSE__INIT  OBVIOUS
<1>e. Empty \notin {"base", "near", "distance", "accuracy"}
  BY Zenon DEF Empty
<1>1. MethodsOK("SscProximityResponse", d, initial)
 
    BY <1>d, <1>i, TypeMethods DEF MethodsOK, ssc_proximity_response__methods, Methods,
        ssc_proximity_response__descriptor, Descriptor
<1>2. d.fields = <<Required("near", 1, "INT32"),
             Required("distance", 2, "INT32"),
             Required("accuracy", 3, "INT32")>>
  BY <1>d DEF ssc_proximity_response__descriptor, Descriptor
<1>3. d.number_ranges = <<<<1, 0>>, <<0, 3>>>>
  BY <1>d DEF ssc_proximity_response__descriptor, Descriptor
<1>4. FieldsOK(d, 3)  BY <1>2, Tuple3 DEF FieldsOK
<1>5. /\ d.fields[1] = Required("near", 1, "INT32")
      /\ d.fields[2] = Required("distance", 2, "INT32")
      /\ d.fields[3] = Required("accuracy", 3, "INT32")
  BY <1>2
<1>6. /\ d.fields[1].name = "near" /\ d.fields[1].has = Empty /\ d.fields[1].number = 1
      /\ d.fields[2].name = "distance" /\ d.fields[2].has = Empty /\ d.fields[2].number = 2
      /\ d.fields[3].name = "accuracy" /\ d.fields[3].has = Empty /\ d.fields[3].number = 3
  BY <1>5 DEF Required, Field
<1>7. NamesOK(d, 3)  BY <1>e, <1>6 DEF NamesOK
<1>8. RangesOK(d, 3)
  <2>1. \A i \in 1 .. 3 : d.fields[i].number = 1 + i - 1  BY <1>6
  <2>2. 1 \in Nat /\ 3 \in Nat  OBVIOUS
  <2> QED BY <1>3, <2>1, <2>2, OneRangeOK, Zenon
<1>9. InitialOK("SscProximityResponse", initial, d, 3)
  <2>1. /\ DOMAIN initial = {"base", "near", "distance", "accuracy"}
        /\ initial.base = [descriptor |-> "SscProximityResponse", unknown_fields |-> <<>>]
        /\ initial = [x \in DOMAIN initial |-> initial[x]]
    BY <1>i DEF SSC_PROXIMITY_RESPONSE__INIT, Base
  <2> QED BY <1>e, <1>6, <2>1 DEF InitialOK
<1>10. \A i \in 1 .. 3 : FieldOK(d.fields[i], initial)
  <2>1. FieldOK(Required("near", 1, "INT32"), initial)
    BY <1>e, <1>i, TypeNames DEF FieldOK, SSC_PROXIMITY_RESPONSE__INIT, Required, Field
  <2>2. FieldOK(Required("distance", 2, "INT32"), initial)
    BY <1>e, <1>i, TypeNames DEF FieldOK, SSC_PROXIMITY_RESPONSE__INIT, Required, Field
  <2>3. FieldOK(Required("accuracy", 3, "INT32"), initial)
    BY <1>e, <1>i, TypeNames DEF FieldOK, SSC_PROXIMITY_RESPONSE__INIT, Required, Field
  <2> QED BY <1>5, <2>1, <2>2, <2>3
<1> QED BY <1>1, <1>4, <1>7, <1>8, <1>9, <1>10 DEF TableOK, MethodsOK

\* The table of SscProximityResponseDavinci.
LEMMA SscProximityResponseDavinciTable == TableOK("SscProximityResponseDavinci")
<1>d. PICK d : d = ssc_proximity_response_davinci__descriptor  OBVIOUS
<1>i. PICK initial : initial = SSC_PROXIMITY_RESPONSE_DAVINCI__INIT  OBVIOUS
<1>e. Empty \notin {"base", "data", "accuracy"}
  BY Zenon DEF Empty
<1>1. MethodsOK("SscProximityResponseDavinci", d, initial)
 
    BY <1>d, <1>i, TypeMethods DEF MethodsOK, ssc_proximity_response_davinci__methods, Methods,
        ssc_proximity_response_davinci__descriptor, Descriptor
<1>2. d.fields = <<Repeated("data", 1, "BYTES"),
             Required("accuracy", 2, "INT32")>>
  BY <1>d DEF ssc_proximity_response_davinci__descriptor, Descriptor
<1>3. d.number_ranges = <<<<1, 0>>, <<0, 2>>>>
  BY <1>d DEF ssc_proximity_response_davinci__descriptor, Descriptor
<1>4. FieldsOK(d, 2)  BY <1>2, Tuple2 DEF FieldsOK
<1>5. /\ d.fields[1] = Repeated("data", 1, "BYTES")
      /\ d.fields[2] = Required("accuracy", 2, "INT32")
  BY <1>2
<1>6. /\ d.fields[1].name = "data" /\ d.fields[1].has = Empty /\ d.fields[1].number = 1
      /\ d.fields[2].name = "accuracy" /\ d.fields[2].has = Empty /\ d.fields[2].number = 2
  BY <1>5 DEF Repeated, Required, Field
<1>7. NamesOK(d, 2)  BY <1>e, <1>6 DEF NamesOK
<1>8. RangesOK(d, 2)
  <2>1. \A i \in 1 .. 2 : d.fields[i].number = 1 + i - 1  BY <1>6
  <2>2. 1 \in Nat /\ 2 \in Nat  OBVIOUS
  <2> QED BY <1>3, <2>1, <2>2, OneRangeOK, Zenon
<1>9. InitialOK("SscProximityResponseDavinci", initial, d, 2)
  <2>1. /\ DOMAIN initial = {"base", "data", "accuracy"}
        /\ initial.base = [descriptor |-> "SscProximityResponseDavinci", unknown_fields |-> <<>>]
        /\ initial = [x \in DOMAIN initial |-> initial[x]]
    BY <1>i DEF SSC_PROXIMITY_RESPONSE_DAVINCI__INIT, Base
  <2> QED BY <1>e, <1>6, <2>1 DEF InitialOK
<1>10. \A i \in 1 .. 2 : FieldOK(d.fields[i], initial)
  <2>1. FieldOK(Repeated("data", 1, "BYTES"), initial)
    BY <1>e, <1>i, TypeNames DEF FieldOK, SSC_PROXIMITY_RESPONSE_DAVINCI__INIT, Repeated, Field
  <2>2. FieldOK(Required("accuracy", 2, "INT32"), initial)
    BY <1>e, <1>i, TypeNames DEF FieldOK, SSC_PROXIMITY_RESPONSE_DAVINCI__INIT, Required, Field
  <2> QED BY <1>5, <2>1, <2>2
<1> QED BY <1>1, <1>4, <1>7, <1>8, <1>9, <1>10 DEF TableOK, MethodsOK

\* The table of SscAccelerometerResponse.
LEMMA SscAccelerometerResponseTable == TableOK("SscAccelerometerResponse")
<1>d. PICK d : d = ssc_accelerometer_response__descriptor  OBVIOUS
<1>i. PICK initial : initial = SSC_ACCELEROMETER_RESPONSE__INIT  OBVIOUS
<1>e. Empty \notin {"base", "acceleration", "accuracy"}
  BY Zenon DEF Empty
<1>1. MethodsOK("SscAccelerometerResponse", d, initial)
 
    BY <1>d, <1>i, TypeMethods DEF MethodsOK, ssc_accelerometer_response__methods, Methods,
        ssc_accelerometer_response__descriptor, Descriptor
<1>2. d.fields = <<Repeated("acceleration", 1, "FLOAT"),
             Required("accuracy", 2, "INT32")>>
  BY <1>d DEF ssc_accelerometer_response__descriptor, Descriptor
<1>3. d.number_ranges = <<<<1, 0>>, <<0, 2>>>>
  BY <1>d DEF ssc_accelerometer_response__descriptor, Descriptor
<1>4. FieldsOK(d, 2)  BY <1>2, Tuple2 DEF FieldsOK
<1>5. /\ d.fields[1] = Repeated("acceleration", 1, "FLOAT")
      /\ d.fields[2] = Required("accuracy", 2, "INT32")
  BY <1>2
<1>6. /\ d.fields[1].name = "acceleration" /\ d.fields[1].has = Empty /\ d.fields[1].number = 1
      /\ d.fields[2].name = "accuracy" /\ d.fields[2].has = Empty /\ d.fields[2].number = 2
  BY <1>5 DEF Repeated, Required, Field
<1>7. NamesOK(d, 2)  BY <1>e, <1>6 DEF NamesOK
<1>8. RangesOK(d, 2)
  <2>1. \A i \in 1 .. 2 : d.fields[i].number = 1 + i - 1  BY <1>6
  <2>2. 1 \in Nat /\ 2 \in Nat  OBVIOUS
  <2> QED BY <1>3, <2>1, <2>2, OneRangeOK, Zenon
<1>9. InitialOK("SscAccelerometerResponse", initial, d, 2)
  <2>1. /\ DOMAIN initial = {"base", "acceleration", "accuracy"}
        /\ initial.base = [descriptor |-> "SscAccelerometerResponse", unknown_fields |-> <<>>]
        /\ initial = [x \in DOMAIN initial |-> initial[x]]
    BY <1>i DEF SSC_ACCELEROMETER_RESPONSE__INIT, Base
  <2> QED BY <1>e, <1>6, <2>1 DEF InitialOK
<1>10. \A i \in 1 .. 2 : FieldOK(d.fields[i], initial)
  <2>1. FieldOK(Repeated("acceleration", 1, "FLOAT"), initial)
    BY <1>e, <1>i, TypeNames DEF FieldOK, SSC_ACCELEROMETER_RESPONSE__INIT, Repeated, Field
  <2>2. FieldOK(Required("accuracy", 2, "INT32"), initial)
    BY <1>e, <1>i, TypeNames DEF FieldOK, SSC_ACCELEROMETER_RESPONSE__INIT, Required, Field
  <2> QED BY <1>5, <2>1, <2>2
<1> QED BY <1>1, <1>4, <1>7, <1>8, <1>9, <1>10 DEF TableOK, MethodsOK

\* The table of SscGyroscopeResponse.
LEMMA SscGyroscopeResponseTable == TableOK("SscGyroscopeResponse")
<1>d. PICK d : d = ssc_gyroscope_response__descriptor  OBVIOUS
<1>i. PICK initial : initial = SSC_GYROSCOPE_RESPONSE__INIT  OBVIOUS
<1>e. Empty \notin {"base", "velocity", "accuracy"}
  BY Zenon DEF Empty
<1>1. MethodsOK("SscGyroscopeResponse", d, initial)
 
    BY <1>d, <1>i, TypeMethods DEF MethodsOK, ssc_gyroscope_response__methods, Methods,
        ssc_gyroscope_response__descriptor, Descriptor
<1>2. d.fields = <<Repeated("velocity", 1, "FLOAT"),
             Required("accuracy", 2, "INT32")>>
  BY <1>d DEF ssc_gyroscope_response__descriptor, Descriptor
<1>3. d.number_ranges = <<<<1, 0>>, <<0, 2>>>>
  BY <1>d DEF ssc_gyroscope_response__descriptor, Descriptor
<1>4. FieldsOK(d, 2)  BY <1>2, Tuple2 DEF FieldsOK
<1>5. /\ d.fields[1] = Repeated("velocity", 1, "FLOAT")
      /\ d.fields[2] = Required("accuracy", 2, "INT32")
  BY <1>2
<1>6. /\ d.fields[1].name = "velocity" /\ d.fields[1].has = Empty /\ d.fields[1].number = 1
      /\ d.fields[2].name = "accuracy" /\ d.fields[2].has = Empty /\ d.fields[2].number = 2
  BY <1>5 DEF Repeated, Required, Field
<1>7. NamesOK(d, 2)  BY <1>e, <1>6 DEF NamesOK
<1>8. RangesOK(d, 2)
  <2>1. \A i \in 1 .. 2 : d.fields[i].number = 1 + i - 1  BY <1>6
  <2>2. 1 \in Nat /\ 2 \in Nat  OBVIOUS
  <2> QED BY <1>3, <2>1, <2>2, OneRangeOK, Zenon
<1>9. InitialOK("SscGyroscopeResponse", initial, d, 2)
  <2>1. /\ DOMAIN initial = {"base", "velocity", "accuracy"}
        /\ initial.base = [descriptor |-> "SscGyroscopeResponse", unknown_fields |-> <<>>]
        /\ initial = [x \in DOMAIN initial |-> initial[x]]
    BY <1>i DEF SSC_GYROSCOPE_RESPONSE__INIT, Base
  <2> QED BY <1>e, <1>6, <2>1 DEF InitialOK
<1>10. \A i \in 1 .. 2 : FieldOK(d.fields[i], initial)
  <2>1. FieldOK(Repeated("velocity", 1, "FLOAT"), initial)
    BY <1>e, <1>i, TypeNames DEF FieldOK, SSC_GYROSCOPE_RESPONSE__INIT, Repeated, Field
  <2>2. FieldOK(Required("accuracy", 2, "INT32"), initial)
    BY <1>e, <1>i, TypeNames DEF FieldOK, SSC_GYROSCOPE_RESPONSE__INIT, Required, Field
  <2> QED BY <1>5, <2>1, <2>2
<1> QED BY <1>1, <1>4, <1>7, <1>8, <1>9, <1>10 DEF TableOK, MethodsOK

\* The table of SscLightResponse.
LEMMA SscLightResponseTable == TableOK("SscLightResponse")
<1>d. PICK d : d = ssc_light_response__descriptor  OBVIOUS
<1>i. PICK initial : initial = SSC_LIGHT_RESPONSE__INIT  OBVIOUS
<1>e. Empty \notin {"base", "intensity", "accuracy"}
  BY Zenon DEF Empty
<1>1. MethodsOK("SscLightResponse", d, initial)
 
    BY <1>d, <1>i, TypeMethods DEF MethodsOK, ssc_light_response__methods, Methods,
        ssc_light_response__descriptor, Descriptor
<1>2. d.fields = <<Repeated("intensity", 1, "FLOAT"),
             Required("accuracy", 2, "INT32")>>
  BY <1>d DEF ssc_light_response__descriptor, Descriptor
<1>3. d.number_ranges = <<<<1, 0>>, <<0, 2>>>>
  BY <1>d DEF ssc_light_response__descriptor, Descriptor
<1>4. FieldsOK(d, 2)  BY <1>2, Tuple2 DEF FieldsOK
<1>5. /\ d.fields[1] = Repeated("intensity", 1, "FLOAT")
      /\ d.fields[2] = Required("accuracy", 2, "INT32")
  BY <1>2
<1>6. /\ d.fields[1].name = "intensity" /\ d.fields[1].has = Empty /\ d.fields[1].number = 1
      /\ d.fields[2].name = "accuracy" /\ d.fields[2].has = Empty /\ d.fields[2].number = 2
  BY <1>5 DEF Repeated, Required, Field
<1>7. NamesOK(d, 2)  BY <1>e, <1>6 DEF NamesOK
<1>8. RangesOK(d, 2)
  <2>1. \A i \in 1 .. 2 : d.fields[i].number = 1 + i - 1  BY <1>6
  <2>2. 1 \in Nat /\ 2 \in Nat  OBVIOUS
  <2> QED BY <1>3, <2>1, <2>2, OneRangeOK, Zenon
<1>9. InitialOK("SscLightResponse", initial, d, 2)
  <2>1. /\ DOMAIN initial = {"base", "intensity", "accuracy"}
        /\ initial.base = [descriptor |-> "SscLightResponse", unknown_fields |-> <<>>]
        /\ initial = [x \in DOMAIN initial |-> initial[x]]
    BY <1>i DEF SSC_LIGHT_RESPONSE__INIT, Base
  <2> QED BY <1>e, <1>6, <2>1 DEF InitialOK
<1>10. \A i \in 1 .. 2 : FieldOK(d.fields[i], initial)
  <2>1. FieldOK(Repeated("intensity", 1, "FLOAT"), initial)
    BY <1>e, <1>i, TypeNames DEF FieldOK, SSC_LIGHT_RESPONSE__INIT, Repeated, Field
  <2>2. FieldOK(Required("accuracy", 2, "INT32"), initial)
    BY <1>e, <1>i, TypeNames DEF FieldOK, SSC_LIGHT_RESPONSE__INIT, Required, Field
  <2> QED BY <1>5, <2>1, <2>2
<1> QED BY <1>1, <1>4, <1>7, <1>8, <1>9, <1>10 DEF TableOK, MethodsOK

\* The table of SscMagnetometerResponse.
LEMMA SscMagnetometerResponseTable == TableOK("SscMagnetometerResponse")
<1>d. PICK d : d = ssc_magnetometer_response__descriptor  OBVIOUS
<1>i. PICK initial : initial = SSC_MAGNETOMETER_RESPONSE__INIT  OBVIOUS
<1>e. Empty \notin {"base", "magnetic_field", "accuracy"}
  BY Zenon DEF Empty
<1>1. MethodsOK("SscMagnetometerResponse", d, initial)
 
    BY <1>d, <1>i, TypeMethods DEF MethodsOK, ssc_magnetometer_response__methods, Methods,
        ssc_magnetometer_response__descriptor, Descriptor
<1>2. d.fields = <<Repeated("magnetic_field", 1, "FLOAT"),
             Required("accuracy", 2, "INT32")>>
  BY <1>d DEF ssc_magnetometer_response__descriptor, Descriptor
<1>3. d.number_ranges = <<<<1, 0>>, <<0, 2>>>>
  BY <1>d DEF ssc_magnetometer_response__descriptor, Descriptor
<1>4. FieldsOK(d, 2)  BY <1>2, Tuple2 DEF FieldsOK
<1>5. /\ d.fields[1] = Repeated("magnetic_field", 1, "FLOAT")
      /\ d.fields[2] = Required("accuracy", 2, "INT32")
  BY <1>2
<1>6. /\ d.fields[1].name = "magnetic_field" /\ d.fields[1].has = Empty
      /\ d.fields[1].number = 1
      /\ d.fields[2].name = "accuracy" /\ d.fields[2].has = Empty /\ d.fields[2].number = 2
  BY <1>5 DEF Repeated, Required, Field
<1>7. NamesOK(d, 2)  BY <1>e, <1>6 DEF NamesOK
<1>8. RangesOK(d, 2)
  <2>1. \A i \in 1 .. 2 : d.fields[i].number = 1 + i - 1  BY <1>6
  <2>2. 1 \in Nat /\ 2 \in Nat  OBVIOUS
  <2> QED BY <1>3, <2>1, <2>2, OneRangeOK, Zenon
<1>9. InitialOK("SscMagnetometerResponse", initial, d, 2)
  <2>1. /\ DOMAIN initial = {"base", "magnetic_field", "accuracy"}
        /\ initial.base = [descriptor |-> "SscMagnetometerResponse", unknown_fields |-> <<>>]
        /\ initial = [x \in DOMAIN initial |-> initial[x]]
    BY <1>i DEF SSC_MAGNETOMETER_RESPONSE__INIT, Base
  <2> QED BY <1>e, <1>6, <2>1 DEF InitialOK
<1>10. \A i \in 1 .. 2 : FieldOK(d.fields[i], initial)
  <2>1. FieldOK(Repeated("magnetic_field", 1, "FLOAT"), initial)
    BY <1>e, <1>i, TypeNames DEF FieldOK, SSC_MAGNETOMETER_RESPONSE__INIT, Repeated, Field
  <2>2. FieldOK(Required("accuracy", 2, "INT32"), initial)
    BY <1>e, <1>i, TypeNames DEF FieldOK, SSC_MAGNETOMETER_RESPONSE__INIT, Required, Field
  <2> QED BY <1>5, <2>1, <2>2
<1> QED BY <1>1, <1>4, <1>7, <1>8, <1>9, <1>10 DEF TableOK, MethodsOK

\* The table of SscRotationvectorResponse.
LEMMA SscRotationvectorResponseTable == TableOK("SscRotationvectorResponse")
<1>d. PICK d : d = ssc_rotationvector_response__descriptor  OBVIOUS
<1>i. PICK initial : initial = SSC_ROTATIONVECTOR_RESPONSE__INIT  OBVIOUS
<1>e. Empty \notin {"base", "rotation", "accuracy"}
  BY Zenon DEF Empty
<1>1. MethodsOK("SscRotationvectorResponse", d, initial)
 
    BY <1>d, <1>i, TypeMethods DEF MethodsOK, ssc_rotationvector_response__methods, Methods,
        ssc_rotationvector_response__descriptor, Descriptor
<1>2. d.fields = <<Repeated("rotation", 1, "FLOAT"),
             Required("accuracy", 2, "INT32")>>
  BY <1>d DEF ssc_rotationvector_response__descriptor, Descriptor
<1>3. d.number_ranges = <<<<1, 0>>, <<0, 2>>>>
  BY <1>d DEF ssc_rotationvector_response__descriptor, Descriptor
<1>4. FieldsOK(d, 2)  BY <1>2, Tuple2 DEF FieldsOK
<1>5. /\ d.fields[1] = Repeated("rotation", 1, "FLOAT")
      /\ d.fields[2] = Required("accuracy", 2, "INT32")
  BY <1>2
<1>6. /\ d.fields[1].name = "rotation" /\ d.fields[1].has = Empty /\ d.fields[1].number = 1
      /\ d.fields[2].name = "accuracy" /\ d.fields[2].has = Empty /\ d.fields[2].number = 2
  BY <1>5 DEF Repeated, Required, Field
<1>7. NamesOK(d, 2)  BY <1>e, <1>6 DEF NamesOK
<1>8. RangesOK(d, 2)
  <2>1. \A i \in 1 .. 2 : d.fields[i].number = 1 + i - 1  BY <1>6
  <2>2. 1 \in Nat /\ 2 \in Nat  OBVIOUS
  <2> QED BY <1>3, <2>1, <2>2, OneRangeOK, Zenon
<1>9. InitialOK("SscRotationvectorResponse", initial, d, 2)
  <2>1. /\ DOMAIN initial = {"base", "rotation", "accuracy"}
        /\ initial.base = [descriptor |-> "SscRotationvectorResponse", unknown_fields |-> <<>>]
        /\ initial = [x \in DOMAIN initial |-> initial[x]]
    BY <1>i DEF SSC_ROTATIONVECTOR_RESPONSE__INIT, Base
  <2> QED BY <1>e, <1>6, <2>1 DEF InitialOK
<1>10. \A i \in 1 .. 2 : FieldOK(d.fields[i], initial)
  <2>1. FieldOK(Repeated("rotation", 1, "FLOAT"), initial)
    BY <1>e, <1>i, TypeNames DEF FieldOK, SSC_ROTATIONVECTOR_RESPONSE__INIT, Repeated, Field
  <2>2. FieldOK(Required("accuracy", 2, "INT32"), initial)
    BY <1>e, <1>i, TypeNames DEF FieldOK, SSC_ROTATIONVECTOR_RESPONSE__INIT, Required, Field
  <2> QED BY <1>5, <2>1, <2>2
<1> QED BY <1>1, <1>4, <1>7, <1>8, <1>9, <1>10 DEF TableOK, MethodsOK

\* Every generated descriptor is right: the search in its number ranges finds
\* each of its fields by its number and no other number, the initializer has the
\* members that the fields name, and no two fields share one.
THEOREM TablesAreRight == \A t \in DOMAIN Type : TableOK(t)
BY TypeNames, SscUidTable, SscClientConfigTable, SscClientRequestBodyTable,
    SscClientRequestTable, SscClientResponseBodyTable, SscClientResponseTable,
    SscAttrRequestTable, SscAttrValueArrayTable, SscAttrValueTable, SscAttrArrayValueTable,
    SscAttrTable, SscAttrResponseTable, SscEnableConfigRequestTable, SscConfigResponseTable,
    SscSuidRequestTable, SscSuidResponseTable, SscProximityResponseTable,
    SscProximityResponseDavinciTable, SscAccelerometerResponseTable, SscGyroscopeResponseTable,
    SscLightResponseTable, SscMagnetometerResponseTable, SscRotationvectorResponseTable

-----------------------------------------------------------------------------
(* What a buffer holds for a field: scanning it entry by entry.            *)

\* Every entry of a buffer gives a field a sequence of values.
Scannable(d, i, b) == Sequence(b) /\ \A k \in 1 .. Len(b) : Sequence(Adds(d, i, b[k]))

\* What the entries give, one after the other.
Added(d, i, b) == [k \in 1 .. Len(b) |-> Adds(d, i, b[k])]

\* What a buffer holds for a field is what its entries give, joined.
LEMMA GivenFlattens ==
    ASSUME NEW d, NEW i, NEW b, Scannable(d, i, b)
    PROVE  /\ Lists(Added(d, i, b)) /\ Len(Added(d, i, b)) = Len(b)
           /\ Given(d, b, i) = FlattenSeq(Added(d, i, b))
           /\ Sequence(Given(d, b, i))
<1> DEFINE s == Added(d, i, b)
           G(f) == [k \in 0 .. Len(b) |-> IF k = 0 THEN <<>> ELSE f[k - 1] \o Adds(d, i, b[k])]
           scan == CHOOSE f : f = G(f)
<1>0. Len(b) \in Nat BY SequenceLen DEF Scannable
<1>1. s = [k \in 1 .. Len(b) |-> s[k]] /\ \A k \in 1 .. Len(b) : s[k] = Adds(d, i, b[k])
  BY DEF Added
<1> HIDE DEF s
<1>2. Sequence(s) /\ Len(s) = Len(b) BY <1>0, <1>1, FunctionIsSequence
<1>3. Lists(s) BY <1>1, <1>2 DEF Lists, Scannable
<1>4. PICK c : ScanOf(s, c) BY <1>3, ScanExists
<1>5. ASSUME NEW f PROVE ScanOf(s, f) <=> f = G(f)
  <2>1. [k \in 0 .. Len(s) |-> IF k = 0 THEN <<>> ELSE f[k - 1] \o s[k]] = G(f)
    <3>1. ASSUME NEW k \in 0 .. Len(b)
          PROVE  (IF k = 0 THEN <<>> ELSE f[k - 1] \o s[k])
                 = (IF k = 0 THEN <<>> ELSE f[k - 1] \o Adds(d, i, b[k]))
      <4>1. k # 0 => k \in 1 .. Len(b) BY <1>0
      <4> QED BY <4>1, <1>1
    <3> QED BY <3>1, <1>2
  <2> HIDE DEF G
  <2> QED BY <2>1 DEF ScanOf
<1>6. scan = G(scan)
  <2> HIDE DEF G
  <2> QED BY <1>4, <1>5
<1>7. Given(d, b, i) = scan[Len(b)] BY DEF Given
<1> HIDE DEF scan, G
<1>8. scan[Len(b)] = FlattenSeq(s) BY <1>2, <1>3, <1>5, <1>6, ScanFlattens
<1> QED BY <1>2, <1>3, <1>7, <1>8, ListsFlatten DEF s

\* An empty buffer holds nothing.
LEMMA GivenEmpty ==
    ASSUME NEW d, NEW i
    PROVE  Scannable(d, i, <<>>) /\ Given(d, <<>>, i) = <<>>
<1>1. Scannable(d, i, <<>>) BY SequenceEmpty DEF Scannable
<1>2. Added(d, i, <<>>) = <<>>
  <2>1. Added(d, i, <<>>) = [k \in 1 .. 0 |-> Adds(d, i, <<>>[k])] BY SequenceEmpty DEF Added
  <2> QED BY <2>1
<1> QED BY <1>1, <1>2, GivenFlattens, FlattenSeqEmpty

\* A buffer of one entry holds what the entry gives.
LEMMA GivenOne ==
    ASSUME NEW d, NEW i, NEW e, Sequence(Adds(d, i, e))
    PROVE  Scannable(d, i, <<e>>) /\ Given(d, <<e>>, i) = Adds(d, i, e)
<1>1. Scannable(d, i, <<e>>) BY SequenceOne DEF Scannable
<1>2. Added(d, i, <<e>>) = <<Adds(d, i, e)>>
  <2>1. /\ Sequence(Added(d, i, <<e>>)) /\ Len(Added(d, i, <<e>>)) = 1
        /\ Added(d, i, <<e>>)[1] = Adds(d, i, e)
    BY <1>1, GivenFlattens, SequenceOne DEF Added, Lists
  <2> DEFINE x == Added(d, i, <<e>>)
             y == <<Adds(d, i, e)>>
  <2>2. Sequence(y) /\ Len(y) = 1 /\ y[1] = Adds(d, i, e)  BY SequenceOne
  <2>3. Sequence(x) /\ Len(x) = 1 /\ x[1] = Adds(d, i, e)  BY <2>1
  <2> HIDE DEF x, y
  <2>4. \A k \in 1 .. Len(x) : x[k] = y[k]  BY <2>2, <2>3
  <2>5. x = y  BY <2>2, <2>3, <2>4, SequenceEqual
  <2> QED BY <2>5 DEF x, y
<1> QED BY <1>1, <1>2, GivenFlattens, FlattenOne

\* A buffer made of two holds for each field what the two hold, in their order:
\* the parser may be followed entry by entry.
THEOREM GivenJoin ==
    ASSUME NEW d, NEW i, NEW a, NEW b, Scannable(d, i, a), Scannable(d, i, b)
    PROVE  /\ Scannable(d, i, a \o b)
           /\ Given(d, a \o b, i) = Given(d, a, i) \o Given(d, b, i)
<1>0. Sequence(a) /\ Sequence(b) /\ Len(a) \in Nat /\ Len(b) \in Nat
  BY SequenceLen DEF Scannable
<1>1. /\ Sequence(a \o b) /\ Len(a \o b) = Len(a) + Len(b)
      /\ \A k \in 1 .. Len(a) : (a \o b)[k] = a[k]
      /\ \A k \in 1 .. Len(b) : (a \o b)[Len(a) + k] = b[k]
  BY <1>0, SequenceJoin
<1>2. \A k \in 1 .. Len(a) + Len(b) :
          k \in 1 .. Len(a) \/ (k - Len(a) \in 1 .. Len(b) /\ k = Len(a) + (k - Len(a)))
  BY <1>0
<1>3. Scannable(d, i, a \o b)
  <2>1. ASSUME NEW k \in 1 .. Len(a) + Len(b) PROVE Sequence(Adds(d, i, (a \o b)[k]))
    BY <1>1, <1>2 DEF Scannable
  <2> QED BY <1>1, <2>1 DEF Scannable
<1> DEFINE x == Added(d, i, a)
           y == Added(d, i, b)
           z == Added(d, i, a \o b)
<1>4. /\ Lists(x) /\ Len(x) = Len(a) /\ Given(d, a, i) = FlattenSeq(x)
      /\ Lists(y) /\ Len(y) = Len(b) /\ Given(d, b, i) = FlattenSeq(y)
      /\ Lists(z) /\ Len(z) = Len(a) + Len(b) /\ Given(d, a \o b, i) = FlattenSeq(z)
  BY <1>1, <1>3, GivenFlattens
<1>5. /\ \A k \in 1 .. Len(a) : x[k] = Adds(d, i, a[k])
      /\ \A k \in 1 .. Len(b) : y[k] = Adds(d, i, b[k])
      /\ \A k \in 1 .. Len(a) + Len(b) : z[k] = Adds(d, i, (a \o b)[k])
  BY <1>1 DEF Added
<1> HIDE DEF x, y, z
<1>6. z = x \o y
  <2>1. Sequence(x) /\ Sequence(y) /\ Sequence(z) BY <1>4 DEF Lists
  <2>2. /\ Sequence(x \o y) /\ Len(x \o y) = Len(a) + Len(b)
        /\ \A k \in 1 .. Len(a) : (x \o y)[k] = x[k]
        /\ \A k \in 1 .. Len(b) : (x \o y)[Len(a) + k] = y[k]
    BY <1>4, <2>1, SequenceJoin
  <2>3. ASSUME NEW k \in 1 .. Len(a) + Len(b) PROVE z[k] = (x \o y)[k]
    <3>1. CASE k \in 1 .. Len(a) BY <1>1, <1>5, <2>2, <3>1
    <3>2. CASE k - Len(a) \in 1 .. Len(b) /\ k = Len(a) + (k - Len(a))
      <4> PICK j \in 1 .. Len(b) : k = Len(a) + j BY <3>2
      <4> QED BY <1>1, <1>5, <2>2
    <3> QED BY <1>2, <3>1, <3>2
  <2> QED BY <1>4, <2>1, <2>2, <2>3, SequenceEqual
<1> QED BY <1>3, <1>4, <1>6, FlattenJoin

\* A buffer whose entries give a field nothing holds nothing for it.
LEMMA GivenNone ==
    ASSUME NEW d, NEW i, NEW b, Sequence(b), \A k \in 1 .. Len(b) : Adds(d, i, b[k]) = <<>>
    PROVE  Scannable(d, i, b) /\ Given(d, b, i) = <<>>
<1>1. Scannable(d, i, b) BY SequenceEmpty DEF Scannable
<1>2. /\ Lists(Added(d, i, b)) /\ Len(Added(d, i, b)) = Len(b)
      /\ Given(d, b, i) = FlattenSeq(Added(d, i, b))
  BY <1>1, GivenFlattens
<1>3. \A k \in 1 .. Len(b) : Added(d, i, b)[k] = <<>> BY DEF Added
<1>4. 0 \notin 1 .. Len(b) BY SequenceLen
<1> QED BY <1>1, <1>2, <1>3, <1>4, FlattenOnly

\* A buffer whose entries give a field one value each holds these values.
LEMMA GivenSingles ==
    ASSUME NEW d, NEW i, NEW b, NEW v, Sequence(b), Sequence(v), Len(b) = Len(v),
           \A k \in 1 .. Len(v) : Adds(d, i, b[k]) = <<v[k]>>
    PROVE  Scannable(d, i, b) /\ Given(d, b, i) = v
<1>1. Scannable(d, i, b) BY SequenceOne DEF Scannable
<1>2. /\ Lists(Added(d, i, b)) /\ Len(Added(d, i, b)) = Len(b)
      /\ Given(d, b, i) = FlattenSeq(Added(d, i, b))
  BY <1>1, GivenFlattens
<1>3. \A k \in 1 .. Len(b) : Added(d, i, b)[k] = <<v[k]>> BY DEF Added
<1> QED BY <1>1, <1>2, <1>3, FlattenSingles

\* A part of a buffer can be scanned too.
LEMMA ScannableSlice ==
    ASSUME NEW d, NEW i, NEW b, Scannable(d, i, b), NEW m \in 1 .. Len(b) + 1, NEW n \in 0 .. Len(b)
    PROVE  Scannable(d, i, SubSeq(b, m, n))
<1>1. Sequence(b) /\ Len(b) \in Nat BY SequenceLen DEF Scannable
<1>2. /\ Sequence(SubSeq(b, m, n)) /\ Len(SubSeq(b, m, n)) = IF m <= n THEN n - m + 1 ELSE 0
      /\ \A k \in 1 .. n - m + 1 : SubSeq(b, m, n)[k] = b[m + k - 1]
  BY <1>1, Slice
<1>3. ASSUME NEW k \in 1 .. Len(SubSeq(b, m, n)) PROVE Sequence(Adds(d, i, SubSeq(b, m, n)[k]))
  <2>1. k \in 1 .. n - m + 1 /\ m + k - 1 \in 1 .. Len(b) BY <1>1, <1>2
  <2> QED BY <1>2, <2>1 DEF Scannable
<1> QED BY <1>2, <1>3 DEF Scannable

\* A buffer made of several parts holds what the parts hold, joined.
LEMMA GivenFlatten ==
    ASSUME NEW d, NEW i, NEW s, Lists(s), \A k \in 1 .. Len(s) : Scannable(d, i, s[k])
    PROVE  /\ Scannable(d, i, FlattenSeq(s))
           /\ Lists([k \in 1 .. Len(s) |-> Given(d, s[k], i)])
           /\ Given(d, FlattenSeq(s), i) = FlattenSeq([k \in 1 .. Len(s) |-> Given(d, s[k], i)])
<1> DEFINE g == [k \in 1 .. Len(s) |-> Given(d, s[k], i)]
           first(n) == SubSeq(s, 1, n)
           second(n) == SubSeq(g, 1, n)
           H == {n \in Nat : n <= Len(s) =>
                    /\ Scannable(d, i, FlattenSeq(first(n)))
                    /\ Given(d, FlattenSeq(first(n)), i) = FlattenSeq(second(n))}
<1>0. Sequence(s) /\ Len(s) \in Nat BY SequenceLen DEF Lists
<1>a. g = [k \in 1 .. Len(s) |-> g[k]] /\ \A k \in 1 .. Len(s) : g[k] = Given(d, s[k], i) OBVIOUS
<1> HIDE DEF g
<1>b. Sequence(g) /\ Len(g) = Len(s) BY <1>0, <1>a, FunctionIsSequence
<1>c. Lists(g)
  <2>1. \A k \in 1 .. Len(s) : Sequence(g[k]) BY <1>a, GivenFlattens
  <2> QED BY <1>b, <2>1 DEF Lists
<1>1. 0 \in H
  <2>1. first(0) = <<>> /\ second(0) = <<>> BY <1>0, <1>b, WholeSlice
  <2> HIDE DEF first, second
  <2> QED BY <2>1, FlattenSeqEmpty, GivenEmpty
<1>2. ASSUME NEW n \in H PROVE n + 1 \in H
  <2> SUFFICES ASSUME n + 1 <= Len(s)
               PROVE  /\ Scannable(d, i, FlattenSeq(first(n + 1)))
                      /\ Given(d, FlattenSeq(first(n + 1)), i) = FlattenSeq(second(n + 1))
    OBVIOUS
  <2>1. n <= Len(s) /\ n \in 0 .. Len(s) /\ 1 \in 1 .. Len(s) + 1 /\ n + 1 \in 1 .. Len(s)
    BY <1>0
  <2>2. /\ Scannable(d, i, FlattenSeq(first(n)))
        /\ Given(d, FlattenSeq(first(n)), i) = FlattenSeq(second(n))
    BY <2>1
  <2>3. first(n + 1) = first(n) \o <<s[n + 1]>> BY <1>0, PrefixStep
  <2>4. second(n + 1) = second(n) \o <<g[n + 1]>> BY <1>0, <1>b, PrefixStep
  <2>5. Lists(first(n)) /\ Lists(second(n)) BY <1>0, <1>b, <1>c, <2>1, Slice
  <2>6. Sequence(s[n + 1]) /\ Sequence(g[n + 1]) BY <1>b, <1>c, <2>1 DEF Lists
  <2>7. Scannable(d, i, s[n + 1]) /\ g[n + 1] = Given(d, s[n + 1], i) BY <1>a, <2>1
  <2> HIDE DEF first, second, H
  <2>8. FlattenSeq(first(n + 1)) = FlattenSeq(first(n)) \o s[n + 1]
    BY <2>3, <2>5, <2>6, ListsAppend
  <2>9. FlattenSeq(second(n + 1)) = FlattenSeq(second(n)) \o g[n + 1]
    BY <2>4, <2>5, <2>6, ListsAppend
  <2> DEFINE fs == FlattenSeq(first(n))
  <2> HIDE DEF fs
  <2>10. Scannable(d, i, fs) BY <2>2 DEF fs
  <2>11. /\ Scannable(d, i, fs \o s[n + 1])
         /\ Given(d, fs \o s[n + 1], i) = Given(d, fs, i) \o Given(d, s[n + 1], i)
    BY <2>7, <2>10, GivenJoin
  <2> QED BY <2>2, <2>7, <2>8, <2>9, <2>11 DEF fs
<1>3. H \in SUBSET Nat OBVIOUS
<1>4. H = Nat
  <2> HIDE DEF H
  <2> QED BY <1>1, <1>2, <1>3, Induction
<1>5. Len(s) \in H BY <1>0, <1>4
<1>6. first(Len(s)) = s /\ second(Len(s)) = g BY <1>0, <1>b, WholeSlice
<1> HIDE DEF first, second
<1> QED BY <1>0, <1>5, <1>6, <1>c DEF g

\* When only one part is for a field, the buffer holds what that part holds.
LEMMA FlattenAt ==
    ASSUME NEW d, NEW i, NEW s, Lists(s), \A k \in 1 .. Len(s) : Scannable(d, i, s[k]),
           NEW j, \A k \in 1 .. Len(s) : k # j => Given(d, s[k], i) = <<>>
    PROVE  Given(d, FlattenSeq(s), i) = IF j \in 1 .. Len(s) THEN Given(d, s[j], i) ELSE <<>>
<1> DEFINE g == [k \in 1 .. Len(s) |-> Given(d, s[k], i)]
<1>1. Lists(g) /\ Given(d, FlattenSeq(s), i) = FlattenSeq(g) BY GivenFlatten
<1>2. /\ g = [k \in 1 .. Len(s) |-> g[k]]
      /\ \A k \in 1 .. Len(s) : g[k] = Given(d, s[k], i) OBVIOUS
<1> HIDE DEF g
<1>3. Len(g) = Len(s) BY <1>2, SequenceLen, FunctionIsSequence DEF Lists
<1>4. \A k \in 1 .. Len(g) : k # j => g[k] = <<>> BY <1>2, <1>3
<1>5. FlattenSeq(g) = IF j \in 1 .. Len(g) THEN g[j] ELSE <<>> BY <1>1, <1>4, FlattenOnly
<1> QED BY <1>1, <1>2, <1>3, <1>5

\* The parts that Pack joins, one for each field.
Packed(fields, message) == [k \in 1 .. Len(fields) |-> PackField(message, fields[k])]

\* Pack joins the packed fields, and the unknown ones at the end.
LEMMA PackFlattens ==
    ASSUME NEW message,
           LET fields == Type[message.base.descriptor].descriptor.fields IN
             Sequence(fields) /\ \A k \in 1 .. Len(fields) : Sequence(PackField(message, fields[k]))
    PROVE  LET fields == Type[message.base.descriptor].descriptor.fields IN
           /\ Lists(Packed(fields, message)) /\ Len(Packed(fields, message)) = Len(fields)
           /\ Pack(message) = FlattenSeq(Packed(fields, message)) \o message.base.unknown_fields
<1> DEFINE fields == Type[message.base.descriptor].descriptor.fields
           s == Packed(fields, message)
           G(f) == [k \in 0 .. Len(fields) |->
                      IF k = 0 THEN <<>> ELSE f[k - 1] \o PackField(message, fields[k])]
           scan == CHOOSE f : f = G(f)
<1>7. Pack(message) = scan[Len(fields)] \o message.base.unknown_fields BY DEF Pack
<1>a. Sequence(fields) /\ \A k \in 1 .. Len(fields) : Sequence(PackField(message, fields[k])) OBVIOUS
<1> HIDE DEF fields
<1>0. Len(fields) \in Nat BY <1>a, SequenceLen
<1>1. /\ s = [k \in 1 .. Len(fields) |-> s[k]]
      /\ \A k \in 1 .. Len(fields) : s[k] = PackField(message, fields[k])
  BY DEF Packed
<1> HIDE DEF s
<1>2. Sequence(s) /\ Len(s) = Len(fields) BY <1>0, <1>1, FunctionIsSequence
<1>3. Lists(s) BY <1>a, <1>1, <1>2 DEF Lists
<1>4. PICK c : ScanOf(s, c) BY <1>3, ScanExists
<1>5. ASSUME NEW f PROVE ScanOf(s, f) <=> f = G(f)
  <2>1. [k \in 0 .. Len(s) |-> IF k = 0 THEN <<>> ELSE f[k - 1] \o s[k]] = G(f)
    <3>1. ASSUME NEW k \in 0 .. Len(fields)
          PROVE  (IF k = 0 THEN <<>> ELSE f[k - 1] \o s[k])
                 = (IF k = 0 THEN <<>> ELSE f[k - 1] \o PackField(message, fields[k]))
      <4>1. k # 0 => k \in 1 .. Len(fields) BY <1>0
      <4> QED BY <4>1, <1>1
    <3> QED BY <3>1, <1>2
  <2> HIDE DEF G
  <2> QED BY <2>1 DEF ScanOf
<1>6. scan = G(scan)
  <2> HIDE DEF G
  <2> QED BY <1>4, <1>5
<1> HIDE DEF scan, G
<1>8. scan[Len(fields)] = FlattenSeq(s) BY <1>2, <1>3, <1>5, <1>6, ScanFlattens
<1> QED BY <1>2, <1>3, <1>7, <1>8 DEF s, fields

-----------------------------------------------------------------------------
(* What a packed struct holds.                                             *)

\* What the tables say, for any type.
LEMMA TableFacts ==
    ASSUME NEW t \in DOMAIN Type
    PROVE  LET d == Type[t].descriptor
               n == Len(Type[t].descriptor.fields)
           IN  /\ d.name = t /\ d.message_init = Type[t].init
               /\ Sequence(d.fields) /\ n \in Nat /\ DOMAIN d.fields = 1 .. n
               /\ RangesOK(d, n) /\ InitialOK(t, Type[t].init, d, n) /\ NamesOK(d, n)
               /\ \A i \in 1 .. n : FieldOK(d.fields[i], Type[t].init)
<1>1. TableOK(t) BY TablesAreRight
<1> QED BY <1>1, SequenceLen DEF TableOK, MethodsOK, FieldsOK

\* The types of fields that the messages use.
FieldTypes == {"INT32", "BOOL", "FIXED32", "FIXED64", "FLOAT", "STRING", "BYTES", "MESSAGE"}

\* The types that cannot be packed are those with a length of their own.
LEMMA WireTypes ==
    ASSUME NEW type \in FieldTypes
    PROVE  WireType(type) = "LENGTH_PREFIXED" <=> ~Packable(type)
<1>1. CASE type = "INT32" BY <1>1 DEF WireType, Packable
<1>2. CASE type = "BOOL" BY <1>2 DEF WireType, Packable
<1>3. CASE type = "FIXED32" BY <1>3 DEF WireType, Packable
<1>4. CASE type = "FIXED64" BY <1>4 DEF WireType, Packable
<1>5. CASE type = "FLOAT" BY <1>5 DEF WireType, Packable
<1>6. CASE type = "STRING" BY <1>6 DEF WireType, Packable
<1>7. CASE type = "BYTES" BY <1>7 DEF WireType, Packable
<1>8. CASE type = "MESSAGE" BY <1>8 DEF WireType, Packable
<1> QED BY <1>1, <1>2, <1>3, <1>4, <1>5, <1>6, <1>7, <1>8 DEF FieldTypes

\* What a value becomes when its field was packed and unpacked.
Got(field, value) ==
    IF field.type = "MESSAGE" THEN UnpackPart(Type[field.of].descriptor, Payload(field, value))
    ELSE Payload(field, value)

\* An entry gives nothing to a field with another number.
LEMMA AddsElsewhere ==
    ASSUME NEW d, NEW i, NEW e, Lookup(d, e.number) # i
    PROVE  Adds(d, i, e) = <<>>
BY DEF Adds

\* An entry with an unknown number is kept as it is.
LEMMA AddsUnknown ==
    ASSUME NEW d, NEW e, Lookup(d, e.number) = 0
    PROVE  Adds(d, 0, e) = <<e>>
BY DEF Adds

\* An entry gives the field of its number its values.
LEMMA AddsKnown ==
    ASSUME NEW d, NEW i, NEW e, Lookup(d, e.number) = i, i # 0
    PROVE  Adds(d, i, e) = Values(d.fields[i], e)
BY DEF Adds

\* An entry of the right wire type has one value,
LEMMA ValuesOne ==
    ASSUME NEW f, NEW e, e.type = WireType(f.type)
    PROVE  Values(f, e) = <<IF f.type = "MESSAGE" THEN UnpackPart(Type[f.of].descriptor, e.payload)
                            ELSE e.payload>>
BY DEF Values

\* a packed one all of its values,
LEMMA ValuesPacked ==
    ASSUME NEW f, NEW e, e.type # WireType(f.type), e.type = "LENGTH_PREFIXED",
           f.label = "REPEATED", Packable(f.type)
    PROVE  Values(f, e) = e.payload
BY DEF Values

\* and any other entry cannot be parsed.
LEMMA ValuesRefused ==
    ASSUME NEW f, NEW e, e.type # WireType(f.type),
           ~(e.type = "LENGTH_PREFIXED" /\ f.label = "REPEATED" /\ Packable(f.type))
    PROVE  Values(f, e) = <<NULL>>
BY DEF Values

\* A packed value gives its own field one value, and nothing to the others.
LEMMA EntryAdds ==
    ASSUME NEW t \in DOMAIN Type, NEW i \in 1 .. Len(Type[t].descriptor.fields),
           NEW j \in 0 .. Len(Type[t].descriptor.fields), NEW value
    PROVE  LET d == Type[t].descriptor
               f == d.fields[i]
           IN  Adds(d, j, Entry(f, Payload(f, value))) = IF j = i THEN <<Got(f, value)>> ELSE <<>>
<1> DEFINE d == Type[t].descriptor
           f == d.fields[i]
           e == Entry(f, Payload(f, value))
<1>1. Lookup(d, f.number) = i BY TableFacts DEF RangesOK
<1>2. e.number = f.number /\ e.type = WireType(f.type) /\ e.payload = Payload(f, value)
  BY DEF Entry
<1> HIDE DEF d, f, e
<1>3. CASE j = i
  <2>1. Values(f, e) = <<Got(f, value)>> BY <1>2, ValuesOne DEF Got
  <2>2. i # 0 OBVIOUS
  <2>3. Adds(d, i, e) = Values(f, e) BY <1>1, <1>2, <2>2, AddsKnown DEF f
  <2> QED BY <1>3, <2>1, <2>3 DEF d, f, e
<1>4. CASE j # i
  <2>1. Adds(d, j, e) = <<>> BY <1>1, <1>2, <1>4, AddsElsewhere
  <2> QED BY <1>4, <2>1 DEF d, f, e
<1> QED BY <1>3, <1>4

\* The values that a buffer holds for a field, once a message was packed.
PartGiven(message, field) ==
    LET value == message[field.name] IN
    CASE field.label = "REPEATED" -> [k \in DOMAIN value |-> Got(field, value[k])]
      [] field.label = "OPTIONAL" /\ ~IsSet(message, field) -> <<>>
      [] OTHER -> <<Got(field, value)>>

\* How a member is packed: repeated, left out, or once.
LEMMA PackFieldCases ==
    ASSUME NEW m, NEW f
    PROVE  /\ f.label = "REPEATED" =>
                /\ PackField(m, f) = [k \in DOMAIN m[f.name] |-> Entry(f, Payload(f, m[f.name][k]))]
                /\ PartGiven(m, f) = [k \in DOMAIN m[f.name] |-> Got(f, m[f.name][k])]
           /\ f.label = "OPTIONAL" /\ ~IsSet(m, f) => PackField(m, f) = <<>> /\ PartGiven(m, f) = <<>>
           /\ f.label # "REPEATED" /\ ~(f.label = "OPTIONAL" /\ ~IsSet(m, f)) =>
                /\ PackField(m, f) = <<Entry(f, Payload(f, m[f.name]))>>
                /\ PartGiven(m, f) = <<Got(f, m[f.name])>>
<1>1. CASE f.label = "REPEATED" BY <1>1 DEF PackField, PartGiven
<1>2. CASE f.label = "OPTIONAL" /\ ~IsSet(m, f) BY <1>2 DEF PackField, PartGiven
<1>3. CASE f.label # "REPEATED" /\ ~(f.label = "OPTIONAL" /\ ~IsSet(m, f))
  BY <1>3 DEF PackField, PartGiven
<1> QED BY <1>1, <1>2, <1>3

\* A packed member gives its own field its values, and nothing to the others.
LEMMA FieldGiven ==
    ASSUME NEW t \in DOMAIN Type, NEW i \in 1 .. Len(Type[t].descriptor.fields),
           NEW j \in 0 .. Len(Type[t].descriptor.fields), NEW m,
           LET f == Type[t].descriptor.fields[i] IN f.label = "REPEATED" => Sequence(m[f.name])
    PROVE  LET d == Type[t].descriptor
               f == d.fields[i]
           IN  /\ Scannable(d, j, PackField(m, f))
               /\ Given(d, PackField(m, f), j) = IF j = i THEN PartGiven(m, f) ELSE <<>>
<1> DEFINE d == Type[t].descriptor
           f == d.fields[i]
           value == m[f.name]
<1>a. f.label = "REPEATED" => Sequence(value) OBVIOUS
<1>b. \A v : Adds(d, j, Entry(f, Payload(f, v))) = IF j = i THEN <<Got(f, v)>> ELSE <<>>
  BY EntryAdds
<1> HIDE DEF d, f
<1>1. CASE f.label = "REPEATED"
  <2> DEFINE b == [k \in DOMAIN value |-> Entry(f, Payload(f, value[k]))]
             g == [k \in DOMAIN value |-> Got(f, value[k])]
  <2>1. Len(value) \in Nat /\ DOMAIN value = 1 .. Len(value) BY <1>1, <1>a, SequenceLen
  <2>2. PackField(m, f) = b /\ PartGiven(m, f) = g BY <1>1, PackFieldCases
  <2>3. b = [k \in 1 .. Len(value) |-> b[k]] /\ g = [k \in 1 .. Len(value) |-> g[k]] BY <2>1
  <2>4. \A k \in 1 .. Len(value) : b[k] = Entry(f, Payload(f, value[k])) /\ g[k] = Got(f, value[k])
    BY <2>1
  <2> HIDE DEF b, g, value
  <2>5. Sequence(b) /\ Len(b) = Len(value) BY <2>1, <2>3, FunctionIsSequence
  <2>6. Sequence(g) /\ Len(g) = Len(value) BY <2>1, <2>3, FunctionIsSequence
  <2>7. CASE j = i
    <3>1. \A k \in 1 .. Len(g) : Adds(d, j, b[k]) = <<g[k]>> BY <1>b, <2>4, <2>6, <2>7
    <3>2. Scannable(d, j, b) /\ Given(d, b, j) = g BY <2>5, <2>6, <3>1, GivenSingles
    <3> QED BY <2>2, <2>7, <3>2 DEF d, f
  <2>8. CASE j # i
    <3>1. \A k \in 1 .. Len(b) : Adds(d, j, b[k]) = <<>> BY <1>b, <2>4, <2>5, <2>8
    <3>2. Scannable(d, j, b) /\ Given(d, b, j) = <<>> BY <2>5, <3>1, GivenNone
    <3> QED BY <2>2, <2>8, <3>2 DEF d, f
  <2> QED BY <2>7, <2>8
<1>2. CASE f.label = "OPTIONAL" /\ ~IsSet(m, f)
  <2>1. PackField(m, f) = <<>> /\ PartGiven(m, f) = <<>> BY <1>2, PackFieldCases
  <2> QED BY <2>1, GivenEmpty DEF d, f
<1>3. CASE f.label # "REPEATED" /\ ~(f.label = "OPTIONAL" /\ ~IsSet(m, f))
  <2> DEFINE e == Entry(f, Payload(f, value))
  <2>1. PackField(m, f) = <<e>> /\ PartGiven(m, f) = <<Got(f, value)>> BY <1>3, PackFieldCases
  <2>2. Adds(d, j, e) = IF j = i THEN <<Got(f, value)>> ELSE <<>> BY <1>b
  <2> HIDE DEF e, value
  <2>3. Sequence(Adds(d, j, e)) BY <2>2, SequenceOne, SequenceEmpty
  <2>4. Scannable(d, j, <<e>>) /\ Given(d, <<e>>, j) = Adds(d, j, e) BY <2>3, GivenOne
  <2> QED BY <2>1, <2>2, <2>4 DEF d, f
<1> QED BY <1>1, <1>2, <1>3

\* What Pack needs of a message of a type.
Packs(t, m) ==
    LET d == Type[t].descriptor
        unknown == m.base.unknown_fields
    IN  /\ m.base.descriptor = t
        /\ Sequence(unknown)
        /\ \A k \in 1 .. Len(unknown) : Lookup(d, unknown[k].number) = 0
        /\ \A i \in 1 .. Len(d.fields) :
              d.fields[i].label = "REPEATED" => Sequence(m[d.fields[i].name])

\* The unknown fields give nothing to any field of the descriptor.
LEMMA UnknownGiven ==
    ASSUME NEW d, NEW j, NEW b, Sequence(b), \A k \in 1 .. Len(b) : Lookup(d, b[k].number) = 0
    PROVE  Scannable(d, j, b) /\ Given(d, b, j) = IF j = 0 THEN b ELSE <<>>
<1>1. CASE j = 0
  <2>1. \A k \in 1 .. Len(b) : Adds(d, j, b[k]) = <<b[k]>> BY <1>1, AddsUnknown
  <2> QED BY <1>1, <2>1, GivenSingles
<1>2. CASE j # 0
  <2>1. \A k \in 1 .. Len(b) : Adds(d, j, b[k]) = <<>> BY <1>2, AddsElsewhere
  <2> QED BY <1>2, <2>1, GivenNone
<1> QED BY <1>1, <1>2

\* A packed struct holds for each field the values of its own member, in order,
\* and nothing else: no field is packed under the number of another.
THEOREM PackGiven ==
    ASSUME NEW t \in DOMAIN Type, NEW m, Packs(t, m),
           NEW j \in 0 .. Len(Type[t].descriptor.fields)
    PROVE  LET d == Type[t].descriptor IN
           /\ Scannable(d, j, Pack(m))
           /\ Given(d, Pack(m), j) =
                IF j = 0 THEN m.base.unknown_fields ELSE PartGiven(m, d.fields[j])
<1> DEFINE d == Type[t].descriptor
           n == Len(d.fields)
           u == m.base.unknown_fields
           s == Packed(d.fields, m)
<1>1. Sequence(d.fields) /\ n \in Nat BY TableFacts
<1>2. m.base.descriptor = t /\ Sequence(u) /\ \A k \in 1 .. Len(u) : Lookup(d, u[k].number) = 0
  BY DEF Packs
<1>3. ASSUME NEW i \in 1 .. n
      PROVE  /\ Scannable(d, j, PackField(m, d.fields[i]))
             /\ Given(d, PackField(m, d.fields[i]), j) = IF j = i THEN PartGiven(m, d.fields[i]) ELSE <<>>
  BY FieldGiven DEF Packs
<1>4. /\ Lists(s) /\ Len(s) = n
      /\ Pack(m) = FlattenSeq(s) \o u
  <2>1. \A i \in 1 .. n : Sequence(PackField(m, d.fields[i])) BY <1>3 DEF Scannable
  <2> QED BY <1>1, <1>2, <2>1, PackFlattens
<1>5. \A k \in 1 .. n : s[k] = PackField(m, d.fields[k]) BY DEF Packed
<1>j. j \in 0 .. n OBVIOUS
<1> HIDE DEF d, n, u, s
<1>6. Scannable(d, j, FlattenSeq(s)) BY <1>3, <1>4, <1>5, GivenFlatten
<1>7. Given(d, FlattenSeq(s), j) = IF j \in 1 .. n THEN Given(d, s[j], j) ELSE <<>>
  <2>1. \A k \in 1 .. Len(s) : Scannable(d, j, s[k]) BY <1>3, <1>4, <1>5
  <2>2. \A k \in 1 .. Len(s) : k # j => Given(d, s[k], j) = <<>> BY <1>3, <1>4, <1>5
  <2> QED BY <1>4, <2>1, <2>2, FlattenAt
<1>8. Scannable(d, j, u) /\ Given(d, u, j) = IF j = 0 THEN u ELSE <<>> BY <1>2, UnknownGiven
<1>9. /\ Scannable(d, j, Pack(m))
      /\ Given(d, Pack(m), j) = Given(d, FlattenSeq(s), j) \o Given(d, u, j)
  <2> DEFINE fs == FlattenSeq(s)
  <2>1. Scannable(d, j, fs) BY <1>6
  <2>2. Pack(m) = fs \o u BY <1>4
  <2> HIDE DEF fs
  <2>3. Scannable(d, j, fs \o u) /\ Given(d, fs \o u, j) = Given(d, fs, j) \o Given(d, u, j)
    BY <1>8, <2>1, GivenJoin
  <2> QED BY <2>2, <2>3 DEF fs
<1>10. CASE j = 0
  <2>1. Given(d, FlattenSeq(s), j) = <<>> BY <1>1, <1>7, <1>10
  <2>2. Given(d, Pack(m), j) = u BY <1>2, <1>8, <1>9, <1>10, <2>1, JoinEmpty
  <2> QED BY <1>9, <1>10, <2>2 DEF d, u
<1>11. CASE j # 0
  <2>1. j \in 1 .. n BY <1>j, <1>11, <1>1
  <2>2. Given(d, FlattenSeq(s), j) = PartGiven(m, d.fields[j]) BY <1>3, <1>5, <1>7, <2>1
  <2>3. Sequence(Given(d, FlattenSeq(s), j)) BY <1>6, GivenFlattens
  <2>4. Given(d, Pack(m), j) = PartGiven(m, d.fields[j])
    BY <1>8, <1>9, <1>11, <2>2, <2>3, JoinEmpty
  <2> QED BY <1>9, <1>11, <2>4 DEF d
<1> QED BY <1>10, <1>11

-----------------------------------------------------------------------------
(* What Unpack makes of what it was given.                                 *)

\* The member that a list of values sets: the last one counts, and none leaves
\* it as it was initialized.
MemberOf(f, values, initial) ==
    IF f.label = "REPEATED" THEN values
    ELSE IF values = <<>> THEN initial[f.name]
    ELSE Last(values)

\* One field that refuses its values refuses the message.
LEMMA StructRefused ==
    ASSUME NEW d, NEW given, NEW i \in DOMAIN d.fields, Refuses(d.fields[i], given[i])
    PROVE  Struct(d, given) = NULL
BY DEF Struct

\* A message that no field refuses has every member that its table names.
LEMMA StructAccepted ==
    ASSUME NEW t \in DOMAIN Type, NEW given,
           \A i \in 1 .. Len(Type[t].descriptor.fields) :
                ~Refuses(Type[t].descriptor.fields[i], given[i])
    PROVE  LET d == Type[t].descriptor
               initial == Type[t].init
               s == Struct(d, given)
           IN  /\ s = [name \in DOMAIN initial |-> s[name]]
               /\ s.base = [descriptor |-> t, unknown_fields |-> given[0]]
               /\ \A i \in 1 .. Len(d.fields) :
                    /\ s[d.fields[i].name] = MemberOf(d.fields[i], given[i], initial)
                    /\ d.fields[i].has # Empty => s[d.fields[i].has] = (given[i] # <<>>)
<1> DEFINE d == Type[t].descriptor
           initial == d.message_init
           n == Len(d.fields)
           fields == d.fields
           position(name) == {i \in DOMAIN fields : fields[i].name = name}
           switch(name) == {i \in DOMAIN fields : fields[i].has = name}
           at(name) == CHOOSE i \in position(name) : TRUE
           s == Struct(d, given)
<1>1. /\ Type[t].init = initial /\ DOMAIN fields = 1 .. n
      /\ InitialOK(t, initial, d, n) /\ NamesOK(d, n) /\ \A i \in 1 .. n : FieldOK(fields[i], initial)
  BY TableFacts
<1>2. s = [name \in DOMAIN initial |->
              CASE name = "base" -> [initial.base EXCEPT !.unknown_fields = given[0]]
                [] position(name) # {} -> MemberOf(fields[at(name)], given[at(name)], initial)
                [] OTHER -> \E i \in switch(name) : given[i] # <<>>]
  
  <2>1. s = Members(d, given)  BY <1>1 DEF Struct
  <2> QED BY <2>1 DEF Members, MemberOf
<1> HIDE DEF s, initial, d, n, fields
<1>3. s.base = [descriptor |-> t, unknown_fields |-> given[0]]
  <2>1. "base" \in DOMAIN initial /\ initial.base = [descriptor |-> t, unknown_fields |-> <<>>]
    BY <1>1 DEF InitialOK
  <2>2. position("base") = {} BY <1>1 DEF FieldOK
  <2>3. s["base"] = [initial.base EXCEPT !.unknown_fields = given[0]]
    <3> HIDE DEF position, switch, at
    <3> QED BY <1>2, <2>1, <2>2
  <2> QED BY <2>1, <2>3
<1>4. ASSUME NEW i \in 1 .. n
      PROVE  s[fields[i].name] = MemberOf(fields[i], given[i], initial)
  <2>1. fields[i].name \in DOMAIN initial /\ fields[i].name # "base" BY <1>1 DEF FieldOK
  <2>2. position(fields[i].name) = {i} BY <1>1 DEF NamesOK, fields
  <2>3. at(fields[i].name) = i BY <2>2
  <2>4. position(fields[i].name) # {} BY <2>2
  <2> HIDE DEF position, switch, at
  <2> QED BY <1>2, <2>1, <2>3, <2>4
<1>5. ASSUME NEW i \in 1 .. n, fields[i].has # Empty
      PROVE  s[fields[i].has] = (given[i] # <<>>)
  <2>1. fields[i].has \in DOMAIN initial /\ fields[i].has # "base" BY <1>1, <1>5 DEF FieldOK
  <2>2. position(fields[i].has) = {} BY <1>1 DEF NamesOK, fields
  <2>3. switch(fields[i].has) = {i} BY <1>1, <1>5 DEF NamesOK, fields
  <2>4. s[fields[i].has] = \E j \in switch(fields[i].has) : given[j] # <<>>
    <3> HIDE DEF position, switch, at
    <3> QED BY <1>2, <2>1, <2>2
  <2> QED BY <2>3, <2>4
<1>6. s = [name \in DOMAIN initial |-> s[name]] BY <1>2
<1> QED BY <1>1, <1>3, <1>4, <1>5, <1>6 DEF s, initial, d, n, fields
=============================================================================
