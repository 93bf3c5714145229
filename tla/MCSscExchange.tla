--------------------------- MODULE MCSscExchange ---------------------------
(* The model values of the run of SscExchange. *)
EXTENDS SscExchange

\* What libssc sends and gets: the envelopes and everything inside them.
MCSent ==
    {"SscClientRequest", "SscClientResponse", "SscSuidRequest", "SscSuidResponse",
     "SscAttrRequest", "SscAttrResponse", "SscEnableConfigRequest", "SscConfigResponse",
     "SscProximityResponse", "SscProximityResponseDavinci", "SscAccelerometerResponse",
     "SscGyroscopeResponse", "SscLightResponse", "SscMagnetometerResponse",
     "SscRotationvectorResponse"}

\* A UID that was passed on with a field of a newer version in it.
ForwardedUid ==
    [SSC_UID__INIT EXCEPT !.high = 1, !.base.unknown_fields =
        <<[number |-> 6, type |-> "VARINT", payload |-> "x"]>>]
Request(msg) == [SSC_CLIENT_REQUEST_BODY__INIT EXCEPT !.has_msg = TRUE, !.msg = msg]
Value(s) == [SSC_ATTR_VALUE__INIT EXCEPT !.s = s]
Nested == [SSC_ATTR_VALUE__INIT EXCEPT
            !.a = [SSC_ATTR_VALUE_ARRAY__INIT EXCEPT !.element = <<Value("x"), Value("")>>],
            !.has_i = TRUE, !.i = 1, !.b = TRUE]
Attr(id, values) == [SSC_ATTR__INIT EXCEPT !.id = id,
                        !.value_array = [SSC_ATTR_ARRAY_VALUE__INIT EXCEPT !.v = values]]

MCParts(t) ==
    CASE t = "SscUid" -> {SSC_UID__INIT, ForwardedUid}
      [] t = "SscClientConfig" -> {SSC_CLIENT_CONFIG__INIT}
      [] t = "SscClientRequestBody" -> {SSC_CLIENT_REQUEST_BODY__INIT, Request("x")}
      [] t = "SscClientResponseBody" ->
            {[SSC_CLIENT_RESPONSE_BODY__INIT EXCEPT !.msg_id = 1, !.msg = "x"]}
      [] t = "SscAttr" -> {SSC_ATTR__INIT, Attr(1, <<Nested, Value("x")>>)}
      [] OTHER -> {}

MCNumbers == {0, 1}
MCTexts == {"", "x"}
\* Nobody interprets the payload of a field that is not known.
MCUnknownEntries ==
    [number : 1 .. 6, type : {"VARINT", "LENGTH_PREFIXED"}, payload : {"x"}]

-----------------------------------------------------------------------------
(* The knots of the recursions.  TLC's coverage statistics follow calls     *)
(* that replace constants, without end in a recursion, but not into a LET. *)

MCPackPart(message) == LET packed == Pack(message) IN packed
MCUnpackPart(descriptor, bytes) == LET unpacked == Unpack(descriptor, bytes) IN unpacked
MCSeenPart(message) == LET seen == Seen(message) IN seen
MCCompletePart(message) == LET complete == Complete(message) IN complete

\* The parts, what is in them, and what a receiver sees of either.
StructTable ==
    [t \in DOMAIN Type |->
        LET inside == CASE t = "SscAttrArrayValue" -> {Attr(1, <<Nested, Value("x")>>).value_array}
                        [] t = "SscAttrValue" -> {Nested, Value("x"), Value("")}
                        [] t = "SscAttrValueArray" -> {Nested.a}
                        [] OTHER -> {}
            held == {Type[t].init} \cup MCParts(t) \cup inside
        IN  held \cup {Seen(m) : m \in held}]
MCStructs(t) == StructTable[t]

RECURSIVE MCDepth(_)
MCDepth(message) ==
    LET below == UNION {SubMessages(message, f) : f \in Fields(message.base.descriptor)}
    IN  FoldSet(LAMBDA s, d : IF MCDepth(s) >= d THEN MCDepth(s) + 1 ELSE d, 0, below)
============================================================================
