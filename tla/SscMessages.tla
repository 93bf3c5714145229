---------------------------- MODULE SscMessages ----------------------------
(***************************************************************************)
(* The messages of the Snapdragon sensor core, as pkgs/libssc/generated    *)
(* lays them out: for each one the initializer of its struct, the          *)
(* descriptor that drives protobuf-c, and the pair its six methods (init,  *)
(* get_packed_size, pack, pack_to_buffer, unpack, free_unpacked) work on.  *)
(*                                                                         *)
(* A struct is a record with the members of the source; a pointer and its  *)
(* count are one sequence.  Left out: offsets and sizes, the index by name *)
(* (nothing looks a field up by name) and the default values of scalars,   *)
(* which protobuf-c takes from the initializer when there is one.          *)
(***************************************************************************)
EXTENDS Naturals, Sequences

CONSTANT NULL

\* No text: of a string or bytes, and in place of a name.
Empty == ""

\* PROTOBUF_C_MESSAGE_INIT: the descriptor, and no unknown fields.
Base(name) == [descriptor |-> name, unknown_fields |-> <<>>]

\* An entry of a table of field descriptors; "has" is the member that says
\* whether an optional scalar is there, "of" the type of a sub-message.
Field(name, number, label, ctype, has, of) ==
    [name |-> name, number |-> number, label |-> label, type |-> ctype, has |-> has, of |-> of]
Required(name, number, ctype) == Field(name, number, "REQUIRED", ctype, Empty, Empty)
Optional(name, has, number, ctype) == Field(name, number, "OPTIONAL", ctype, has, Empty)
Repeated(name, number, ctype) == Field(name, number, "REPEATED", ctype, Empty, Empty)
RequiredMessage(name, number, of) == Field(name, number, "REQUIRED", "MESSAGE", Empty, of)
OptionalMessage(name, number, of) == Field(name, number, "OPTIONAL", "MESSAGE", Empty, of)
RepeatedMessage(name, number, of) == Field(name, number, "REPEATED", "MESSAGE", Empty, of)

\* A descriptor: number_ranges holds <<first number, index of its field>>
\* for each run of consecutive numbers, and ends with <<0, number of fields>>.
Descriptor(name, init, fields, ranges) ==
    [name |-> name, message_init |-> init, fields |-> fields, number_ranges |-> ranges]

\* What the six methods of a type refer to: the initializer that "init"
\* copies, and the descriptor that "unpack" passes on and the others assert.
Methods(init, descriptor) == [init |-> init, descriptor |-> descriptor]

-----------------------------------------------------------------------------
(* ssc-common.pb-c.                                                        *)

SSC_UID__INIT == [base |-> Base("SscUid"), low |-> 0, high |-> 0]
ssc_uid__descriptor == Descriptor("SscUid", SSC_UID__INIT,
    <<Required("low", 1, "FIXED64"), Required("high", 2, "FIXED64")>>,
    <<<<1, 0>>, <<0, 2>>>>)
ssc_uid__methods == Methods(SSC_UID__INIT, ssc_uid__descriptor)

SSC_CLIENT_CONFIG__INIT ==
    [base |-> Base("SscClientConfig"), processor |-> 1, suspend_mode |-> 0]
ssc_client_config__descriptor == Descriptor("SscClientConfig", SSC_CLIENT_CONFIG__INIT,
    <<Required("processor", 1, "INT32"), Required("suspend_mode", 2, "INT32")>>,
    <<<<1, 0>>, <<0, 2>>>>)
ssc_client_config__methods ==
    Methods(SSC_CLIENT_CONFIG__INIT, ssc_client_config__descriptor)

SSC_CLIENT_REQUEST_BODY__INIT ==
    [base |-> Base("SscClientRequestBody"), has_unknown |-> FALSE, unknown |-> Empty,
     has_msg |-> FALSE, msg |-> Empty, has_is_passive |-> FALSE, is_passive |-> FALSE]
ssc_client_request_body__descriptor == Descriptor("SscClientRequestBody", SSC_CLIENT_REQUEST_BODY__INIT,
    <<Optional("unknown", "has_unknown", 1, "BYTES"),
      Optional("msg", "has_msg", 2, "BYTES"),
      Optional("is_passive", "has_is_passive", 3, "BOOL")>>,
    <<<<1, 0>>, <<0, 3>>>>)
ssc_client_request_body__methods ==
    Methods(SSC_CLIENT_REQUEST_BODY__INIT, ssc_client_request_body__descriptor)

SSC_CLIENT_REQUEST__INIT ==
    [base |-> Base("SscClientRequest"), uid |-> NULL, msg_id |-> 0, config |-> NULL,
     request |-> NULL]
ssc_client_request__descriptor == Descriptor("SscClientRequest", SSC_CLIENT_REQUEST__INIT,
    <<RequiredMessage("uid", 1, "SscUid"), Required("msg_id", 2, "FIXED32"),
      RequiredMessage("config", 3, "SscClientConfig"),
      RequiredMessage("request", 4, "SscClientRequestBody")>>,
    <<<<1, 0>>, <<0, 4>>>>)
ssc_client_request__methods ==
    Methods(SSC_CLIENT_REQUEST__INIT, ssc_client_request__descriptor)

SSC_CLIENT_RESPONSE_BODY__INIT ==
    [base |-> Base("SscClientResponseBody"), msg_id |-> 0, timestamp |-> 0, msg |-> Empty]
ssc_client_response_body__descriptor == Descriptor("SscClientResponseBody", SSC_CLIENT_RESPONSE_BODY__INIT,
    <<Required("msg_id", 1, "FIXED32"), Required("timestamp", 2, "FIXED64"),
      Required("msg", 3, "BYTES")>>,
    <<<<1, 0>>, <<0, 3>>>>)
ssc_client_response_body__methods ==
    Methods(SSC_CLIENT_RESPONSE_BODY__INIT, ssc_client_response_body__descriptor)

SSC_CLIENT_RESPONSE__INIT ==
    [base |-> Base("SscClientResponse"), uid |-> NULL, response |-> <<>>]
ssc_client_response__descriptor == Descriptor("SscClientResponse", SSC_CLIENT_RESPONSE__INIT,
    <<RequiredMessage("uid", 1, "SscUid"),
      RepeatedMessage("response", 2, "SscClientResponseBody")>>,
    <<<<1, 0>>, <<0, 2>>>>)
ssc_client_response__methods ==
    Methods(SSC_CLIENT_RESPONSE__INIT, ssc_client_response__descriptor)

SSC_ATTR_REQUEST__INIT ==
    [base |-> Base("SscAttrRequest"), has_enable_updates |-> FALSE,
     enable_updates |-> FALSE]
ssc_attr_request__descriptor == Descriptor("SscAttrRequest", SSC_ATTR_REQUEST__INIT,
    <<Optional("enable_updates", "has_enable_updates", 2, "BOOL")>>,
    <<<<2, 0>>, <<0, 1>>>>)
ssc_attr_request__methods == Methods(SSC_ATTR_REQUEST__INIT, ssc_attr_request__descriptor)

SSC_ATTR_VALUE_ARRAY__INIT == [base |-> Base("SscAttrValueArray"), element |-> <<>>]
ssc_attr_value_array__descriptor == Descriptor("SscAttrValueArray", SSC_ATTR_VALUE_ARRAY__INIT,
    <<RepeatedMessage("element", 1, "SscAttrValue")>>,
    <<<<1, 0>>, <<0, 1>>>>)
ssc_attr_value_array__methods ==
    Methods(SSC_ATTR_VALUE_ARRAY__INIT, ssc_attr_value_array__descriptor)

SSC_ATTR_VALUE__INIT ==
    [base |-> Base("SscAttrValue"), a |-> NULL, s |-> NULL, has_f |-> FALSE, f |-> 0,
     has_i |-> FALSE, i |-> 0, has_b |-> FALSE, b |-> FALSE]
ssc_attr_value__descriptor == Descriptor("SscAttrValue", SSC_ATTR_VALUE__INIT,
    <<OptionalMessage("a", 1, "SscAttrValueArray"), Optional("s", Empty, 2, "STRING"),
      Optional("f", "has_f", 3, "FLOAT"), Optional("i", "has_i", 4, "FIXED64"),
      Optional("b", "has_b", 5, "BOOL")>>,
    <<<<1, 0>>, <<0, 5>>>>)
ssc_attr_value__methods == Methods(SSC_ATTR_VALUE__INIT, ssc_attr_value__descriptor)

SSC_ATTR_ARRAY_VALUE__INIT == [base |-> Base("SscAttrArrayValue"), v |-> <<>>]
ssc_attr_array_value__descriptor == Descriptor("SscAttrArrayValue", SSC_ATTR_ARRAY_VALUE__INIT,
    <<RepeatedMessage("v", 1, "SscAttrValue")>>,
    <<<<1, 0>>, <<0, 1>>>>)
ssc_attr_array_value__methods ==
    Methods(SSC_ATTR_ARRAY_VALUE__INIT, ssc_attr_array_value__descriptor)

SSC_ATTR__INIT == [base |-> Base("SscAttr"), id |-> 0, value_array |-> NULL]
ssc_attr__descriptor == Descriptor("SscAttr", SSC_ATTR__INIT,
    <<Required("id", 1, "INT32"), RequiredMessage("value_array", 2, "SscAttrArrayValue")>>,
    <<<<1, 0>>, <<0, 2>>>>)
ssc_attr__methods == Methods(SSC_ATTR__INIT, ssc_attr__descriptor)

SSC_ATTR_RESPONSE__INIT == [base |-> Base("SscAttrResponse"), attr |-> <<>>]
ssc_attr_response__descriptor == Descriptor("SscAttrResponse", SSC_ATTR_RESPONSE__INIT,
    <<RepeatedMessage("attr", 1, "SscAttr")>>,
    <<<<1, 0>>, <<0, 1>>>>)
ssc_attr_response__methods ==
    Methods(SSC_ATTR_RESPONSE__INIT, ssc_attr_response__descriptor)

SSC_ENABLE_CONFIG_REQUEST__INIT ==
    [base |-> Base("SscEnableConfigRequest"), sample_rate |-> 0]
ssc_enable_config_request__descriptor == Descriptor("SscEnableConfigRequest", SSC_ENABLE_CONFIG_REQUEST__INIT,
    <<Required("sample_rate", 1, "FLOAT")>>,
    <<<<1, 0>>, <<0, 1>>>>)
ssc_enable_config_request__methods ==
    Methods(SSC_ENABLE_CONFIG_REQUEST__INIT, ssc_enable_config_request__descriptor)

SSC_CONFIG_RESPONSE__INIT ==
    [base |-> Base("SscConfigResponse"), has_sample_rate |-> FALSE, sample_rate |-> 0,
     mode |-> NULL]
\* Mutant: the ranges do not know of the gap between the numbers.
config_response_without_gap == Descriptor("SscConfigResponse", SSC_CONFIG_RESPONSE__INIT,
    <<Optional("sample_rate", "has_sample_rate", 1, "FLOAT"), Optional("mode", Empty, 5, "STRING")>>,
    <<<<1, 0>>, <<0, 2>>>>)
ssc_config_response__descriptor == Descriptor("SscConfigResponse", SSC_CONFIG_RESPONSE__INIT,
    <<Optional("sample_rate", "has_sample_rate", 1, "FLOAT"),
      Optional("mode", Empty, 5, "STRING")>>,
    <<<<1, 0>>, <<5, 1>>, <<0, 2>>>>)
ssc_config_response__methods ==
    Methods(SSC_CONFIG_RESPONSE__INIT, ssc_config_response__descriptor)

-----------------------------------------------------------------------------
(* ssc-sensor-suid.pb-c.                                                   *)

SSC_SUID_REQUEST__INIT ==
    [base |-> Base("SscSuidRequest"), data_type |-> NULL, has_enable_updates |-> FALSE,
     enable_updates |-> FALSE, has_only_default_values |-> FALSE,
     only_default_values |-> FALSE]
ssc_suid_request__descriptor == Descriptor("SscSuidRequest", SSC_SUID_REQUEST__INIT,
    <<Required("data_type", 1, "STRING"),
      Optional("enable_updates", "has_enable_updates", 2, "BOOL"),
      Optional("only_default_values", "has_only_default_values", 3, "BOOL")>>,
    <<<<1, 0>>, <<0, 3>>>>)
ssc_suid_request__methods == Methods(SSC_SUID_REQUEST__INIT, ssc_suid_request__descriptor)

SSC_SUID_RESPONSE__INIT ==
    [base |-> Base("SscSuidResponse"), data_type |-> NULL, uid |-> <<>>]
ssc_suid_response__descriptor == Descriptor("SscSuidResponse", SSC_SUID_RESPONSE__INIT,
    <<Required("data_type", 1, "STRING"), RepeatedMessage("uid", 2, "SscUid")>>,
    <<<<1, 0>>, <<0, 2>>>>)
ssc_suid_response__methods ==
    Methods(SSC_SUID_RESPONSE__INIT, ssc_suid_response__descriptor)

-----------------------------------------------------------------------------
(* ssc-sensor-proximity.pb-c.                                              *)

SSC_PROXIMITY_RESPONSE__INIT ==
    [base |-> Base("SscProximityResponse"), near |-> 0, distance |-> 0, accuracy |-> 0]
\* Mutant: the range of numbers ends one field too early.
proximity_short_range == Descriptor("SscProximityResponse", SSC_PROXIMITY_RESPONSE__INIT,
    <<Required("near", 1, "INT32"), Required("distance", 2, "INT32"),
      Required("accuracy", 3, "INT32")>>,
    <<<<1, 0>>, <<0, 2>>>>)
ssc_proximity_response__descriptor == Descriptor("SscProximityResponse", SSC_PROXIMITY_RESPONSE__INIT,
    <<Required("near", 1, "INT32"), Required("distance", 2, "INT32"),
      Required("accuracy", 3, "INT32")>>,
    <<<<1, 0>>, <<0, 3>>>>)
ssc_proximity_response__methods ==
    Methods(SSC_PROXIMITY_RESPONSE__INIT, ssc_proximity_response__descriptor)

SSC_PROXIMITY_RESPONSE_DAVINCI__INIT ==
    [base |-> Base("SscProximityResponseDavinci"), data |-> <<>>, accuracy |-> 0]
\* Mutant: the data are numbers instead of bytes.
davinci_with_numbers ==
    Descriptor("SscProximityResponseDavinci", SSC_PROXIMITY_RESPONSE_DAVINCI__INIT,
    <<Repeated("data", 1, "INT32"), Required("accuracy", 2, "INT32")>>,
    <<<<1, 0>>, <<0, 2>>>>)
ssc_proximity_response_davinci__descriptor == Descriptor("SscProximityResponseDavinci", SSC_PROXIMITY_RESPONSE_DAVINCI__INIT,
    <<Repeated("data", 1, "BYTES"), Required("accuracy", 2, "INT32")>>,
    <<<<1, 0>>, <<0, 2>>>>)
ssc_proximity_response_davinci__methods ==
    Methods(SSC_PROXIMITY_RESPONSE_DAVINCI__INIT, ssc_proximity_response_davinci__descriptor)

-----------------------------------------------------------------------------
(* the sensors that report a vector and its accuracy.                      *)

SSC_ACCELEROMETER_RESPONSE__INIT ==
    [base |-> Base("SscAccelerometerResponse"), acceleration |-> <<>>, accuracy |-> 0]
ssc_accelerometer_response__descriptor == Descriptor("SscAccelerometerResponse", SSC_ACCELEROMETER_RESPONSE__INIT,
    <<Repeated("acceleration", 1, "FLOAT"), Required("accuracy", 2, "INT32")>>,
    <<<<1, 0>>, <<0, 2>>>>)
ssc_accelerometer_response__methods ==
    Methods(SSC_ACCELEROMETER_RESPONSE__INIT, ssc_accelerometer_response__descriptor)

SSC_GYROSCOPE_RESPONSE__INIT ==
    [base |-> Base("SscGyroscopeResponse"), velocity |-> <<>>, accuracy |-> 0]
ssc_gyroscope_response__descriptor == Descriptor("SscGyroscopeResponse", SSC_GYROSCOPE_RESPONSE__INIT,
    <<Repeated("velocity", 1, "FLOAT"), Required("accuracy", 2, "INT32")>>,
    <<<<1, 0>>, <<0, 2>>>>)
ssc_gyroscope_response__methods ==
    Methods(SSC_GYROSCOPE_RESPONSE__INIT, ssc_gyroscope_response__descriptor)

SSC_LIGHT_RESPONSE__INIT ==
    [base |-> Base("SscLightResponse"), intensity |-> <<>>, accuracy |-> 0]
ssc_light_response__descriptor == Descriptor("SscLightResponse", SSC_LIGHT_RESPONSE__INIT,
    <<Repeated("intensity", 1, "FLOAT"), Required("accuracy", 2, "INT32")>>,
    <<<<1, 0>>, <<0, 2>>>>)
ssc_light_response__methods ==
    Methods(SSC_LIGHT_RESPONSE__INIT, ssc_light_response__descriptor)

SSC_MAGNETOMETER_RESPONSE__INIT ==
    [base |-> Base("SscMagnetometerResponse"), magnetic_field |-> <<>>, accuracy |-> 0]
ssc_magnetometer_response__descriptor == Descriptor("SscMagnetometerResponse", SSC_MAGNETOMETER_RESPONSE__INIT,
    <<Repeated("magnetic_field", 1, "FLOAT"), Required("accuracy", 2, "INT32")>>,
    <<<<1, 0>>, <<0, 2>>>>)
ssc_magnetometer_response__methods ==
    Methods(SSC_MAGNETOMETER_RESPONSE__INIT, ssc_magnetometer_response__descriptor)

SSC_ROTATIONVECTOR_RESPONSE__INIT ==
    [base |-> Base("SscRotationvectorResponse"), rotation |-> <<>>, accuracy |-> 0]
ssc_rotationvector_response__descriptor == Descriptor("SscRotationvectorResponse", SSC_ROTATIONVECTOR_RESPONSE__INIT,
    <<Repeated("rotation", 1, "FLOAT"), Required("accuracy", 2, "INT32")>>,
    <<<<1, 0>>, <<0, 2>>>>)
ssc_rotationvector_response__methods ==
    Methods(SSC_ROTATIONVECTOR_RESPONSE__INIT, ssc_rotationvector_response__descriptor)

-----------------------------------------------------------------------------
\* The methods of each type, by its name.
Type ==
    [SscUid |-> ssc_uid__methods, SscClientConfig |-> ssc_client_config__methods,
     SscClientRequestBody |-> ssc_client_request_body__methods,
     SscClientRequest |-> ssc_client_request__methods,
     SscClientResponseBody |-> ssc_client_response_body__methods,
     SscClientResponse |-> ssc_client_response__methods,
     SscAttrRequest |-> ssc_attr_request__methods,
     SscAttrValueArray |-> ssc_attr_value_array__methods,
     SscAttrValue |-> ssc_attr_value__methods,
     SscAttrArrayValue |-> ssc_attr_array_value__methods, SscAttr |-> ssc_attr__methods,
     SscAttrResponse |-> ssc_attr_response__methods,
     SscEnableConfigRequest |-> ssc_enable_config_request__methods,
     SscConfigResponse |-> ssc_config_response__methods,
     SscSuidRequest |-> ssc_suid_request__methods,
     SscSuidResponse |-> ssc_suid_response__methods,
     SscProximityResponse |-> ssc_proximity_response__methods,
     SscProximityResponseDavinci |-> ssc_proximity_response_davinci__methods,
     SscAccelerometerResponse |-> ssc_accelerometer_response__methods,
     SscGyroscopeResponse |-> ssc_gyroscope_response__methods,
     SscLightResponse |-> ssc_light_response__methods,
     SscMagnetometerResponse |-> ssc_magnetometer_response__methods,
     SscRotationvectorResponse |-> ssc_rotationvector_response__methods]
=============================================================================
