----------------------------- MODULE WireMessage -----------------------------
(***************************************************************************)
(* How the modules EnergyMessages, OracleMessages, IdentityMessages and    *)
(* AuditMessages describe a generated protobuf message: by what each of    *)
(* its three functions does, field by field, read off that function alone. *)
(*                                                                         *)
(*   M_Marshal    MarshalToSizedBuffer: <<tag byte, kind, field>> in the   *)
(*                order of the code, which fills the buffer from its end   *)
(*   M_Size       Size: <<kind, field>>                                    *)
(*   M_Unmarshal  Unmarshal: <<kind, field>>, the n-th for case n          *)
(*                                                                         *)
(* An entry of an embedded message has that message as a last component.   *)
(* MarshalToSizedBuffer and Size do not tell the integer types apart       *)
(* ("varint") nor strings from bytes; Unmarshal does.                      *)
(***************************************************************************)

Message(marshal, size, unmarshal) ==
    [marshal |-> marshal, size |-> size, unmarshal |-> unmarshal]

\* cosmos-sdk/types/query, embedded in the messages of the Query services.
PageRequest ==
    Message(<< <<\H28, "bool", "Reverse">>, <<\H20, "bool", "CountTotal">>,
               <<\H18, "varint", "Limit">>, <<\H10, "varint", "Offset">>,
               <<\H0a, "bytes", "Key">> >>,
            << <<"bytes", "Key">>, <<"varint", "Offset">>, <<"varint", "Limit">>,
               <<"bool", "CountTotal">>, <<"bool", "Reverse">> >>,
            << <<"string", "Key">>, <<"uint64", "Offset">>, <<"uint64", "Limit">>,
               <<"bool", "CountTotal">>, <<"bool", "Reverse">> >>)

PageResponse ==
    Message(<< <<\H10, "varint", "Total">>, <<\H0a, "bytes", "NextKey">> >>,
            << <<"bytes", "NextKey">>, <<"varint", "Total">> >>,
            << <<"string", "NextKey">>, <<"uint64", "Total">> >>)
=============================================================================
