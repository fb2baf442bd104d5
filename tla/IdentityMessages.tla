-------------------------- MODULE IdentityMessages --------------------------
(***************************************************************************)
(* The protobuf messages of x/identity: identities and their parameters.   *)
(*                                                                         *)
(* A table is the generated function it is named after (see WireMessage),  *)
(* which WireCodec runs.                                                   *)
(***************************************************************************)
EXTENDS WireMessage

-----------------------------------------------------------------------------
(* types.pb.go: stored records and parameters                              *)

Identity_Marshal ==
    << <<\H38, "varint", "UpdatedAt">>, <<\H30, "varint", "RegisteredAt">>,
       <<\H2a, "bytes", "Metadata">>, <<\H22, "bytes", "Status">>,
       <<\H1a, "bytes", "Role">>, <<\H12, "bytes", "Name">>,
       <<\H0a, "bytes", "Address">> >>
Identity_Size ==
    << <<"bytes", "Address">>, <<"bytes", "Name">>, <<"bytes", "Role">>,
       <<"bytes", "Status">>, <<"bytes", "Metadata">>, <<"varint", "RegisteredAt">>,
       <<"varint", "UpdatedAt">> >>
Identity_Unmarshal ==
    << <<"string", "Address">>, <<"string", "Name">>, <<"string", "Role">>,
       <<"string", "Status">>, <<"string", "Metadata">>, <<"int64", "RegisteredAt">>,
       <<"int64", "UpdatedAt">> >>
Identity == Message(Identity_Marshal, Identity_Size, Identity_Unmarshal)

Params_Marshal ==
    << <<\H10, "varint", "MaxMetadataSize">>, <<\H0a, "bytes", "AdminAddress">> >>
Params_Size == << <<"bytes", "AdminAddress">>, <<"varint", "MaxMetadataSize">> >>
Params_Unmarshal == << <<"string", "AdminAddress">>, <<"uint32", "MaxMetadataSize">> >>
Params == Message(Params_Marshal, Params_Size, Params_Unmarshal)

-----------------------------------------------------------------------------
(* genesis.pb.go: the genesis file                                         *)

GenesisState_Marshal ==
    << <<\H12, "messages", "Identities", Identity>>,
       <<\H0a, "message", "Params", Params>> >>
GenesisState_Size ==
    << <<"message", "Params", Params>>, <<"messages", "Identities", Identity>> >>
GenesisState_Unmarshal ==
    << <<"message", "Params", Params>>, <<"messages", "Identities", Identity>> >>
GenesisState == Message(GenesisState_Marshal, GenesisState_Size, GenesisState_Unmarshal)

-----------------------------------------------------------------------------
(* tx.pb.go: messages of the Msg service                                   *)

MsgRegisterIdentity_Marshal ==
    << <<\H2a, "bytes", "Metadata">>, <<\H22, "bytes", "Role">>,
       <<\H1a, "bytes", "Name">>, <<\H12, "bytes", "Address">>,
       <<\H0a, "bytes", "Creator">> >>
MsgRegisterIdentity_Size ==
    << <<"bytes", "Creator">>, <<"bytes", "Address">>, <<"bytes", "Name">>,
       <<"bytes", "Role">>, <<"bytes", "Metadata">> >>
MsgRegisterIdentity_Unmarshal ==
    << <<"string", "Creator">>, <<"string", "Address">>, <<"string", "Name">>,
       <<"string", "Role">>, <<"string", "Metadata">> >>
MsgRegisterIdentity ==
    Message(MsgRegisterIdentity_Marshal, MsgRegisterIdentity_Size, MsgRegisterIdentity_Unmarshal)

MsgRegisterIdentityResponse_Unmarshal == <<>>
MsgRegisterIdentityResponse == Message(<<>>, <<>>, MsgRegisterIdentityResponse_Unmarshal)

MsgUpdateIdentity_Marshal ==
    << <<\H22, "bytes", "Metadata">>, <<\H1a, "bytes", "Name">>,
       <<\H12, "bytes", "Address">>, <<\H0a, "bytes", "Creator">> >>
MsgUpdateIdentity_Size ==
    << <<"bytes", "Creator">>, <<"bytes", "Address">>, <<"bytes", "Name">>,
       <<"bytes", "Metadata">> >>
MsgUpdateIdentity_Unmarshal ==
    << <<"string", "Creator">>, <<"string", "Address">>, <<"string", "Name">>,
       <<"string", "Metadata">> >>
MsgUpdateIdentity ==
    Message(MsgUpdateIdentity_Marshal, MsgUpdateIdentity_Size, MsgUpdateIdentity_Unmarshal)

MsgUpdateIdentityResponse_Unmarshal == <<>>
MsgUpdateIdentityResponse == Message(<<>>, <<>>, MsgUpdateIdentityResponse_Unmarshal)

MsgRevokeIdentity_Marshal ==
    << <<\H1a, "bytes", "Reason">>, <<\H12, "bytes", "Address">>,
       <<\H0a, "bytes", "Creator">> >>
MsgRevokeIdentity_Size ==
    << <<"bytes", "Creator">>, <<"bytes", "Address">>, <<"bytes", "Reason">> >>
MsgRevokeIdentity_Unmarshal ==
    << <<"string", "Creator">>, <<"string", "Address">>, <<"string", "Reason">> >>
MsgRevokeIdentity ==
    Message(MsgRevokeIdentity_Marshal, MsgRevokeIdentity_Size, MsgRevokeIdentity_Unmarshal)

MsgRevokeIdentityResponse_Unmarshal == <<>>
MsgRevokeIdentityResponse == Message(<<>>, <<>>, MsgRevokeIdentityResponse_Unmarshal)

MsgUpdateParams_Marshal ==
    << <<\H12, "message", "Params", Params>>, <<\H0a, "bytes", "Authority">> >>
MsgUpdateParams_Size == << <<"bytes", "Authority">>, <<"message", "Params", Params>> >>
MsgUpdateParams_Unmarshal ==
    << <<"string", "Authority">>, <<"message", "Params", Params>> >>
MsgUpdateParams ==
    Message(MsgUpdateParams_Marshal, MsgUpdateParams_Size, MsgUpdateParams_Unmarshal)

MsgUpdateParamsResponse_Unmarshal == <<>>
MsgUpdateParamsResponse == Message(<<>>, <<>>, MsgUpdateParamsResponse_Unmarshal)

-----------------------------------------------------------------------------
(* query.pb.go: messages of the Query service                              *)

QueryIdentityRequest_Marshal == << <<\H0a, "bytes", "Address">> >>
QueryIdentityRequest_Size == << <<"bytes", "Address">> >>
QueryIdentityRequest_Unmarshal == << <<"string", "Address">> >>
QueryIdentityRequest ==
    Message(QueryIdentityRequest_Marshal, QueryIdentityRequest_Size, QueryIdentityRequest_Unmarshal)

QueryIdentityResponse_Marshal == << <<\H0a, "message", "Identity", Identity>> >>
QueryIdentityResponse_Size == << <<"message", "Identity", Identity>> >>
QueryIdentityResponse_Unmarshal == << <<"message", "Identity", Identity>> >>
QueryIdentityResponse ==
    Message(QueryIdentityResponse_Marshal, QueryIdentityResponse_Size, QueryIdentityResponse_Unmarshal)

QueryIdentitiesByRoleRequest_Marshal ==
    << <<\H12, "pointer", "Pagination", PageRequest>>, <<\H0a, "bytes", "Role">> >>
QueryIdentitiesByRoleRequest_Size ==
    << <<"bytes", "Role">>, <<"pointer", "Pagination", PageRequest>> >>
QueryIdentitiesByRoleRequest_Unmarshal ==
    << <<"string", "Role">>, <<"pointer", "Pagination", PageRequest>> >>
QueryIdentitiesByRoleRequest ==
    Message(QueryIdentitiesByRoleRequest_Marshal, QueryIdentitiesByRoleRequest_Size, QueryIdentitiesByRoleRequest_Unmarshal)

QueryIdentitiesByRoleResponse_Marshal ==
    << <<\H12, "pointer", "Pagination", PageResponse>>,
       <<\H0a, "messages", "Identities", Identity>> >>
QueryIdentitiesByRoleResponse_Size ==
    << <<"messages", "Identities", Identity>>,
       <<"pointer", "Pagination", PageResponse>> >>
QueryIdentitiesByRoleResponse_Unmarshal ==
    << <<"messages", "Identities", Identity>>,
       <<"pointer", "Pagination", PageResponse>> >>
QueryIdentitiesByRoleResponse ==
    Message(QueryIdentitiesByRoleResponse_Marshal, QueryIdentitiesByRoleResponse_Size, QueryIdentitiesByRoleResponse_Unmarshal)

QueryAllIdentitiesRequest_Marshal ==
    << <<\H0a, "pointer", "Pagination", PageRequest>> >>
QueryAllIdentitiesRequest_Size == << <<"pointer", "Pagination", PageRequest>> >>
QueryAllIdentitiesRequest_Unmarshal == << <<"pointer", "Pagination", PageRequest>> >>
QueryAllIdentitiesRequest ==
    Message(QueryAllIdentitiesRequest_Marshal, QueryAllIdentitiesRequest_Size, QueryAllIdentitiesRequest_Unmarshal)

QueryAllIdentitiesResponse_Marshal ==
    << <<\H12, "pointer", "Pagination", PageResponse>>,
       <<\H0a, "messages", "Identities", Identity>> >>
QueryAllIdentitiesResponse_Size ==
    << <<"messages", "Identities", Identity>>,
       <<"pointer", "Pagination", PageResponse>> >>
QueryAllIdentitiesResponse_Unmarshal ==
    << <<"messages", "Identities", Identity>>,
       <<"pointer", "Pagination", PageResponse>> >>
QueryAllIdentitiesResponse ==
    Message(QueryAllIdentitiesResponse_Marshal, QueryAllIdentitiesResponse_Size, QueryAllIdentitiesResponse_Unmarshal)

QueryParamsRequest_Unmarshal == <<>>
QueryParamsRequest == Message(<<>>, <<>>, QueryParamsRequest_Unmarshal)

QueryParamsResponse_Marshal == << <<\H0a, "message", "Params", Params>> >>
QueryParamsResponse_Size == << <<"message", "Params", Params>> >>
QueryParamsResponse_Unmarshal == << <<"message", "Params", Params>> >>
QueryParamsResponse ==
    Message(QueryParamsResponse_Marshal, QueryParamsResponse_Size, QueryParamsResponse_Unmarshal)
-----------------------------------------------------------------------------

\* Every message of the module, by name.
ByName ==
    [Identity |-> Identity, Params |-> Params, GenesisState |-> GenesisState,
     MsgRegisterIdentity |-> MsgRegisterIdentity,
     MsgRegisterIdentityResponse |-> MsgRegisterIdentityResponse,
     MsgUpdateIdentity |-> MsgUpdateIdentity,
     MsgUpdateIdentityResponse |-> MsgUpdateIdentityResponse,
     MsgRevokeIdentity |-> MsgRevokeIdentity,
     MsgRevokeIdentityResponse |-> MsgRevokeIdentityResponse,
     MsgUpdateParams |-> MsgUpdateParams,
     MsgUpdateParamsResponse |-> MsgUpdateParamsResponse,
     QueryIdentityRequest |-> QueryIdentityRequest,
     QueryIdentityResponse |-> QueryIdentityResponse,
     QueryIdentitiesByRoleRequest |-> QueryIdentitiesByRoleRequest,
     QueryIdentitiesByRoleResponse |-> QueryIdentitiesByRoleResponse,
     QueryAllIdentitiesRequest |-> QueryAllIdentitiesRequest,
     QueryAllIdentitiesResponse |-> QueryAllIdentitiesResponse,
     QueryParamsRequest |-> QueryParamsRequest,
     QueryParamsResponse |-> QueryParamsResponse]
=============================================================================
