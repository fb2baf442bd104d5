---------------------------- MODULE AuditMessages ---------------------------
(***************************************************************************)
(* The protobuf messages of x/audit: audit logs and their parameters.      *)
(*                                                                         *)
(* A table is the generated function it is named after (see WireMessage),  *)
(* which WireCodec runs.                                                   *)
(***************************************************************************)
EXTENDS WireMessage

-----------------------------------------------------------------------------
(* types.pb.go: stored records and parameters                              *)

AuditLog_Marshal ==
    << <<\H4a, "bytes", "TxHash">>, <<\H40, "varint", "Timestamp">>,
       <<\H38, "varint", "BlockHeight">>, <<\H32, "bytes", "Data">>,
       <<\H2a, "bytes", "Action">>, <<\H22, "bytes", "Target">>,
       <<\H1a, "bytes", "Actor">>, <<\H12, "bytes", "EventType">>,
       <<\H08, "varint", "ID">> >>
AuditLog_Size ==
    << <<"varint", "ID">>, <<"bytes", "EventType">>, <<"bytes", "Actor">>,
       <<"bytes", "Target">>, <<"bytes", "Action">>, <<"bytes", "Data">>,
       <<"varint", "BlockHeight">>, <<"varint", "Timestamp">>, <<"bytes", "TxHash">> >>
AuditLog_Unmarshal ==
    << <<"uint64", "ID">>, <<"string", "EventType">>, <<"string", "Actor">>,
       <<"string", "Target">>, <<"string", "Action">>, <<"string", "Data">>,
       <<"int64", "BlockHeight">>, <<"int64", "Timestamp">>, <<"string", "TxHash">> >>
AuditLog == Message(AuditLog_Marshal, AuditLog_Size, AuditLog_Unmarshal)

Params_Marshal ==
    << <<\H30, "varint", "MaxAuditsPerBlockPerCreator">>,
       <<\H28, "bool", "Permissionless">>, <<\H20, "varint", "MaxDataSize">>,
       <<\H1a, "strings", "AllowedAuditors">>, <<\H10, "varint", "RetentionBlocks">>,
       <<\H08, "varint", "LargeTransferThreshold">> >>
Params_Size ==
    << <<"varint", "LargeTransferThreshold">>, <<"varint", "RetentionBlocks">>,
       <<"strings", "AllowedAuditors">>, <<"varint", "MaxDataSize">>,
       <<"bool", "Permissionless">>, <<"varint", "MaxAuditsPerBlockPerCreator">> >>
Params_Unmarshal ==
    << <<"uint64", "LargeTransferThreshold">>, <<"int64", "RetentionBlocks">>,
       <<"strings", "AllowedAuditors">>, <<"uint32", "MaxDataSize">>,
       <<"bool", "Permissionless">>, <<"uint32", "MaxAuditsPerBlockPerCreator">> >>
Params == Message(Params_Marshal, Params_Size, Params_Unmarshal)

-----------------------------------------------------------------------------
(* genesis.pb.go: the genesis file                                         *)

GenesisState_Marshal ==
    << <<\H18, "varint", "Counter">>, <<\H12, "messages", "Logs", AuditLog>>,
       <<\H0a, "message", "Params", Params>> >>
GenesisState_Size ==
    << <<"message", "Params", Params>>, <<"messages", "Logs", AuditLog>>,
       <<"varint", "Counter">> >>
GenesisState_Unmarshal ==
    << <<"message", "Params", Params>>, <<"messages", "Logs", AuditLog>>,
       <<"uint64", "Counter">> >>
GenesisState == Message(GenesisState_Marshal, GenesisState_Size, GenesisState_Unmarshal)

-----------------------------------------------------------------------------
(* tx.pb.go: messages of the Msg service                                   *)

MsgRecordAudit_Marshal ==
    << <<\H2a, "bytes", "Data">>, <<\H22, "bytes", "Action">>,
       <<\H1a, "bytes", "Target">>, <<\H12, "bytes", "EventType">>,
       <<\H0a, "bytes", "Creator">> >>
MsgRecordAudit_Size ==
    << <<"bytes", "Creator">>, <<"bytes", "EventType">>, <<"bytes", "Target">>,
       <<"bytes", "Action">>, <<"bytes", "Data">> >>
MsgRecordAudit_Unmarshal ==
    << <<"string", "Creator">>, <<"string", "EventType">>, <<"string", "Target">>,
       <<"string", "Action">>, <<"string", "Data">> >>
MsgRecordAudit ==
    Message(MsgRecordAudit_Marshal, MsgRecordAudit_Size, MsgRecordAudit_Unmarshal)

MsgRecordAuditResponse_Unmarshal == <<>>
MsgRecordAuditResponse == Message(<<>>, <<>>, MsgRecordAuditResponse_Unmarshal)

MsgUpdateParams_Marshal ==
    << <<\H12, "message", "Params", Params>>, <<\H0a, "bytes", "Authority">> >>
MsgUpdateParams_Size == << <<"bytes", "Authority">>, <<"message", "Params", Params>> >>
MsgUpdateParams_Unmarshal ==
    << <<"string", "Authority">>, <<"message", "Params", Params>> >>
MsgUpdateParams ==
    Message(MsgUpdateParams_Marshal, MsgUpdateParams_Size, MsgUpdateParams_Unmarshal)

MsgUpdateParamsResponse_Unmarshal == <<>>
MsgUpdateParamsResponse == Message(<<>>, <<>>, MsgUpdateParamsResponse_Unmarshal)

-----------------------------------------------------------------------------
(* query.pb.go: messages of the Query service                              *)

QueryAuditLogRequest_Marshal == << <<\H08, "varint", "ID">> >>
QueryAuditLogRequest_Size == << <<"varint", "ID">> >>
QueryAuditLogRequest_Unmarshal == << <<"uint64", "ID">> >>
QueryAuditLogRequest ==
    Message(QueryAuditLogRequest_Marshal, QueryAuditLogRequest_Size, QueryAuditLogRequest_Unmarshal)

QueryAuditLogResponse_Marshal == << <<\H0a, "message", "Log", AuditLog>> >>
QueryAuditLogResponse_Size == << <<"message", "Log", AuditLog>> >>
QueryAuditLogResponse_Unmarshal == << <<"message", "Log", AuditLog>> >>
QueryAuditLogResponse ==
    Message(QueryAuditLogResponse_Marshal, QueryAuditLogResponse_Size, QueryAuditLogResponse_Unmarshal)

QueryAuditLogsRequest_Marshal ==
    << <<\H2a, "pointer", "Pagination", PageRequest>>,
       <<\H20, "varint", "ToTimestamp">>, <<\H18, "varint", "FromTimestamp">>,
       <<\H12, "bytes", "EventType">>, <<\H0a, "bytes", "Actor">> >>
QueryAuditLogsRequest_Size ==
    << <<"bytes", "Actor">>, <<"bytes", "EventType">>, <<"varint", "FromTimestamp">>,
       <<"varint", "ToTimestamp">>, <<"pointer", "Pagination", PageRequest>> >>
QueryAuditLogsRequest_Unmarshal ==
    << <<"string", "Actor">>, <<"string", "EventType">>, <<"int64", "FromTimestamp">>,
       <<"int64", "ToTimestamp">>, <<"pointer", "Pagination", PageRequest>> >>
QueryAuditLogsRequest ==
    Message(QueryAuditLogsRequest_Marshal, QueryAuditLogsRequest_Size, QueryAuditLogsRequest_Unmarshal)

QueryAuditLogsResponse_Marshal ==
    << <<\H12, "pointer", "Pagination", PageResponse>>,
       <<\H0a, "messages", "Logs", AuditLog>> >>
QueryAuditLogsResponse_Size ==
    << <<"messages", "Logs", AuditLog>>, <<"pointer", "Pagination", PageResponse>> >>
QueryAuditLogsResponse_Unmarshal ==
    << <<"messages", "Logs", AuditLog>>, <<"pointer", "Pagination", PageResponse>> >>
QueryAuditLogsResponse ==
    Message(QueryAuditLogsResponse_Marshal, QueryAuditLogsResponse_Size, QueryAuditLogsResponse_Unmarshal)

QueryParamsRequest_Unmarshal == <<>>
QueryParamsRequest == Message(<<>>, <<>>, QueryParamsRequest_Unmarshal)

QueryParamsResponse_Marshal == << <<\H0a, "message", "Params", Params>> >>
QueryParamsResponse_Size == << <<"message", "Params", Params>> >>
QueryParamsResponse_Unmarshal == << <<"message", "Params", Params>> >>
QueryParamsResponse ==
    Message(QueryParamsResponse_Marshal, QueryParamsResponse_Size, QueryParamsResponse_Unmarshal)
-----------------------------------------------------------------------------

\* Every message of the module, by name.
ByName ==
    [AuditLog |-> AuditLog, Params |-> Params, GenesisState |-> GenesisState,
     MsgRecordAudit |-> MsgRecordAudit,
     MsgRecordAuditResponse |-> MsgRecordAuditResponse,
     MsgUpdateParams |-> MsgUpdateParams,
     MsgUpdateParamsResponse |-> MsgUpdateParamsResponse,
     QueryAuditLogRequest |-> QueryAuditLogRequest,
     QueryAuditLogResponse |-> QueryAuditLogResponse,
     QueryAuditLogsRequest |-> QueryAuditLogsRequest,
     QueryAuditLogsResponse |-> QueryAuditLogsResponse,
     QueryParamsRequest |-> QueryParamsRequest,
     QueryParamsResponse |-> QueryParamsResponse]
=============================================================================
