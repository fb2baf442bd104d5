--------------------------- MODULE OracleMessages ---------------------------
(***************************************************************************)
(* The protobuf messages of x/oracle: data points, oracles, parameters.    *)
(*                                                                         *)
(* A table is the generated function it is named after (see WireMessage),  *)
(* which WireCodec runs.                                                   *)
(***************************************************************************)
EXTENDS WireMessage

-----------------------------------------------------------------------------
(* types.pb.go: stored records and parameters                              *)

OracleData_Marshal ==
    << <<\H30, "varint", "BlockHeight">>, <<\H2a, "bytes", "Submitter">>,
       <<\H20, "varint", "Timestamp">>, <<\H1a, "bytes", "Metadata">>,
       <<\H12, "bytes", "Value">>, <<\H0a, "bytes", "Category">> >>
OracleData_Size ==
    << <<"bytes", "Category">>, <<"bytes", "Value">>, <<"bytes", "Metadata">>,
       <<"varint", "Timestamp">>, <<"bytes", "Submitter">>,
       <<"varint", "BlockHeight">> >>
OracleData_Unmarshal ==
    << <<"string", "Category">>, <<"string", "Value">>, <<"string", "Metadata">>,
       <<"int64", "Timestamp">>, <<"string", "Submitter">>,
       <<"int64", "BlockHeight">> >>
OracleData == Message(OracleData_Marshal, OracleData_Size, OracleData_Unmarshal)

OracleInfo_Marshal ==
    << <<\H22, "strings", "AuthorizedCategories">>, <<\H18, "bool", "Active">>,
       <<\H12, "bytes", "Name">>, <<\H0a, "bytes", "Address">> >>
OracleInfo_Size ==
    << <<"bytes", "Address">>, <<"bytes", "Name">>, <<"bool", "Active">>,
       <<"strings", "AuthorizedCategories">> >>
OracleInfo_Unmarshal ==
    << <<"string", "Address">>, <<"string", "Name">>, <<"bool", "Active">>,
       <<"strings", "AuthorizedCategories">> >>
OracleInfo == Message(OracleInfo_Marshal, OracleInfo_Size, OracleInfo_Unmarshal)

Params_Marshal ==
    << <<\H18, "varint", "MaxMetadataSize">>, <<\H10, "varint", "DataMaxAge">>,
       <<\H08, "varint", "MinSubmissions">> >>
Params_Size ==
    << <<"varint", "MinSubmissions">>, <<"varint", "DataMaxAge">>,
       <<"varint", "MaxMetadataSize">> >>
Params_Unmarshal ==
    << <<"uint32", "MinSubmissions">>, <<"int64", "DataMaxAge">>,
       <<"uint32", "MaxMetadataSize">> >>
Params == Message(Params_Marshal, Params_Size, Params_Unmarshal)

-----------------------------------------------------------------------------
(* genesis.pb.go: the genesis file                                         *)

GenesisState_Marshal ==
    << <<\H1a, "messages", "Data", OracleData>>,
       <<\H12, "messages", "Oracles", OracleInfo>>,
       <<\H0a, "message", "Params", Params>> >>
GenesisState_Size ==
    << <<"message", "Params", Params>>, <<"messages", "Oracles", OracleInfo>>,
       <<"messages", "Data", OracleData>> >>
GenesisState_Unmarshal ==
    << <<"message", "Params", Params>>, <<"messages", "Oracles", OracleInfo>>,
       <<"messages", "Data", OracleData>> >>
GenesisState == Message(GenesisState_Marshal, GenesisState_Size, GenesisState_Unmarshal)

-----------------------------------------------------------------------------
(* tx.pb.go: messages of the Msg service                                   *)

MsgSubmitData_Marshal ==
    << <<\H28, "varint", "Timestamp">>, <<\H22, "bytes", "Metadata">>,
       <<\H1a, "bytes", "Value">>, <<\H12, "bytes", "Category">>,
       <<\H0a, "bytes", "Submitter">> >>
MsgSubmitData_Size ==
    << <<"bytes", "Submitter">>, <<"bytes", "Category">>, <<"bytes", "Value">>,
       <<"bytes", "Metadata">>, <<"varint", "Timestamp">> >>
MsgSubmitData_Unmarshal ==
    << <<"string", "Submitter">>, <<"string", "Category">>, <<"string", "Value">>,
       <<"string", "Metadata">>, <<"int64", "Timestamp">> >>
MsgSubmitData ==
    Message(MsgSubmitData_Marshal, MsgSubmitData_Size, MsgSubmitData_Unmarshal)

MsgSubmitDataResponse_Unmarshal == <<>>
MsgSubmitDataResponse == Message(<<>>, <<>>, MsgSubmitDataResponse_Unmarshal)

MsgAddOracle_Marshal ==
    << <<\H22, "strings", "AuthorizedCategories">>, <<\H1a, "bytes", "Name">>,
       <<\H12, "bytes", "OracleAddress">>, <<\H0a, "bytes", "Authority">> >>
MsgAddOracle_Size ==
    << <<"bytes", "Authority">>, <<"bytes", "OracleAddress">>, <<"bytes", "Name">>,
       <<"strings", "AuthorizedCategories">> >>
MsgAddOracle_Unmarshal ==
    << <<"string", "Authority">>, <<"string", "OracleAddress">>, <<"string", "Name">>,
       <<"strings", "AuthorizedCategories">> >>
MsgAddOracle == Message(MsgAddOracle_Marshal, MsgAddOracle_Size, MsgAddOracle_Unmarshal)

MsgAddOracleResponse_Unmarshal == <<>>
MsgAddOracleResponse == Message(<<>>, <<>>, MsgAddOracleResponse_Unmarshal)

MsgRemoveOracle_Marshal ==
    << <<\H12, "bytes", "OracleAddress">>, <<\H0a, "bytes", "Authority">> >>
MsgRemoveOracle_Size == << <<"bytes", "Authority">>, <<"bytes", "OracleAddress">> >>
MsgRemoveOracle_Unmarshal ==
    << <<"string", "Authority">>, <<"string", "OracleAddress">> >>
MsgRemoveOracle ==
    Message(MsgRemoveOracle_Marshal, MsgRemoveOracle_Size, MsgRemoveOracle_Unmarshal)

MsgRemoveOracleResponse_Unmarshal == <<>>
MsgRemoveOracleResponse == Message(<<>>, <<>>, MsgRemoveOracleResponse_Unmarshal)

MsgUpdateParams_Marshal ==
    << <<\H12, "message", "Params", Params>>, <<\H0a, "bytes", "Authority">> >>
MsgUpdateParams_Size == << <<"bytes", "Authority">>, <<"message", "Params", Params>> >>
MsgUpdateParams_Unmarshal ==
    << <<"string", "Authority">>, <<"message", "Params", Params>> >>
MsgUpdateParams ==
    Message(MsgUpdateParams_Marshal, MsgUpdateParams_Size, MsgUpdateParams_Unmarshal)

MsgUpdateParamsResponse_Unmarshal == <<>>
MsgUpdateParamsResponse == Message(<<>>, <<>>, MsgUpdateParamsResponse_Unmarshal)

-----------------------------------------------------------------------------
(* query.pb.go: messages of the Query service                              *)

QueryLatestDataRequest_Marshal == << <<\H0a, "bytes", "Category">> >>
QueryLatestDataRequest_Size == << <<"bytes", "Category">> >>
QueryLatestDataRequest_Unmarshal == << <<"string", "Category">> >>
QueryLatestDataRequest ==
    Message(QueryLatestDataRequest_Marshal, QueryLatestDataRequest_Size, QueryLatestDataRequest_Unmarshal)

QueryLatestDataResponse_Marshal ==
    << <<\H10, "bool", "Stale">>, <<\H0a, "message", "Data", OracleData>> >>
QueryLatestDataResponse_Size ==
    << <<"message", "Data", OracleData>>, <<"bool", "Stale">> >>
QueryLatestDataResponse_Unmarshal ==
    << <<"message", "Data", OracleData>>, <<"bool", "Stale">> >>
QueryLatestDataResponse ==
    Message(QueryLatestDataResponse_Marshal, QueryLatestDataResponse_Size, QueryLatestDataResponse_Unmarshal)

QueryDataHistoryRequest_Marshal ==
    << <<\H22, "pointer", "Pagination", PageRequest>>, <<\H18, "varint", "ToTime">>,
       <<\H10, "varint", "FromTime">>, <<\H0a, "bytes", "Category">> >>
QueryDataHistoryRequest_Size ==
    << <<"bytes", "Category">>, <<"varint", "FromTime">>, <<"varint", "ToTime">>,
       <<"pointer", "Pagination", PageRequest>> >>
QueryDataHistoryRequest_Unmarshal ==
    << <<"string", "Category">>, <<"int64", "FromTime">>, <<"int64", "ToTime">>,
       <<"pointer", "Pagination", PageRequest>> >>
QueryDataHistoryRequest ==
    Message(QueryDataHistoryRequest_Marshal, QueryDataHistoryRequest_Size, QueryDataHistoryRequest_Unmarshal)

QueryDataHistoryResponse_Marshal ==
    << <<\H12, "pointer", "Pagination", PageResponse>>,
       <<\H0a, "messages", "Data", OracleData>> >>
QueryDataHistoryResponse_Size ==
    << <<"messages", "Data", OracleData>>, <<"pointer", "Pagination", PageResponse>> >>
QueryDataHistoryResponse_Unmarshal ==
    << <<"messages", "Data", OracleData>>, <<"pointer", "Pagination", PageResponse>> >>
QueryDataHistoryResponse ==
    Message(QueryDataHistoryResponse_Marshal, QueryDataHistoryResponse_Size, QueryDataHistoryResponse_Unmarshal)

QueryOracleRequest_Marshal == << <<\H0a, "bytes", "Address">> >>
QueryOracleRequest_Size == << <<"bytes", "Address">> >>
QueryOracleRequest_Unmarshal == << <<"string", "Address">> >>
QueryOracleRequest ==
    Message(QueryOracleRequest_Marshal, QueryOracleRequest_Size, QueryOracleRequest_Unmarshal)

QueryOracleResponse_Marshal == << <<\H0a, "message", "Oracle", OracleInfo>> >>
QueryOracleResponse_Size == << <<"message", "Oracle", OracleInfo>> >>
QueryOracleResponse_Unmarshal == << <<"message", "Oracle", OracleInfo>> >>
QueryOracleResponse ==
    Message(QueryOracleResponse_Marshal, QueryOracleResponse_Size, QueryOracleResponse_Unmarshal)

QueryAllOraclesRequest_Marshal == << <<\H0a, "pointer", "Pagination", PageRequest>> >>
QueryAllOraclesRequest_Size == << <<"pointer", "Pagination", PageRequest>> >>
QueryAllOraclesRequest_Unmarshal == << <<"pointer", "Pagination", PageRequest>> >>
QueryAllOraclesRequest ==
    Message(QueryAllOraclesRequest_Marshal, QueryAllOraclesRequest_Size, QueryAllOraclesRequest_Unmarshal)

QueryAllOraclesResponse_Marshal ==
    << <<\H12, "pointer", "Pagination", PageResponse>>,
       <<\H0a, "messages", "Oracles", OracleInfo>> >>
QueryAllOraclesResponse_Size ==
    << <<"messages", "Oracles", OracleInfo>>,
       <<"pointer", "Pagination", PageResponse>> >>
QueryAllOraclesResponse_Unmarshal ==
    << <<"messages", "Oracles", OracleInfo>>,
       <<"pointer", "Pagination", PageResponse>> >>
QueryAllOraclesResponse ==
    Message(QueryAllOraclesResponse_Marshal, QueryAllOraclesResponse_Size, QueryAllOraclesResponse_Unmarshal)

QueryParamsRequest_Unmarshal == <<>>
QueryParamsRequest == Message(<<>>, <<>>, QueryParamsRequest_Unmarshal)

QueryParamsResponse_Marshal == << <<\H0a, "message", "Params", Params>> >>
QueryParamsResponse_Size == << <<"message", "Params", Params>> >>
QueryParamsResponse_Unmarshal == << <<"message", "Params", Params>> >>
QueryParamsResponse ==
    Message(QueryParamsResponse_Marshal, QueryParamsResponse_Size, QueryParamsResponse_Unmarshal)
-----------------------------------------------------------------------------

\* Every message of the module, by name.
ByName ==
    [OracleData |-> OracleData, OracleInfo |-> OracleInfo, Params |-> Params,
     GenesisState |-> GenesisState, MsgSubmitData |-> MsgSubmitData,
     MsgSubmitDataResponse |-> MsgSubmitDataResponse, MsgAddOracle |-> MsgAddOracle,
     MsgAddOracleResponse |-> MsgAddOracleResponse, MsgRemoveOracle |-> MsgRemoveOracle,
     MsgRemoveOracleResponse |-> MsgRemoveOracleResponse,
     MsgUpdateParams |-> MsgUpdateParams,
     MsgUpdateParamsResponse |-> MsgUpdateParamsResponse,
     QueryLatestDataRequest |-> QueryLatestDataRequest,
     QueryLatestDataResponse |-> QueryLatestDataResponse,
     QueryDataHistoryRequest |-> QueryDataHistoryRequest,
     QueryDataHistoryResponse |-> QueryDataHistoryResponse,
     QueryOracleRequest |-> QueryOracleRequest,
     QueryOracleResponse |-> QueryOracleResponse,
     QueryAllOraclesRequest |-> QueryAllOraclesRequest,
     QueryAllOraclesResponse |-> QueryAllOraclesResponse,
     QueryParamsRequest |-> QueryParamsRequest,
     QueryParamsResponse |-> QueryParamsResponse]
=============================================================================
