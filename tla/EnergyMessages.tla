--------------------------- MODULE EnergyMessages ---------------------------
(***************************************************************************)
(* The protobuf messages of x/energy: attestations, batches, parameters.   *)
(*                                                                         *)
(* A table is the generated function it is named after (see WireMessage),  *)
(* which WireCodec runs.                                                   *)
(***************************************************************************)
EXTENDS WireMessage

-----------------------------------------------------------------------------
(* types.pb.go: stored records and parameters                              *)

EnergyData_Marshal ==
    << <<\H38, "varint", "Timestamp">>, <<\H30, "varint", "BlockHeight">>,
       <<\H2a, "bytes", "Metadata">>, <<\H22, "bytes", "DataHash">>,
       <<\H1a, "bytes", "Submitter">>, <<\H12, "bytes", "Category">>,
       <<\H0a, "bytes", "ID">> >>
EnergyData_Size ==
    << <<"bytes", "ID">>, <<"bytes", "Category">>, <<"bytes", "Submitter">>,
       <<"bytes", "DataHash">>, <<"bytes", "Metadata">>, <<"varint", "BlockHeight">>,
       <<"varint", "Timestamp">> >>
EnergyData_Unmarshal ==
    << <<"string", "ID">>, <<"string", "Category">>, <<"string", "Submitter">>,
       <<"string", "DataHash">>, <<"string", "Metadata">>, <<"int64", "BlockHeight">>,
       <<"int64", "Timestamp">> >>
EnergyData == Message(EnergyData_Marshal, EnergyData_Size, EnergyData_Unmarshal)

BatchSubmission_Marshal ==
    << <<\H30, "varint", "Timestamp">>, <<\H2a, "bytes", "MerkleRoot">>,
       <<\H20, "varint", "DataCount">>, <<\H1a, "bytes", "Category">>,
       <<\H12, "bytes", "Submitter">>, <<\H0a, "bytes", "ID">> >>
BatchSubmission_Size ==
    << <<"bytes", "ID">>, <<"bytes", "Submitter">>, <<"bytes", "Category">>,
       <<"varint", "DataCount">>, <<"bytes", "MerkleRoot">>,
       <<"varint", "Timestamp">> >>
BatchSubmission_Unmarshal ==
    << <<"string", "ID">>, <<"string", "Submitter">>, <<"string", "Category">>,
       <<"uint32", "DataCount">>, <<"string", "MerkleRoot">>,
       <<"int64", "Timestamp">> >>
BatchSubmission ==
    Message(BatchSubmission_Marshal, BatchSubmission_Size, BatchSubmission_Unmarshal)

Params_Marshal ==
    << <<\H28, "varint", "MaxSubmissionsPerBlockPerSubmitter">>,
       <<\H20, "varint", "MaxMetadataSize">>, <<\H18, "bool", "Permissionless">>,
       <<\H12, "strings", "AllowedSubmitters">>, <<\H08, "varint", "MaxBatchSize">> >>
Params_Size ==
    << <<"varint", "MaxBatchSize">>, <<"strings", "AllowedSubmitters">>,
       <<"bool", "Permissionless">>, <<"varint", "MaxMetadataSize">>,
       <<"varint", "MaxSubmissionsPerBlockPerSubmitter">> >>
Params_Unmarshal ==
    << <<"uint32", "MaxBatchSize">>, <<"strings", "AllowedSubmitters">>,
       <<"bool", "Permissionless">>, <<"uint32", "MaxMetadataSize">>,
       <<"uint32", "MaxSubmissionsPerBlockPerSubmitter">> >>
Params == Message(Params_Marshal, Params_Size, Params_Unmarshal)

BatchItem_Marshal == << <<\H12, "bytes", "Metadata">>, <<\H0a, "bytes", "DataHash">> >>
BatchItem_Size == << <<"bytes", "DataHash">>, <<"bytes", "Metadata">> >>
BatchItem_Unmarshal == << <<"string", "DataHash">>, <<"string", "Metadata">> >>
BatchItem == Message(BatchItem_Marshal, BatchItem_Size, BatchItem_Unmarshal)

-----------------------------------------------------------------------------
(* genesis.pb.go: the genesis file                                         *)

GenesisState_Marshal ==
    << <<\H20, "varint", "NextID">>, <<\H1a, "messages", "Batches", BatchSubmission>>,
       <<\H12, "messages", "DataRecords", EnergyData>>,
       <<\H0a, "message", "Params", Params>> >>
GenesisState_Size ==
    << <<"message", "Params", Params>>, <<"messages", "DataRecords", EnergyData>>,
       <<"messages", "Batches", BatchSubmission>>, <<"varint", "NextID">> >>
GenesisState_Unmarshal ==
    << <<"message", "Params", Params>>, <<"messages", "DataRecords", EnergyData>>,
       <<"messages", "Batches", BatchSubmission>>, <<"uint64", "NextID">> >>
GenesisState == Message(GenesisState_Marshal, GenesisState_Size, GenesisState_Unmarshal)

-----------------------------------------------------------------------------
(* tx.pb.go: messages of the Msg service                                   *)

MsgSubmitEnergyData_Marshal ==
    << <<\H22, "bytes", "Metadata">>, <<\H1a, "bytes", "DataHash">>,
       <<\H12, "bytes", "Category">>, <<\H0a, "bytes", "Submitter">> >>
MsgSubmitEnergyData_Size ==
    << <<"bytes", "Submitter">>, <<"bytes", "Category">>, <<"bytes", "DataHash">>,
       <<"bytes", "Metadata">> >>
MsgSubmitEnergyData_Unmarshal ==
    << <<"string", "Submitter">>, <<"string", "Category">>, <<"string", "DataHash">>,
       <<"string", "Metadata">> >>
MsgSubmitEnergyData ==
    Message(MsgSubmitEnergyData_Marshal, MsgSubmitEnergyData_Size, MsgSubmitEnergyData_Unmarshal)

MsgSubmitEnergyDataResponse_Marshal == << <<\H0a, "bytes", "ID">> >>
MsgSubmitEnergyDataResponse_Size == << <<"bytes", "ID">> >>
MsgSubmitEnergyDataResponse_Unmarshal == << <<"string", "ID">> >>
MsgSubmitEnergyDataResponse ==
    Message(MsgSubmitEnergyDataResponse_Marshal, MsgSubmitEnergyDataResponse_Size, MsgSubmitEnergyDataResponse_Unmarshal)

MsgBatchSubmit_Marshal ==
    << <<\H22, "bytes", "MerkleRoot">>, <<\H1a, "messages", "Items", BatchItem>>,
       <<\H12, "bytes", "Category">>, <<\H0a, "bytes", "Submitter">> >>
MsgBatchSubmit_Size ==
    << <<"bytes", "Submitter">>, <<"bytes", "Category">>,
       <<"messages", "Items", BatchItem>>, <<"bytes", "MerkleRoot">> >>
MsgBatchSubmit_Unmarshal ==
    << <<"string", "Submitter">>, <<"string", "Category">>,
       <<"messages", "Items", BatchItem>>, <<"string", "MerkleRoot">> >>
MsgBatchSubmit ==
    Message(MsgBatchSubmit_Marshal, MsgBatchSubmit_Size, MsgBatchSubmit_Unmarshal)

MsgBatchSubmitResponse_Marshal ==
    << <<\H10, "varint", "DataCount">>, <<\H0a, "bytes", "BatchID">> >>
MsgBatchSubmitResponse_Size == << <<"bytes", "BatchID">>, <<"varint", "DataCount">> >>
MsgBatchSubmitResponse_Unmarshal ==
    << <<"string", "BatchID">>, <<"uint32", "DataCount">> >>
MsgBatchSubmitResponse ==
    Message(MsgBatchSubmitResponse_Marshal, MsgBatchSubmitResponse_Size, MsgBatchSubmitResponse_Unmarshal)

MsgUpdateParams_Marshal ==
    << <<\H12, "message", "Params", Params>>, <<\H0a, "bytes", "Authority">> >>
MsgUpdateParams_Size == << <<"bytes", "Authority">>, <<"message", "Params", Params>> >>
MsgUpdateParams_Unmarshal ==
    << <<"string", "Authority">>, <<"message", "Params", Params>> >>
MsgUpdateParams ==
    Message(MsgUpdateParams_Marshal, MsgUpdateParams_Size, MsgUpdateParams_Unmarshal)

MsgUpdateParamsResponse_Unmarshal == <<>>
MsgUpdateParamsResponse == Message(<<>>, <<>>, MsgUpdateParamsResponse_Unmarshal)

-----------------------------------------------------------------------------
(* query.pb.go: messages of the Query service                              *)

QueryEnergyDataRequest_Marshal == << <<\H0a, "bytes", "ID">> >>
QueryEnergyDataRequest_Size == << <<"bytes", "ID">> >>
QueryEnergyDataRequest_Unmarshal == << <<"string", "ID">> >>
QueryEnergyDataRequest ==
    Message(QueryEnergyDataRequest_Marshal, QueryEnergyDataRequest_Size, QueryEnergyDataRequest_Unmarshal)

QueryEnergyDataResponse_Marshal == << <<\H0a, "message", "Data", EnergyData>> >>
QueryEnergyDataResponse_Size == << <<"message", "Data", EnergyData>> >>
QueryEnergyDataResponse_Unmarshal == << <<"message", "Data", EnergyData>> >>
QueryEnergyDataResponse ==
    Message(QueryEnergyDataResponse_Marshal, QueryEnergyDataResponse_Size, QueryEnergyDataResponse_Unmarshal)

QueryEnergyDataByCategoryRequest_Marshal ==
    << <<\H12, "pointer", "Pagination", PageRequest>>, <<\H0a, "bytes", "Category">> >>
QueryEnergyDataByCategoryRequest_Size ==
    << <<"bytes", "Category">>, <<"pointer", "Pagination", PageRequest>> >>
QueryEnergyDataByCategoryRequest_Unmarshal ==
    << <<"string", "Category">>, <<"pointer", "Pagination", PageRequest>> >>
QueryEnergyDataByCategoryRequest ==
    Message(QueryEnergyDataByCategoryRequest_Marshal, QueryEnergyDataByCategoryRequest_Size, QueryEnergyDataByCategoryRequest_Unmarshal)

QueryEnergyDataByCategoryResponse_Marshal ==
    << <<\H12, "pointer", "Pagination", PageResponse>>,
       <<\H0a, "messages", "Data", EnergyData>> >>
QueryEnergyDataByCategoryResponse_Size ==
    << <<"messages", "Data", EnergyData>>, <<"pointer", "Pagination", PageResponse>> >>
QueryEnergyDataByCategoryResponse_Unmarshal ==
    << <<"messages", "Data", EnergyData>>, <<"pointer", "Pagination", PageResponse>> >>
QueryEnergyDataByCategoryResponse ==
    Message(QueryEnergyDataByCategoryResponse_Marshal, QueryEnergyDataByCategoryResponse_Size, QueryEnergyDataByCategoryResponse_Unmarshal)

QueryEnergyDataBySubmitterRequest_Marshal ==
    << <<\H12, "pointer", "Pagination", PageRequest>>, <<\H0a, "bytes", "Submitter">> >>
QueryEnergyDataBySubmitterRequest_Size ==
    << <<"bytes", "Submitter">>, <<"pointer", "Pagination", PageRequest>> >>
QueryEnergyDataBySubmitterRequest_Unmarshal ==
    << <<"string", "Submitter">>, <<"pointer", "Pagination", PageRequest>> >>
QueryEnergyDataBySubmitterRequest ==
    Message(QueryEnergyDataBySubmitterRequest_Marshal, QueryEnergyDataBySubmitterRequest_Size, QueryEnergyDataBySubmitterRequest_Unmarshal)

QueryEnergyDataBySubmitterResponse_Marshal ==
    << <<\H12, "pointer", "Pagination", PageResponse>>,
       <<\H0a, "messages", "Data", EnergyData>> >>
QueryEnergyDataBySubmitterResponse_Size ==
    << <<"messages", "Data", EnergyData>>, <<"pointer", "Pagination", PageResponse>> >>
QueryEnergyDataBySubmitterResponse_Unmarshal ==
    << <<"messages", "Data", EnergyData>>, <<"pointer", "Pagination", PageResponse>> >>
QueryEnergyDataBySubmitterResponse ==
    Message(QueryEnergyDataBySubmitterResponse_Marshal, QueryEnergyDataBySubmitterResponse_Size, QueryEnergyDataBySubmitterResponse_Unmarshal)

QueryBatchRequest_Marshal == << <<\H0a, "bytes", "ID">> >>
QueryBatchRequest_Size == << <<"bytes", "ID">> >>
QueryBatchRequest_Unmarshal == << <<"string", "ID">> >>
QueryBatchRequest ==
    Message(QueryBatchRequest_Marshal, QueryBatchRequest_Size, QueryBatchRequest_Unmarshal)

QueryBatchResponse_Marshal == << <<\H0a, "message", "Batch", BatchSubmission>> >>
QueryBatchResponse_Size == << <<"message", "Batch", BatchSubmission>> >>
QueryBatchResponse_Unmarshal == << <<"message", "Batch", BatchSubmission>> >>
QueryBatchResponse ==
    Message(QueryBatchResponse_Marshal, QueryBatchResponse_Size, QueryBatchResponse_Unmarshal)

QueryParamsRequest_Unmarshal == <<>>
QueryParamsRequest == Message(<<>>, <<>>, QueryParamsRequest_Unmarshal)

QueryParamsResponse_Marshal == << <<\H0a, "message", "Params", Params>> >>
QueryParamsResponse_Size == << <<"message", "Params", Params>> >>
QueryParamsResponse_Unmarshal == << <<"message", "Params", Params>> >>
QueryParamsResponse ==
    Message(QueryParamsResponse_Marshal, QueryParamsResponse_Size, QueryParamsResponse_Unmarshal)
-----------------------------------------------------------------------------

\* Every message of the module, by name.
ByName ==
    [EnergyData |-> EnergyData, BatchSubmission |-> BatchSubmission, Params |-> Params,
     BatchItem |-> BatchItem, GenesisState |-> GenesisState,
     MsgSubmitEnergyData |-> MsgSubmitEnergyData,
     MsgSubmitEnergyDataResponse |-> MsgSubmitEnergyDataResponse,
     MsgBatchSubmit |-> MsgBatchSubmit,
     MsgBatchSubmitResponse |-> MsgBatchSubmitResponse,
     MsgUpdateParams |-> MsgUpdateParams,
     MsgUpdateParamsResponse |-> MsgUpdateParamsResponse,
     QueryEnergyDataRequest |-> QueryEnergyDataRequest,
     QueryEnergyDataResponse |-> QueryEnergyDataResponse,
     QueryEnergyDataByCategoryRequest |-> QueryEnergyDataByCategoryRequest,
     QueryEnergyDataByCategoryResponse |-> QueryEnergyDataByCategoryResponse,
     QueryEnergyDataBySubmitterRequest |-> QueryEnergyDataBySubmitterRequest,
     QueryEnergyDataBySubmitterResponse |-> QueryEnergyDataBySubmitterResponse,
     QueryBatchRequest |-> QueryBatchRequest, QueryBatchResponse |-> QueryBatchResponse,
     QueryParamsRequest |-> QueryParamsRequest,
     QueryParamsResponse |-> QueryParamsResponse]
=============================================================================
