--------------------------- MODULE MC_NodeServer ---------------------------
(* A small instance of NodeServer for TLC.                                 *)
EXTENDS NodeServer

\* The defaults with and without the indexer, query-only mode with everything
\* else enabled, JSON-RPC alone, no JSON-RPC, --cpu-profile, and
\* the application without CometBFT, with a profile.
Base == [WithCometBFT |-> TRUE, CPUProfile |-> FALSE, GRPCOnly |-> FALSE, API |-> TRUE,
         GRPC |-> TRUE, JSONRPC |-> TRUE, EnableIndexer |-> TRUE]
MCConfigs ==
    {Base,
     [Base EXCEPT !.EnableIndexer = FALSE],
     [Base EXCEPT !.GRPCOnly = TRUE, !.GRPC = FALSE],
     [Base EXCEPT !.API = FALSE, !.GRPC = FALSE],
     [Base EXCEPT !.JSONRPC = FALSE],
     [Base EXCEPT !.CPUProfile = TRUE],
     [Base EXCEPT !.WithCometBFT = FALSE, !.CPUProfile = TRUE]}
=============================================================================
