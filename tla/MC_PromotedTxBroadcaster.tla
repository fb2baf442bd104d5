---------------------- MODULE MC_PromotedTxBroadcaster ----------------------
(* A small instance of PromotedTxBroadcaster for TLC.                      *)
EXTENDS PromotedTxBroadcaster

CONSTANTS t1, t2, t3

\* A list that fills the queue, one that overflows it, one with a nil.
MCBatches == {<<t1, t2>>, <<t1, t2, t3>>, <<nil, t3>>}
=============================================================================
