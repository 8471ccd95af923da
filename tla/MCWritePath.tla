---------------------------- MODULE MCWritePath ----------------------------
(* Two calls on one connection: an eager write of three rows in batches of *)
(* two, so that its last batch is short, and a sink of two rows whose      *)
(* frames the engine cuts as it likes.                                     *)
EXTENDS WritePath, TLC

CONSTANTS eager, lazy   \* the two calls

MCWriters == {eager, lazy}
MCSinks == {lazy}
MCHeight == (eager :> 3) @@ (lazy :> 2)
MCBatchSize == (eager :> 2) @@ (lazy :> 1)
============================================================================
