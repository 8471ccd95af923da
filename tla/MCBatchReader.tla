--------------------------- MODULE MCBatchReader ---------------------------
(* Three threads on one reader of three documents in batches of two: full, *)
(* short and empty pulls, with one thread in the driver, one waiting for   *)
(* the mutex and one with the GIL.                                         *)
EXTENDS BatchReader

ThreadNames == {"t1", "t2", "t3"}
============================================================================
