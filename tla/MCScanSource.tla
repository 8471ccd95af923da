---------------------------- MODULE MCScanSource ----------------------------
(* Five documents in batches of two, every predicate and every limit: the  *)
(* limit falls inside a batch, on its end and beyond the result, and a     *)
(* predicate may empty any batch.                                          *)
EXTENDS ScanSource
============================================================================
