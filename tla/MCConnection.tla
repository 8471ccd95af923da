---------------------------- MODULE MCConnection ----------------------------
(* Three threads on one connection: enough for a close() that meets a      *)
(* borrow, a clone and a live cursor, each of another thread, and for two  *)
(* calls of close() that meet.                                             *)
EXTENDS Connection

ThreadNames == {"t1", "t2", "t3"}
============================================================================
