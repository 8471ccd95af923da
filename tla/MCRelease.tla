----------------------------- MODULE MCRelease -----------------------------
(***************************************************************************)
(* The release model with a few commits and two versions to write.         *)
(***************************************************************************)
EXTENDS Release
MCDevVersions == 1 .. 2
============================================================================
