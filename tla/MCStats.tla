------------------------------- MODULE MCStats -------------------------------
(***************************************************************************)
(* The statistics over the small instances of MCTaskQueue.                 *)
(***************************************************************************)
EXTENDS Stats, MCTaskQueue
=============================================================================
