-------------------------- MODULE MCTaskContainer --------------------------
(* TaskContainer for TLC. *)
EXTENDS TaskContainer
=============================================================================
