---------------------------- MODULE MCFrameEvents ----------------------------
(* A small instance of FrameEvents: task 100 on two containers. *)
EXTENDS FrameEvents, TLC

MCHosts == 100 :> <<1, 2>>

Cmd(kind, task, inst) == [kind |-> kind, task |-> task, inst |-> inst]

(* All tasks and the kernel, all instances of a task, one instance, the    *)
(* manager itself, and a task nobody registered.                           *)
MCCommands ==
  {Cmd("reload", 0, 0), Cmd("status", 100, 0), Cmd("set", 100, 2), Cmd("sclist", 0, 0),
   Cmd("status", 102, 0)}
=============================================================================
