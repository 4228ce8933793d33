--------------------------- MODULE MCTaskSelector ---------------------------
(* Small instances of TaskSelector.  Task 100 has several instances, task  *)
(* 101 one; task 0 is not registered.                                      *)
EXTENDS TaskSelector, TLC

MCHosts == (100 :> <<1, 2>>) @@ (101 :> <<1>>)

Msg(task, to, dialog, type, sess) ==
  [task |-> task, to |-> to, dialog |-> dialog, type |-> type, sess |-> sess]

(* Unicast, multicast and broadcast, with and without a container, a       *)
(* multicast for a task that is not registered among them.                 *)
MCPlain ==
  {Msg(100, to, "message", "other", None) : to \in {0, 9}}
    \cup {Msg(0, 0, "message", "other", None), Msg(101, 0, "message", "other", None),
          Msg(100, 0, "broadcast", "broadcast", None)}
    \cup {Msg(t, 0, "multicast", "multicast", None) : t \in {0, 100}}

(* Dialogs of a task with two instances. *)
MCDialogs ==
  {Msg(100, 0, d, "other", s) : d \in {"begin", "continue"}, s \in Sessions}

(* Dialogs, some begun on a named container that does not have the task. *)
MCNamed ==
  {Msg(101, to, "begin", "other", s) : to \in {0, 2}, s \in Sessions}
    \cup {Msg(101, 0, "continue", "other", s) : s \in Sessions}

=============================================================================
