----------------------------- MODULE FrameEvents -----------------------------
(***************************************************************************)
(* Commands of the operator: a datagram reaches TFRAMEManager::Run, becomes *)
(* a TEventMsg, goes through TFRAMEControl and TTaskSelector::addEvent to  *)
(* containers, and each task asked posts an answer to the manager's queue, *)
(* which the manager sends to the client it heard of last.  The manager,   *)
(* the kernel and each container are threads of their own.                 *)
(*                                                                         *)
(* The transID of an event is its position in `asked'; position 1 is INIT. *)
(***************************************************************************)
EXTENDS Integers, Sequences, Functions

CONSTANTS Clients,      \* command clients
          None,         \* no client
          Containers,   \* container ids, positive
          Hosts,        \* task -> its containers, in order of registration
          Commands,     \* what clients send
          MaxCmds       \* bound: commands sent

Tasks == DOMAIN Hosts
FRAMECONTROL == 2
TASKSELECTOR == 3
TASKCONTAINER == 4

(* A RELOAD that is "set ...", any other RELOAD, a STATUES that is         *)
(* "sclist", any other STATUES.                                            *)
Kinds == {"set", "reload", "sclist", "status"}

ASSUME EventsAssumption ==
  /\ None \notin Clients
  /\ Containers \subseteq Nat \ {0}
  /\ Tasks \subseteq Nat \ (0..TASKCONTAINER)
  /\ \A t \in Tasks : Hosts[t] \in Seq(Containers) /\ Hosts[t] # <<>>
  /\ \A x \in Commands : x.kind \in Kinds /\ x.task \in Nat /\ x.inst \in Nat
  /\ MaxCmds \in Nat

VARIABLES
  pc,       \* the manager: "start", "get" (at its queue), "recv" (at the socket)
  sock,     \* datagrams not yet received
  peer,     \* CUDPSocket::m_clientAddr
  mng,      \* TFRAMEManager::mFifo
  mFifo,    \* TFRAMEControl::mFifo: transaction ids
  rx,       \* the containers' queues: transaction ids
  todo,     \* per container: answers it has still to post for the event it handles
  asked,    \* history: the commands by transID
  answers   \* history: what the manager did with each answer, in order

vars == <<pc, sock, peer, mng, mFifo, rx, todo, asked, answers>>

HostedBy(c) == {t \in Tasks : c \in Range(Hosts[t])}
INIT == [client |-> None, kind |-> "init", task |-> 0, inst |-> 0]

(* An answer: the command, the sender and whether it went well (1 or 2). *)
Answer(n, task, inst, status) == [trans |-> n, task |-> task, inst |-> inst, status |-> status]

(* A request of the manager itself. *)
Request(n) == Answer(n, 0, 0, 0)

Init ==
  /\ pc = "start" /\ sock = <<>> /\ peer = None
  /\ mng = <<>> /\ mFifo = <<>>
  /\ rx = [c \in Containers |-> <<>>] /\ todo = [c \in Containers |-> {}]
  /\ asked = <<>> /\ answers = <<>>

----------------------------------------------------------------------------
(* TFRAMEManager::Run *)

Ask(k, x) ==
  /\ Len(sock) + Len(asked) <= MaxCmds /\ pc # "start"
  /\ sock' = Append(sock, [client |-> k, kind |-> x.kind, task |-> x.task, inst |-> x.inst])
  /\ UNCHANGED <<pc, peer, mng, mFifo, rx, todo, asked, answers>>

Start ==
  /\ pc = "start" /\ pc' = "get"
  /\ asked' = <<INIT>> /\ mFifo' = <<1>>
  /\ UNCHANGED <<sock, peer, mng, rx, todo, answers>>

(* Answers to INIT are only logged. *)
Reply(e) ==
  answers' = Append(answers, [event |-> e, to |-> IF asked[e.trans].kind = "init" THEN None ELSE peer])

(* A request is for the kernel, but sclist is answered here. *)
MngGet ==
  /\ pc = "get" /\ mng # <<>> /\ pc' = "recv"
  /\ mng' = Tail(mng)
  /\ LET e == Head(mng)
     IN IF e.status > 0 \/ asked[e.trans].kind = "sclist"
          THEN Reply(e) /\ UNCHANGED mFifo
          ELSE mFifo' = Append(mFifo, e.trans) /\ UNCHANGED answers
  /\ UNCHANGED <<sock, peer, rx, todo, asked>>

(* Slip: the wait at the queue has no limit. *)
MngWaitsOn == pc = "get" /\ mng = <<>> /\ UNCHANGED vars

(* getNext waits a second at most. *)
MngTimesOut ==
  /\ pc = "get" /\ mng = <<>> /\ pc' = "recv"
  /\ UNCHANGED <<sock, peer, mng, mFifo, rx, todo, asked, answers>>

(* Slip: the first client's address is kept. *)
MngRecvKeepsPeer ==
  /\ pc = "recv" /\ pc' = "get"
  /\ IF sock = <<>>
       THEN UNCHANGED <<sock, peer, mng, asked>>
       ELSE /\ sock' = Tail(sock) /\ peer' = IF peer = None THEN Head(sock).client ELSE peer
            /\ asked' = Append(asked, Head(sock))
            /\ mng' = Append(mng, Request(Len(asked) + 1))
  /\ UNCHANGED <<mFifo, rx, todo, answers>>

(* recvCode does not wait. *)
MngRecv ==
  /\ pc = "recv" /\ pc' = "get"
  /\ IF sock = <<>>
       THEN UNCHANGED <<sock, peer, mng, asked>>
       ELSE /\ sock' = Tail(sock) /\ peer' = Head(sock).client
            /\ asked' = Append(asked, Head(sock))
            /\ mng' = Append(mng, Request(Len(asked) + 1))
  /\ UNCHANGED <<mFifo, rx, todo, answers>>

----------------------------------------------------------------------------
(* TFRAMEControl::mainLoop for an event, and TTaskSelector::addEvent *)

Local(x) == x.inst = 0 /\ x.task \in {0, FRAMECONTROL, TASKSELECTOR}
Forwarded(x) == x.task = 0 \/ x.task >= TASKSELECTOR

(* Slip: only the first instance of a task. *)
FirstTarget(x) ==
  CASE x.inst > 0 -> {x.inst} \cap Containers
    [] x.inst = 0 /\ x.task \in Tasks -> {Hosts[x.task][1]}
    [] OTHER -> IF x.task = 0 THEN Containers ELSE {}

(* Slip: the instance is not looked at. *)
TargetsOfTask(x) ==
  IF x.task \in Tasks THEN Range(Hosts[x.task]) ELSE IF x.task = 0 THEN Containers ELSE {}

(* The containers that get the event.  One that is named need not have the *)
(* task.                                                                   *)
Targets(x) ==
  CASE x.inst > 0 -> {x.inst} \cap Containers
    [] x.inst = 0 /\ x.task \in Tasks -> Range(Hosts[x.task])
    [] OTHER -> IF x.task = 0 THEN Containers ELSE {}

(* The kernel's own answer, and the refusal when nobody is found. *)
Kernel ==
  /\ mFifo # <<>>
  /\ LET n == Head(mFifo)
         x == asked[n]
         to == IF Forwarded(x) THEN Targets(x) ELSE {}
         own == IF Local(x) THEN <<Answer(n, FRAMECONTROL, 0, 1)>> ELSE <<>>
         refusal == IF Forwarded(x) /\ to = {} THEN <<Answer(n, FRAMECONTROL, 0, 2)>> ELSE <<>>
     IN /\ mng' = mng \o own \o refusal
        /\ rx' = [c \in Containers |-> IF c \in to THEN Append(rx[c], n) ELSE rx[c]]
  /\ mFifo' = Tail(mFifo)
  /\ UNCHANGED <<pc, sock, peer, todo, asked, answers>>

----------------------------------------------------------------------------
(* TTaskContainer::process for an event *)

(* Who answers at container c: the container itself, the task named if it  *)
(* is there, or every task.                                                *)
Answering(c, x) ==
  CASE x.kind = "set" -> {TASKCONTAINER}
    [] x.kind # "set" /\ x.task > 0 -> {x.task} \cap HostedBy(c)
    [] OTHER -> HostedBy(c)

(* Slip: the newest event first. *)
TakeNewest(c) ==
  /\ rx[c] # <<>> /\ todo[c] = {}
  /\ LET n == rx[c][Len(rx[c])]
     IN todo' = [todo EXCEPT ![c] = {Answer(n, t, c, 1) : t \in Answering(c, asked[n])}]
  /\ rx' = [rx EXCEPT ![c] = SubSeq(@, 1, Len(@) - 1)]
  /\ UNCHANGED <<pc, sock, peer, mng, mFifo, asked, answers>>

Take(c) ==
  /\ rx[c] # <<>> /\ todo[c] = {}
  /\ LET n == Head(rx[c])
     IN todo' = [todo EXCEPT ![c] = {Answer(n, t, c, 1) : t \in Answering(c, asked[n])}]
  /\ rx' = [rx EXCEPT ![c] = Tail(@)]
  /\ UNCHANGED <<pc, sock, peer, mng, mFifo, asked, answers>>

(* In the order of the tasks' ids. *)
Post(c) ==
  /\ \E e \in todo[c] :
       /\ \A f \in todo[c] : e.task <= f.task
       /\ mng' = Append(mng, e)
       /\ todo' = [todo EXCEPT ![c] = @ \ {e}]
  /\ UNCHANGED <<pc, sock, peer, mFifo, rx, asked, answers>>

Manager == Start \/ MngGet \/ MngTimesOut \/ MngRecv

Next ==
  \/ \E k \in Clients, x \in Commands : Ask(k, x)
  \/ Manager
  \/ Kernel
  \/ \E c \in Containers : Take(c) \/ Post(c)

Spec == Init /\ [][Next]_vars

(* Every thread keeps running. *)
Fairness ==
  /\ WF_vars(Manager) /\ WF_vars(Kernel)
  /\ \A c \in Containers : WF_vars(Take(c) \/ Post(c))

FairSpec == Spec /\ Fairness

----------------------------------------------------------------------------
(* Properties *)

Quiet ==
  /\ pc # "start" /\ sock = <<>> /\ mng = <<>> /\ mFifo = <<>>
  /\ \A c \in Containers : rx[c] = <<>> /\ todo[c] = {}

Answered(n, task, inst) ==
  \E i \in DOMAIN answers : LET e == answers[i].event
                            IN e.trans = n /\ e.task = task /\ e.inst = inst

(* Task t on container c is asked by x. *)
Asks(x, t, c) == x.task \in {0, t} /\ x.inst \in {0, c} /\ c \in Range(Hosts[t])

AllAnswered(n) ==
  LET x == asked[n]
  IN CASE x.kind = "sclist" -> Answered(n, 0, 0)
       [] x.kind # "sclist" /\ Local(x) /\ ~Answered(n, FRAMECONTROL, 0) -> FALSE
       [] OTHER -> \A t \in Tasks : \A c \in Range(Hosts[t]) :
                     Asks(x, t, c) => Answered(n, IF x.kind = "set" THEN TASKCONTAINER ELSE t, c)

(* No task answers a command twice and none answers that was not asked,    *)
(* though an event is cloned by the selector and fanned out again by the   *)
(* containers.                                                             *)
AnswersAreAskedFor ==
  \A i \in DOMAIN answers :
    LET e == answers[i].event
        x == asked[e.trans]
    IN e.inst > 0 =>
         /\ \A j \in DOMAIN answers \ {i} :
              LET f == answers[j].event
              IN <<f.trans, f.task, f.inst>> # <<e.trans, e.task, e.inst>>
         /\ IF x.kind = "set" THEN x.inst \in {0, e.inst} ELSE Asks(x, e.task, e.inst)

(* When no thread has work left, every task that a command asked, and the  *)
(* kernel if it was asked, has answered it; INIT is a command like others. *)
QuietMeansAnswered == Quiet => \A n \in DOMAIN asked : AllAnswered(n)

(* The answers of one sender leave in the order of the commands.           *)
AnswersInOrder ==
  \A i, j \in DOMAIN answers :
    LET e == answers[i].event
        f == answers[j].event
    IN i < j /\ e.task = f.task /\ e.inst = f.inst => e.trans <= f.trans

(* An answer goes to the client that asked, or to one whose command was    *)
(* received later; never to an earlier client.                             *)
AnswerNotToEarlierClient ==
  \A i \in DOMAIN answers :
    asked[answers[i].event.trans].kind # "init" =>
      \E n \in answers[i].event.trans..Len(asked) : answers[i].to = asked[n].client

(* Every command sent is eventually received and answered by all it asks.  *)
CommandsAreAnswered ==
  \A n \in 1..MaxCmds + 1 :
    Len(sock) + Len(asked) >= n ~> n \in DOMAIN asked /\ AllAnswered(n)
=============================================================================
