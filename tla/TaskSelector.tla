---------------------------- MODULE TaskSelector ----------------------------
(***************************************************************************)
(* The kernel thread: TFRAMEControl::mainLoop takes a TUniNetMsg from its  *)
(* queue and TTaskSelector routes it to the queue of a container: to the   *)
(* container it names, to the instances of its task in turn, or to all.    *)
(*                                                                         *)
(* Containers and their tasks are registered before the threads start, so  *)
(* Hosts is a constant.  Any thread adds messages; containers take them    *)
(* concurrently.  The integer and the string table of sessions are used    *)
(* alike and are one table here.                                           *)
(***************************************************************************)
EXTENDS Integers, Sequences, Functions

CONSTANTS Containers,     \* container ids, positive
          Hosts,          \* task -> its instances: the containers, in order of registration
          Sessions,       \* session ids
          None,           \* no session id
          Inputs,         \* what senders send
          BalanceCountNumber,
          LivingTime,     \* of a session binding, in ticks of one second
          MaxWait,        \* bound: length of a container's queue as balanceCheck reads it
          MaxMsgs,        \* bound: messages sent
          MaxNow          \* bound: the clock

Tasks == DOMAIN Hosts
Ids == 1..MaxMsgs
Dialogs == {"message", "begin", "continue", "end", "broadcast", "multicast"}
MsgTypes == {"other", "broadcast", "multicast"}

(* tAddr.logAddr, the container in tAddr.phyAddr, dialogType, msgType and  *)
(* the session id of a message; task 0 stands for one not registered.      *)
Shapes == [task : Tasks \cup {0}, to : Nat, dialog : Dialogs, type : MsgTypes,
           sess : Sessions \cup {None}]

ASSUME SelectorAssumption ==
  /\ Containers \subseteq Nat \ {0} /\ Tasks \subseteq Nat \ {0}
  /\ \A t \in Tasks : Hosts[t] \in Seq(Containers) /\ Hosts[t] # <<>> /\ IsInjective(Hosts[t])
  /\ None \notin Sessions
  /\ Inputs \subseteq Shapes
  /\ BalanceCountNumber \in Nat /\ LivingTime \in Nat
  /\ MaxWait \in Nat /\ MaxMsgs \in Nat /\ MaxNow \in Nat

VARIABLES
  now,           \* time(0)
  mCurrentTime,  \* the kernel's copy, read at the top of its loop
  pc,            \* "top" or "get" (waiting at the queue)
  shutdown,      \* TFRAMEControl::shutdown
  mFifo,         \* the kernel's queue: message ids
  instpos, count, weight,  \* per task: TaskState::instpos, ::count, the weights of its instances
  load,          \* per task: InstState::count of its instances
  mDialog,       \* mIntDialog, mStrDialog: bindings, oldest first
  rx,            \* the queues of the containers
  shape,         \* history: what was sent
  got,           \* history: how often a container was given a copy of a message
  freed,         \* history: how often the kernel deleted the message
  lastUse,       \* history: when a session was last bound or looked up
  blocked        \* history: tasks an instance of which was ever blocked

kernelVars == <<mCurrentTime, pc>>
balanceVars == <<instpos, count, weight, load, blocked>>
dialogVars == <<mDialog, lastUse>>
vars == <<now, kernelVars, shutdown, mFifo, balanceVars, dialogVars, rx, shape, got, freed>>

Insts(t) == 1..Len(Hosts[t])
Hosted(t) == Range(Hosts[t])

Init ==
  /\ now = 0 /\ mCurrentTime = 0 /\ pc = "top" /\ shutdown = TRUE
  /\ mFifo = <<>> /\ shape = <<>>
  /\ instpos = [t \in Tasks |-> 0] /\ count = [t \in Tasks |-> 0]
  /\ weight = [t \in Tasks |-> [k \in Insts(t) |-> 0]]
  /\ load = [t \in Tasks |-> [k \in Insts(t) |-> 0]] /\ blocked = {}
  /\ mDialog = <<>> /\ lastUse = [s \in Sessions |-> 0]
  /\ rx = [c \in Containers |-> <<>>]
  /\ got = [m \in Ids |-> [c \in Containers |-> 0]] /\ freed = [m \in Ids |-> 0]

----------------------------------------------------------------------------
(* Senders, containers and the clock *)

(* TFRAMEControl::add from any thread. *)
Send(x) ==
  /\ Len(shape) < MaxMsgs
  /\ shape' = Append(shape, x)
  /\ mFifo' = Append(mFifo, Len(shape) + 1)
  /\ UNCHANGED <<now, kernelVars, shutdown, balanceVars, dialogVars, rx, got, freed>>

(* A container takes the first message of its queue. *)
Handle(c) ==
  /\ rx[c] # <<>>
  /\ rx' = [rx EXCEPT ![c] = Tail(@)]
  /\ UNCHANGED <<now, kernelVars, shutdown, mFifo, balanceVars, dialogVars, shape, got, freed>>

(* getNext(1000) waits one tick at most, and the rest of a pass takes less *)
(* than one.                                                               *)
Tick ==
  /\ now < MaxNow /\ now = mCurrentTime
  /\ now' = now + 1
  /\ UNCHANGED <<kernelVars, shutdown, mFifo, balanceVars, dialogVars, rx, shape, got, freed>>

----------------------------------------------------------------------------
(* TFRAMEControl::mainLoop *)

LoopTop ==
  /\ pc = "top" /\ pc' = "get"
  /\ mCurrentTime' = now
  /\ UNCHANGED <<now, shutdown, mFifo, balanceVars, dialogVars, rx, shape, got, freed>>

GetTimesOut ==
  /\ pc = "get" /\ mFifo = <<>> /\ now > mCurrentTime
  /\ pc' = "top"
  /\ UNCHANGED <<now, mCurrentTime, shutdown, mFifo, balanceVars, dialogVars, rx, shape, got, freed>>

(* KERNAL_APP_INIT, which is sent once. *)
OnInit ==
  /\ pc = "get" /\ shutdown
  /\ pc' = "top" /\ shutdown' = FALSE
  /\ UNCHANGED <<now, mCurrentTime, mFifo, balanceVars, dialogVars, rx, shape, got, freed>>

(* Slip: the waiting thread is woken by the first message only. *)
TakeFirstOnly == pc = "get" /\ Len(mFifo) = 1 /\ pc' = "top" /\ mFifo' = Tail(mFifo)

(* The message at the front, taken in this pass. *)
Take == pc = "get" /\ mFifo # <<>> /\ pc' = "top" /\ mFifo' = Tail(mFifo)

(* add(m) returned FALSE, or the frame is not started. *)
Free(m) == freed' = [freed EXCEPT ![m] = @ + 1]

(* Each container in C is given a copy of m (or m itself). *)
Give(m, C) ==
  /\ rx' = [c \in Containers |-> IF c \in C THEN Append(rx[c], m) ELSE rx[c]]
  /\ got' = [got EXCEPT ![m] = [c \in Containers |-> @[c] + IF c \in C THEN 1 ELSE 0]]

NotStarted(m) ==
  /\ shutdown /\ Free(m)
  /\ UNCHANGED <<balanceVars, dialogVars, rx, got>>

----------------------------------------------------------------------------
(* Sessions: a BEGIN binds its session to the container it goes to, and a  *)
(* later message of the session looks the binding up.                      *)

Bound(s) == \E i \in DOMAIN mDialog : mDialog[i].sess = s

(* A binding whose container does not host the task is of no use. *)
Found(s) == \E i \in DOMAIN mDialog : mDialog[i].sess = s /\ mDialog[i].tiid > 0

(* A session is bound once at most. *)
At(s) == CHOOSE i \in DOMAIN mDialog : mDialog[i].sess = s

(* Slip: the binding stays where it is. *)
RefreshedInPlace(s) ==
  IF Found(s) THEN [mDialog EXCEPT ![At(s)].at = mCurrentTime] ELSE mDialog

(* Slip: the binding is not updated. *)
NotRefreshed(s) == mDialog

(* update(sid, mCurrentTime) of a binding found moves it to the end. *)
Refreshed(s) ==
  LET k == At(s)
  IN IF Found(s)
       THEN Append(SubSeq(mDialog, 1, k - 1) \o SubSeq(mDialog, k + 1, Len(mDialog)),
                   [mDialog[k] EXCEPT !.at = mCurrentTime])
       ELSE mDialog

Expired(b) == mCurrentTime - b.at > LivingTime

(* pop_old: from the front, as long as the front is too old. *)
PopOld(d) ==
  \E k \in 1..Len(d) + 1 :
    /\ \A i \in 1..k - 1 : Expired(d[i])
    /\ k <= Len(d) => ~Expired(d[k])
    /\ mDialog' = SubSeq(d, k, Len(d))

LooksUp(x) == x.dialog # "begin" /\ x.to = 0 /\ x.sess # None

(* CExpireBuffer::push keeps the binding it has.  The sender leaves        *)
(* taskInstID 0; genTaskInst gives 1, or 0 if the task is not there.       *)
Binds(x) == x.dialog = "begin" /\ x.sess # None /\ ~Bound(x.sess)

Binding(x, c) ==
  [sess |-> x.sess, tcid |-> c, tiid |-> IF c \in Hosted(x.task) THEN 1 ELSE 0, at |-> now]

(* The tables after sendMsgToTask has found container c (0: none) for x. *)
DialogStep(x, c) ==
  CASE LooksUp(x) -> /\ PopOld(Refreshed(x.sess))
                     /\ lastUse' = IF Found(x.sess) THEN [lastUse EXCEPT ![x.sess] = now] ELSE lastUse
    [] Binds(x) /\ c # 0 -> /\ mDialog' = Append(mDialog, Binding(x, c))
                            /\ lastUse' = [lastUse EXCEPT ![x.sess] = now]
    [] OTHER -> UNCHANGED dialogVars

----------------------------------------------------------------------------
(* TTaskSelector::add *)

(* getTask with a container id does not ask whether the task is there. *)
ToNamed(m, x) ==
  /\ x.to # 0
  /\ IF x.to \in Containers
       THEN Give(m, {x.to}) /\ DialogStep(x, x.to) /\ UNCHANGED freed
       ELSE Free(m) /\ DialogStep(x, 0) /\ UNCHANGED <<rx, got>>
  /\ UNCHANGED balanceVars

ToOnlyInst(m, x) ==
  /\ x.to = 0 /\ Len(Hosts[x.task]) = 1
  /\ Give(m, {Hosts[x.task][1]}) /\ DialogStep(x, Hosts[x.task][1])
  /\ UNCHANGED <<balanceVars, freed>>

(* Slip: no margin above the average. *)
BalanceCheckStrict(t) ==
  \E wait \in [Insts(t) -> 0..MaxWait] :
    weight' = [weight EXCEPT ![t] =
      [k \in Insts(t) |-> IF wait[k] >= SumFunction(wait) \div Len(Hosts[t]) THEN 1 ELSE 0]]

(* balanceCheck reads the lengths of queues that their containers are      *)
(* emptying, and blocks an instance that is far above the average.  It     *)
(* adds them up as UINTs, which do not wrap around below MaxWait.          *)
BalanceCheck(t) ==
  \E wait \in [Insts(t) -> 0..MaxWait] :
    weight' = [weight EXCEPT ![t] =
      [k \in Insts(t) |-> IF wait[k] > SumFunction(wait) \div Len(Hosts[t]) + BalanceCountNumber
                            THEN 1 ELSE 0]]

(* The position j steps after the last chosen one, and the steps that lead *)
(* to an instance that is not blocked.                                     *)
After(t, j) ==
  LET p == instpos[t] + j
  IN IF p >= Len(Hosts[t]) THEN p - Len(Hosts[t]) ELSE p
Open(t) == {j \in Insts(t) : weight[t][After(t, j) + 1] = 0}

(* Slip: the position is not kept. *)
ChooseFromFirst(t, j) ==
  /\ load' = [load EXCEPT ![t][After(t, j) + 1] = @ + 1]
  /\ UNCHANGED <<instpos, weight, count, blocked>>

Choose(t, j) ==
  /\ instpos' = [instpos EXCEPT ![t] = After(t, j)]
  /\ load' = [load EXCEPT ![t][After(t, j) + 1] = @ + 1]
  /\ IF count[t] + 1 > Len(Hosts[t]) * BalanceCountNumber
       THEN BalanceCheck(t) /\ count' = [count EXCEPT ![t] = 0]
       ELSE UNCHANGED weight /\ count' = [count EXCEPT ![t] = @ + 1]
  /\ blocked' = blocked \cup {u \in Tasks : \E k \in Insts(u) : weight'[u][k] = 1}

(* The message is refused if every instance is blocked. *)
ToNextInst(m, x) ==
  LET t == x.task
  IN /\ x.to = 0 /\ Len(Hosts[t]) > 1
     /\ \/ \E j \in Open(t) :
             LET c == Hosts[t][After(t, j) + 1]
             IN /\ \A i \in Open(t) : j <= i
                /\ Choose(t, j) /\ Give(m, {c}) /\ DialogStep(x, c) /\ UNCHANGED freed
        \/ /\ Open(t) = {} /\ Free(m) /\ DialogStep(x, 0)
           /\ UNCHANGED <<balanceVars, rx, got>>

SendMsgToTask(m, x) ==
  IF x.task \in Tasks
    THEN ToNamed(m, x) \/ ToOnlyInst(m, x) \/ ToNextInst(m, x)
    ELSE Free(m) /\ UNCHANGED <<balanceVars, dialogVars, rx, got>>

(* Slip: the original is not deleted. *)
MulticastLeaks(m, x) ==
  /\ x.task \in Tasks /\ Give(m, Hosted(x.task))
  /\ UNCHANGED <<freed, balanceVars, dialogVars>>

(* Clones to all instances; the original is deleted here, and once more by *)
(* mainLoop when the task is not registered.                               *)
MulticastMsgToTask(m, x) ==
  /\ IF x.task \in Tasks
       THEN /\ Give(m, Hosted(x.task)) /\ Free(m)
            /\ load' = [load EXCEPT ![x.task] = [k \in DOMAIN @ |-> @[k] + 1]]
       ELSE /\ freed' = [freed EXCEPT ![m] = @ + 2]
            /\ UNCHANGED <<load, rx, got>>
  /\ UNCHANGED <<instpos, count, weight, blocked, dialogVars>>

BroadcastMsgToTask(m) ==
  /\ Give(m, Containers) /\ Free(m)
  /\ UNCHANGED <<balanceVars, dialogVars>>

(* add() switches on msgType. *)
Add(m, x) ==
  /\ ~shutdown
  /\ CASE x.type = "broadcast" -> BroadcastMsgToTask(m)
       [] x.type = "multicast" -> MulticastMsgToTask(m, x)
       [] OTHER -> SendMsgToTask(m, x)

Route ==
  /\ Take
  /\ \E m \in {Head(mFifo)} : NotStarted(m) \/ \E x \in {shape[m]} : Add(m, x)
  /\ UNCHANGED <<now, mCurrentTime, shutdown, shape>>

Next ==
  \/ \E x \in Inputs : Send(x)
  \/ \E c \in Containers : Handle(c)
  \/ Tick
  \/ LoopTop
  \/ GetTimesOut
  \/ OnInit
  \/ Route

Spec == Init /\ [][Next]_vars

(* The kernel thread keeps running, and so does each container's.  INIT is *)
(* one more message in the kernel's queue.                                 *)
Fairness ==
  /\ WF_vars(LoopTop \/ OnInit \/ Route)
  /\ \A c \in Containers : WF_vars(Handle(c))

FairSpec == Spec /\ Fairness

----------------------------------------------------------------------------
(* Properties *)

Receivers(m) == {c \in Containers : got[m][c] > 0}
Routed == {m \in 1..Len(shape) : m \notin Range(mFifo)}
Routing(m) == m \in Range(mFifo) /\ m \notin Range(mFifo')

(* multicastMsgToTask deletes a message for a task that is not registered  *)
(* and reports failure all the same, on which mainLoop deletes it again.   *)
StrayMulticast(m) == shape[m].type = "multicast" /\ shape[m].task \notin Tasks

(* A message that has left the kernel's queue has one owner: it was handed *)
(* to one container and not deleted, or it was deleted once, and then each *)
(* instance (multicast) or each container (broadcast) has one copy, or     *)
(* nobody has.  The exception is a stray multicast: nobody has it, and how *)
(* often it is deleted is left open, since mainLoop and the selector both  *)
(* delete it.  No other message do both of them delete.                    *)
MsgHasOneOwner ==
  /\ \A m \in Ids \ Routed : freed[m] = 0 /\ Receivers(m) = {}
  /\ \A m \in Routed :
       /\ \A c \in Containers : got[m][c] <= 1
       /\ IF shape[m].type = "other"
            THEN \/ freed[m] = 0 /\ \E c \in Containers : Receivers(m) = {c}
                 \/ freed[m] = 1 /\ Receivers(m) = {}
            ELSE /\ freed[m] = 1 \/ StrayMulticast(m)
                 /\ \/ Receivers(m) = {}
                    \/ shape[m].type = "broadcast" /\ Receivers(m) = Containers
                    \/ /\ shape[m].type = "multicast" /\ shape[m].task \in Tasks
                       /\ Receivers(m) = Hosted(shape[m].task)

(* Once started, the kernel gives every message for a registered task that *)
(* names no container to somebody: balanceCheck never blocks all instances *)
(* of a task, whichever lengths up to MaxWait it reads of the queues, as   *)
(* long as their sum is a UINT's.  (waitCount has no return statement: of  *)
(* lengths that are no lengths at all this says nothing.)                  *)
RegisteredIsDelivered ==
  [][\A m \in Ids : Routing(m) /\ ~shutdown /\ shape[m].task \in Tasks /\ shape[m].to = 0
                        => \E c \in Containers : got'[m][c] > 0]_vars

(* As long as no instance of a task was blocked, getTask and the multicast *)
(* have chosen all its instances equally often, give or take one.          *)
LoadIsEven ==
  \A t \in Tasks \ blocked : \A j, k \in Insts(t) : load[t][j] - load[t][k] <= 1

(* A session's binding is dropped only when the session was not used for   *)
(* its living time: a message of it in between keeps it.                   *)
BindingIsKept ==
  [][\A s \in Sessions : Found(s) /\ ~Found(s)' => now - lastUse[s] >= LivingTime]_vars

(* When sendMsgToTask has looked a session up, no expired binding is left  *)
(* in the table, though pop_old stops at the first that is not: the order  *)
(* of the list is the order of expiry, also when bindings are pushed with  *)
(* time(0) and refreshed with the kernel's older copy of it.               *)
ExpiredArePruned ==
  [][\A m \in Ids : /\ Routing(m) /\ ~shutdown /\ shape[m].task \in Tasks
                    /\ shape[m].type = "other" /\ LooksUp(shape[m])
                    => \A i \in DOMAIN mDialog' : ~Expired(mDialog'[i])]_vars

(* Every message sent is routed, and every copy of it taken by a container. *)
MessagesAreRouted ==
  \A m \in Ids : m <= Len(shape) ~> m \in Routed /\ \A c \in Containers : m \notin Range(rx[c])

(* readme.txt, r262: a later message that carries the session id and no    *)
(* instance goes to the instance of the first.  getTask is called with the *)
(* container id of before the lookup.                                      *)
SessionAffinity ==
  [][\A m \in Ids : \A i \in DOMAIN mDialog :
       /\ Routing(m) /\ ~shutdown /\ shape[m].task \in Tasks /\ LooksUp(shape[m])
       /\ mDialog[i].sess = shape[m].sess /\ mDialog[i].tiid > 0
       => got'[m][mDialog[i].tcid] = 1]_vars
=============================================================================
