--------------------------- MODULE TaskContainer ---------------------------
(***************************************************************************)
(* One container thread: TTaskContainer::process with its message queue    *)
(* (Fifo), its timers (TaskTimerQueue) and the task code it calls; if      *)
(* mWaitAtQueue is FALSE, the loop of a protocol-stack container           *)
(* (TPSAContainer, TPSAThread), which selects on its sockets first.        *)
(*                                                                         *)
(* Other threads add messages at any time (the queue is locked); the clock *)
(* runs between any two steps, so two readings of it in one pass differ.   *)
(* A timer is named by the order of its creation, which also names its     *)
(* para; what its creator holds is the key.                                *)
(***************************************************************************)
EXTENDS Integers, Sequences

CONSTANTS Kinds,         \* values of mWaitAtQueue: TRUE in TTaskContainer, FALSE in TPSAContainer
          WaitMS,        \* mWaitMS and XFRAME_TIMER_STEP_MAX, in ticks
          SelectMS,      \* the initial mSelectMS, in ticks
          KeyMax,        \* timer keys are 1..KeyMax (2^32 - 1 in the code)
          AdoptsPara,    \* onTimeOut puts para into a CStr of its own (nTransfer)
          Delays,        \* delays tasks ask for
          MaxTimers,     \* bound: timers set
          MaxMsgs,       \* bound: messages added
          MaxNow         \* bound: the clock

ASSUME ContainerAssumption ==
  /\ Kinds \subseteq BOOLEAN /\ AdoptsPara \in BOOLEAN
  /\ WaitMS \in Nat \ {0} /\ SelectMS \in Nat
  /\ KeyMax \in Nat \ {0} /\ MaxTimers \in Nat /\ MaxMsgs \in Nat /\ MaxNow \in Nat
  /\ Delays \subseteq Nat \ {0}

Ids == 1..MaxTimers
Keys == 1..KeyMax

(* What a Fifo<TMsg> of a container holds.  A message for a task that is   *)
(* not (or no longer) in mTaskList is a stray one.                         *)
TimeOutMsg(i) == [kind |-> "timeout", id |-> i]
TaskMsg(m)    == [kind |-> "task", id |-> m]
StrayMsg(m)   == [kind |-> "stray", id |-> m]
Msgs == {TimeOutMsg(i) : i \in Ids}
          \cup {TaskMsg(m) : m \in 1..MaxMsgs} \cup {StrayMsg(m) : m \in 1..MaxMsgs}
NoMsg == [kind |-> "none", id |-> 0]

VARIABLES
  now,        \* getTimeMs()
  mWaitAtQueue,  \* the kind of container, which its constructor sets
  pc,         \* where the thread is
  mark,       \* its local time: now in TimerQueue::process, nextstep, the end of a wait
  selectMS,   \* TPSAContainer::mSelectMS
  sock,       \* a socket is ready
  mTimers,    \* the priority queue
  when,       \* mWhen of each timer
  live,       \* keys in mTimerStoped (their value is TRUE: stop() is never called)
  mTimerKey,  \* the last key handed out
  key,        \* history: the key each timer got
  made,       \* history: timers created
  fifo, cur,  \* the message queue, the message being handled
  sent,       \* history: messages added
  fate,       \* history: what became of each timer
  cancelled,  \* history: timers their creator has cancelled
  clash,      \* history: timers whose key was handed out again while they were waiting
  freed       \* history: how often the para of each timer was deleted

clockVars == <<now, mWaitAtQueue>>
threadVars == <<pc, mark, selectMS, sock>>
timerVars == <<mTimers, when, live, mTimerKey, key, made, fate, cancelled, clash, freed>>
queueVars == <<fifo, cur, sent>>
vars == <<clockVars, threadVars, timerVars, queueVars>>

(* The queue, the keys and the thread keep their types: key 0 is never     *)
(* handed out (it means failure), and a timer waits, is queued, or is gone.*)
TypeOK ==
  /\ mWaitAtQueue \in BOOLEAN
  /\ now \in 0..MaxNow /\ mark \in Nat /\ selectMS \in 0..SelectMS /\ sock \in BOOLEAN
  /\ pc \in {"init", "build", "select", "sockets", "loop", "timers", "get", "wait", "block", "handle"}
  /\ mTimers \subseteq Ids /\ when \in [Ids -> Nat]
  /\ live \subseteq Keys /\ mTimerKey \in 0..KeyMax
  /\ made \in 0..MaxTimers /\ key \in [Ids -> 0..KeyMax]
  /\ \A i \in Ids : (i <= made) <=> (key[i] # 0)
  /\ fifo \in Seq(Msgs) /\ cur \in Msgs \cup {NoMsg} /\ sent \in 0..MaxMsgs
  /\ fate \in [Ids -> {"unset", "waiting", "queued", "handled", "dropped"}]
  /\ cancelled \subseteq Ids /\ clash \subseteq Ids
  /\ freed \in [Ids -> Nat]

(* Tasks are registered and their onInit runs before the thread starts. *)
Init ==
  /\ mWaitAtQueue \in Kinds
  /\ now = 0 /\ pc = "init" /\ mark = 0 /\ selectMS = SelectMS /\ sock = FALSE
  /\ mTimers = {} /\ when = [i \in Ids |-> 0] /\ live = {} /\ mTimerKey = 0
  /\ key = [i \in Ids |-> 0] /\ made = 0
  /\ fifo = <<>> /\ cur = NoMsg /\ sent = 0
  /\ fate = [i \in Ids |-> "unset"] /\ cancelled = {} /\ clash = {}
  /\ freed = [i \in Ids |-> 0]

----------------------------------------------------------------------------
(* Other threads and the clock *)

(* Fifo::add from the kernel thread. *)
Add(m) ==
  /\ sent < MaxMsgs /\ sent' = sent + 1
  /\ m \in {TaskMsg(sent'), StrayMsg(sent')}
  /\ fifo' = Append(fifo, m)
  /\ UNCHANGED <<clockVars, threadVars, timerVars, cur>>

SocketReady ==
  /\ ~mWaitAtQueue /\ ~sock
  /\ sock' = TRUE
  /\ UNCHANGED <<clockVars, pc, mark, selectMS, timerVars, queueVars>>

Tick ==
  /\ now < MaxNow /\ now' = now + 1
  /\ UNCHANGED <<mWaitAtQueue, threadVars, timerVars, queueVars>>

----------------------------------------------------------------------------
(* Task code: onInit, procMsg, onTimeOut, onCheckFDSet, in this thread *)

InTask == pc \in {"init", "sockets"} \/ (pc = "handle" /\ cur.kind # "stray")

NextKey == IF mTimerKey = KeyMax THEN 1 ELSE mTimerKey + 1

(* setTimer -> TaskTimerQueue::add, with a delay > 0.  put() makes the key *)
(* live, whether or not another timer has it.                              *)
SetTimer(d) ==
  /\ InTask /\ made < MaxTimers /\ now + d <= MaxNow
  /\ LET i == made + 1
     IN /\ made' = i
        /\ mTimerKey' = NextKey
        /\ key' = [key EXCEPT ![i] = NextKey]
        /\ mTimers' = mTimers \cup {i}
        /\ when' = [when EXCEPT ![i] = now + d]
        /\ fate' = [fate EXCEPT ![i] = "waiting"]
        /\ live' = live \cup {NextKey}
        /\ clash' = clash \cup
             (IF \E j \in mTimers : key[j] = NextKey
                THEN {i} \cup {j \in mTimers : key[j] = NextKey} ELSE {})
  /\ UNCHANGED <<clockVars, threadVars, queueVars, cancelled, freed>>

(* Slip: the key stays in mTimerStoped. *)
DelTimerKeepsKey(i) ==
  /\ InTask /\ i \in 1..made /\ i \notin cancelled
  /\ cancelled' = cancelled \cup {i}
  /\ clash' = clash \cup {j \in mTimers : j # i /\ key[j] = key[i]}
  /\ UNCHANGED <<clockVars, threadVars, queueVars, mTimers, when, live, mTimerKey, key, made, fate, freed>>

(* delTimer -> TaskTimerQueue::remove, by the key its creator kept, which  *)
(* may be called when the timer has long expired.                          *)
DelTimer(i) ==
  /\ InTask /\ i \in 1..made /\ i \notin cancelled
  /\ live' = live \ {key[i]}
  /\ cancelled' = cancelled \cup {i}
  /\ clash' = clash \cup {j \in mTimers : j # i /\ key[j] = key[i]}
  /\ UNCHANGED <<clockVars, threadVars, queueVars, mTimers, when, mTimerKey, key, made, fate, freed>>

LoopStart == IF mWaitAtQueue THEN "loop" ELSE "build"

InitDone ==
  /\ pc = "init" /\ pc' = LoopStart
  /\ UNCHANGED <<clockVars, mark, selectMS, sock, timerVars, queueVars>>

----------------------------------------------------------------------------
(* TPSAThread::process: select, then one pass of TTaskContainer::process *)

SelectStart ==
  /\ pc = "build" /\ pc' = "select"
  /\ mark' = now + selectMS
  /\ UNCHANGED <<clockVars, selectMS, sock, timerVars, queueVars>>

(* At the bound of the clock every limited wait is over. *)
Over(end) == now >= end \/ now = MaxNow

(* select(2) returns what is left of the time in the timeval it was given, *)
(* which here is the container's own mSelectMS.                            *)
SelectReturns ==
  /\ pc = "select"
  /\ sock \/ Over(mark)
  /\ selectMS' = IF now >= mark THEN 0 ELSE mark - now
  /\ pc' = IF sock THEN "sockets" ELSE "loop"
  /\ sock' = FALSE
  /\ UNCHANGED <<clockVars, mark, timerVars, queueVars>>

SocketsDone ==
  /\ pc = "sockets" /\ pc' = "loop"
  /\ UNCHANGED <<clockVars, mark, selectMS, sock, timerVars, queueVars>>

----------------------------------------------------------------------------
(* TTaskContainer::process *)

(* mTTQ->process(): TimerQueue::process reads the clock once, *)
ProcessStart ==
  /\ pc = "loop" /\ pc' = "timers"
  /\ mark' = now
  /\ UNCHANGED <<clockVars, selectMS, sock, timerVars, queueVars>>

(* Slip: the heap compares the wrong way round. *)
LatestFirst(i) == i \in mTimers /\ \A j \in mTimers : when[i] >= when[j]

Earliest(i) == i \in mTimers /\ \A j \in mTimers : when[i] <= when[j]

(* Slip: every due timer is queued, cancelled or not. *)
ProcessTimerAlways(i) ==
  /\ pc = "timers" /\ Earliest(i) /\ when[i] <= mark
  /\ mTimers' = mTimers \ {i}
  /\ live' = live \ {key[i]}
  /\ fifo' = Append(fifo, TimeOutMsg(i))
  /\ fate' = [fate EXCEPT ![i] = "queued"]
  /\ UNCHANGED <<clockVars, threadVars, when, mTimerKey, key, made, cancelled, clash, freed, cur, sent>>

(* Slip: the para of a cancelled timer is forgotten. *)
ProcessTimerLeaks(i) ==
  /\ pc = "timers" /\ Earliest(i) /\ when[i] <= mark
  /\ mTimers' = mTimers \ {i}
  /\ live' = live \ {key[i]}
  /\ fifo' = IF key[i] \in live THEN Append(fifo, TimeOutMsg(i)) ELSE fifo
  /\ fate' = [fate EXCEPT ![i] = IF key[i] \in live THEN "queued" ELSE "dropped"]
  /\ UNCHANGED <<clockVars, threadVars, when, mTimerKey, key, made, cancelled, clash, freed, cur, sent>>

(* and pops what is due, earliest first.  TaskTimerQueue::processTimer     *)
(* queues the timeout when the key is live, and deletes the para if not.   *)
ProcessTimer(i) ==
  /\ pc = "timers" /\ Earliest(i) /\ when[i] <= mark
  /\ mTimers' = mTimers \ {i}
  /\ live' = live \ {key[i]}
  /\ IF key[i] \in live
       THEN /\ fifo' = Append(fifo, TimeOutMsg(i))
            /\ fate' = [fate EXCEPT ![i] = "queued"]
            /\ UNCHANGED freed
       ELSE /\ freed' = [freed EXCEPT ![i] = @ + 1]
            /\ fate' = [fate EXCEPT ![i] = "dropped"]
            /\ UNCHANGED fifo
  /\ UNCHANGED <<clockVars, threadVars, when, mTimerKey, key, made, cancelled, clash, cur, sent>>

(* msTillNextTimer reads the clock again. *)
MsTillNextTimer ==
  IF mTimers = {} THEN {WaitMS}
  ELSE {IF now > when[i] THEN 0 ELSE when[i] - now : i \in {j \in mTimers : Earliest(j)}}

NextStep ==
  /\ pc = "timers" /\ \A i \in mTimers : when[i] > mark
  /\ pc' = "get"
  /\ \E ms \in MsTillNextTimer :
       mark' = IF ~mWaitAtQueue THEN 0 ELSE IF ms > WaitMS THEN WaitMS ELSE ms
  /\ UNCHANGED <<clockVars, selectMS, sock, timerVars, queueVars>>

(* AbstractFifo::getNext(int ms) on an empty queue: 0 is the getNext()     *)
(* that waits for a message however long it takes.                         *)
GetNext ==
  /\ pc = "get" /\ fifo = <<>>
  /\ IF mark = 0 THEN pc' = "block" /\ UNCHANGED mark
                 ELSE pc' = "wait" /\ mark' = now + mark
  /\ UNCHANGED <<clockVars, selectMS, sock, timerVars, queueVars>>

(* Slip: add() does not wake the wait without a limit. *)
TakeUnsignalled ==
  /\ pc \in {"get", "wait"} /\ fifo # <<>>
  /\ cur' = Head(fifo) /\ fifo' = Tail(fifo)
  /\ pc' = "handle"
  /\ UNCHANGED <<clockVars, mark, selectMS, sock, timerVars, sent>>

Take ==
  /\ pc \in {"get", "wait", "block"} /\ fifo # <<>>
  /\ cur' = Head(fifo) /\ fifo' = Tail(fifo)
  /\ pc' = "handle"
  /\ UNCHANGED <<clockVars, mark, selectMS, sock, timerVars, sent>>

(* Slip: a wait that timed out is started again. *)
WaitTimesOutAgain ==
  /\ pc = "wait" /\ Over(mark)
  /\ pc' = "get" /\ mark' = WaitMS
  /\ UNCHANGED <<clockVars, selectMS, sock, timerVars, queueVars>>

(* The wait may time out just as a message arrives, which the next pass    *)
(* finds.                                                                  *)
WaitTimesOut ==
  /\ pc = "wait" /\ Over(mark)
  /\ pc' = LoopStart
  /\ UNCHANGED <<clockVars, mark, selectMS, sock, timerVars, queueVars>>

(* The handler returns and the message is destroyed, a timeout with its    *)
(* para (~TTimeOutMsg).  A stray message is destroyed without a handler.   *)
Deletions == IF AdoptsPara THEN 2 ELSE 1

HandlerReturns ==
  /\ pc = "handle" /\ pc' = LoopStart
  /\ cur' = NoMsg
  /\ freed' = [i \in Ids |-> freed[i] + IF cur = TimeOutMsg(i) THEN Deletions ELSE 0]
  /\ fate' = [i \in Ids |-> IF cur = TimeOutMsg(i) THEN "handled" ELSE fate[i]]
  /\ UNCHANGED <<clockVars, mark, selectMS, sock, mTimers, when, live, mTimerKey, key,
                 made, cancelled, clash, fifo, sent>>

Environment == (\E m \in {TaskMsg(sent + 1), StrayMsg(sent + 1)} : Add(m)) \/ SocketReady \/ Tick

TaskStep == (\E d \in Delays : SetTimer(d)) \/ (\E i \in Ids : DelTimer(i))

ThreadStep ==
  \/ InitDone
  \/ SelectStart
  \/ SelectReturns
  \/ SocketsDone
  \/ ProcessStart
  \/ \E i \in Ids : ProcessTimer(i)
  \/ NextStep
  \/ GetNext
  \/ Take
  \/ WaitTimesOut
  \/ HandlerReturns

Next == Environment \/ TaskStep \/ ThreadStep

Spec == Init /\ [][Next]_vars

----------------------------------------------------------------------------
(* Safety *)

Queued(i) == {n \in 1..Len(fifo) : fifo[n] = TimeOutMsg(i)}

(* What becomes of a timer (TaskTimerQueue, setTimer, delTimer): unless    *)
(* its key was handed out again while it was in use, a timer that was not  *)
(* cancelled is waiting under a live key or has its timeout queued once or *)
(* handled; it is dropped only if it was cancelled.                        *)
TimerFate ==
  \A i \in (1..made) \ clash :
    /\ fate[i] = "waiting" => i \in mTimers /\ (key[i] \in live <=> i \notin cancelled)
    /\ fate[i] = "queued" => IF cur = TimeOutMsg(i) THEN Queued(i) = {}
                             ELSE \E n \in Queued(i) : Queued(i) = {n}
    /\ fate[i] = "dropped" => i \in cancelled

(* A timer cancelled while it waits is dropped when it is due, and its     *)
(* timeout is never queued (delTimer, processTimer).                       *)
CancelledNeverFires ==
  [][\A i \in (mTimers \cap cancelled) \ clash : fate'[i] \in {"waiting", "dropped"}]_vars

(* The para of a timer is deleted exactly once, by ~TTimeOutMsg after the  *)
(* handler or by processTimer for a cancelled timer (abstracttask.C 134),  *)
(* also when keys clash.                                                   *)
ParaFreedOnce ==
  \A i \in Ids : freed[i] = IF fate[i] \in {"handled", "dropped"} THEN 1 ELSE 0

(* Timeouts come out of the queue in the order of their expiry, whatever   *)
(* is set, cancelled or queued between two passes of the loop.             *)
TimeoutOrder ==
  \A m, n \in 1..Len(fifo) :
    m < n /\ fifo[m].kind = "timeout" /\ fifo[n].kind = "timeout"
      => when[fifo[m].id] <= when[fifo[n].id]

(* The inductive invariant behind these three, in parts. *)

(* Where each timer is; two waiting timers share a key only in a clash;    *)
(* a key is live exactly while its timer waits uncancelled.                *)
WaitingInv ==
  /\ cancelled \cup clash \subseteq 1..made
  /\ \A i \in Ids : fate[i] = "unset" <=> i > made
  /\ \A i \in Ids : i \in mTimers <=> fate[i] = "waiting"
  /\ \A i \in Ids \ clash : fate[i] = "dropped" => i \in cancelled
  /\ \A i, j \in mTimers : i # j /\ key[i] = key[j] => i \in clash
  /\ \A i \in mTimers \ clash : key[i] \in live <=> i \notin cancelled

(* A queued timer has one timeout, in the queue or being handled. *)
QueueInv ==
  /\ cur # NoMsg => pc = "handle"
  /\ \A i \in Ids : cur = TimeOutMsg(i) => fate[i] = "queued" /\ Queued(i) = {}
  /\ \A i \in Ids : \A m \in Queued(i) : fate[i] = "queued" /\ Queued(i) = {m}
  /\ \A i \in Ids : fate[i] = "queued" => cur = TimeOutMsg(i) \/ Queued(i) # {}

(* What is queued was due before anything that still waits. *)
OrderInv ==
  /\ pc = "timers" => mark <= now
  /\ pc = "select" => mark <= now + selectMS
  /\ \A i \in Ids : Queued(i) # {} => when[i] <= now /\ \A j \in mTimers : when[i] <= when[j]
  /\ TimeoutOrder

ParaInv == ~AdoptsPara => ParaFreedOnce

(* The inductive invariant: what TaskContainerProof proves. *)
IInv == TypeOK /\ WaitingInv /\ QueueInv /\ OrderInv /\ ParaInv

----------------------------------------------------------------------------
(* Liveness: the thread runs, the clock goes on.  Nothing is assumed of    *)
(* the threads that send messages, of the sockets or of the tasks.         *)
FairSpec == Spec /\ WF_vars(ThreadStep) /\ WF_vars(Tick)

InQueue(m) == TaskMsg(m) \in {fifo[n] : n \in 1..Len(fifo)}

(* A message added to the queue of a container is eventually handled       *)
(* (Fifo::add signals, the loop never stops).                              *)
MessagesAreHandled == \A m \in 1..MaxMsgs : InQueue(m) ~> (cur = TaskMsg(m))

BlockedForMessage == pc = "block" /\ fifo = <<>>

(* A timer expires or is dropped, unless the thread has gone into the wait *)
(* for a message that has no time limit.                                   *)
TimersExpireOrBlock ==
  \A i \in Ids : (fate[i] = "waiting") ~> (fate[i] # "waiting" \/ BlockedForMessage)

(* taskcontainer.C 124: the wait at the queue ends when the next timer     *)
(* is due, so every timer eventually expires or is dropped.                *)
TimersExpire == \A i \in Ids : (fate[i] = "waiting") ~> (fate[i] # "waiting")
=============================================================================
