# A TLA+ model of xframe

xframe (`src/xframe`) is a C++ framework in which *tasks* exchange messages
inside one process and, through protocol adaptors, with other processes.
This directory holds TLA+ models of its parts, TLC configurations that check them
on small instances, and TLAPS proofs of the most important properties for every
value of the constants. Paths below are relative to `src/xframe`.

## 1. The system

### Threads and queues

Every thread owns a `Fifo<TMsg>`; threads interact only by adding messages to each
other's queues (and, for adaptors, through sockets).

| thread | code | state | takes from its queue |
|---|---|---|---|
| manager (main) | `framemng.C` | `mFifo`, a UDP socket, the last client's address | requests and answers to commands |
| kernel | `kernel/framectrl.C`, `kernel/taskselector.C` | lists of containers, tasks and instances, session tables, round-robin positions and weights | every `TUniNetMsg` between tasks, every event |
| container (one per `TaskThread` / `TPSAThread`) | `task/taskcontainer.C`, `task/psacontainer.C`, `kernel/timerqueue.C` | its tasks, a timer queue, for protocol stacks an fd set and `mSelectMS` | messages, timeouts and events for its tasks |
| transport (one per `TTransport`) | `transport/transport*.C` | of each bind a socket and a send buffer | messages to be sent |

### Components

| component | operations | model |
|---|---|---|
| transaction layer, `transport/transstate.C` | three overloads of `processTM`: a message, a resend timeout, maintenance | `TransMachine`, `RequestReply` |
| container loop, timers, queue | `process`, `setTimer`, `delTimer`, `add`, `getNext`, `select` | `TaskContainer` |
| kernel routing | `mainLoop`, `add`, `sendMsgToTask`, `multicastMsgToTask`, `broadcastMsgToTask`, `getTask`, `balanceCheck`, the session tables | `TaskSelector` |
| manager, events | `TFRAMEManager::Run`, `mainLoop` for events, `addEvent`, the event branch of `TTaskContainer::process` | `FrameEvents` |
| `CExpireBuffer` | `push`, `pop`, `update`, `pop_front`, `pop_back`, `pop_old`, `clear` | `ExpireBuffer`, `ExpiringMap` |
| SIP adaptor, `facility/psasip` | `procMsg` in both directions, the dialog tables, `checkSipMessage`, `sendSipMessage`, the recycle timer, reloading | `SipAdaptor`, `SipMessage` |
| RSC adaptor and UDP transport, `facility/psarsc`, `transport/transport*.C` | `procMsg` in both directions, the passes of the transport's thread, `Recv`, `Send` | `RscWire` |
| MQTT adaptor, `facility/psamqtt-wangpan` with `test/psamqtt` (the program `mqttdemo`) | both state machines, the links' `processSend` and `processRecv`, subscriptions, publishing, two timers, the applications | `MqttSession` |
| HTTP adaptor | | not modelled, see section 7 |
| messages and encodings, common services, command client, log task | | not modelled, see section 7 |

### What makes it hard

* UDP loses, repeats and reorders; requests and answers are repeated by timers
  whose timeouts may already be queued when they are cancelled.
* A container pass reads the clock several times, and other threads add messages
  in between. What a handler cancels may have expired.
* The kernel decides by queue lengths that are changing and by a copy of the time
  that is up to a pass old.
* A message is deleted by one of several parties, depending on return values.
* A command fans out twice (kernel, containers) and its answers come back through
  three threads to a socket that remembers only the last client.
* `CExpireBuffer` keeps a ring, two end pointers, a map and a count in step.
* A SIP dialog is kept in two such buffers, one per name, that are stamped, refreshed
  and cleaned one after the other, with two readings of the clock.
* Between a task and the wire lie three queues with batch limits, served by two threads.
* An MQTT request passes five queues, four tasks and two state machines before it is answered,
  while a timer repeats it and a read that ends inside a packet loses it.

`PROJECT.json` lists these as hazards with their lines and the properties that
cover them.

## 2. Modules

| module | what it is |
|---|---|
| `TransMachine` | both ends of transactions over a lossy network |
| `RequestReply` | what the transaction layer promises |
| `TransMachineProof` | the joint invariant; the theorems and the refinement |
| `TaskContainer`, `TaskContainerProof` | one container thread; its theorems |
| `TaskSelector`, `TaskSelectorProof` | the kernel thread routing messages; its theorems |
| `FrameEvents`, `FrameEventsProof` | composition of manager, kernel and containers, for events; its theorems |
| `ExpireBuffer`, `ExpiringMap`, `ExpireBufferProof` | the buffer with its pointers; what it promises; the refinement |
| `SipMessage` | what the SIP adaptor does to the headers of a message |
| `SipAdaptor`, `SipAdaptorProof` | the SIP adaptor and its dialog tables; its theorems |
| `RscWire`, `RscWireProof` | composition of RSC adaptors, transport threads and a faulty network; its theorems |
| `MqttSession`, `MqttSessionProof` | composition of MQTT clients, their links and the server; its theorems |
| `MC...` | instances for TLC |

Operators marked "Slip" are variants of the definition below them with one
plausible mistake. No specification uses them. Each is there so that a property can
be seen to fail when the code is wrong (`mutants` in `PROJECT.json`).

### TransMachine

A transid has a sending `TTransState` in the requester (`cState`, `cMsg`, `cTimer`,
`cAge`) and a receiving one in the responder (`sState`, ...). There is one action per
state and message of `TSClient_CHANGE` and `TSServer_CHANGE`
(`ClientRspInTemporary`, `ServerReqInProgress`, ...), two per resend timer (it fires,
the queued timeout is handled), one for maintenance on each side. The
network is a set: a message that arrives may stay (duplication), any may be taken
(reordering), `Drop` removes one. The actions are glued to application and wire as the comments in
`include/transport/transstate.h` (57-75) prescribe. `TPsaRscTask`, the only user in
the repository, follows that contract for what arrives from the wire and not for what
it sends (see section 3), so the theorems are about the layer, not about that task.

Abstractions. Transids are unique, so each is started once. A timer key is any
key that no running or queued timer has: the 32-bit counter that wraps is in `TaskContainer`.
Ages are counted to `LivingTime + 1`, after which they make no difference. The name,
transid and answer of a message are kept, headers and bodies are not.

### TaskContainer

`pc` follows the thread through one pass: `loop` (process the timers), `timers` (pop
what is due), `get` (the wait has been computed), `wait` or `block` (at the queue, with or
without a limit), `handle`. A protocol-stack container (`mWaitAtQueue` FALSE) goes
through `build`, `select` and `sockets` before; `Kinds` says which containers an
instance starts with. `Tick` and `Add` can
happen between any two of these steps. Task code runs inside `init`, `sockets` and
`handle`, where `SetTimer` and `DelTimer` are enabled. `AbstractFifo::getNext(ms)` is
translated with its special case: 0 means no limit.

A timer is identified by the order of its creation, and what its creator holds is the
key, from a counter that wraps at `KeyMax`. `clash` records timers whose key was given
to, or cancelled through, another timer while they were waiting; the guarantees about
keys exclude these, the guarantee about `para` does not. `AdoptsPara` says whether
the handler puts `para` into a `CStr` of its own. `mTimerStoped` values are always TRUE, since
`stop()` has no caller.

### TaskSelector

Containers and hosted tasks are fixed before the threads start, so `Hosts` is a constant.
`Route` is one pass of `mainLoop`: take a message, route it, delete it if `add`
returned FALSE. `balanceCheck` reads `waitCount()`, which is computed from a queue
another thread is emptying (and `TTaskContainer::waitCount`,
`include/task/taskcontainer.h:77`, lacks its `return`), so the lengths read are
arbitrary numbers up to `MaxWait`. The code adds them up as UINTs; `MaxWait` stands for any bound
below which the sum does not wrap around, and nothing is claimed of larger values, which a function without a
`return` may produce. `mIntDialog` and `mStrDialog` are used alike and
are one table. A sender leaves `taskInstID` 0, as the tasks of the repository do.
`now` is `time(0)`, `mCurrentTime` the kernel's copy of it. `mDialog` is the session table as a
list, oldest first: `Refreshed` is `update`, which moves a binding to the end, and
`PopOld` is `pop_old`, which drops bindings from the front up to the first that is young.
`After(t, j)` is the position `j` steps on in the circular list of a task's instances, and
`ToNextInst` takes the first that is not blocked.

### FrameEvents

`MngGet`, `MngTimesOut` and `MngRecv` are the manager's loop; `Kernel` is the event part
of `mainLoop` with `addEvent`; `Take` and `Post` are a container taking an event and
its tasks answering one after the other. `todo` is the set of answers a container still
has to give for the event it took; it gives them by task id, the order of its map of tasks. The position of a command in `asked` is its
transaction id. Datagrams of operators arrive in order. A task that answers does so
once (`onEvent...` of the base class). A command to task 3 is answered both by the
kernel itself and by a refusal, since `addEvent` knows no task 3.

### ExpireBuffer

Each operation is a function on a record of pointers, with the assignments of the
code. The limit and the policy when full are members of the buffer, as in the code, and
any of `Limits` may be the one it was constructed with. `live` is the set of entries not yet deleted. `call` records operation,
argument and result of the last call, so that the refinement also checks what the calls return
and no call can pass for another. Values stored under keys and the cursor
`m_pCurrent`, which no caller uses, are left out. `clear` leaves `m_pTail` at a deleted
entry; the two callers clear an empty buffer (`TTaskSelector::init`) or one that is
about to be destroyed (`~TTaskSelector`), so after a `clear` that removed something
(`Closing`) the buffer is not called again.

### SipMessage and SipAdaptor

A message from the stack or from a task is one step, the whole of `procMsg`: the checks,
the look-up by the dialog's id, the answers the adaptor makes itself, the table
operations, and what goes to a task or to the stack (`out`, in order). `SipMessage`
holds the header functions as operators: `checkSipMessage` (Max-Forwards, loops by the
top Via, the 200 for a CANCEL) and `sendSipMessage` (own Routes dropped, strict routing, the
forced target, the DNS cache, the hop taken off). A host stands for host, port and
transport together, the transport possibly not named. A strict route gives the request URI its host and port,
and its transport only if it names one; `Rehosted` is the outcome.

`mapF` and `mapB` are `mDialogMap_F` and `mDialogMap_B` as lists, oldest first, which is
what `ExpireBuffer` is shown to implement. An entry has an age in place of a stamp. A
handler refreshes with the time at which it began and inserts with `time(0)`, so
its actions have a parameter `s`: whether the second changed in between. `fresh` and `spoke` are history:
which dialogs were opened when neither table knew either name, and who spoke last. The
guarantees about dialogs are for the fresh ones; for the others the code really behaves
differently (run `sip_speaker`). `MaxAge` caps the ages and exceeds every living time
of the instance. Flow control, which the adaptor builds with no limit, is left out.

### RscWire

Each node has the adaptor's task (`FromTask`, `FromWire`) and the transport's thread, which
alternates `Poll` (`select` and what `onCheckFDSet` does) with `Drain` (a batch of `mFifo`).
`queue`, `fifo`, `buffer` and `socket` are the four places where a message can wait. The
thread's two halves are single steps because the only state they share with the task is the two
queues, to one end of which each of them has exclusive access. The transaction layer
appears as this task uses it: what is received carries only `cseq`, `transid` and body, so
`processTM` takes it for a request that wants no answer, whose state is terminated at once; it
lives two days, longer than any behaviour modelled. `transExist` compares strings: a bind is taken for near if its
address begins with the digits of the destination's first octet, so octets are sequences of digits here. A transid is
a digest of the sender's address and name, the type and `cseq`, and `cseq` starts at 0: that transids differ
(`TransidsAssumption`) holds until an adaptor is started again within two days, or a second one runs on its host. The network (`Arrive`, `Lose`) loses, damages,
duplicates and reorders.

### MqttSession

`client[c]` is a client's link with its state machine (`curState`, `preState`, the saved
message, whether each of its two timers runs, `wantsToSend`), `link[c]` the server's. `Ask` is
the application putting a message into the link's queue; `ClientSend` and `ServerSend` are a writable socket: one
message leaves the queue and `onSend` forwards or refuses it; `ClientRecv` and
`ServerRecv` are a readable one. `toApp` and `fromApp` are the queues between the
server's task and the application that makes the acknowledgements. `ResendTimeOut` and `KeepaliveTimeOut`
are the timers.

Abstractions. TCP loses nothing, so a stream is a sequence of packets, each with its kind, topics,
sender and the application's number. A read may end inside a packet; `msgParse` then refuses both
parts, and `Split` loses the packet. A client connects once and stands for its link. A
keepalive timer whose key was overwritten expires without effect and is not kept. PINGREQ and
PINGRESP have no sender. An application may ask for anything at any time, more than the demonstration's tasks do.
A timeout of the keepalive timer puts a null pointer into the queue, and the link follows it when it comes to the front
(`crashed`): from then on nothing happens.

## 3. Runs

### Passing

| run | instance | what it shows |
|---|---|---|
| `trans_one` | one request, two possible answers, two keys, responder state made up to twice | `TransMachine` implements `RequestReply`; one outcome; one execution per responder state; the answer reported is the one given; a requester that stopped repeating is owed an answer; no resend timer is lost or orphaned; a state that expires in silence had been delivered; an answer arrives unless a living time ends; repetition of the answer stops |
| `container_loop` | either kind of container, three timers, two keys, one message from outside | no timer lost, none fired after cancelling, timeouts in order, `para` deleted once; every message is handled; a timer is late only while the thread waits without a limit |
| `selector_route` | two containers, four messages, any queue lengths up to 3 | each message has one owner and the right copies, a multicast for an unregistered task none; even load while nobody is blocked; never everybody blocked; every message is routed and taken |
| `selector_dialog` | two sessions, four messages, three ticks | a used binding is kept; a lookup leaves none that expired |
| `events_answers` | INIT and two commands, two clients, two containers | all that were asked answer, once, in order, and not to an earlier client; every command is answered |
| `buffer_ring` | four keys; no limit or 3, with replacement or refusal | the ring agrees with itself and the map; no pointer to a deleted entry; `ExpireBuffer` implements `ExpiringMap` |
| `sip_dialogs` | one call with two names, two task instances, twelve messages of the stack and three of tasks, one for each branch | a dialog is found by both names until it expires and goes to its last speaker; recycling leaves nothing expired behind; requests no dialog knows lose a hop and are not sent to this host |
| `wire` | two nodes, one with two binds, three messages, one of them an answer with its request's transid, batches of one, one fault | what tasks send leaves each bind in order and complete, reaches the other task at most once, and does reach it unless it was lost |
| `mqtt_sessions` | a publisher and a client that does everything, one topic, two requests each, one repetition, one keepalive timeout, one packet lost in reading | the server owes each client exactly the answer it is waited for; the two ends agree on being connected; publications arrive once and in order; nobody waits without a timer |

### Violations

Each of these runs states what a comment or document of the repository says, and TLC
shows a behaviour of the code that disagrees. The quotations are in `PROJECT.json`.

| run | property | what the code does |
|---|---|---|
| `container_starve` | `TimersExpire` | a timer that falls due between two clock readings makes the wait 0, which is no limit (`include/kernel/timerqueue.h:39`, `comserv/fifoabstract.C:37`) |
| `selector_affinity` | `SessionAffinity` | the container found in the session table is not used for routing (`kernel/taskselector.C:496`) |
| `sip_speaker` | `SpeakerIsRecorded` | the tables expire entry by entry and a refused push does not undo the other one, so that a dialog can come to have a record under each name; `UpdateDialogAddr` and `QueryDialogTab` search the tables in different orders, and then one writes a record that the other does not read (`facility/psasip/sipdialogmng.C:57`) |

### Other disagreements met while modelling

No run is about these. Where an instance avoids one, that is said.

* `multicastMsgToTask` deletes a message for an unregistered task and returns FALSE,
  and `mainLoop` then deletes it again (`kernel/taskselector.C:549`,
  `kernel/framectrl.C:53`). `MulticastMsgToTask` models this and `selector_route` sends such a
  multicast. `MsgHasOneOwner` says of it only that nobody has a copy, and of every other message that it is deleted
  once at most.
* A message or an event that names a container goes there whether or not the task is
  there (`kernel/taskselector.C:234`, `:322`), and the container drops it without an
  answer, though the comment at that place says such a message cannot come
  (`task/taskcontainer.C:143`). `events_answers` names only instances of the task.
* `add` distributes by `msgType` (`kernel/taskselector.C:400`), while
  `include/msg/msgdef.h:39-40` describes DIALOG_BROADCAST and DIALOG_MULTICAST, values of
  `dialogType`, as kinds of distribution.
* A command for task 1 is deleted without an answer (`kernel/framectrl.C:63`): the
  comment above says 1 is the kernel, the constant is 2. `events_answers` sends none.
* A protocol-stack container asks its queue not to wait and waits without a limit, since the queue
  takes 0 for that (`task/taskcontainer.C:119`, `comserv/fifoabstract.C:37`): after a pass with an empty queue its
  sockets are not served until a message or a timeout comes.
* `select` writes the remaining time into `mSelectMS` (`task/psathread.C:36`), which is
  never set again, so after the first quiet pass it is 0.
* `clear` leaves `m_pTail` at a deleted entry (`include/comserv/cexpirebuffer.h:808`); see
  section 2 for why no caller notices.
* A request that got a provisional response and no final one expires without a report
  (`transport/transstate.C:344`), though `include/transport/transstate.h:73` promises a response
  when no reply comes. What does hold is `SilentOnlyIfDelivered`.
* `nTransfer` in `processTM` of a resend timeout makes a `CStr` own `para`
  (`transport/transstate.C:313`), which `~TTimeOutMsg` deletes as well; `task/abstracttask.C:134`
  asks handlers to leave it alone. With `AdoptsPara = TRUE` in place of `FALSE`,
  `container_loop` fails at `ParaFreedOnce`.
* The RSC adaptor sends past the transaction layer (`facility/psarsc/psarsctask.C:344`), so
  nothing is repeated and no 408 is made; and the provisional responses it does make have no
  body, so that `Send` deletes them, though the comments of `transstate.h` say they are sent. The resend
  branch skips a response without a body and does not delete it (line 367).
* The target decoded from a datagram is replaced by the default task
  (`psarsctask.C:253`, against 225-227), and what 329-331 says about `argv[1]` is never put on
  the wire.
* `tminit` is never called, so states live 172800 s, and `reloadDNSCache` tests a pointer that is
  always NULL. The loop over targets in `onInit` (149-159) does not advance. A link id that
  no bind has inserts a null bind, which `onBuildFDSet` follows. `wire` uses ids of binds only.
* `TTransMsg::check` (`transport/transport.C:39`) tests `(0xFF ^ split[1]) != 0` under a comment
  that says `split[1] == 0xFF`; it does that only because `char` is signed.
* The shutdown of the transport does not wait for the send buffer to be empty, as its comment says
  (`transport/transport.C:93-98`). Nobody sends the transport events.
* The constructor of `CSIPPsaDialog` passes the policy as living time and the living time
  as policy (`facility/psasip/sipdialogmng.h:34-35`); `onInit` sets the living time again.
* A reload asks for `rgRefreshInterval` where `onInit` and the configuration say
  `regRefreshInterval` (`facility/psasip/sipstackpsa.C:338`, `:123`), so that it falls back to
  `DLG_LIVING_TIME`. `Reload` models this, and the instance lets the living time change.
* A keepalive timeout of an MQTT client queues a null message, which `onSend` follows
  (`facility/psamqtt-wangpan/mqttclient.C:268-269`), although the comment at
  `test/psamqtt/statemachine.C:229-230` says the keepalive timer is not supported.
* A DISCONNECT received leaves the connection open, where the comment says that it "should be closed"
  (`test/psamqtt/statemachine.C:389`); one sent leaves the resend timer running, which brings the
  machine back to where it waited. `WaitingIsTimed` allows for the latter.
* `COverflow`'s header describes levels 0-1-2-1-0, the code goes from 2 to 0; it is built with no limit.

## 4. Bounds, and why they are enough

* *Transactions.* They share only the key space. TLC checks one, of which two keys allow a
  running timer beside a stale queued timeout, and `MaxDeliver = 2` allows a responder state to
  expire and be made again. Several transactions, and requests that want no answer (`OneWay`),
  are covered by the theorems, which hold for all values.
* *Container.* `KeyMax = 2` with three timers makes keys wrap and clash. `MaxNow` ends
  the clock, and every limited wait is over at that bound, so that the bound blocks nobody
  for ever. Again the safety theorems hold for all values.
* *Selector.* With `BalanceCountNumber = 1` the third message to two instances makes the
  balance check, and the fourth goes by the new weights; lengths up to 3 are enough to block
  an instance. A session lives one tick, and three ticks allow binding, refreshing, expiring and binding again. The
  kernel's copy of the time is at most one tick old, because `getNext(1000)` waits a second.
  `selector_dialog` uses a task with one instance and a second container without it, so
  that bindings with and without an instance occur.
* *Events.* Two commands after INIT overlap in every stage. Three would only add queueing
  in front of the manager.
* *Buffer.* Four entries contain the head, the tail and two in the middle.
* *SIP.* Dialogs touch each other only by sharing names, so one call with its two names, each of which may be
  used to open a dialog, is enough. Living times of 1 and 2 and
  ages up to 4 allow an entry to expire in one table and not yet in the other, and to be older than the second by which a recycle may
  miss it. The messages take
  each branch of the checks and of the routing. The theorems hold for all values.
* *Wire.* With `FifoBatch = RecvBatch = 1` every second message exceeds a batch. One fault of any
  kind at any moment is enough for a duplicate of a request beside its answer. The branch
  for a message without a destination is in the model and not in the instance.
* *MQTT.* Two requests of a client meet in every queue. One repetition is enough for two equal
  requests, and for the timer that outlives a DISCONNECT; one packet lost in reading may be a
  request or an acknowledgement. The theorems hold for all values.

Symmetry is used only where values are compared for equality and the run does not check
liveness. Deadlock is checked except for containers and the
kernel, which may rightly wait for a message that never comes, the buffer, which ends, and the
MQTT sessions, whose applications stop asking.

## 5. Fairness

* Threads run: weak fairness of the thread's steps, for each thread separately. The
  loops in the code have no exit but shutdown, which nobody sends.
* In `TransMachine`, a datagram that is sent over and over is received at some point: strong
  fairness of its arrival. The responder's application answers what it
  was given. Without either, no protocol gets answers. Nothing is assumed of the clock,
  and the conclusions have "or a living time ends" as an alternative.
* In `TaskContainer`, the clock goes on. Nothing is assumed of senders, sockets or tasks.
* In `RscWire`, the adaptor's container and the transport's thread run; `select` finds each
  bind writable again and again (strong fairness of a poll with it: a UDP socket is
  writable once the system has sent what it holds); a datagram that is neither lost nor damaged
  arrives. Nothing is assumed of the tasks.
* In `TaskSelector`, INIT is a message in the kernel's queue, so weak fairness of the kernel includes it.

## 6. Proofs

`tlapm` checks every theorem. `PROJECT.json` lists those a reader should know.

*Transactions.* Assumptions: `ConstantsAssumption` and `NoMsgAssumption`, that is, that special
values differ from ordinary ones and the two bounds are numbers. The safety properties
are not inductive: `AtMostOneOutcome`, for example, needs that a state that
waits has not reported and that the saved request is held exactly in TS_FORWARD. The
invariant `IInv` has three parts. `ClientIInv` and `ServerIInv` concern one side each: the
timers (`TimersInv`: running or queued, not both; one timer per key; a timer the
state knows exists) and, per transaction, what each state implies (`ClientInv`,
`ServerInv`). Each is proved with one lemma per action in a module of its own. `JointInv` says what a message in flight tells
about the two ends (`NetInv`), and what holds until the responder's state first expires
(`FirstLifeInv`): one answer, and after a provisional response a timer that repeats it until the
requester is done. `AnswerIsOwed` is where it is needed: it relates
the requester's state to the responder's timer, and an acknowledgement in flight
is harmless only because it shows that the requester has ended. `StepSimulation`
maps each action to a step of `RequestReply` or a stutter; `Refinement` follows.
`SilenceMeansDelivered` needs one more invariant, `HeardInv`: whatever the requester has
heard, however late, was said by a responder that had forwarded the request.

*Container.* Assumption: `ContainerAssumption` (types of the constants, delays not 0). `IInv`
consists of `WaitingInv` (where each timer is, and that a key is live exactly while its timer waits
uncancelled), `QueueInv` (a queued timer has exactly one timeout), `OrderInv` (what is
queued was due before anything still waiting) and `ParaInv`. `OrderInv` is what makes
`TimeoutOrder` inductive: a timer set later cannot be due before one already queued,
because delays are positive and what is queued was due at or before the present.
`CancelledTimersAreSilent` is an action property proved from the same invariant.
`ParasAreFreedOnce` has the hypothesis `~AdoptsPara`; without it the property is false
(section 3).

*SIP.* Assumptions: exchanging From and To twice changes nothing, messages from the wire have a
Via, `NoAddr` and `NoTarget` are not addresses. `FoundByBothNames` is not inductive: that an
entry leads back does not say that it will outlive the record. `IInv` adds (`Linked`) that the entry that
leads back is no older than the record, that neither name is also in the other
role, and, with `OldestFirst`, that both tables are sorted by age, so that
`pop_old` takes exactly what has expired. The order is the delicate part: an entry is stamped
with one of two clocks and always put at the end. `SpeakerIsFollowed` and `RecycleIsComplete` follow from
the same invariant. `StraysDieOut` and `StraysMoveOn` are about the last step's
output, and rest on lemmas about each function of `SipMessage`, for routes of any length.

*Wire.* Assumptions: those named in `RscWire` on binds, messages, batches and transids. Both theorems hold for any nodes,
binds, messages, batches and number of faults. For `DeliveredOnce` the invariant (`Known`) adds to `AtMostOnce` that the
transid of whatever was delivered on a node is in that node's table. That an answer is not refused because of its
request's transid is the liveness property's part. `SentInOrder` proves `InOrderOverOneBind`, which is inductive once the types of the four
queues are known: a step moves messages from the front of one queue to the end of the next. Its lemmas
are about `Kept`, the filter of a sequence, which is a recursive function: that it distributes over concatenation
and commutes with the projection to messages is proved by induction on the length, from the least
counterexample, since the library's induction theorems take an operator and cannot be used.

*Kernel.* Assumption: `SelectorAssumption` (types of the constants, every task has an instance). `IInv` says that the
queue holds each message once and in the order sent (`QueueInv`), that the instances of a task nobody blocked are
one message ahead exactly up to the position of the round robin (`EvenInv`), and that the table of sessions is
sorted (`DialogInv`). As for SIP, the order is the delicate part: a binding is pushed with `time(0)` and refreshed
with the kernel's copy. It is sorted because the copy is renewed between any two messages (`pc`), so that what was pushed at
`now` is never newer than what the next pass refreshes with, and because the copy is never more than a
tick behind (`ClockInv`), a session was used at most a tick after the time of its binding. From that follow the
two action properties: `SessionsAreKept` (what is dropped had expired) and `TablesArePruned` (nothing expired
is behind something young). A pass is first split by the variables it changes (`PassSteps`: delivery, sessions,
balance), and each part is proved on its own. `OneOwner` needs of `IInv` only that a message is in the queue
once; the exception for a multicast to a task that is not registered is part of the property (section 3).

*Events.* Assumption: `EventsAssumption`. `IInv` follows a command and its answers through the threads. `OrderInv` and `SenderInv`
say that neither overtakes: a command the kernel has handled is older than all it has not (`Past`), and what is in a
container's queue is newer than what the container is answering and has answered. `OnceInv` says that an answer is in
one place, `AskedForInv` that it was asked for wherever it is. `CompleteInv`, from which `QuietIsAnswered` follows, says
that every command is somewhere: before the kernel, or passed on, and then for each task it asks either in the
container's queue or answered. `InOrder` and `NotToEarlierClient` follow from the order.

*MQTT.* Assumption: `MqttAssumption`. `OneAnswerOwed` and `WaitingIsTimed` are inductive together with `TimerInv`: the resend
timer runs only when there is something to repeat that is not a publication. `AgreementInv` adds to
`SessionAgreement` the previous state, to which a timeout returns, and a CONNACK under way. For
`PublishedOnceInOrder`, `WayInv` looks at the five queues between two clients as one and says that the
publications of the sender rise through all of them, up to the last number given; each action moves,
adds, drops or copies one message on that way, and there is one lemma for each kind of move.

*Buffer.* Assumption: `BufferAssumption` (`m_pTag` is no entry; limit, living time and clock are numbers). That the ring agrees with the
map says nothing of the order in which `next` and `prev` run, so the invariant (`BufferInv`) is that some order `r` of
the entries exists along which both run (`Chain`), that `m_pTail` is its last and the map knows its entries (`Holds`).
Each operation on pointers is shown to cut one entry out of `r`, to add one at its end, or both; what
that does to the list of keys and times is what `ExpiringMap` says. The loops of `pop_old` and `clear`, and the walk along
the ring, are recursive functions, and what they compute is proved by induction on their index, as for `RscWire`.
`RingIsMap` and `BufferIsExpiringMap` hold for any keys, addresses and limits.

*Only model-checked.*

* All liveness, which the prover does not handle: `EventuallyAnswered`, `ResendingStops`, `TimersExpireOrBlock`,
  `MessagesAreHandled`, `MessagesAreRouted`, `CommandsAreAnswered`, `ArrivesUnlessLost`.
* `RegisteredIsDelivered`: that the lengths read cannot all exceed their average is a fact about sums over
  functions, for which there is no lemma yet.

## 7. Not modelled

* `facility/psamqtt`, another copy of the MQTT adaptor: it does not compile (`CommonTask.h` is missing, names
  are undeclared), so that there is no program to be faithful to. Of the copy that does, and
  is modelled: closing of connections, a second connection of a client, PINGREQ and PINGRESP (no sender),
  the bytes of packets.
* HTTP adaptor: 450 lines of glue over tbnet, the third-party library in `_3pty/tbnet` (21000 lines). What could go
  wrong in it is between its thread and tbnet's, which call it back, so a model of it would have to be one of tbnet's connections
  and their locks first.
* Of the SIP adaptor: the stack (reSIProcate, in `_3pty`), flow control and its counters, `RemoveDialogTab`
  (no caller), reloading of the DNS cache.
* Of the RSC adaptor and the transport: timers that resend (the adaptor makes no state that has
  one; they are in `TransMachine`), the expiry of its states (two days), reloading, events to the
  transport (no sender), the bytes of a datagram's header beyond whether it passes `check`.
* Statistics, status texts, log levels, step timing, reading of the configuration, events
  posted by tasks on their own, the events HEATBEAT and SHUTDOWN (no sender).
* `FiniteFifo` and `TimeLimitFifo` (no user inside the frame), `Fifo::clear` (called by the
  destructor only; it leaves the size at its largest value), the cursor of
  `CExpireBuffer`, `task/mptask.C` (not compiled).
* Message encodings, sockets, strings, XML, JSON, databases, ciphers: sequential library
  code or I/O. Mutexes and conditions are taken to work.

## 8. What could follow

1. The composition of `RscWire` with `TransMachine`, should the adaptor come to send through the
   transaction layer.
2. Reconnecting of MQTT clients, once the code closes connections.

## 9. Running

    tlc -workers 2 -config TransMachine_one.cfg MCTransMachine
    tlapm TransMachineProof.tla

The other runs are named in `PROJECT.json` with their module and configuration.
