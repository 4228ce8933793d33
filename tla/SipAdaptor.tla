----------------------------- MODULE SipAdaptor ------------------------------
(***************************************************************************)
(* The SIP adaptor, SipStackPsa, and its dialog tables, CSIPPsaDialog: a   *)
(* message from the wire goes to the task that last spoke in its dialog.   *)
(* A dialog has two names, its id and the id with From and To exchanged;   *)
(* mDialogMap_F holds the dialog under the name it was opened with,        *)
(* mDialogMap_B leads from the other name to the first.  Both are          *)
(* CExpireBuffers: lists whose entries are stamped and moved to the end    *)
(* when they are refreshed.  An entry's age is what time(0) has advanced   *)
(* since its stamp.  A handler is one step, during which the second may    *)
(* change once, between its two table operations.  The counters printed    *)
(* by the flow timer, and the flow control built with no limit, are left   *)
(* out.                                                                    *)
(***************************************************************************)
EXTENDS SipMessage

CONSTANTS Ids, Peer(_),   \* dialog ids; the id with From and To exchanged
          Addrs, NoAddr,  \* addresses of task instances; the default one
          RegTask, DetecTask, TargetTask,  \* mRegTask, mDetecTask, mTargetTask
          WireMsgs, AppMsgs,               \* messages from the stack and from the tasks
          ConfiguredReg, ConfiguredCall,   \* regRefreshInterval, callRefreshInterval
          DLG_LIVING_TIME,
          DbRows,         \* what SystemParas may hold: sets of at most one call and one reg row
          MaxAge          \* ages beyond it are not told apart

(* computeDialogId orders From, To and Call-ID; exchanging twice changes nothing. *)
ASSUME PeerAssumption == \A d \in Ids : Peer(d) \in Ids /\ Peer(Peer(d)) = d

ASSUME MessagesAssumption ==
  /\ WireMsgs \cup AppMsgs \subseteq SipMessages
  /\ \A m \in WireMsgs : m.vias # <<>>
  /\ NoAddr \notin Addrs

ASSUME TimesAssumption ==
  /\ ConfiguredReg \in Nat /\ ConfiguredCall \in Nat /\ DLG_LIVING_TIME \in Nat
  /\ MaxAge \in Nat \ {0}
  /\ \A rows \in DbRows : rows \subseteq [name : {"call", "reg"}, value : Nat]

Max2(a, b) == IF a >= b THEN a ELSE b

VARIABLES mapF,     \* mDialogMap_F, oldest first
          mapB,     \* mDialogMap_B
          living,   \* m_living_time of both
          out,      \* what the last step sent to tasks and to the stack, in order
          fresh,    \* history: dialogs opened when neither table knew either name
          spoke     \* history: who last spoke in the dialog of this name since it was opened

vars == <<mapF, mapB, living, out, fresh, spoke>>
tables == <<mapF, mapB>>
history == <<fresh, spoke>>

Pair(d) == {d, Peer(d)}
Seconds == {0, 1}

(* Tables. *)
Has(map, d) == \E i \in DOMAIN map : map[i].id = d
At(map, d) == CHOOSE i \in DOMAIN map : map[i].id = d
Get(map, d) == map[At(map, d)]
Names(map) == {map[i].id : i \in DOMAIN map}
Older(age, s) == IF age + s > MaxAge THEN MaxAge ELSE age + s
Aged(map, s) == [i \in DOMAIN map |-> [map[i] EXCEPT !.age = Older(@, s)]]

Push(map, e) == IF Has(map, e.id) THEN map ELSE Append(map, e)

Update(map, d, age) ==
  LET k == At(map, d)
  IN IF Has(map, d)
     THEN Append(SubSeq(map, 1, k - 1) \o SubSeq(map, k + 1, Len(map)), [map[k] EXCEPT !.age = age])
     ELSE map

Expired(e) == e.age > living

(* pop_old takes expired entries off the old end and stops at the first that
   is not: k entries, of which there is just one choice. *)
PopOld(map) ==
  {SubSeq(map, k + 1, Len(map)) :
     k \in {j \in 0..Len(map) : /\ \A i \in 1..j : Expired(map[i])
                                /\ j < Len(map) => ~Expired(map[j + 1])}}

(* The dialog's record, or nothing. *)
QueryDialogTab(d) ==
  LET did == IF Has(mapB, d) THEN Get(mapB, d).forward ELSE d
  IN IF Has(mapF, did) THEN {Get(mapF, did)} ELSE {}

(* History: a speaks in the dialog; a dialog is gone. *)
Speaks(d, a) == spoke' = [x \in Ids |-> IF x \in Pair(d) THEN a ELSE spoke[x]]
Forgets(live) ==
  /\ fresh' = fresh \cap live
  /\ spoke' = [x \in Ids |-> IF Pair(x) \cap live = {} THEN NoAddr ELSE spoke[x]]

(* The second may change between the two pushes. *)
InsertDialogTab(d, b, a, s) ==
  /\ mapF' = Push(Aged(mapF, s), [id |-> d, back |-> b, addr |-> a, age |-> s])
  /\ mapB' = Push(Aged(mapB, s), [id |-> b, forward |-> d, age |-> 0])
  /\ fresh' = IF b = Peer(d) /\ Pair(d) \cap (Names(mapF) \cup Names(mapB)) = {}
                THEN fresh \cup {d} ELSE fresh \ Pair(d)
  /\ Speaks(d, a)

UpdateDialogAddr(d, a) ==
  LET did == IF Has(mapF, d) THEN d ELSE Get(mapB, d).forward
  IN mapF' = [i \in DOMAIN mapF |-> IF mapF[i].id = did THEN [mapF[i] EXCEPT !.addr = a] ELSE mapF[i]]

(* Slip: only the table that holds the dialog is refreshed. *)
UpdateForwardExpire(r, s) ==
  mapF' = Update(Aged(mapF, s), r.id, s) /\ mapB' = Aged(mapB, s)

(* currentTime was read when the handler began, s seconds ago. *)
UpdateDialogExpire(r, s) ==
  mapF' = Update(Aged(mapF, s), r.id, s) /\ mapB' = Update(Aged(mapB, s), r.back, s)

DefaultTask(method) ==
  CASE method = "REGISTER" -> RegTask [] method = "OPTIONS" -> DetecTask [] OTHER -> TargetTask

Answers(m) == [i \in DOMAIN Replies(m) |-> [what |-> "reply", code |-> Replies(m)[i]]]
ToTask(type, d, addr) == <<[what |-> "task", type |-> type, id |-> d, addr |-> addr]>>
Passed(m) ==
  LET sent == SendSipMessage(Checked(m))
  IN [i \in DOMAIN sent |-> [what |-> "passed", msg |-> sent[i], came |-> m]]
ToStack(m) ==
  LET sent == SendSipMessage(m) IN [i \in DOMAIN sent |-> [what |-> "sent", msg |-> sent[i]]]

(* procMsg, a message of the stack (sender.taskID = 0). *)
WireRefused(m) ==
  ~CheckSipMessage(m) /\ out' = Answers(m) /\ UNCHANGED <<tables, living, history>>

WireInDialog(d, m, s) ==
  /\ CheckSipMessage(m)
  /\ \E r \in QueryDialogTab(d) :
       /\ out' = Answers(m) \o
                 ToTask("CONTINUE", r.id, IF r.addr = NoAddr THEN DefaultTask(m.method) ELSE r.addr)
       /\ UpdateDialogExpire(r, s)
  /\ UNCHANGED <<living, history>>

(* "cannot be outside a dialog": straight back to the stack. *)
WireStray(d, m) ==
  /\ CheckSipMessage(m) /\ QueryDialogTab(d) = {}
  /\ ~m.request \/ m.method \in InDialogOnly
  /\ out' = Answers(m) \o Passed(m)
  /\ UNCHANGED <<tables, living, history>>

WireBegin(d, m, s) ==
  /\ CheckSipMessage(m) /\ QueryDialogTab(d) = {}
  /\ m.request /\ m.method \in Creating
  /\ out' = ToTask("BEGIN", d, DefaultTask(m.method))
  /\ InsertDialogTab(d, Peer(d), NoAddr, s)
  /\ UNCHANGED living

(* The stack lost a connection: an event for the registration task. *)
WireEvent == out' = ToTask("MESSAGE", "conbroken", RegTask) /\ UNCHANGED <<tables, living, history>>

(* Slip: the task that speaks is noted only when the dialog has none. *)
TaskInDialogFirst(d, m, a) ==
  /\ \E r \in QueryDialogTab(d) :
       IF r.addr = NoAddr THEN UpdateDialogAddr(d, a) ELSE UNCHANGED mapF
  /\ Speaks(d, a)
  /\ out' = ToStack(m) /\ UNCHANGED <<mapB, living, fresh>>

(* procMsg, a message of a task: the dialog's address follows, its age does not. *)
TaskInDialog(d, m, a) ==
  /\ \E r \in QueryDialogTab(d) :
       IF r.addr # a THEN UpdateDialogAddr(d, a) ELSE UNCHANGED mapF
  /\ Speaks(d, a)
  /\ out' = ToStack(m) /\ UNCHANGED <<mapB, living, fresh>>

(* The other name is computed from the message's From and To, which are those
   of d or, when the task answers under the name it was given, of Peer(d). *)
TaskBegin(d, b, m, a, s) ==
  /\ QueryDialogTab(d) = {}
  /\ m.request /\ m.method \in Creating
  /\ InsertDialogTab(d, b, a, s)
  /\ out' = ToStack(m) /\ UNCHANGED living

TaskStray(d, m) ==
  /\ QueryDialogTab(d) = {}
  /\ ~m.request \/ m.method \in InDialogOnly
  /\ out' = ToStack(m) /\ UNCHANGED <<tables, living, history>>

(* Slip: the way back is not cleaned. *)
RecycleForward(s) ==
  /\ mapB' = Aged(mapB, s) /\ mapF' \in PopOld(Aged(mapF, s))
  /\ Forgets(Names(mapF')) /\ out' = <<[what |-> "recycled", second |-> s]>> /\ UNCHANGED living

(* onTimeOut of the recycle timer: CleanExpireDialog, and the timer is set again. *)
Recycle(s) ==
  /\ \E q \in PopOld(mapB) : mapB' = Aged(q, s)
  /\ mapF' \in PopOld(Aged(mapF, s))
  /\ Forgets(Names(mapF')) /\ out' = <<[what |-> "recycled", second |-> s]>> /\ UNCHANGED living

(* The configured intervals, raised to the database's when it has a row. *)
LivingTime(reg, call, rows) ==
  LET Row(name) == IF \E r \in rows : r.name = name
                     THEN (CHOOSE r \in rows : r.name = name).value ELSE DLG_LIVING_TIME
  IN IF rows = {} THEN Max2(reg, call)
     ELSE Max2(Max2(reg, Row("reg")), Max2(call, Row("call")))

(* reloadTaskEnv asks for "rgRefreshInterval", which no configuration has. *)
Reload(rows) ==
  /\ living' = LivingTime(DLG_LIVING_TIME, ConfiguredCall, rows)
  /\ out' = <<>> /\ UNCHANGED <<tables, history>>

Tick ==
  /\ mapF' = Aged(mapF, 1) /\ mapB' = Aged(mapB, 1) /\ out' = <<>>
  /\ UNCHANGED <<living, history>>

Init ==
  /\ mapF = <<>> /\ mapB = <<>> /\ out = <<>> /\ fresh = {}
  /\ \E rows \in DbRows : living = LivingTime(ConfiguredReg, ConfiguredCall, rows)
  /\ spoke = [x \in Ids |-> NoAddr]

Wire ==
  \/ \E m \in WireMsgs, d \in Ids :
       WireStray(d, m) \/ \E s \in Seconds : WireInDialog(d, m, s) \/ WireBegin(d, m, s)
  \/ \E m \in WireMsgs : WireRefused(m)
  \/ WireEvent

Task ==
  \E m \in AppMsgs, d \in Ids :
    \/ TaskStray(d, m)
    \/ \E a \in Addrs : TaskInDialog(d, m, a) \/ \E b \in Pair(d), s \in Seconds : TaskBegin(d, b, m, a, s)

Recycling == \E s \in Seconds : Recycle(s)
Reloading == \E rows \in DbRows : Reload(rows)

Next == Wire \/ Task \/ Recycling \/ Reloading \/ Tick

Spec == Init /\ [][Next]_vars

-----------------------------------------------------------------------------
Records == [id : Ids, back : Ids, addr : Addrs \cup {NoAddr}, age : 0..MaxAge]
Pointers == [id : Ids, forward : Ids, age : 0..MaxAge]

Unique(map) == \A i, j \in DOMAIN map : map[i].id = map[j].id => i = j

(* The tables hold each name once, as the maps of CExpireBuffer must. *)
TypeOK ==
  /\ mapF \in Seq(Records) /\ Unique(mapF)
  /\ mapB \in Seq(Pointers) /\ Unique(mapB)
  /\ living \in Nat /\ fresh \subseteq Ids /\ spoke \in [Ids -> Addrs \cup {NoAddr}]

(* A dialog opened when no remains of an earlier one were about is found by
   both its names, as one dialog, until its record expires: the two tables are
   stamped, refreshed and cleaned at different moments, and the name that leads
   back must never go first (InsertDialogTab, UpdateDialogExpire,
   CleanExpireDialog). *)
FoundByBothNames ==
  \A x \in fresh : \A d \in Pair(x) : QueryDialogTab(d) = {Get(mapF, x)}

(* The record of such a dialog names the task instance that spoke last in it,
   whichever name that instance used, so that is where the next message from
   the wire goes (UpdateDialogAddr writes the record QueryDialogTab reads). *)
WireFollowsTheSpeaker == \A x \in fresh : Get(mapF, x).addr = spoke[x]

(* Both tables stay sorted by age although the stamps come from two clocks,
   time(0) and the task's currentTime: pop_old stops at the first entry that
   has not expired, so an older one behind it would be kept. *)
Sorted(map) == \A i, j \in DOMAIN map : i < j => map[i].age >= map[j].age
OldestFirst == Sorted(mapF) /\ Sorted(mapB)

(* Routes of this host only on top, two at most; all else leads elsewhere, also
   over the transport of the request URI. *)
LeadsElsewhere(m) ==
  LET Foreign(h) == h \notin Mine /\ (h \in DOMAIN DNSCache => DNSCache[h] \notin Mine)
      Away(h) == Foreign(h) /\ Foreign(Rehosted[h][m.uri])
  IN /\ Foreign(m.uri)
     /\ m.target # NoTarget => Foreign(m.target)
     /\ \E k \in {0, 1, 2} : \A i \in DOMAIN m.routes :
          IF i <= k THEN m.routes[i].host \in Mine ELSE Away(m.routes[i].host)

(* A request no dialog knows is not sent back to this host, also when this
   host recorded two routes (the second removal in sendSipMessage, which is
   there to avoid just that). *)
NotAimedAtItself ==
  \A i \in DOMAIN out :
    out[i].what = "passed" /\ out[i].came.request /\ LeadsElsewhere(out[i].came) =>
      out[i].msg.target \notin Mine

(* A request no dialog knows is passed on with fewer hops left than it came
   with, and never with none: a loop of such hosts dies out
   (checkSipMessage, then sendSipMessage). *)
StraysLoseAHop ==
  \A i \in DOMAIN out :
    out[i].what = "passed" /\ out[i].came.request =>
      /\ out[i].msg.hops \in 1..(MaxForwards - 1)
      /\ out[i].came.hasHops => out[i].msg.hops < out[i].came.hops

(* A recycle removes every expired entry of both tables, wherever it stands in
   its list, although pop_old looks at the head only; an entry that leads back
   outlives its time by the second that passed meanwhile at most
   (onTimeOut, CleanExpireDialog). *)
RecycleReachesAll ==
  \A i \in DOMAIN out : out[i].what = "recycled" =>
    /\ \A k \in DOMAIN mapF : mapF[k].age <= living
    /\ \A k \in DOMAIN mapB : mapB[k].age <= living + out[i].second

(* The inductive invariant: a fresh dialog's record is under its own name, the
   entry that leads back is under the other and no older, neither name leads
   elsewhere, and the record names the last speaker; no entry, fresh or not,
   leads out of its dialog. *)
Linked(x) ==
  /\ Has(mapF, x) /\ Get(mapF, x).back = Peer(x) /\ Get(mapF, x).addr = spoke[x]
  /\ Has(mapB, Peer(x)) /\ Get(mapB, Peer(x)).forward = x
  /\ Get(mapB, Peer(x)).age <= Get(mapF, x).age
  /\ Peer(x) # x => ~Has(mapF, Peer(x)) /\ ~Has(mapB, x)

IInv ==
  /\ TypeOK /\ OldestFirst
  /\ \A d \in Ids : Has(mapB, d) => Get(mapB, d).forward \in Pair(d)
  /\ \A x \in fresh : Linked(x)

(* What the comment in procMsg says: when the dialog's address is not that of
   the task that speaks, it is updated, so the next message from the wire under
   that name goes to that task (sipstackpsa.C:580). *)
SpeakerIsRecorded ==
  [][\A d \in Ids, m \in AppMsgs, a \in Addrs :
       TaskInDialog(d, m, a) => \E r \in QueryDialogTab(d)' : r.addr = a]_vars

=============================================================================
