------------------------- MODULE TaskContainerProof -------------------------
(***************************************************************************)
(* TaskContainer: what becomes of timers and of their paras, and the order *)
(* of timeouts, for every number of timers, messages and keys, every delay *)
(* and every clock.                                                        *)
(***************************************************************************)
EXTENDS TaskContainer, TLAPS

(* A timeout names its timer, and is no other message. *)
LEMMA TimeOutMsgs ==
  /\ \A i, j : TimeOutMsg(i) = TimeOutMsg(j) => i = j
  /\ \A i, m : TimeOutMsg(i) # TaskMsg(m) /\ TimeOutMsg(i) # StrayMsg(m) /\ TimeOutMsg(i) # NoMsg
  /\ \A i : TimeOutMsg(i).kind = "timeout" /\ TimeOutMsg(i).id = i
  /\ NoMsg \notin Msgs
  /\ \A m \in Msgs : m.kind = "timeout" => m.id \in Ids /\ m = TimeOutMsg(m.id)
<1>1. \A i : TimeOutMsg(i).kind = "timeout" /\ TimeOutMsg(i).id = i
  BY Zenon DEF TimeOutMsg
<1>2. \A m : TaskMsg(m).kind = "task" /\ StrayMsg(m).kind = "stray"
  BY Zenon DEF TaskMsg, StrayMsg
<1>3. NoMsg.kind = "none"
  BY Zenon DEF NoMsg
<1>4. \A i, j : TimeOutMsg(i) = TimeOutMsg(j) => i = j
  BY <1>1
<1>5. \A i, m : TimeOutMsg(i) # TaskMsg(m) /\ TimeOutMsg(i) # StrayMsg(m) /\ TimeOutMsg(i) # NoMsg
  BY <1>1, <1>2, <1>3, Zenon
<1>6. NoMsg \notin Msgs
  BY <1>1, <1>2, <1>3, Zenon DEF Msgs
<1>7. \A m \in Msgs : m.kind = "timeout" => m.id \in Ids /\ m = TimeOutMsg(m.id)
  BY <1>1, <1>2 DEF Msgs
<1> QED
  BY <1>1, <1>4, <1>5, <1>6, <1>7, Zenon

(* A step that leaves the timers and the queue alone: the clock, a socket, *)
(* and the thread between two stations of its loop.                        *)
LEMMA QuietStep ==
  ASSUME IInv, UNCHANGED <<mWaitAtQueue, timerVars, queueVars>>,
         now' \in 0..MaxNow, now <= now', mark' \in Nat, selectMS' \in 0..SelectMS, sock' \in BOOLEAN,
         pc' = pc \/ (cur = NoMsg /\ pc' \in {"build", "select", "sockets", "loop", "timers", "get",
                                              "wait", "block"}),
         pc' = "timers" => mark' <= now', pc' = "select" => mark' <= now' + selectMS'
  PROVE  IInv'
<1>1. TypeOK'
  BY Zenon DEF IInv, TypeOK, timerVars, queueVars
<1>2. WaitingInv' /\ ParaInv'
  BY Zenon DEF IInv, WaitingInv, ParaInv, ParaFreedOnce, timerVars, queueVars
<1>3. QueueInv'
  BY DEF IInv, QueueInv, Queued, timerVars, queueVars
<1>4. OrderInv'
  <2>1. now \in Int /\ now' \in Int /\ when \in [Ids -> Nat] /\ when' = when /\ mTimers' = mTimers
    BY DEF IInv, TypeOK, timerVars
  <2>2. \A i \in Ids : Queued(i)' = Queued(i)
    BY Zenon DEF Queued, queueVars
  <2>3. \A i \in Ids : Queued(i)' # {} => when'[i] <= now' /\ \A j \in mTimers' : when'[i] <= when'[j]
    BY <2>1, <2>2 DEF IInv, OrderInv
  <2>4. TimeoutOrder'
    BY Zenon DEF IInv, OrderInv, TimeoutOrder, timerVars, queueVars
  <2> QED
    BY <2>3, <2>4, Zenon DEF OrderInv
<1> QED
  BY <1>1, <1>2, <1>3, <1>4, Zenon DEF IInv

(* The indices of timeouts after a message is appended. *)
LEMMA QueuedAppend ==
  ASSUME NEW m \in Msgs, fifo \in Seq(Msgs), fifo' = Append(fifo, m), NEW i \in Ids
  PROVE  Queued(i)' = Queued(i) \cup {n \in {Len(fifo) + 1} : m = TimeOutMsg(i)}
BY DEF Queued

(* The indices of timeouts after the first message is taken. *)
LEMMA QueuedTail ==
  ASSUME fifo \in Seq(Msgs), fifo # <<>>, fifo' = Tail(fifo), NEW i \in Ids
  PROVE  /\ \A n : n \in Queued(i)' <=> n \in Nat \ {0} /\ n + 1 \in Queued(i)
         /\ 1 \in Queued(i) <=> Head(fifo) = TimeOutMsg(i)
BY DEF Queued

(* Fifo::add by another thread. *)
LEMMA AddOK ==
  ASSUME IInv, NEW m \in {TaskMsg(sent + 1), StrayMsg(sent + 1)}, Add(m)
  PROVE  IInv'
<1>1. /\ fifo' = Append(fifo, m) /\ sent' = sent + 1 /\ sent < MaxMsgs
      /\ UNCHANGED <<clockVars, threadVars, timerVars, cur>>
  BY Zenon DEF Add
<1>2. m \in Msgs /\ fifo \in Seq(Msgs) /\ \A i \in Ids : m # TimeOutMsg(i)
  <2>1. sent + 1 \in 1..MaxMsgs
    BY <1>1, ContainerAssumption DEF IInv, TypeOK
  <2>2. m \in Msgs
    BY <2>1, Zenon DEF Msgs
  <2> QED
    BY <2>2, TimeOutMsgs, Zenon DEF IInv, TypeOK
<1>3. \A i \in Ids : Queued(i)' = Queued(i)
  BY <1>1, <1>2, QueuedAppend, Zenon
<1>4. TypeOK'
  BY <1>1, <1>2, ContainerAssumption DEF IInv, TypeOK, clockVars, threadVars, timerVars
<1>5. WaitingInv' /\ ParaInv'
  BY <1>1, Zenon DEF IInv, WaitingInv, ParaInv, ParaFreedOnce, timerVars
<1>6. QueueInv'
  BY <1>1, <1>3 DEF IInv, QueueInv, timerVars, threadVars
<1>7. TimeoutOrder'
  <2>1. m.kind # "timeout"
    BY DEF TaskMsg, StrayMsg
  <2>2. /\ Len(fifo') = Len(fifo) + 1 /\ Len(fifo) \in Nat
        /\ \A n \in 1..Len(fifo) : fifo'[n] = fifo[n]
        /\ fifo'[Len(fifo) + 1] = m
    BY <1>1, <1>2
  <2>3. \A n \in 1..Len(fifo') : fifo'[n].kind = "timeout" => n \in 1..Len(fifo) /\ fifo'[n] = fifo[n]
    BY <2>1, <2>2
  <2> QED
    BY <1>1, <2>3, SMTT(60) DEF IInv, OrderInv, TimeoutOrder, timerVars
<1>8. OrderInv'
  BY <1>1, <1>3, <1>7, Zenon DEF IInv, OrderInv, clockVars, threadVars, timerVars
<1> QED
  BY <1>4, <1>5, <1>6, <1>8, Zenon DEF IInv

(* A new timer.  Its para and its timeout do not exist yet, and it is due  *)
(* after everything that is queued.                                        *)
LEMMA SetTimerOK ==
  ASSUME IInv, NEW d \in Delays, SetTimer(d)
  PROVE  IInv'
<1> DEFINE i == made + 1
<1>1. /\ made < MaxTimers /\ now + d <= MaxNow
      /\ made' = i
      /\ mTimerKey' = NextKey
      /\ key' = [key EXCEPT ![i] = NextKey]
      /\ mTimers' = mTimers \cup {i}
      /\ when' = [when EXCEPT ![i] = now + d]
      /\ fate' = [fate EXCEPT ![i] = "waiting"]
      /\ live' = live \cup {NextKey}
      /\ clash' = clash \cup (IF \E j \in mTimers : key[j] = NextKey
                               THEN {i} \cup {j \in mTimers : key[j] = NextKey} ELSE {})
      /\ UNCHANGED <<clockVars, threadVars, queueVars, cancelled, freed>>
  BY Zenon DEF SetTimer
<1>2. /\ i \in Ids /\ i > made /\ NextKey \in Keys /\ NextKey \in 0..KeyMax /\ NextKey # 0
      /\ now + d \in Nat /\ now + d > now /\ made \in Nat
      /\ \A j \in Ids : j <= i <=> j <= made \/ j = i
  BY <1>1, ContainerAssumption, SMTT(60) DEF IInv, TypeOK, NextKey, Keys, Ids
<1>3. /\ i \notin mTimers /\ fate[i] = "unset" /\ fate'[i] = "waiting" /\ key'[i] = NextKey /\ when'[i] = now + d
      /\ i \notin cancelled /\ i \notin clash
      /\ \A j \in Ids \ {i} : fate'[j] = fate[j] /\ key'[j] = key[j] /\ when'[j] = when[j]
  <2>1. fate[i] = "unset" /\ i \notin cancelled /\ i \notin clash
    BY <1>2 DEF IInv, WaitingInv
  <2>2. i \notin mTimers
    BY <1>2, <2>1, Zenon DEF IInv, WaitingInv
  <2> QED
    BY <1>1, <1>2, <2>1, <2>2, Zenon DEF IInv, TypeOK
<1>4. \A j \in Ids : Queued(j)' = Queued(j)
  BY <1>1, Zenon DEF Queued, queueVars
<1>5. Queued(i) = {} /\ cur # TimeOutMsg(i)
  BY <1>2, <1>3, Zenon DEF IInv, QueueInv
<1>6. TypeOK'
  <2>1. /\ mTimers' \subseteq Ids /\ when' \in [Ids -> Nat] /\ live' \subseteq Keys
        /\ mTimerKey' \in 0..KeyMax /\ made' \in 0..MaxTimers /\ key' \in [Ids -> 0..KeyMax]
        /\ fate' \in [Ids -> {"unset", "waiting", "queued", "handled", "dropped"}]
    BY <1>1, <1>2, SMTT(60) DEF IInv, TypeOK, Ids
  <2>2. clash' \subseteq Ids
    BY <1>1, <1>2, Zenon DEF IInv, TypeOK
  <2>3. \A j \in Ids : (j <= made') <=> (key'[j] # 0)
    BY <1>1, <1>2, <1>3, Zenon DEF IInv, TypeOK
  <2> QED
    BY <1>1, <2>1, <2>2, <2>3, Zenon DEF IInv, TypeOK, clockVars, threadVars, queueVars
<1>7. WaitingInv'
  <2>1. cancelled' \cup clash' \subseteq 1..made'
    <3>1. mTimers \subseteq 1..made /\ 1..made \subseteq 1..made' /\ i \in 1..made'
      BY <1>1, <1>2 DEF IInv, TypeOK, WaitingInv, Ids
    <3> QED
      BY <1>1, <3>1, Zenon DEF IInv, WaitingInv
  <2>2. \A j \in Ids : fate'[j] = "unset" <=> j > made'
    <3>1. \A j \in Ids \ {i} : j > made <=> j > made'
      BY <1>1, <1>2 DEF Ids
    <3> QED
      BY <1>1, <1>2, <1>3, <3>1 DEF IInv, WaitingInv
  <2>3. \A j \in Ids : j \in mTimers' <=> fate'[j] = "waiting"
    BY <1>1, <1>2, <1>3, Zenon DEF IInv, WaitingInv
  <2>4. \A j \in Ids \ clash' : fate'[j] = "dropped" => j \in cancelled'
    BY <1>1, <1>2, <1>3, Zenon DEF IInv, WaitingInv
  <2>5. \A j, k \in mTimers' : j # k /\ key'[j] = key'[k] => j \in clash'
    BY <1>1, <1>2, <1>3, SMTT(60) DEF IInv, WaitingInv, TypeOK
  <2>6. \A j \in mTimers' \ clash' : key'[j] \in live' <=> j \notin cancelled'
    BY <1>1, <1>2, <1>3, SMTT(60) DEF IInv, WaitingInv, TypeOK
  <2> QED
    BY <2>1, <2>2, <2>3, <2>4, <2>5, <2>6, Zenon DEF WaitingInv
<1>8. QueueInv'
  BY <1>1, <1>2, <1>3, <1>4, <1>5 DEF IInv, QueueInv, threadVars, queueVars
<1>9. OrderInv'
  <2>1. \A j \in Ids : Queued(j) # {} => j # i /\ when'[j] = when[j] /\ when[j] <= now
    BY <1>3, <1>5, Zenon DEF IInv, OrderInv
  <2>2. \A j \in Ids : Queued(j) # {} => \A k \in mTimers' : when'[j] <= when'[k]
    <3>1. /\ now \in Int /\ \A j \in Ids : when[j] \in Int
      BY DEF IInv, TypeOK
    <3>2. ASSUME NEW j \in Ids, Queued(j) # {}, NEW k \in mTimers
          PROVE  when'[j] <= when'[k]
      BY <1>3, <2>1, <3>2, Zenon DEF IInv, OrderInv, TypeOK
    <3>3. ASSUME NEW j \in Ids, Queued(j) # {}
          PROVE  when'[j] <= when'[i]
      BY <1>2, <1>3, <2>1, <3>1, <3>3
    <3> QED
      BY <1>1, <3>2, <3>3, Zenon
  <2>3. TimeoutOrder'
    <3>1. \A n \in 1..Len(fifo) : fifo[n].kind = "timeout" => fifo[n].id \in Ids /\ n \in Queued(fifo[n].id)
      BY TimeOutMsgs DEF IInv, TypeOK, Queued
    <3>2. \A n \in 1..Len(fifo) : fifo[n].kind = "timeout" => when'[fifo[n].id] = when[fifo[n].id]
      BY <2>1, <3>1, Zenon
    <3> QED
      BY <1>1, <3>2 DEF IInv, OrderInv, TimeoutOrder, queueVars
  <2> QED
    BY <1>1, <1>4, <2>1, <2>2, <2>3, Zenon DEF IInv, OrderInv, clockVars, threadVars
<1>10. ParaInv'
  BY <1>1, <1>3, Zenon DEF IInv, ParaInv, ParaFreedOnce
<1> QED
  BY <1>6, <1>7, <1>8, <1>9, <1>10, Zenon DEF IInv

(* A cancelled key is no longer live; a waiting timer that shares it is    *)
(* recorded as a clash.                                                    *)
LEMMA DelTimerOK ==
  ASSUME IInv, NEW i \in Ids, DelTimer(i)
  PROVE  IInv'
<1>1. /\ i \in 1..made
      /\ live' = live \ {key[i]}
      /\ cancelled' = cancelled \cup {i}
      /\ clash' = clash \cup {j \in mTimers : j # i /\ key[j] = key[i]}
      /\ UNCHANGED <<clockVars, threadVars, queueVars, mTimers, when, mTimerKey, key, made, fate, freed>>
  BY Zenon DEF DelTimer
<1>2. mTimers \subseteq 1..made
  BY DEF IInv, TypeOK, WaitingInv, Ids
<1>3. TypeOK'
  BY <1>1, Zenon DEF IInv, TypeOK, clockVars, threadVars, queueVars
<1>4. WaitingInv'
  BY <1>1, <1>2, Zenon DEF IInv, WaitingInv
<1>5. QueueInv' /\ OrderInv' /\ ParaInv'
  BY <1>1 DEF IInv, QueueInv, Queued, OrderInv, TimeoutOrder, ParaInv, ParaFreedOnce,
              clockVars, threadVars, queueVars
<1> QED
  BY <1>3, <1>4, <1>5, Zenon DEF IInv

(* An expired timer, the earliest: its timeout is queued behind those of   *)
(* earlier timers, or it was cancelled and its para goes.                  *)
LEMMA ProcessTimerOK ==
  ASSUME IInv, NEW i \in Ids, ProcessTimer(i)
  PROVE  IInv'
<1>1. /\ pc = "timers" /\ i \in mTimers /\ (\A j \in mTimers : when[i] <= when[j]) /\ when[i] <= mark
      /\ mTimers' = mTimers \ {i}
      /\ live' = live \ {key[i]}
      /\ UNCHANGED <<clockVars, threadVars, when, mTimerKey, key, made, cancelled, clash, cur, sent>>
  BY Zenon DEF ProcessTimer, Earliest
<1>2. /\ cur = NoMsg /\ fate[i] = "waiting" /\ Queued(i) = {} /\ when[i] <= now
      /\ cur # TimeOutMsg(i) /\ TimeOutMsg(i) \in Msgs
  <2>1. cur = NoMsg /\ fate[i] = "waiting" /\ Queued(i) = {}
    BY <1>1, Zenon DEF IInv, WaitingInv, QueueInv
  <2>2. when[i] <= now
    BY <1>1 DEF IInv, TypeOK, OrderInv
  <2> QED
    BY <2>1, <2>2, TimeOutMsgs, Zenon DEF Msgs
<1>3. \A j \in mTimers \ {i} : key[j] = key[i] => j \in clash
  BY <1>1, Zenon DEF IInv, WaitingInv
<1>4. CASE key[i] \in live
  <2>1. fifo' = Append(fifo, TimeOutMsg(i)) /\ fate' = [fate EXCEPT ![i] = "queued"] /\ freed' = freed
    BY <1>4, Zenon DEF ProcessTimer
  <2>2. fifo \in Seq(Msgs) /\ fate'[i] = "queued" /\ \A j \in Ids \ {i} : fate'[j] = fate[j]
    BY <2>1, Zenon DEF IInv, TypeOK
  <2>3. /\ \A j \in Ids \ {i} : Queued(j)' = Queued(j)
        /\ Queued(i)' = {Len(fifo) + 1}
    <3>1. \A j \in Ids : Queued(j)' = Queued(j) \cup {n \in {Len(fifo) + 1} : TimeOutMsg(i) = TimeOutMsg(j)}
      BY <1>2, <2>1, <2>2, QueuedAppend, Zenon
    <3>2. \A j \in Ids \ {i} : TimeOutMsg(i) # TimeOutMsg(j)
      BY TimeOutMsgs, Zenon
    <3>3. \A j \in Ids \ {i} : Queued(j)' = Queued(j)
      BY <3>1, <3>2, Zenon
    <3>4. Queued(i)' = {Len(fifo) + 1}
      BY <1>2, <3>1, Zenon
    <3> QED
      BY <3>3, <3>4, Zenon
  <2>4. TypeOK'
    BY <1>1, <1>2, <2>1, SMTT(60) DEF IInv, TypeOK, clockVars, threadVars
  <2>5. WaitingInv'
    BY <1>1, <1>2, <1>3, <2>2, Zenon DEF IInv, WaitingInv
  <2>6. QueueInv'
    <3>1. QueueInv
      BY Zenon DEF IInv
    <3>2. cur' = NoMsg /\ \A j \in Ids : cur' # TimeOutMsg(j)
      BY <1>1, <1>2, TimeOutMsgs, Zenon
    <3>3. ASSUME NEW j \in Ids
          PROVE  /\ \A m \in Queued(j)' : fate'[j] = "queued" /\ Queued(j)' = {m}
                 /\ fate'[j] = "queued" => Queued(j)' # {}
      <4>1. CASE j = i
        BY <2>2, <2>3, <4>1, Zenon
      <4>2. CASE j # i
        <5>1. Queued(j)' = Queued(j) /\ fate'[j] = fate[j]
          BY <2>2, <2>3, <4>2, Zenon
        <5>2. cur # TimeOutMsg(j)
          BY <1>2, TimeOutMsgs, Zenon
        <5>3. \A m \in Queued(j) : fate[j] = "queued" /\ Queued(j) = {m}
          BY <3>1, Zenon DEF QueueInv
        <5>4. fate[j] = "queued" => Queued(j) # {}
          BY <3>1, <5>2, Zenon DEF QueueInv
        <5> QED
          BY <5>1, <5>3, <5>4, Zenon
      <4> QED
        BY <4>1, <4>2, Zenon
    <3> QED
      BY <3>2, <3>3, Zenon DEF QueueInv
  <2>7. TimeoutOrder'
    <3>1. /\ Len(fifo') = Len(fifo) + 1 /\ Len(fifo) \in Nat
          /\ \A n \in 1..Len(fifo) : fifo'[n] = fifo[n]
          /\ fifo'[Len(fifo) + 1] = TimeOutMsg(i) /\ TimeOutMsg(i).id = i
      BY <1>2, <2>1, <2>2, TimeOutMsgs, SMTT(20)
    <3>2. \A n \in 1..Len(fifo) : fifo[n].kind = "timeout" => fifo[n].id \in Ids /\ n \in Queued(fifo[n].id)
      BY TimeOutMsgs, SMTT(20) DEF IInv, TypeOK, Queued
    <3>3. \A n \in 1..Len(fifo) : fifo[n].kind = "timeout" => when[fifo[n].id] <= when[i]
      BY <1>1, <3>2, Zenon DEF IInv, OrderInv
    <3>4. \A m, n \in 1..Len(fifo') : m < n => m \in 1..Len(fifo) /\ (n \in 1..Len(fifo) \/ n = Len(fifo) + 1)
      BY <3>1
    <3> QED
      BY <1>1, <3>1, <3>3, <3>4, Zenon DEF IInv, OrderInv, TimeoutOrder
  <2>8. OrderInv'
    BY <1>1, <1>2, <2>3, <2>7, SMTT(60) DEF IInv, OrderInv, clockVars, threadVars
  <2>9. ParaInv'
    BY <1>1, <1>2, <2>1, <2>2, SMTT(60) DEF IInv, ParaInv, ParaFreedOnce
  <2> QED
    BY <2>4, <2>5, <2>6, <2>8, <2>9, Zenon DEF IInv
<1>5. CASE key[i] \notin live
  <2>1. fifo' = fifo /\ fate' = [fate EXCEPT ![i] = "dropped"] /\ freed' = [freed EXCEPT ![i] = @ + 1]
    BY <1>5, Zenon DEF ProcessTimer
  <2>2. fate'[i] = "dropped" /\ \A j \in Ids \ {i} : fate'[j] = fate[j]
    BY <2>1, Zenon DEF IInv, TypeOK
  <2>3. \A j \in Ids : Queued(j)' = Queued(j)
    BY <2>1, Zenon DEF Queued
  <2>4. TypeOK'
    BY <1>1, <2>1, SMTT(20) DEF IInv, TypeOK, clockVars, threadVars
  <2>5. WaitingInv'
    BY <1>1, <1>2, <1>3, <1>5, <2>2, Zenon DEF IInv, WaitingInv
  <2>6. QueueInv'
    BY <1>1, <1>2, <2>2, <2>3 DEF IInv, QueueInv, threadVars
  <2>7. OrderInv'
    BY <1>1, <2>1, <2>3, Zenon DEF IInv, OrderInv, TimeoutOrder, clockVars, threadVars
  <2>8. ParaInv'
    BY <1>1, <1>2, <2>1, <2>2, SMTT(60) DEF IInv, TypeOK, ParaInv, ParaFreedOnce
  <2> QED
    BY <2>4, <2>5, <2>6, <2>7, <2>8 DEF IInv
<1> QED
  BY <1>4, <1>5, Zenon

(* Fifo::getNext hands out the first message. *)
LEMMA TakeOK ==
  ASSUME IInv, Take
  PROVE  IInv'
<1>1. /\ pc \in {"get", "wait", "block"} /\ fifo # <<>> /\ cur' = Head(fifo) /\ fifo' = Tail(fifo) /\ pc' = "handle"
      /\ UNCHANGED <<clockVars, mark, selectMS, sock, timerVars, sent>>
  BY Zenon DEF Take
<1>2. /\ fifo \in Seq(Msgs) /\ Len(fifo) \in Nat \ {0} /\ Head(fifo) = fifo[1] /\ fifo[1] \in Msgs
      /\ fifo' \in Seq(Msgs) /\ Len(fifo') = Len(fifo) - 1
      /\ \A n \in 1..Len(fifo') : n + 1 \in 1..Len(fifo) /\ fifo'[n] = fifo[n + 1]
  BY <1>1 DEF IInv, TypeOK
<1>3. /\ cur = NoMsg
      /\ \A j \in Ids : /\ \A n : n \in Queued(j)' <=> n \in Nat \ {0} /\ n + 1 \in Queued(j)
                        /\ 1 \in Queued(j) <=> cur' = TimeOutMsg(j)
                        /\ Queued(j) \subseteq Nat \ {0}
  BY <1>1, <1>2, QueuedTail DEF IInv, QueueInv, Queued
<1>4. TypeOK'
  BY <1>1, <1>2, Zenon DEF IInv, TypeOK, clockVars, timerVars
<1>5. WaitingInv' /\ ParaInv'
  BY <1>1, Zenon DEF IInv, WaitingInv, ParaInv, ParaFreedOnce, timerVars
<1>6. QueueInv'
  <2>1. ASSUME NEW j \in Ids, cur' = TimeOutMsg(j)
        PROVE  fate'[j] = "queued" /\ Queued(j)' = {}
    <3>1. Queued(j) = {1} /\ fate[j] = "queued"
      BY <1>3, <2>1, Zenon DEF IInv, QueueInv
    <3>2. Queued(j)' = {}
      BY <1>3, <3>1
    <3> QED
      BY <1>1, <3>1, <3>2, Zenon DEF timerVars
  <2>2. ASSUME NEW j \in Ids, NEW m \in Queued(j)'
        PROVE  fate'[j] = "queued" /\ Queued(j)' = {m}
    <3>1. m \in Nat \ {0} /\ m + 1 \in Queued(j)
      BY <1>3, <2>2, Zenon
    <3>2. Queued(j) = {m + 1} /\ fate[j] = "queued"
      BY <3>1, Zenon DEF IInv, QueueInv
    <3>3. \A n \in Queued(j)' : n = m
      BY <1>3, <3>1, <3>2
    <3>4. Queued(j)' = {m}
      BY <2>2, <3>3, Zenon
    <3> QED
      BY <1>1, <3>2, <3>4, Zenon DEF timerVars
  <2>3. ASSUME NEW j \in Ids, fate'[j] = "queued"
        PROVE  cur' = TimeOutMsg(j) \/ Queued(j)' # {}
    <3>1. cur # TimeOutMsg(j) /\ fate[j] = "queued"
      BY <1>1, <1>3, <2>3, TimeOutMsgs, Zenon DEF timerVars
    <3>2. PICK n \in Queued(j) : TRUE
      BY <3>1, Zenon DEF IInv, QueueInv
    <3>3. CASE n = 1
      BY <1>3, <3>2, <3>3, Zenon
    <3>4. CASE n # 1
      <4>1. n - 1 \in Nat \ {0} /\ (n - 1) + 1 = n
        BY <1>3, <3>4
      <4> QED
        BY <1>3, <3>2, <4>1, Zenon
    <3> QED
      BY <3>3, <3>4, Zenon
  <2> QED
    BY <1>1, <2>1, <2>2, <2>3, Zenon DEF QueueInv
<1>7. TimeoutOrder'
  <2>1. \A m, n \in 1..Len(fifo') : m < n => m + 1 < n + 1
    BY <1>2
  <2> QED
    BY <1>1, <1>2, <2>1 DEF IInv, OrderInv, TimeoutOrder, timerVars
<1>8. OrderInv'
  <2>1. \A j \in Ids : Queued(j)' # {} => Queued(j) # {}
    BY <1>3, Zenon
  <2> QED
    BY <1>1, <1>7, <2>1, Zenon DEF IInv, OrderInv, clockVars, timerVars
<1> QED
  BY <1>4, <1>5, <1>6, <1>8, Zenon DEF IInv

(* The message is destroyed, and with a timeout its para. *)
LEMMA HandlerReturnsOK ==
  ASSUME IInv, HandlerReturns
  PROVE  IInv'
<1>1. /\ pc' = LoopStart /\ cur' = NoMsg
      /\ freed' = [i \in Ids |-> freed[i] + IF cur = TimeOutMsg(i) THEN Deletions ELSE 0]
      /\ fate' = [i \in Ids |-> IF cur = TimeOutMsg(i) THEN "handled" ELSE fate[i]]
      /\ UNCHANGED <<clockVars, mark, selectMS, sock, mTimers, when, live, mTimerKey, key,
                     made, cancelled, clash, fifo, sent>>
  BY Zenon DEF HandlerReturns
<1>2. pc' \in {"loop", "build"}
  BY <1>1, Zenon DEF LoopStart
<1>3. \A j \in Ids : Queued(j)' = Queued(j) /\ (Queued(j) # {} => fate'[j] = fate[j])
  BY <1>1, Zenon DEF Queued, IInv, QueueInv
<1>4. TypeOK'
  <2>1. freed' \in [Ids -> Nat]
    BY <1>1, SMTT(60) DEF Deletions, IInv, TypeOK
  <2>2. fate' \in [Ids -> {"unset", "waiting", "queued", "handled", "dropped"}]
    BY <1>1, Zenon DEF IInv, TypeOK
  <2> QED
    BY <1>1, <1>2, <2>1, <2>2, Zenon DEF IInv, TypeOK, clockVars
<1>5. WaitingInv'
  <2>1. \A j \in Ids : fate'[j] = fate[j] \/ (fate[j] = "queued" /\ fate'[j] = "handled")
    BY <1>1, SMTT(60) DEF IInv, QueueInv
  <2> QED
    BY <1>1, <2>1 DEF IInv, WaitingInv
<1>6. QueueInv'
  <2>1. /\ \A j \in Ids : cur' # TimeOutMsg(j)
        /\ \A j \in Ids : fate'[j] = "queued" => fate[j] = "queued" /\ cur # TimeOutMsg(j)
    BY <1>1, TimeOutMsgs, Zenon
  <2>2. \A j \in Ids : \A m \in Queued(j)' : fate'[j] = "queued" /\ Queued(j)' = {m}
    BY <1>3 DEF IInv, QueueInv
  <2>3. \A j \in Ids : fate'[j] = "queued" => Queued(j)' # {}
    BY <1>3, <2>1, SMTT(60) DEF IInv, QueueInv
  <2> QED
    BY <1>1, <2>1, <2>2, <2>3, SMTT(60) DEF QueueInv
<1>7. OrderInv'
  BY <1>1, <1>2, <1>3, Zenon DEF IInv, OrderInv, TimeoutOrder, clockVars
<1>8. ParaInv'
  <2>1. ASSUME ~AdoptsPara, NEW j \in Ids
        PROVE  freed'[j] = IF fate'[j] \in {"handled", "dropped"} THEN 1 ELSE 0
    <3>1. freed[j] = IF fate[j] \in {"handled", "dropped"} THEN 1 ELSE 0
      BY <2>1, SMTT(20) DEF IInv, ParaInv, ParaFreedOnce
    <3>2. CASE cur = TimeOutMsg(j)
      BY <1>1, <2>1, <3>1, <3>2 DEF IInv, QueueInv, Deletions
    <3>3. CASE cur # TimeOutMsg(j)
      BY <1>1, <3>1, <3>3 DEF IInv, TypeOK
    <3> QED
      BY <3>2, <3>3, Zenon
  <2> QED
    BY <2>1, Zenon DEF ParaInv, ParaFreedOnce
<1> QED
  BY <1>4, <1>5, <1>6, <1>7, <1>8, Zenon DEF IInv

(* The initial states satisfy the invariant. *)
LEMMA InitIInv == Init => IInv
<1> SUFFICES ASSUME Init PROVE IInv
  BY Zenon
<1>1. \A i \in Ids : Queued(i) = {}
  BY DEF Init, Queued
<1>2. TypeOK
  <2>1. \A i \in Ids : (i <= made) <=> (key[i] # 0)
    BY ContainerAssumption DEF Init, Ids
  <2>2. fifo \in Seq(Msgs) /\ key \in [Ids -> 0..KeyMax] /\ when \in [Ids -> Nat] /\ freed \in [Ids -> Nat]
    BY ContainerAssumption DEF Init
  <2>3. fate \in [Ids -> {"unset", "waiting", "queued", "handled", "dropped"}]
    BY Zenon DEF Init
  <2>4. mTimers \subseteq Ids /\ live \subseteq Keys /\ cancelled \subseteq Ids /\ clash \subseteq Ids
    BY Zenon DEF Init
  <2>5. /\ now \in 0..MaxNow /\ mark \in Nat /\ selectMS \in 0..SelectMS /\ mTimerKey \in 0..KeyMax
        /\ made \in 0..MaxTimers /\ sent \in 0..MaxMsgs
    BY ContainerAssumption DEF Init
  <2>6. sock \in BOOLEAN /\ mWaitAtQueue \in BOOLEAN /\ pc = "init" /\ cur = NoMsg
    BY ContainerAssumption, Zenon DEF Init
  <2> QED
    BY <2>1, <2>2, <2>3, <2>4, <2>5, <2>6, Zenon DEF TypeOK
<1>3. WaitingInv /\ ParaInv
  <2>1. \A i \in Ids : fate[i] = "unset" /\ freed[i] = 0 /\ i > made
    BY ContainerAssumption DEF Init, Ids
  <2> QED
    BY <2>1, Zenon DEF Init, WaitingInv, ParaInv, ParaFreedOnce
<1>4. QueueInv
  BY <1>1, TimeOutMsgs, Zenon DEF Init, QueueInv
<1>5. OrderInv
  BY <1>1 DEF Init, OrderInv, TimeoutOrder
<1> QED
  BY <1>2, <1>3, <1>4, <1>5, Zenon DEF IInv

(* Every step preserves the invariant. *)
LEMMA NextIInv == IInv /\ [Next]_vars => IInv'
<1> SUFFICES ASSUME IInv, [Next]_vars PROVE IInv'
  BY Zenon
<1> USE ContainerAssumption
<1>t. /\ now \in 0..MaxNow /\ mark \in Nat /\ selectMS \in 0..SelectMS /\ sock \in BOOLEAN
      /\ MaxNow \in Nat /\ SelectMS \in Nat /\ WaitMS \in Nat
      /\ (cur # NoMsg => pc = "handle") /\ (pc = "timers" => mark <= now)
      /\ (pc = "select" => mark <= now + selectMS)
      /\ when \in [Ids -> Nat] /\ mTimers \subseteq Ids
  BY Zenon DEF IInv, TypeOK, QueueInv, OrderInv
<1>1. CASE Environment
  <2>1. CASE SocketReady
    BY <1>t, <2>1, QuietStep DEF SocketReady, clockVars
  <2>2. CASE Tick
    BY <1>t, <2>2, QuietStep DEF Tick, threadVars
  <2> QED
    BY <1>1, <2>1, <2>2, AddOK, Zenon DEF Environment
<1>2. CASE TaskStep
  BY <1>2, SetTimerOK, DelTimerOK, Zenon DEF TaskStep
<1>3. CASE InitDone
  BY <1>t, <1>3, QuietStep DEF InitDone, LoopStart, clockVars
<1>4. CASE SelectStart
  BY <1>t, <1>4, QuietStep DEF SelectStart, clockVars
<1>5. CASE SelectReturns
  <2>1. selectMS' \in 0..SelectMS
    BY <1>t, <1>5 DEF SelectReturns, Over
  <2>2. cur = NoMsg /\ pc' \in {"sockets", "loop"} /\ sock' \in BOOLEAN
    BY <1>t, <1>5, Zenon DEF SelectReturns
  <2>3. now' = now /\ mark' = mark /\ UNCHANGED <<mWaitAtQueue, timerVars, queueVars>>
    BY <1>5, Zenon DEF SelectReturns, clockVars
  <2>4. now' \in 0..MaxNow /\ now <= now' /\ mark' \in Nat
    BY <1>t, <2>3
  <2>5. /\ pc' \in {"build", "select", "sockets", "loop", "timers", "get", "wait", "block"}
        /\ pc' # "timers" /\ pc' # "select"
    BY <2>2, Zenon
  <2> QED
    BY <2>1, <2>2, <2>3, <2>4, <2>5, QuietStep, Zenon
<1>6. CASE SocketsDone
  BY <1>t, <1>6, QuietStep DEF SocketsDone, clockVars
<1>7. CASE ProcessStart
  BY <1>t, <1>7, QuietStep DEF ProcessStart, clockVars
<1>8. CASE NextStep
  <2>1. MsTillNextTimer \subseteq Nat
    BY <1>t DEF MsTillNextTimer
  <2>2. mark' \in Nat
    BY <1>t, <1>8, <2>1 DEF NextStep
  <2> QED
    BY <1>t, <1>8, <2>2, QuietStep DEF NextStep, clockVars
<1>9. CASE GetNext
  BY <1>t, <1>9, QuietStep DEF GetNext, clockVars
<1>10. CASE WaitTimesOut
  BY <1>t, <1>10, QuietStep DEF WaitTimesOut, LoopStart, clockVars
<1>11. CASE UNCHANGED vars
  BY <1>t, <1>11, QuietStep DEF vars, clockVars, threadVars
<1>12. CASE \E i \in Ids : ProcessTimer(i)
  BY <1>12, ProcessTimerOK, Zenon
<1> QED
  BY <1>1, <1>2, <1>3, <1>4, <1>5, <1>6, <1>7, <1>8, <1>9, <1>10, <1>11, <1>12,
     TakeOK, HandlerReturnsOK, Zenon DEF Next, ThreadStep

(* The invariant holds in every reachable state of the container. *)
THEOREM Invariance == Spec => []IInv
BY InitIInv, NextIInv, PTL DEF Spec

(* The container keeps its types: key 0 is never handed out.  Follows from *)
(* the type part of the invariant.                                         *)
THEOREM TypeCorrect == Spec => []TypeOK
<1>1. IInv => TypeOK
  BY Zenon DEF IInv
<1> QED
  BY <1>1, Invariance, PTL

(* A timer that is not in a clash of keys is handled once or, only if it   *)
(* was cancelled, dropped: never lost, never queued twice.                 *)
THEOREM TimersAreKept == Spec => []TimerFate
<1>1. IInv => TimerFate
  <2> SUFFICES ASSUME IInv, NEW i \in (1..made) \ clash
               PROVE  /\ fate[i] = "waiting" => i \in mTimers /\ (key[i] \in live <=> i \notin cancelled)
                      /\ fate[i] = "queued" => IF cur = TimeOutMsg(i) THEN Queued(i) = {}
                                               ELSE \E n \in Queued(i) : Queued(i) = {n}
                      /\ fate[i] = "dropped" => i \in cancelled
    BY Zenon DEF TimerFate
  <2>1. i \in Ids
    BY ContainerAssumption DEF IInv, TypeOK, Ids
  <2>2. fate[i] = "queued" /\ cur # TimeOutMsg(i) => \E n \in Queued(i) : Queued(i) = {n}
    BY <2>1, Zenon DEF IInv, QueueInv
  <2>3. cur = TimeOutMsg(i) => Queued(i) = {}
    BY <2>1, Zenon DEF IInv, QueueInv
  <2> QED
    BY <2>1, <2>2, <2>3, Zenon DEF IInv, WaitingInv
<1> QED
  BY <1>1, Invariance, PTL

(* Timeouts are queued in the order in which they were due. *)
THEOREM TimeoutsInOrder == Spec => []TimeoutOrder
<1>1. IInv => TimeoutOrder
  BY Zenon DEF IInv, OrderInv
<1> QED
  BY <1>1, Invariance, PTL

(* When handlers leave the para alone, as abstracttask.C 134 asks of them, *)
(* no para is deleted twice and none is forgotten, clashes included.       *)
THEOREM ParasAreFreedOnce == ~AdoptsPara => (Spec => []ParaFreedOnce)
<1> SUFFICES ASSUME ~AdoptsPara PROVE Spec => []ParaFreedOnce
  BY Zenon
<1>1. IInv => ParaFreedOnce
  BY Zenon DEF IInv, ParaInv
<1> QED
  BY <1>1, Invariance, PTL

(* A timer cancelled while it waits is never queued: processTimer is the   *)
(* only step that ends the waiting, and it finds the key gone.             *)
THEOREM CancelledTimersAreSilent == Spec => CancelledNeverFires
<1>1. ASSUME IInv, [Next]_vars, NEW i \in (mTimers \cap cancelled) \ clash
      PROVE  fate'[i] \in {"waiting", "dropped"}
  <2>1. i \in Ids /\ fate[i] = "waiting" /\ key[i] \notin live /\ cur # TimeOutMsg(i)
    BY <1>1, Zenon DEF IInv, TypeOK, WaitingInv, QueueInv
  <2>2. CASE fate' = fate
    BY <2>1, <2>2, Zenon
  <2>3. CASE \E d \in Delays : SetTimer(d)
    BY <1>1, <2>1, <2>3, Zenon DEF SetTimer, IInv, TypeOK
  <2>4. CASE \E j \in Ids : ProcessTimer(j)
    BY <1>1, <2>1, <2>4, SMTT(60) DEF ProcessTimer, IInv, TypeOK
  <2>5. CASE HandlerReturns
    BY <2>1, <2>5, Zenon DEF HandlerReturns
  <2>6. Environment => fate' = fate
    BY Zenon DEF Environment, Add, SocketReady, Tick, timerVars
  <2>7. TaskStep => fate' = fate \/ \E d \in Delays : SetTimer(d)
    BY Zenon DEF TaskStep, DelTimer
  <2>8. ThreadStep => fate' = fate \/ (\E j \in Ids : ProcessTimer(j)) \/ HandlerReturns
    BY Zenon DEF ThreadStep, InitDone, SelectStart, SelectReturns, SocketsDone, ProcessStart, NextStep,
           GetNext, Take, WaitTimesOut, timerVars
  <2>9. UNCHANGED vars => fate' = fate
    BY Zenon DEF vars, timerVars
  <2> QED
    BY <1>1, <2>2, <2>3, <2>4, <2>5, <2>6, <2>7, <2>8, <2>9, Zenon DEF Next
<1>2. IInv /\ [Next]_vars =>
        [\A i \in (mTimers \cap cancelled) \ clash : fate'[i] \in {"waiting", "dropped"}]_vars
  BY <1>1, Zenon
<1> QED
  BY <1>2, Invariance, PTL DEF Spec, CancelledNeverFires
=============================================================================
