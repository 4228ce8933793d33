------------------------- MODULE TransMachineProof -------------------------
(***************************************************************************)
(* Every step of one side (TSClient_CHANGE or TSServer_CHANGE, its timer,  *)
(* its maintenance) preserves that side's part of the inductive invariant, *)
(* and what the two ends and the network say about each other is preserved *)
(* too.  What follows: the safety properties of TransMachine, and that it  *)
(* implements RequestReply, for every set of transactions, answers and     *)
(* timer keys, and every living time.                                      *)
(***************************************************************************)
EXTENDS TransMachine, TLAPS

(* Messages of different kinds differ, and equal messages belong to the    *)
(* same transaction and carry the same answer.                             *)
LEMMA MsgDistinct ==
  \A t, u, v, w :
    /\ Req(t) # Ack(u) /\ Req(t) # Tmp(u) /\ Req(t) # Rsp(u, v)
    /\ Ack(t) # Tmp(u) /\ Ack(t) # Rsp(u, v) /\ Tmp(t) # Rsp(u, v)
    /\ Req(t) = Req(u) => t = u
    /\ Ack(t) = Ack(u) => t = u
    /\ Tmp(t) = Tmp(u) => t = u
    /\ Rsp(t, v) = Rsp(u, w) => t = u /\ v = w
BY DEF Req, Ack, Tmp, Rsp

(* The constructors build messages, and no message is the absent one. *)
LEMMA MsgType ==
  /\ \A t \in Trans : Req(t) \in Message /\ Ack(t) \in Message /\ Tmp(t) \in Message
  /\ \A t \in Trans, v \in Answers : Rsp(t, v) \in Message
  /\ NoMsg \notin Message
BY NoMsgAssumption DEF Message

----------------------------------------------------------------------------
(* Timer bookkeeping, for the timers of either side. *)

(* setResendTimer for a transaction that has no timer. *)
LEMMA TimerSet ==
  ASSUME NEW timer \in [Trans -> Keys \cup {NoKey}],
         NEW armed \in SUBSET (Keys \X Trans), NEW due \in SUBSET (Keys \X Trans),
         TimersInv(timer, armed, due),
         NEW t \in Trans, timer[t] = NoKey, NEW k \in Fresh(armed, due)
  PROVE  TimersInv([timer EXCEPT ![t] = k], armed \cup {<<k, t>>}, due)
BY ConstantsAssumption DEF TimersInv, Fresh

(* delResendTimer of a transaction's timer leaves the others' running. *)
LEMMA TimerDeleted ==
  ASSUME NEW timer \in [Trans -> Keys \cup {NoKey}],
         NEW armed \in SUBSET (Keys \X Trans), NEW due \in SUBSET (Keys \X Trans),
         TimersInv(timer, armed, due), NEW t \in Trans
  PROVE  TimersInv([timer EXCEPT ![t] = NoKey], DelTimer(armed, timer[t]), due)
BY ConstantsAssumption, Zenon DEF TimersInv, DelTimer

(* The destructors of a set of states cancel exactly their timers. *)
LEMMA TimersDeleted ==
  ASSUME NEW timer \in [Trans -> Keys \cup {NoKey}],
         NEW armed \in SUBSET (Keys \X Trans), NEW due \in SUBSET (Keys \X Trans),
         TimersInv(timer, armed, due), NEW E \in SUBSET Trans
  PROVE  TimersInv(Reset(timer, E, NoKey), DelTimers(armed, timer, E), due)
BY ConstantsAssumption, Zenon DEF TimersInv, DelTimers, Reset

(* A timer expires: its timeout is queued. *)
LEMMA TimerFired ==
  ASSUME NEW timer, NEW armed, NEW due, TimersInv(timer, armed, due), NEW p \in armed
  PROVE  TimersInv(timer, armed \ {p}, due \cup {p})
BY Zenon DEF TimersInv

(* A queued timeout the transaction no longer waits for is dropped. *)
LEMMA TimerStale ==
  ASSUME NEW timer, NEW armed, NEW due, TimersInv(timer, armed, due),
         NEW k, NEW t \in Trans, timer[t] # k
  PROVE  TimersInv(timer, armed, due \ {<<k, t>>})
BY Zenon DEF TimersInv

(* The timeout the transaction waits for is handled and the timer set      *)
(* again.                                                                  *)
LEMMA TimerRearmed ==
  ASSUME NEW timer \in [Trans -> Keys \cup {NoKey}],
         NEW armed \in SUBSET (Keys \X Trans), NEW due \in SUBSET (Keys \X Trans),
         TimersInv(timer, armed, due),
         NEW k, NEW t \in Trans, timer[t] = k, <<k, t>> \in due, NEW n \in Fresh(armed, due)
  PROVE  TimersInv([timer EXCEPT ![t] = n], armed \cup {<<n, t>>}, due \ {<<k, t>>})
BY ConstantsAssumption DEF TimersInv, Fresh

----------------------------------------------------------------------------
(* The requester's part of the invariant. *)

(* It is about the requester's variables only. *)
LEMMA ClientFrame == ClientIInv /\ UNCHANGED cVars => ClientIInv'
BY DEF ClientIInv, ClientTypeOK, ClientInv, TimersInv, cVars

(* TSClient_CHANGE in TS_INIT. *)
LEMMA ClientStartOK ==
  ASSUME ClientIInv, NEW t \in Trans, ClientStart(t)
  PROVE  ClientIInv'
<1>1. PICK k \in Fresh(cArmed, cDue) :
        cTimer' = [cTimer EXCEPT ![t] = k] /\ cArmed' = cArmed \cup {<<k, t>>}
  BY Zenon DEF ClientStart
<1>2. k \in Keys /\ k # NoKey
  BY <1>1, ConstantsAssumption, Zenon DEF Fresh
<1>3. cTimer[t] = NoKey /\ cState[t] = "none" /\ t \notin cGone /\ outcome[t] = None
  BY Zenon DEF ClientIInv, ClientInv, ClientStart
<1>4. ClientTypeOK'
  BY <1>1, <1>2, MsgType DEF ClientIInv, ClientTypeOK, ClientStart, States
<1>5. TimersInv(cTimer, cArmed, cDue)'
  BY <1>1, <1>3, TimerSet, Zenon DEF ClientIInv, ClientTypeOK, ClientStart
<1>6. ASSUME NEW u \in Trans PROVE ClientInv(u)'
  BY <1>1, <1>2, <1>3, Zenon DEF ClientIInv, ClientTypeOK, ClientInv, ClientStart
<1> QED
  BY <1>4, <1>5, <1>6, Zenon DEF ClientIInv

(* TSClient_CHANGE in TS_FORWARD, RSP. *)
LEMMA ClientRspInForwardOK ==
  ASSUME ClientIInv, NEW t \in Trans, NEW v \in Answers, ClientRspInForward(t, v)
  PROVE  ClientIInv'
<1> USE DEF ClientRspInForward, LeaveForward, Tell
<1>1. ClientTypeOK'
  BY DEF ClientIInv, ClientTypeOK, States, DelTimer
<1>2. TimersInv(cTimer, cArmed, cDue)'
  BY TimerDeleted, Zenon DEF ClientIInv, ClientTypeOK
<1>3. ASSUME NEW u \in Trans PROVE ClientInv(u)'
  BY ConstantsAssumption DEF ClientIInv, ClientTypeOK, ClientInv
<1> QED
  BY <1>1, <1>2, <1>3, Zenon DEF ClientIInv

(* TSClient_CHANGE in TS_FORWARD, TMP. *)
LEMMA ClientTmpInForwardOK ==
  ASSUME ClientIInv, NEW t \in Trans, ClientTmpInForward(t)
  PROVE  ClientIInv'
<1> USE DEF ClientTmpInForward, LeaveForward
<1>1. ClientTypeOK'
  BY Zenon DEF ClientIInv, ClientTypeOK, States, DelTimer
<1>2. TimersInv(cTimer, cArmed, cDue)'
  BY TimerDeleted, Zenon DEF ClientIInv, ClientTypeOK
<1>3. ASSUME NEW u \in Trans PROVE ClientInv(u)'
  BY Zenon DEF ClientIInv, ClientTypeOK, ClientInv
<1> QED
  BY <1>1, <1>2, <1>3, Zenon DEF ClientIInv

(* TSClient_CHANGE in TS_TEMPORARY, RSP. *)
LEMMA ClientRspInTemporaryOK ==
  ASSUME ClientIInv, NEW t \in Trans, NEW v \in Answers, ClientRspInTemporary(t, v)
  PROVE  ClientIInv'
<1> USE DEF ClientRspInTemporary, Tell
<1>1. ClientTypeOK'
  BY DEF ClientIInv, ClientTypeOK, States
<1>2. TimersInv(cTimer, cArmed, cDue)'
  BY Zenon DEF ClientIInv, TimersInv
<1>3. ASSUME NEW u \in Trans PROVE ClientInv(u)'
  BY ConstantsAssumption DEF ClientIInv, ClientTypeOK, ClientInv
<1> QED
  BY <1>1, <1>2, <1>3, Zenon DEF ClientIInv

(* TaskTimerQueue::processTimer for a requester's timer. *)
LEMMA ClientTimerFiresOK ==
  ASSUME ClientIInv, NEW p \in cArmed, ClientTimerFires(p)
  PROVE  ClientIInv'
<1>1. ClientTypeOK'
  BY Zenon DEF ClientIInv, ClientTypeOK, ClientTimerFires
<1>2. TimersInv(cTimer, cArmed, cDue)'
  BY TimerFired, Zenon DEF ClientIInv, ClientTimerFires
<1>3. ASSUME NEW u \in Trans PROVE ClientInv(u)'
  BY Zenon DEF ClientIInv, ClientInv, ClientTimerFires
<1> QED
  BY <1>1, <1>2, <1>3, Zenon DEF ClientIInv

(* processTM(tk, para, resend) on the requester's side. *)
LEMMA ClientTimeoutOK ==
  ASSUME ClientIInv, NEW k \in Keys, NEW t \in Trans, ClientTimeout(k, t)
  PROVE  ClientIInv'
<1>1. CASE ClientResend(k, t)
  <2>1. PICK n \in Fresh(cArmed, cDue) :
          cTimer' = [cTimer EXCEPT ![t] = n] /\ cArmed' = cArmed \cup {<<n, t>>}
    BY <1>1, Zenon DEF ClientResend
  <2>2. n \in Keys /\ n # NoKey
    BY <2>1, ConstantsAssumption, Zenon DEF Fresh
  <2>3. cState[t] = "FORWARD" /\ cTimer[t] = k
    BY <1>1, Zenon DEF ClientResend
  <2>4. ClientTypeOK'
    BY <2>1, <2>2 DEF ClientIInv, ClientTypeOK, ClientTimeout
  <2>5. TimersInv(cTimer, cArmed, cDue)'
    BY <2>1, <2>3, TimerRearmed, Zenon DEF ClientIInv, ClientTypeOK, ClientTimeout
  <2>6. ASSUME NEW u \in Trans PROVE ClientInv(u)'
    BY <2>1, <2>2, <2>3, Zenon DEF ClientIInv, ClientTypeOK, ClientInv, ClientTimeout
  <2> QED
    BY <2>4, <2>5, <2>6, Zenon DEF ClientIInv
<1>2. CASE ~ClientResend(k, t)
  <2>1. /\ UNCHANGED <<cState, cMsg, cTimer, cAge, cArmed, started, outcome, told, cGone>>
        /\ cDue' = cDue \ {<<k, t>>}
        /\ ~(cTimer[t] = k /\ cState[t] = "FORWARD")
    BY <1>2, Zenon DEF ClientTimeout
  <2>2. cTimer[t] # k
    BY <2>1, ConstantsAssumption, Zenon DEF ClientIInv, ClientInv
  <2>3. ClientTypeOK'
    BY <2>1, Zenon DEF ClientIInv, ClientTypeOK
  <2>4. TimersInv(cTimer, cArmed, cDue)'
    BY <2>1, <2>2, TimerStale, Zenon DEF ClientIInv
  <2>5. ASSUME NEW u \in Trans PROVE ClientInv(u)'
    BY <2>1, Zenon DEF ClientIInv, ClientInv
  <2> QED
    BY <2>3, <2>4, <2>5, Zenon DEF ClientIInv
<1> QED
  BY <1>1, <1>2, Zenon

(* processTM(resp, currenttime) on the requester's side: expired states go *)
(* with their timers, and the ones that still held a request yield 408.    *)
LEMMA ClientMaintainOK ==
  ASSUME ClientIInv, ClientMaintain
  PROVE  ClientIInv'
<1> DEFINE E == Expired(cState, cAge)
           U == Unanswered(E)
<1>1. /\ cState' = Reset(cState, E, "none") /\ cMsg' = Reset(cMsg, E, NoMsg)
      /\ cTimer' = Reset(cTimer, E, NoKey) /\ cArmed' = DelTimers(cArmed, cTimer, E)
      /\ cGone' = cGone \cup E /\ outcome' = Reset(outcome, U, Timeout408)
      /\ told' = [t \in Trans |-> told[t] + IF t \in U THEN 1 ELSE 0]
      /\ UNCHANGED <<cAge, cDue, started>>
  BY Zenon DEF ClientMaintain
<1>2. E \in SUBSET Trans /\ \A t \in E : cState[t] # "none"
  BY Zenon DEF Expired
<1>3. U \in SUBSET E /\ \A t \in U : cState[t] \in {"FORWARD", "TEMPORARY"}
  BY Zenon DEF Unanswered
<1> HIDE DEF E, U
<1>4. ClientTypeOK'
  <2>1. \A t \in Trans : told[t] + (IF t \in U THEN 1 ELSE 0) \in Nat
    BY DEF ClientIInv, ClientTypeOK
  <2> QED
    BY <1>1, <1>2, <2>1, Zenon DEF ClientIInv, ClientTypeOK, Reset, DelTimers, States
<1>5. TimersInv(cTimer, cArmed, cDue)'
  BY <1>1, <1>2, TimersDeleted, Zenon DEF ClientIInv, ClientTypeOK
<1>6. ASSUME NEW u \in Trans PROVE ClientInv(u)'
  <2>1. u \in U => outcome[u] = None /\ told[u] = 0 /\ u \in E
    BY <1>3, Zenon DEF ClientIInv, ClientInv
  <2>2. told'[u] = IF outcome'[u] = None THEN 0 ELSE 1
    BY <1>1, <2>1, ConstantsAssumption DEF ClientIInv, ClientTypeOK, ClientInv, Reset
  <2>3. u \in E => cState[u] # "none" /\ u \in started
    BY <1>2, Zenon DEF ClientIInv, ClientInv
  <2> QED
    BY <1>1, <2>1, <2>2, <2>3, Zenon DEF ClientIInv, ClientTypeOK, ClientInv, Reset
<1> QED
  BY <1>4, <1>5, <1>6, Zenon DEF ClientIInv

(* A second passes. *)
LEMMA ClientTickOK ==
  ASSUME ClientIInv, Tick
  PROVE  ClientIInv'
<1>1. ClientTypeOK'
  BY ConstantsAssumption DEF ClientIInv, ClientTypeOK, Tick, Older
<1>2. TimersInv(cTimer, cArmed, cDue)'
  BY Zenon DEF ClientIInv, TimersInv, Tick
<1>3. ASSUME NEW u \in Trans PROVE ClientInv(u)'
  BY Zenon DEF ClientIInv, ClientInv, Tick
<1> QED
  BY <1>1, <1>2, <1>3 DEF ClientIInv

----------------------------------------------------------------------------
(* The responder. *)

(* It is about the responder's variables only. *)
LEMMA ServerFrame == ServerIInv /\ UNCHANGED sVars => ServerIInv'
BY DEF ServerIInv, ServerTypeOK, ServerInv, TimersInv, sVars

(* TSServer_CHANGE in TS_INIT. *)
LEMMA ServerReqInInitOK ==
  ASSUME ServerIInv, NEW t \in Trans, ServerReqInInit(t)
  PROVE  ServerIInv'
<1> USE DEF ServerReqInInit
<1>1. ServerTypeOK'
  BY DEF ServerIInv, ServerTypeOK, States
<1>2. TimersInv(sTimer, sArmed, sDue)'
  BY Zenon DEF ServerIInv, TimersInv
<1>3. ASSUME NEW u \in Trans PROVE ServerInv(u)'
  BY DEF ServerIInv, ServerTypeOK, ServerInv
<1> QED
  BY <1>1, <1>2, <1>3, Zenon DEF ServerIInv

(* TSServer_CHANGE in TS_FORWARD and TS_TEMPORARY, REQ. *)
LEMMA ServerReqInProgressOK ==
  ASSUME ServerIInv, NEW t \in Trans, ServerReqInProgress(t)
  PROVE  ServerIInv'
<1> USE DEF ServerReqInProgress
<1>1. ServerTypeOK'
  BY Zenon DEF ServerIInv, ServerTypeOK, States
<1>2. TimersInv(sTimer, sArmed, sDue)'
  BY Zenon DEF ServerIInv, TimersInv
<1>3. ASSUME NEW u \in Trans PROVE ServerInv(u)'
  BY Zenon DEF ServerIInv, ServerTypeOK, ServerInv
<1> QED
  BY <1>1, <1>2, <1>3, Zenon DEF ServerIInv

(* TSServer_CHANGE in TS_FORWARD, RSP. *)
LEMMA ServerAnswerInForwardOK ==
  ASSUME ServerIInv, NEW t \in Trans, NEW v \in Answers, ServerAnswerInForward(t, v)
  PROVE  ServerIInv'
<1> USE DEF ServerAnswerInForward
<1>1. ServerTypeOK'
  BY MsgType, Zenon DEF ServerIInv, ServerTypeOK, States
<1>2. TimersInv(sTimer, sArmed, sDue)'
  BY Zenon DEF ServerIInv, TimersInv
<1>3. ASSUME NEW u \in Trans PROVE ServerInv(u)'
  BY Zenon DEF ServerIInv, ServerTypeOK, ServerInv
<1> QED
  BY <1>1, <1>2, <1>3, Zenon DEF ServerIInv

(* TSServer_CHANGE in TS_TEMPORARY, RSP. *)
LEMMA ServerAnswerInTemporaryOK ==
  ASSUME ServerIInv, NEW t \in Trans, NEW v \in Answers, ServerAnswerInTemporary(t, v)
  PROVE  ServerIInv'
<1>1. PICK k \in Fresh(sArmed, sDue) :
        sTimer' = [sTimer EXCEPT ![t] = k] /\ sArmed' = sArmed \cup {<<k, t>>}
  BY Zenon DEF ServerAnswerInTemporary
<1>2. k \in Keys /\ k # NoKey
  BY <1>1, ConstantsAssumption, Zenon DEF Fresh
<1>3. sState[t] = "TEMPORARY" /\ sTimer[t] = NoKey /\ t \notin OneWay
  BY Zenon DEF ServerIInv, ServerInv, ServerAnswerInTemporary
<1>4. ServerTypeOK'
  BY <1>1, <1>2, MsgType DEF ServerIInv, ServerTypeOK, States, ServerAnswerInTemporary
<1>5. TimersInv(sTimer, sArmed, sDue)'
  BY <1>1, <1>3, TimerSet, Zenon DEF ServerIInv, ServerTypeOK, ServerAnswerInTemporary
<1>6. ASSUME NEW u \in Trans PROVE ServerInv(u)'
  BY <1>1, <1>3, Zenon DEF ServerIInv, ServerTypeOK, ServerInv, ServerAnswerInTemporary
<1> QED
  BY <1>4, <1>5, <1>6, Zenon DEF ServerIInv

(* TSServer_CHANGE in TS_TERMINATED, TMP. *)
LEMMA ServerAckOK ==
  ASSUME ServerIInv, NEW t \in Trans, ServerAck(t)
  PROVE  ServerIInv'
<1> USE DEF ServerAck
<1>1. ServerTypeOK'
  BY Zenon DEF ServerIInv, ServerTypeOK, DelTimer
<1>2. TimersInv(sTimer, sArmed, sDue)'
  BY TimerDeleted, Zenon DEF ServerIInv, ServerTypeOK
<1>3. ASSUME NEW u \in Trans PROVE ServerInv(u)'
  BY Zenon DEF ServerIInv, ServerTypeOK, ServerInv
<1> QED
  BY <1>1, <1>2, <1>3, Zenon DEF ServerIInv

(* TaskTimerQueue::processTimer for a responder's timer. *)
LEMMA ServerTimerFiresOK ==
  ASSUME ServerIInv, NEW p \in sArmed, ServerTimerFires(p)
  PROVE  ServerIInv'
<1>1. ServerTypeOK'
  BY Zenon DEF ServerIInv, ServerTypeOK, ServerTimerFires
<1>2. TimersInv(sTimer, sArmed, sDue)'
  BY TimerFired, Zenon DEF ServerIInv, ServerTimerFires
<1>3. ASSUME NEW u \in Trans PROVE ServerInv(u)'
  BY Zenon DEF ServerIInv, ServerInv, ServerTimerFires
<1> QED
  BY <1>1, <1>2, <1>3 DEF ServerIInv

(* processTM(tk, para, resend) on the responder's side. *)
LEMMA ServerTimeoutOK ==
  ASSUME ServerIInv, NEW k \in Keys, NEW t \in Trans, ServerTimeout(k, t)
  PROVE  ServerIInv'
<1>1. CASE ServerResend(k, t)
  <2>1. PICK n \in Fresh(sArmed, sDue) :
          sTimer' = [sTimer EXCEPT ![t] = n] /\ sArmed' = sArmed \cup {<<n, t>>}
    BY <1>1, Zenon DEF ServerResend
  <2>2. n \in Keys /\ n # NoKey
    BY <2>1, ConstantsAssumption DEF Fresh
  <2>3. sState[t] = "TERMINATED" /\ sTimer[t] = k
    BY <1>1, Zenon DEF ServerResend
  <2>4. ServerTypeOK'
    BY <2>1, <2>2 DEF ServerIInv, ServerTypeOK, ServerTimeout
  <2>5. TimersInv(sTimer, sArmed, sDue)'
    BY <2>1, <2>3, TimerRearmed, Zenon DEF ServerIInv, ServerTypeOK, ServerTimeout
  <2>6. ASSUME NEW u \in Trans PROVE ServerInv(u)'
    BY <2>1, <2>2, <2>3, Zenon DEF ServerIInv, ServerTypeOK, ServerInv, ServerTimeout
  <2> QED
    BY <2>4, <2>5, <2>6 DEF ServerIInv
<1>2. CASE ~ServerResend(k, t)
  <2>1. /\ UNCHANGED <<sState, sMsg, sTimer, sAge, sArmed, delivered, given, sGone>>
        /\ sDue' = sDue \ {<<k, t>>}
        /\ ~(sTimer[t] = k /\ sState[t] = "TERMINATED")
    BY <1>2, Zenon DEF ServerTimeout
  <2>2. sTimer[t] # k
    BY <2>1, ConstantsAssumption, Zenon DEF ServerIInv, ServerInv
  <2>3. ServerTypeOK'
    BY <2>1, Zenon DEF ServerIInv, ServerTypeOK
  <2>4. TimersInv(sTimer, sArmed, sDue)'
    BY <2>1, <2>2, TimerStale, Zenon DEF ServerIInv
  <2>5. ASSUME NEW u \in Trans PROVE ServerInv(u)'
    BY <2>1, Zenon DEF ServerIInv, ServerInv
  <2> QED
    BY <2>3, <2>4, <2>5 DEF ServerIInv
<1> QED
  BY <1>1, <1>2

(* processTM(resp, currenttime) on the responder's side. *)
LEMMA ServerMaintainOK ==
  ASSUME ServerIInv, ServerMaintain
  PROVE  ServerIInv'
<1> DEFINE E == Expired(sState, sAge)
<1>1. /\ sState' = Reset(sState, E, "none") /\ sMsg' = Reset(sMsg, E, NoMsg)
      /\ sTimer' = Reset(sTimer, E, NoKey) /\ sArmed' = DelTimers(sArmed, sTimer, E)
      /\ sGone' = [t \in Trans |-> sGone[t] + IF t \in E THEN 1 ELSE 0]
      /\ UNCHANGED <<sAge, sDue, delivered, given>>
  BY Zenon DEF ServerMaintain
<1>2. E \in SUBSET Trans /\ \A t \in E : sState[t] # "none"
  BY DEF Expired
<1> HIDE DEF E
<1>3. ServerTypeOK'
  <2>1. \A t \in Trans : sGone[t] + (IF t \in E THEN 1 ELSE 0) \in Nat
    BY DEF ServerIInv, ServerTypeOK
  <2> QED
    BY <1>1, <1>2, <2>1, Zenon DEF ServerIInv, ServerTypeOK, Reset, DelTimers, States
<1>4. TimersInv(sTimer, sArmed, sDue)'
  BY <1>1, <1>2, TimersDeleted, Zenon DEF ServerIInv, ServerTypeOK
<1>5. ASSUME NEW u \in Trans PROVE ServerInv(u)'
  BY <1>1, <1>2, SMTT(60) DEF ServerIInv, ServerTypeOK, ServerInv, Reset
<1> QED
  BY <1>3, <1>4, <1>5 DEF ServerIInv

(* A second passes. *)
LEMMA ServerTickOK ==
  ASSUME ServerIInv, Tick
  PROVE  ServerIInv'
<1>1. ServerTypeOK'
  BY ConstantsAssumption DEF ServerIInv, ServerTypeOK, Tick, Older
<1>2. TimersInv(sTimer, sArmed, sDue)'
  BY Zenon DEF ServerIInv, TimersInv, Tick
<1>3. ASSUME NEW u \in Trans PROVE ServerInv(u)'
  BY Zenon DEF ServerIInv, ServerInv, Tick
<1> QED
  BY <1>1, <1>2, <1>3 DEF ServerIInv

-----------------------------------------------------------------------------
(* The two ends and the network *)

(* A step that sends nothing and, for the two ends, changes nothing the    *)
(* joint part speaks of.                                                   *)
LEMMA JointQuiet ==
  ASSUME JointInv, net' \subseteq net,
         UNCHANGED <<delivered, started, cState, cGone, outcome, given, sGone, sMsg, sState, sTimer>>
  PROVE  JointInv'
BY Zenon DEF JointInv, NetInv, FirstLifeInv, ClientDone

(* ClientStart: the request enters the network. *)
LEMMA JointClientStart ==
  ASSUME IInv, NEW t \in Trans, ClientStart(t)
  PROVE  JointInv'
<1>1. /\ net' = net \cup {Req(t)} /\ started' = started \cup {t}
      /\ cState' = [cState EXCEPT ![t] = "FORWARD"]
      /\ UNCHANGED <<delivered, cGone, outcome, given, sGone, sMsg, sState, sTimer>>
  BY Zenon DEF ClientStart, sVars
<1>2. cState[t] = "none" /\ t \notin cGone
  BY Zenon DEF IInv, ClientIInv, ClientInv, ClientStart
<1>3. cState \in [Trans -> States]
  BY Zenon DEF IInv, ClientIInv, ClientTypeOK
<1>4. net' \subseteq Message
  BY <1>1, MsgType, Zenon DEF IInv, JointInv
<1>5. ASSUME NEW u \in Trans PROVE NetInv(u)'
  BY <1>1, <1>2, <1>3, MsgDistinct, Zenon DEF IInv, JointInv, NetInv, ClientDone
<1>6. ASSUME NEW u \in Trans PROVE FirstLifeInv(u)'
  BY <1>1, <1>2, <1>3, MsgDistinct, SMTT(60) DEF IInv, JointInv, FirstLifeInv, ClientDone
<1> QED
  BY <1>4, <1>5, <1>6, Zenon DEF JointInv

(* A response in TS_FORWARD or TS_TEMPORARY: the requester is done, and    *)
(* may acknowledge.                                                        *)
LEMMA JointClientRsp ==
  ASSUME IInv, NEW t \in Trans, NEW v \in Answers,
         ClientRspInForward(t, v) \/ ClientRspInTemporary(t, v)
  PROVE  JointInv'
<1>1. /\ net' \subseteq net \cup {Ack(t)} /\ Rsp(t, v) \in net
      /\ cState' = [cState EXCEPT ![t] = "TERMINATED"]
      /\ outcome' = [outcome EXCEPT ![t] = v]
      /\ UNCHANGED <<started, delivered, cGone, given, sGone, sMsg, sState, sTimer>>
  BY Zenon DEF ClientRspInForward, ClientRspInTemporary, LeaveForward, Tell, Arrive, sVars
<1>2. cState \in [Trans -> States] /\ outcome \in [Trans -> Answers \cup {None, Timeout408}]
  BY Zenon DEF IInv, ClientIInv, ClientTypeOK
<1>3. net' \subseteq Message
  BY <1>1, MsgType, Zenon DEF IInv, JointInv
<1>4. ASSUME NEW u \in Trans PROVE NetInv(u)'
  BY <1>1, <1>2, MsgDistinct DEF IInv, JointInv, NetInv, ClientDone
<1>5. ASSUME NEW u \in Trans PROVE FirstLifeInv(u)'
  <2>1. /\ Tmp(u) \in net' => Tmp(u) \in net
        /\ \A w \in Answers : Rsp(u, w) \in net' => Rsp(u, w) \in net
    BY <1>1, MsgDistinct, Zenon
  <2>2. FirstLifeInv(u) /\ FirstLifeInv(t)
    BY Zenon DEF IInv, JointInv
  <2>3. \A w \in Answers : outcome'[u] = w => outcome[u] = w \/ Rsp(u, w) \in net
    BY <1>1, <1>2, Zenon
  <2>4. cState'[u] = "TEMPORARY" => cState[u] = "TEMPORARY"
    BY <1>1, <1>2, Zenon
  <2>5. ClientDone(u) => ClientDone(u)'
    BY <1>1, <1>2, Zenon DEF ClientDone
  <2> QED
    BY <1>1, <2>1, <2>2, <2>3, <2>4, <2>5, Zenon DEF FirstLifeInv
<1> QED
  BY <1>3, <1>4, <1>5, Zenon DEF JointInv

(* A provisional response in TS_FORWARD. *)
LEMMA JointClientTmp ==
  ASSUME IInv, NEW t \in Trans, ClientTmpInForward(t)
  PROVE  JointInv'
<1>1. /\ net' \subseteq net /\ Tmp(t) \in net
      /\ cState' = [cState EXCEPT ![t] = IF t \in OneWay THEN "TERMINATED" ELSE "TEMPORARY"]
      /\ UNCHANGED <<started, delivered, cGone, outcome, given, sGone, sMsg, sState, sTimer>>
  BY Zenon DEF ClientTmpInForward, LeaveForward, Arrive, sVars
<1>2. cState \in [Trans -> States] /\ cState[t] = "FORWARD"
  BY Zenon DEF IInv, ClientIInv, ClientTypeOK, ClientTmpInForward, LeaveForward
<1>3. ASSUME NEW u \in Trans PROVE NetInv(u)'
  BY <1>1, <1>2, Zenon DEF IInv, JointInv, NetInv, ClientDone
<1>4. ASSUME NEW u \in Trans PROVE FirstLifeInv(u)'
  BY <1>1, <1>2, Zenon DEF IInv, JointInv, FirstLifeInv, ClientDone
<1> QED
  BY <1>1, <1>3, <1>4, Zenon DEF IInv, JointInv

(* A repeated response is acknowledged by a requester that is done. *)
LEMMA JointClientRefuse ==
  ASSUME IInv, NEW t \in Trans, NEW v \in Answers, ClientRspInTerminated(t, v)
  PROVE  JointInv'
<1>1. /\ net' \subseteq net \cup {Ack(t)} /\ cState[t] = "TERMINATED"
      /\ UNCHANGED <<started, delivered, cState, cGone, outcome, given, sGone, sMsg, sState, sTimer>>
  BY Zenon DEF ClientRspInTerminated, Arrive, cVars, sVars
<1>2. net' \subseteq Message
  BY <1>1, MsgType, Zenon DEF IInv, JointInv
<1>3. ASSUME NEW u \in Trans PROVE NetInv(u)'
  BY <1>1, MsgDistinct, Zenon DEF IInv, JointInv, NetInv, ClientDone
<1>4. ASSUME NEW u \in Trans PROVE FirstLifeInv(u)'
  <2>1. /\ Tmp(u) \in net' => Tmp(u) \in net
        /\ \A w \in Answers : Rsp(u, w) \in net' => Rsp(u, w) \in net
    BY <1>1, MsgDistinct, Zenon
  <2>2. FirstLifeInv(u)
    BY Zenon DEF IInv, JointInv
  <2> QED
    BY <1>1, <2>1, <2>2, Zenon DEF FirstLifeInv, ClientDone
<1> QED
  BY <1>2, <1>3, <1>4, Zenon DEF JointInv

(* A first request makes a responder state. *)
LEMMA JointServerReqInInit ==
  ASSUME IInv, NEW t \in Trans, ServerReqInInit(t)
  PROVE  JointInv'
<1>1. /\ net' \subseteq net \cup (IF t \in OneWay THEN {Tmp(t)} ELSE {}) /\ Req(t) \in net
      /\ sState' = [sState EXCEPT ![t] = IF t \in OneWay THEN "TERMINATED" ELSE "FORWARD"]
      /\ delivered' = [delivered EXCEPT ![t] = @ + 1]
      /\ sState[t] = "none"
      /\ UNCHANGED <<started, cState, cGone, outcome, given, sGone, sMsg, sTimer>>
  BY Zenon DEF ServerReqInInit, Arrive, cVars
<1>2. sState \in [Trans -> States] /\ delivered \in [Trans -> Nat]
  BY Zenon DEF IInv, ServerIInv, ServerTypeOK
<1>3. net' \subseteq Message
  BY <1>1, MsgType, Zenon DEF IInv, JointInv
<1>4. ASSUME NEW u \in Trans PROVE NetInv(u)'
  BY <1>1, <1>2, MsgDistinct, SMTT(60) DEF IInv, JointInv, NetInv, ClientDone
<1>5. ASSUME NEW u \in Trans PROVE FirstLifeInv(u)'
  <2>1. /\ Tmp(u) \in net' => Tmp(u) \in net \/ u \in OneWay
        /\ \A w \in Answers : Rsp(u, w) \in net' => Rsp(u, w) \in net
    BY <1>1, MsgDistinct
  <2>2. FirstLifeInv(u)
    BY Zenon DEF IInv, JointInv
  <2> QED
    BY <1>1, <1>2, <2>1, <2>2, Zenon DEF FirstLifeInv, ClientDone
<1> QED
  BY <1>3, <1>4, <1>5 DEF JointInv

(* A repeated request before the answer: provisional response. *)
LEMMA JointServerReqInProgress ==
  ASSUME IInv, NEW t \in Trans, ServerReqInProgress(t)
  PROVE  JointInv'
<1>1. /\ net' \subseteq net \cup {Tmp(t)}
      /\ sState' = [sState EXCEPT ![t] = "TEMPORARY"]
      /\ sState[t] \in {"FORWARD", "TEMPORARY"}
      /\ UNCHANGED <<started, delivered, cState, cGone, outcome, given, sGone, sMsg, sTimer>>
  BY Zenon DEF ServerReqInProgress, Arrive, cVars
<1>2. sState \in [Trans -> States]
  BY Zenon DEF IInv, ServerIInv, ServerTypeOK
<1>3. net' \subseteq Message
  BY <1>1, MsgType, Zenon DEF IInv, JointInv
<1>4. ASSUME NEW u \in Trans PROVE NetInv(u)'
  BY <1>1, MsgDistinct, Zenon DEF IInv, JointInv, NetInv, ClientDone
<1>5. ASSUME NEW u \in Trans PROVE FirstLifeInv(u)'
  <2>1. /\ Tmp(u) \in net' => Tmp(u) \in net \/ u = t
        /\ \A w \in Answers : Rsp(u, w) \in net' => Rsp(u, w) \in net
    BY <1>1, MsgDistinct, Zenon
  <2>2. FirstLifeInv(u)
    BY DEF IInv, JointInv
  <2> QED
    BY <1>1, <1>2, <2>1, <2>2, Zenon DEF FirstLifeInv, ClientDone
<1> QED
  BY <1>3, <1>4, <1>5 DEF JointInv

(* A step that sends no more than what the responder has saved, and        *)
(* changes nothing else but its timer.                                     *)
LEMMA JointServerSendsSaved ==
  ASSUME IInv, NEW t \in Trans, sState[t] = "TERMINATED",
         net' \subseteq net \cup {m \in {sMsg[t]} : m # NoMsg}
                            \cup {m \in {Tmp(t)} : t \in OneWay},
         \A u \in Trans : sTimer[u] # NoKey => sTimer'[u] # NoKey,
         UNCHANGED <<started, delivered, cState, cGone, outcome, given, sGone, sMsg, sState>>
  PROVE  JointInv'
<1>1. ServerInv(t) /\ net \subseteq Message
  BY Zenon DEF IInv, ServerIInv, JointInv
<1>2. /\ sMsg[t] # NoMsg => \E v \in given[t] : sMsg[t] = Rsp(t, v)
      /\ given[t] \subseteq Answers
  BY <1>1, Zenon DEF ServerInv, IInv, ServerIInv, ServerTypeOK
<1>3. net' \subseteq Message
  BY <1>1, <1>2, MsgType, Zenon
<1>4. ASSUME NEW u \in Trans
      PROVE  /\ Req(u) \in net' => Req(u) \in net
             /\ Ack(u) \in net' => Ack(u) \in net
             /\ Tmp(u) \in net' => Tmp(u) \in net \/ u \in OneWay
             /\ \A v \in Answers : Rsp(u, v) \in net' =>
                  Rsp(u, v) \in net \/ (sMsg[u] = Rsp(u, v) /\ v \in given[u])
  BY <1>2, MsgDistinct
<1>5. ASSUME NEW u \in Trans PROVE NetInv(u)'
  <2>1. NetInv(u)
    BY Zenon DEF IInv, JointInv
  <2> QED
    BY <1>4, <2>1, Zenon DEF NetInv, ClientDone
<1>6. ASSUME NEW u \in Trans PROVE FirstLifeInv(u)'
  <2>1. FirstLifeInv(u)
    BY Zenon DEF IInv, JointInv
  <2> QED
    BY <1>4, <2>1, Zenon DEF FirstLifeInv, ClientDone
<1> QED
  BY <1>3, <1>5, <1>6, Zenon DEF JointInv

(* A repeated request after the answer. *)
LEMMA JointServerReqInTerminated ==
  ASSUME IInv, NEW t \in Trans, ServerReqInTerminated(t)
  PROVE  JointInv'
<1>1. /\ sState[t] = "TERMINATED"
      /\ UNCHANGED <<started, delivered, cState, cGone, outcome, given, sGone, sMsg, sState, sTimer>>
  BY Zenon DEF ServerReqInTerminated, cVars, sVars
<1>2. net' \subseteq net \cup {m \in {sMsg[t]} : m # NoMsg} \cup {m \in {Tmp(t)} : t \in OneWay}
  BY Zenon DEF ServerReqInTerminated, Arrive
<1> QED
  BY <1>1, <1>2, JointServerSendsSaved, Zenon

(* The application's answer, in TS_FORWARD or TS_TEMPORARY. *)
LEMMA JointServerAnswer ==
  ASSUME IInv, NEW t \in Trans, NEW v \in Answers,
         ServerAnswerInForward(t, v) \/ ServerAnswerInTemporary(t, v)
  PROVE  JointInv'
<1>1. /\ net' = net \cup {Rsp(t, v)}
      /\ sState' = [sState EXCEPT ![t] = "TERMINATED"]
      /\ sMsg' = [sMsg EXCEPT ![t] = Rsp(t, v)]
      /\ given' = [given EXCEPT ![t] = @ \cup {v}]
      /\ UNCHANGED <<started, delivered, cState, cGone, outcome, sGone>>
  BY Zenon DEF ServerAnswerInForward, ServerAnswerInTemporary, cVars
<1>2. /\ sState \in [Trans -> States] /\ sMsg \in [Trans -> Message \cup {NoMsg}]
      /\ given \in [Trans -> SUBSET Answers] /\ sTimer \in [Trans -> Keys \cup {NoKey}]
  BY Zenon DEF IInv, ServerIInv, ServerTypeOK
<1>3. /\ sState[t] \in {"FORWARD", "TEMPORARY"}
      /\ sState[t] = "TEMPORARY" => sTimer'[t] # NoKey
      /\ \A u \in Trans \ {t} : sTimer'[u] = sTimer[u]
  BY <1>2, ConstantsAssumption DEF ServerAnswerInForward, ServerAnswerInTemporary, Fresh
<1>4. net' \subseteq Message
  BY <1>1, MsgType, Zenon DEF IInv, JointInv
<1>5. ASSUME NEW u \in Trans
      PROVE  /\ Req(u) \in net' => Req(u) \in net
             /\ Ack(u) \in net' => Ack(u) \in net
             /\ Tmp(u) \in net' => Tmp(u) \in net
             /\ \A w \in Answers : Rsp(u, w) \in net' => Rsp(u, w) \in net \/ (u = t /\ w = v)
  BY <1>1, MsgDistinct
<1>6. ASSUME NEW u \in Trans PROVE NetInv(u)'
  <2>1. NetInv(u)
    BY Zenon DEF IInv, JointInv
  <2> QED
    BY <1>1, <1>2, <1>5, <2>1, Zenon DEF NetInv, ClientDone
<1>7. ASSUME NEW u \in Trans PROVE FirstLifeInv(u)'
  <2>1. FirstLifeInv(u) /\ NetInv(u) /\ ServerInv(u)
    BY Zenon DEF IInv, JointInv, ServerIInv
  <2>2. CASE u = t
    <3>1. sGone[t] = 0 => \A w \in Answers : Rsp(t, w) \notin net /\ outcome[t] # w
      BY <1>3, <2>1, <2>2, Zenon DEF ServerInv, NetInv
    <3> QED
      BY <1>1, <1>2, <1>3, <1>5, <2>1, <2>2, <3>1, Zenon DEF FirstLifeInv
  <2>3. CASE u # t
    BY <1>1, <1>2, <1>3, <1>5, <2>1, <2>3, Zenon DEF FirstLifeInv, ClientDone
  <2> QED
    BY <2>2, <2>3, Zenon
<1> QED
  BY <1>4, <1>6, <1>7 DEF JointInv

(* The acknowledgement: repetition stops, because the requester is done. *)
LEMMA JointServerAck ==
  ASSUME IInv, NEW t \in Trans, ServerAck(t)
  PROVE  JointInv'
<1>1. /\ net' \subseteq net /\ Ack(t) \in net /\ sState[t] = "TERMINATED"
      /\ sTimer' = [sTimer EXCEPT ![t] = NoKey]
      /\ UNCHANGED <<started, delivered, cState, cGone, outcome, given, sGone, sMsg, sState>>
  BY Zenon DEF ServerAck, Arrive, cVars
<1>2. sTimer \in [Trans -> Keys \cup {NoKey}]
  BY Zenon DEF IInv, ServerIInv, ServerTypeOK
<1>3. ClientDone(t)
  BY <1>1, Zenon DEF IInv, JointInv, NetInv
<1>4. ASSUME NEW u \in Trans PROVE NetInv(u)'
  BY <1>1, Zenon DEF IInv, JointInv, NetInv, ClientDone
<1>5. ASSUME NEW u \in Trans PROVE FirstLifeInv(u)'
  BY <1>1, <1>2, <1>3, Zenon DEF IInv, JointInv, FirstLifeInv, ClientDone
<1> QED
  BY <1>1, <1>4, <1>5, Zenon DEF IInv, JointInv

(* A resend timeout of the requester repeats a request that was started. *)
LEMMA JointClientTimeout ==
  ASSUME IInv, NEW k \in Keys, NEW t \in Trans, ClientTimeout(k, t)
  PROVE  JointInv'
<1>1. UNCHANGED <<started, delivered, cState, cGone, outcome, given, sGone, sMsg, sState, sTimer>>
  BY Zenon DEF ClientTimeout, sVars
<1>2. CASE ClientResend(k, t)
  <2>1. net' = net \cup {Req(t)} /\ t \in started
    BY <1>2, MsgType DEF ClientResend, Resent, IInv, ClientIInv, ClientInv
  <2>2. net' \subseteq Message
    BY <2>1, MsgType, Zenon DEF IInv, JointInv
  <2>3. ASSUME NEW u \in Trans PROVE NetInv(u)'
    BY <1>1, <2>1, MsgDistinct, Zenon DEF IInv, JointInv, NetInv, ClientDone
  <2>4. ASSUME NEW u \in Trans PROVE FirstLifeInv(u)'
    BY <1>1, <2>1, MsgDistinct, SMTT(20), SMTT(60) DEF IInv, JointInv, FirstLifeInv, ClientDone
  <2> QED
    BY <2>2, <2>3, <2>4, Zenon DEF JointInv
<1>3. CASE ~ClientResend(k, t)
  BY <1>1, <1>3, JointQuiet, SMTT(60) DEF IInv, ClientTimeout
<1> QED
  BY <1>2, <1>3, SMTT(60)

(* A resend timeout of the responder repeats the saved answer. *)
LEMMA JointServerTimeout ==
  ASSUME IInv, NEW k \in Keys, NEW t \in Trans, ServerTimeout(k, t)
  PROVE  JointInv'
<1>1. UNCHANGED <<started, delivered, cState, cGone, outcome, given, sGone, sMsg, sState>>
  BY SMTT(60) DEF ServerTimeout, cVars
<1>2. CASE ServerResend(k, t)
  <2>1. /\ sState[t] = "TERMINATED"
        /\ net' \subseteq net \cup {m \in {sMsg[t]} : m # NoMsg} \cup {m \in {Tmp(t)} : t \in OneWay}
    BY <1>2, Zenon DEF ServerResend, Resent
  <2>2. \A u \in Trans : sTimer[u] # NoKey => sTimer'[u] # NoKey
    BY <1>2, ConstantsAssumption DEF ServerResend, Fresh, IInv, ServerIInv, ServerTypeOK
  <2> QED
    BY <1>1, <2>1, <2>2, JointServerSendsSaved, Zenon
<1>3. CASE ~ServerResend(k, t)
  BY <1>1, <1>3, JointQuiet, Zenon DEF IInv, ServerTimeout
<1> QED
  BY <1>2, <1>3

(* The requester forgets: it is done with every state it removes. *)
LEMMA JointClientMaintain ==
  ASSUME IInv, ClientMaintain
  PROVE  JointInv'
<1> DEFINE E == Expired(cState, cAge)
           U == Unanswered(E)
<1>1. /\ cState' = Reset(cState, E, "none") /\ cGone' = cGone \cup E
      /\ outcome' = Reset(outcome, U, Timeout408)
      /\ UNCHANGED <<net, started, delivered, given, sGone, sMsg, sState, sTimer>>
  BY Zenon DEF ClientMaintain, sVars
<1> HIDE DEF E, U
<1>2. ASSUME NEW u \in Trans
      PROVE  /\ ClientDone(u) => ClientDone(u)'
             /\ cState'[u] = "TEMPORARY" => cState[u] = "TEMPORARY"
             /\ \A v \in Answers : outcome'[u] = v => outcome[u] = v
  BY <1>1, ConstantsAssumption, Zenon DEF Reset, ClientDone
<1>3. ASSUME NEW u \in Trans PROVE NetInv(u)'
  BY <1>1, <1>2, Zenon DEF IInv, JointInv, NetInv
<1>4. ASSUME NEW u \in Trans PROVE FirstLifeInv(u)'
  BY <1>1, <1>2, Zenon DEF IInv, JointInv, FirstLifeInv
<1> QED
  BY <1>1, <1>3, <1>4, Zenon DEF IInv, JointInv

(* The responder forgets: the first life of what it removes is over. *)
LEMMA JointServerMaintain ==
  ASSUME IInv, ServerMaintain
  PROVE  JointInv'
<1> DEFINE E == Expired(sState, sAge)
<1>1. /\ sState' = Reset(sState, E, "none") /\ sMsg' = Reset(sMsg, E, NoMsg)
      /\ sTimer' = Reset(sTimer, E, NoKey)
      /\ sGone' = [t \in Trans |-> sGone[t] + IF t \in E THEN 1 ELSE 0]
      /\ UNCHANGED <<net, started, delivered, given, cState, cGone, outcome>>
  BY Zenon DEF ServerMaintain, cVars
<1> HIDE DEF E
<1>2. sGone \in [Trans -> Nat]
  BY Zenon DEF IInv, ServerIInv, ServerTypeOK
<1>3. ASSUME NEW u \in Trans PROVE NetInv(u)'
  BY <1>1, Zenon DEF IInv, JointInv, NetInv, ClientDone
<1>4. ASSUME NEW u \in Trans PROVE FirstLifeInv(u)'
  <2>1. sGone'[u] = 0 => u \notin E /\ sGone[u] = 0
    BY <1>1, <1>2
  <2> QED
    BY <1>1, <2>1, Zenon DEF IInv, JointInv, FirstLifeInv, ClientDone, Reset
<1> QED
  BY <1>1, <1>3, <1>4, Zenon DEF IInv, JointInv

----------------------------------------------------------------------------
(* The invariant is inductive. *)

(* It holds when both tables are empty. *)
LEMMA InitIInv == Init => IInv
<1> SUFFICES ASSUME Init PROVE IInv
  BY Zenon
<1>1. ClientIInv
  BY ConstantsAssumption, Zenon DEF Init, ClientIInv, ClientTypeOK, TimersInv, ClientInv, States
<1>2. ServerIInv
  BY DEF Init, ServerIInv, ServerTypeOK, TimersInv, ServerInv, States
<1>3. JointInv
  BY ConstantsAssumption DEF Init, JointInv, NetInv, FirstLifeInv, ClientDone
<1> QED
  BY <1>1, <1>2, <1>3, Zenon DEF IInv

(* Every step keeps it. *)
LEMMA NextIInv == IInv /\ [Next]_vars => IInv'
<1> SUFFICES ASSUME IInv, [Next]_vars PROVE IInv'
  BY Zenon
<1>0. ClientIInv /\ ServerIInv /\ JointInv
  BY Zenon DEF IInv
<1>1. ASSUME NEW t \in Trans, ClientStep(t) PROVE IInv'
  <2>1. UNCHANGED sVars
    BY <1>1, Zenon DEF ClientStep, ClientStart, ClientTmpInForward, ClientRspInForward, LeaveForward,
                ClientRspInTemporary, ClientRspInTerminated
  <2>2. ClientIInv'
    <3>1. ASSUME NEW v \in Answers, ClientRspInTerminated(t, v) PROVE ClientIInv'
      BY <1>0, <3>1, ClientFrame, Zenon DEF ClientRspInTerminated
    <3> QED
      BY <1>0, <1>1, <3>1, ClientStartOK, ClientTmpInForwardOK, ClientRspInForwardOK,
         ClientRspInTemporaryOK, Zenon DEF ClientStep
  <2>3. JointInv'
    BY <1>1, JointClientStart, JointClientTmp, JointClientRsp, JointClientRefuse, Zenon DEF ClientStep
  <2> QED
    BY <1>0, <2>1, <2>2, <2>3, ServerFrame, Zenon DEF IInv
<1>2. ASSUME NEW t \in Trans, ServerStep(t) PROVE IInv'
  <2>1. UNCHANGED cVars
    BY <1>2, Zenon DEF ServerStep, ServerReqInInit, ServerReqInProgress, ServerReqInTerminated, ServerAck,
                ServerAnswerInForward, ServerAnswerInTemporary
  <2>2. ServerIInv'
    <3>1. ASSUME ServerReqInTerminated(t) PROVE ServerIInv'
      BY <1>0, <3>1, ServerFrame, Zenon DEF ServerReqInTerminated
    <3> QED
      BY <1>0, <1>2, <3>1, ServerReqInInitOK, ServerReqInProgressOK, ServerAckOK,
         ServerAnswerInForwardOK, ServerAnswerInTemporaryOK, Zenon DEF ServerStep
  <2>3. JointInv'
    BY <1>2, JointServerReqInInit, JointServerReqInProgress, JointServerReqInTerminated,
       JointServerAnswer, JointServerAck, Zenon DEF ServerStep
  <2> QED
    BY <1>0, <2>1, <2>2, <2>3, ClientFrame, Zenon DEF IInv
<1>3. ASSUME TimerStep PROVE IInv'
  <2>1. ASSUME NEW p \in cArmed, ClientTimerFires(p) PROVE IInv'
    <3>1. UNCHANGED sVars /\ JointInv'
      BY <1>0, <2>1, JointQuiet, Zenon DEF ClientTimerFires, sVars
    <3> QED
      BY <1>0, <2>1, <3>1, ClientTimerFiresOK, ServerFrame, Zenon DEF IInv
  <2>2. ASSUME NEW p \in sArmed, ServerTimerFires(p) PROVE IInv'
    <3>1. UNCHANGED cVars /\ JointInv'
      BY <1>0, <2>2, JointQuiet, Zenon DEF ServerTimerFires, cVars
    <3> QED
      BY <1>0, <2>2, <3>1, ServerTimerFiresOK, ClientFrame, Zenon DEF IInv
  <2>3. ASSUME NEW p \in cDue, ClientTimeout(p[1], p[2]) PROVE IInv'
    <3>1. p[1] \in Keys /\ p[2] \in Trans
      BY <1>0, Zenon DEF ClientIInv, ClientTypeOK
    <3>2. UNCHANGED sVars
      BY <2>3, Zenon DEF ClientTimeout
    <3> QED
      BY <1>0, <2>3, <3>1, <3>2, ClientTimeoutOK, JointClientTimeout, ServerFrame, Zenon DEF IInv
  <2>4. ASSUME NEW p \in sDue, ServerTimeout(p[1], p[2]) PROVE IInv'
    <3>1. p[1] \in Keys /\ p[2] \in Trans
      BY <1>0, Zenon DEF ServerIInv, ServerTypeOK
    <3>2. UNCHANGED cVars
      BY <2>4, Zenon DEF ServerTimeout
    <3> QED
      BY <1>0, <2>4, <3>1, <3>2, ServerTimeoutOK, JointServerTimeout, ClientFrame, Zenon DEF IInv
  <2> QED
    BY <1>3, <2>1, <2>2, <2>3, <2>4, Zenon DEF TimerStep
<1>4. ASSUME ClientMaintain PROVE IInv'
  <2>1. UNCHANGED sVars
    BY <1>4, Zenon DEF ClientMaintain
  <2> QED
    BY <1>0, <1>4, <2>1, ClientMaintainOK, JointClientMaintain, ServerFrame, Zenon DEF IInv
<1>5. ASSUME ServerMaintain PROVE IInv'
  <2>1. UNCHANGED cVars
    BY <1>5, Zenon DEF ServerMaintain
  <2> QED
    BY <1>0, <1>5, <2>1, ServerMaintainOK, JointServerMaintain, ClientFrame, Zenon DEF IInv
<1>6. ASSUME Tick PROVE IInv'
  <2>1. JointInv'
    BY <1>0, <1>6, JointQuiet, Zenon DEF Tick
  <2> QED
    BY <1>0, <1>6, <2>1, ClientTickOK, ServerTickOK, Zenon DEF IInv
<1>7. ASSUME UNCHANGED cVars, UNCHANGED sVars, net' \subseteq net PROVE IInv'
  <2>1. JointInv'
    BY <1>0, <1>7, JointQuiet, Zenon DEF cVars, sVars
  <2> QED
    BY <1>0, <1>7, <2>1, ClientFrame, ServerFrame, Zenon DEF IInv
<1>8. ASSUME NEW m \in net, Drop(m) PROVE IInv'
  BY <1>7, <1>8, Zenon DEF Drop
<1>9. CASE UNCHANGED vars
  BY <1>7, <1>9, Zenon DEF vars
<1> QED
  BY <1>1, <1>2, <1>3, <1>4, <1>5, <1>6, <1>8, <1>9, Zenon DEF Next

(* IInv holds in every reachable state of TransMachine. *)
THEOREM Invariance == Spec => []IInv
BY InitIInv, NextIInv, PTL DEF Spec

----------------------------------------------------------------------------
(* The theorems. *)

(* The tables, timers and messages keep their types: no absent message is  *)
(* sent (TSServer_CHANGE 217-236, TS_CHANGE 249-281).                      *)
THEOREM TypeCorrect == Spec => []TypeOK
<1>1. IInv => TypeOK
  BY Zenon DEF IInv, ClientIInv, ServerIInv, JointInv, TypeOK
<1> QED
  BY <1>1, Invariance, PTL

(* The application of the requester is told an outcome at most once. *)
THEOREM OneOutcome == Spec => []AtMostOneOutcome
<1>1. IInv => AtMostOneOutcome
  BY DEF IInv, ClientIInv, ClientInv, AtMostOneOutcome
<1> QED
  BY <1>1, Invariance, PTL

(* The application of the responder is given a request once per state. *)
THEOREM OnceDelivered == Spec => []AtMostOnceDelivery
<1>1. ASSUME IInv, NEW t \in Trans PROVE delivered[t] <= 1 + sGone[t]
  <2>1. sGone[t] \in Nat /\ ServerInv(t)
    BY <1>1, Zenon DEF IInv, ServerIInv, ServerTypeOK
  <2> QED
    BY <2>1 DEF ServerInv
<1>2. IInv => AtMostOnceDelivery
  BY <1>1, SMTT(60) DEF AtMostOnceDelivery
<1> QED
  BY <1>2, Invariance, PTL

(* The answer reported was given, and is the one saved. *)
THEOREM AnswersAreGenuine == Spec => []AnswerIntegrity
<1>1. IInv => AnswerIntegrity
  BY Zenon DEF IInv, ClientIInv, ClientTypeOK, JointInv, NetInv, FirstLifeInv, AnswerIntegrity
<1> QED
  BY <1>1, Invariance, PTL

(* A requester in TS_TEMPORARY is owed an answer that will be repeated. *)
THEOREM TemporaryIsOwed == Spec => []AnswerIsOwed
<1>1. ASSUME IInv, NEW t \in Trans, cState[t] = "TEMPORARY", sGone[t] = 0
      PROVE  \/ sState[t] = "TEMPORARY"
             \/ sState[t] = "TERMINATED" /\ sMsg[t] # NoMsg /\ TimerLive(sTimer, sArmed, sDue, t)
  <2>1. t \notin OneWay /\ ~ClientDone(t)
    BY <1>1, Zenon DEF IInv, ClientIInv, ClientInv, ClientDone
  <2>2. sState[t] = "TEMPORARY" \/ (sState[t] = "TERMINATED" /\ sTimer[t] # NoKey)
    BY <1>1, <2>1, Zenon DEF IInv, JointInv, FirstLifeInv
  <2>3. sTimer[t] # NoKey => TimerLive(sTimer, sArmed, sDue, t)
    BY <1>1, Zenon DEF IInv, ServerIInv, TimersInv, TimerLive
  <2>4. sState[t] = "TERMINATED" => sMsg[t] # NoMsg
    BY <1>1, <2>1, MsgType, SMTT(60) DEF IInv, ServerIInv, ServerTypeOK, ServerInv
  <2> QED
    BY <2>2, <2>3, <2>4, SMTT(60)
<1>2. IInv => AnswerIsOwed
  BY <1>1, Zenon DEF AnswerIsOwed
<1> QED
  BY <1>2, Invariance, PTL

(* No lost and no orphan resend timer, on either side. *)
THEOREM TimersAreSound == Spec => []ResendTimersSound
<1>1. ASSUME IInv PROVE ResendTimersSound
  <2>1. \A p \in cArmed : p[1] \in Keys /\ p[2] \in Trans /\ cTimer[p[2]] = p[1]
    BY <1>1, Zenon DEF IInv, ClientIInv, ClientTypeOK, TimersInv
  <2>2. \A p \in sArmed : p[1] \in Keys /\ p[2] \in Trans /\ sTimer[p[2]] = p[1]
    BY <1>1, SMTT(60) DEF IInv, ServerIInv, ServerTypeOK, TimersInv
  <2>3. \A p \in cArmed : cState[p[2]] = "FORWARD"
    BY <1>1, <2>1, ConstantsAssumption DEF IInv, ClientIInv, ClientInv
  <2>4. \A p \in sArmed : sState[p[2]] = "TERMINATED"
    BY <1>1, <2>2, ConstantsAssumption DEF IInv, ServerIInv, ServerInv
  <2>5. \A t \in Trans :
          cState[t] = "FORWARD" => cMsg[t] = Req(t) /\ TimerLive(cTimer, cArmed, cDue, t)
    BY <1>1, SMTT(60) DEF IInv, ClientIInv, ClientInv, TimersInv, TimerLive
  <2> QED
    BY <2>1, <2>2, <2>3, <2>4, <2>5, Zenon DEF ResendTimersSound
<1> QED
  BY <1>1, Invariance, PTL

----------------------------------------------------------------------------
(* What the requester has heard. *)

(* What one transaction's two ends say of its deliveries: a responder that *)
(* has a state, or has given an answer, has forwarded the request.         *)
LEMMA SaidMeansDelivered ==
  ASSUME IInv, NEW t \in Trans, sState[t] # "none" \/ given[t] # {}
  PROVE  delivered[t] > 0
<1>1. delivered[t] \in Nat /\ sGone[t] \in Nat /\ ServerInv(t)
  BY Zenon DEF IInv, ServerIInv, ServerTypeOK
<1> QED
  BY <1>1 DEF ServerInv

(* HeardInv of a transaction survives a step that delivers no less, adds   *)
(* no provisional response to the network, and leaves the sending state    *)
(* alone.                                                                  *)
LEMMA HeardFrame ==
  ASSUME ServerTypeOK, NEW t \in Trans, HeardInv(t),
         Tmp(t) \in net' => Tmp(t) \in net \/ delivered[t] > 0,
         delivered'[t] = delivered[t] \/ delivered'[t] = delivered[t] + 1,
         cState'[t] = cState[t], UNCHANGED <<cGone, outcome>>
  PROVE  HeardInv(t)'
<1>1. delivered[t] \in Nat
  BY Zenon DEF ServerTypeOK
<1> QED
  BY <1>1 DEF HeardInv

(* HeardInv is preserved by every step of the requester, the responder,    *)
(* the timers and the network.                                             *)
LEMMA NextHeard ==
  ASSUME IInv, \A t \in Trans : HeardInv(t), [Next]_vars
  PROVE  \A t \in Trans : HeardInv(t)'
<1>0. /\ ClientTypeOK /\ ServerTypeOK
      /\ \A t \in Trans : ClientInv(t) /\ ServerInv(t) /\ NetInv(t)
  BY Zenon DEF IInv, ClientIInv, ServerIInv, JointInv
<1>1. ASSUME NEW t \in Trans, ClientStart(t) PROVE \A u \in Trans : HeardInv(u)'
  <2>1. /\ cState' = [cState EXCEPT ![t] = "FORWARD"] /\ net' = net \cup {Req(t)}
        /\ UNCHANGED <<outcome, cGone, delivered>> /\ t \notin cGone
    BY <1>0, <1>1, Zenon DEF ClientStart, sVars, ClientInv
  <2>2. \A u \in Trans : Tmp(u) \in net' => Tmp(u) \in net
    BY <2>1, MsgDistinct, Zenon
  <2> QED
    BY <1>0, <2>1, <2>2, Zenon DEF HeardInv, ClientTypeOK
<1>2. ASSUME NEW t \in Trans, ClientTmpInForward(t) PROVE \A u \in Trans : HeardInv(u)'
  <2>1. /\ Tmp(t) \in net /\ net' \subseteq net
        /\ \A u \in Trans \ {t} : cState'[u] = cState[u]
        /\ UNCHANGED <<outcome, cGone, delivered>>
    BY <1>0, <1>2, SMTT(60) DEF ClientTmpInForward, Arrive, LeaveForward, sVars, ClientTypeOK
  <2> QED
    BY <2>1, Zenon DEF HeardInv
<1>3. ASSUME NEW t \in Trans, NEW v \in Answers,
             ClientRspInForward(t, v) \/ ClientRspInTemporary(t, v)
      PROVE  \A u \in Trans : HeardInv(u)'
  <2>1. /\ Rsp(t, v) \in net /\ net' \subseteq net \cup {Ack(t)}
        /\ \A u \in Trans \ {t} : cState'[u] = cState[u] /\ outcome'[u] = outcome[u]
        /\ UNCHANGED <<cGone, delivered>>
    BY <1>0, <1>3, Zenon DEF ClientRspInForward, ClientRspInTemporary, Arrive, LeaveForward, Tell, sVars,
                      ClientTypeOK
  <2>2. delivered[t] > 0
    BY <1>0, <2>1, SaidMeansDelivered, Zenon DEF NetInv
  <2>3. \A u \in Trans : Tmp(u) \in net' => Tmp(u) \in net
    BY <2>1, MsgDistinct, Zenon
  <2> QED
    BY <2>1, <2>2, <2>3, Zenon DEF HeardInv
<1>4. ASSUME NEW t \in Trans, NEW v \in Answers, ClientRspInTerminated(t, v)
      PROVE  \A u \in Trans : HeardInv(u)'
  <2>1. net' \subseteq net \cup {Ack(t)} /\ UNCHANGED <<cState, cGone, outcome, delivered>>
    BY <1>4, Zenon DEF ClientRspInTerminated, Arrive, cVars, sVars
  <2>2. \A u \in Trans : Tmp(u) \in net' => Tmp(u) \in net
    BY <2>1, MsgDistinct, Zenon
  <2> QED
    BY <1>0, <2>1, <2>2, HeardFrame, Zenon
<1>5. ASSUME NEW t \in Trans, ServerReqInInit(t) PROVE \A u \in Trans : HeardInv(u)'
  <2>1. /\ net' \subseteq net \cup {Tmp(t)} /\ delivered' = [delivered EXCEPT ![t] = @ + 1]
        /\ UNCHANGED <<cState, cGone, outcome>>
    BY <1>5, Zenon DEF ServerReqInInit, Arrive, cVars
  <2>2. \A u \in Trans \ {t} : Tmp(u) \in net' => Tmp(u) \in net
    BY <2>1, MsgDistinct, Zenon
  <2>3. delivered'[t] > 0 /\ \A u \in Trans \ {t} : delivered'[u] = delivered[u]
    BY <1>0, <2>1 DEF ServerTypeOK
  <2> QED
    BY <2>1, <2>2, <2>3, Zenon DEF HeardInv
<1>6. ASSUME NEW t \in Trans, ServerReqInProgress(t) \/ ServerReqInTerminated(t)
      PROVE  \A u \in Trans : HeardInv(u)'
  <2>1. /\ sState[t] # "none"
        /\ net' \subseteq net \cup {Tmp(t)} \/ (sMsg[t] # NoMsg /\ net' \subseteq net \cup {sMsg[t]})
        /\ UNCHANGED <<cState, cGone, outcome, delivered>>
    BY <1>6, Zenon DEF ServerReqInProgress, ServerReqInTerminated, Arrive, cVars, sVars
  <2>2. delivered[t] > 0
    BY <2>1, SaidMeansDelivered, Zenon
  <2>3. sMsg[t] # NoMsg => \E v \in Answers : sMsg[t] = Rsp(t, v)
    BY <1>0, SMTT(60) DEF ServerInv, ServerTypeOK
  <2>4. \A u \in Trans \ {t} : Tmp(u) \in net' => Tmp(u) \in net
    BY <2>1, <2>3, MsgDistinct, SMTT(60)
  <2> QED
    BY <1>0, <2>1, <2>2, <2>4, HeardFrame, Zenon
<1>7. ASSUME NEW t \in Trans, NEW v \in Answers,
             ServerAnswerInForward(t, v) \/ ServerAnswerInTemporary(t, v)
      PROVE  \A u \in Trans : HeardInv(u)'
  <2>1. net' = net \cup {Rsp(t, v)} /\ UNCHANGED <<cState, cGone, outcome, delivered>>
    BY <1>7, Zenon DEF ServerAnswerInForward, ServerAnswerInTemporary, cVars
  <2>2. \A u \in Trans : Tmp(u) \in net' => Tmp(u) \in net
    BY <2>1, MsgDistinct, Zenon
  <2> QED
    BY <1>0, <2>1, <2>2, HeardFrame, Zenon
<1>8. ASSUME NEW t \in Trans, ServerAck(t) PROVE \A u \in Trans : HeardInv(u)'
  <2>1. net' \subseteq net /\ UNCHANGED <<cState, cGone, outcome, delivered>>
    BY <1>8, Zenon DEF ServerAck, Arrive, cVars
  <2> QED
    BY <1>0, <2>1, HeardFrame, Zenon
<1>9. ASSUME NEW p, ClientTimerFires(p) \/ ServerTimerFires(p) PROVE \A u \in Trans : HeardInv(u)'
  BY <1>0, <1>9, HeardFrame, Zenon DEF ClientTimerFires, ServerTimerFires, cVars, sVars
<1>10. ASSUME NEW p \in cDue, ClientTimeout(p[1], p[2]) PROVE \A u \in Trans : HeardInv(u)'
  <2>1. p[2] \in Trans
    BY <1>0, Zenon DEF ClientTypeOK
  <2>2. /\ net' = net \/ (cState[p[2]] = "FORWARD" /\ net' \subseteq net \cup {cMsg[p[2]]})
        /\ UNCHANGED <<cState, cGone, outcome, delivered>>
    BY <1>10, SMTT(60) DEF ClientTimeout, ClientResend, Resent, sVars
  <2>3. \A u \in Trans : Tmp(u) \in net' => Tmp(u) \in net
    BY <1>0, <2>1, <2>2, MsgDistinct, SMTT(60) DEF ClientInv
  <2> QED
    BY <1>0, <2>2, <2>3, HeardFrame, Zenon
<1>11. ASSUME NEW p \in sDue, ServerTimeout(p[1], p[2]) PROVE \A u \in Trans : HeardInv(u)'
  <2>1. p[2] \in Trans
    BY <1>0, Zenon DEF ServerTypeOK
  <2>2. /\ net' = net \/ (sMsg[p[2]] # NoMsg /\ net' \subseteq net \cup {sMsg[p[2]]})
        /\ UNCHANGED <<cState, cGone, outcome, delivered>>
    BY <1>11, Zenon DEF ServerTimeout, ServerResend, Resent, cVars
  <2>3. sMsg[p[2]] # NoMsg => \E v \in Answers : sMsg[p[2]] = Rsp(p[2], v)
    BY <1>0, <2>1, Zenon DEF ServerInv, ServerTypeOK
  <2>4. \A u \in Trans : Tmp(u) \in net' => Tmp(u) \in net
    BY <2>1, <2>2, <2>3, MsgDistinct
  <2> QED
    BY <1>0, <2>2, <2>4, HeardFrame, Zenon
<1>12. ASSUME ClientMaintain PROVE \A u \in Trans : HeardInv(u)'
  <2> DEFINE E == Expired(cState, cAge)
  <2>1. /\ cState' = Reset(cState, E, "none") /\ cGone' = cGone \cup E
        /\ outcome' = Reset(outcome, Unanswered(E), Timeout408)
        /\ UNCHANGED <<net, delivered>>
    BY <1>12, Zenon DEF ClientMaintain, sVars
  <2>2. \A u \in E : cState[u] \in {"TEMPORARY", "TERMINATED"} \/ u \in Unanswered(E)
    BY <1>0, MsgType DEF Expired, Unanswered, ClientTypeOK, States, ClientInv
  <2>3. \A u \in E : outcome'[u] = None => cState[u] \in {"TEMPORARY", "TERMINATED"}
    BY <2>1, <2>2, ConstantsAssumption, SMTT(60) DEF Reset, Expired
  <2>4. \A u \in Trans \ E : cState'[u] = cState[u] /\ outcome'[u] = outcome[u]
    BY <2>1, SMTT(60) DEF Reset, Unanswered
  <2>5. \A u \in E : cState'[u] = "none"
    BY <2>1, Zenon DEF Reset, Expired
  <2> HIDE DEF E
  <2> QED
    BY <2>1, <2>3, <2>4, <2>5, Zenon DEF HeardInv
<1>13. ASSUME ServerMaintain \/ Tick \/ UNCHANGED vars \/ \E m \in net : Drop(m)
       PROVE  \A u \in Trans : HeardInv(u)'
  <2>1. net' \subseteq net /\ UNCHANGED <<cState, cGone, outcome, delivered>>
    BY <1>13, Zenon DEF ServerMaintain, Tick, Drop, vars, cVars, sVars
  <2> QED
    BY <1>0, <2>1, HeardFrame, Zenon
<1> QED
  BY <1>1, <1>2, <1>3, <1>4, <1>5, <1>6, <1>7, <1>8, <1>9, <1>10, <1>11, <1>12, <1>13, Zenon
  DEF Next, ClientStep, ServerStep, TimerStep

(* A request whose sending state ends without a report did reach the       *)
(* responder's application (processTM(resp, currenttime), 332-358).        *)
THEOREM SilenceMeansDelivered == Spec => []SilentOnlyIfDelivered
<1>1. Init => \A t \in Trans : HeardInv(t)
  BY Zenon DEF Init, HeardInv
<1>2. IInv /\ (\A t \in Trans : HeardInv(t)) /\ [Next]_vars => (\A t \in Trans : HeardInv(t))'
  BY NextHeard, Zenon
<1>3. IInv /\ (\A t \in Trans : HeardInv(t)) => SilentOnlyIfDelivered
  BY Zenon DEF IInv, ClientIInv, ClientTypeOK, HeardInv, SilentOnlyIfDelivered
<1> QED
  BY <1>1, <1>2, <1>3, Invariance, PTL DEF Spec

----------------------------------------------------------------------------
(* Refinement. *)

(* Every step of the transaction layer is a step of RequestReply or a      *)
(* stutter: ServerReqInInit is its Execute, the two answers its Answer,    *)
(* the first RSP its Report, maintenance its GiveUp and Forget.            *)
LEMMA StepSimulation == IInv /\ [Next]_vars => [RR!Next]_RR!rrVars
<1> SUFFICES ASSUME IInv, [Next]_vars PROVE [RR!Next]_RR!rrVars
  BY Zenon
<1>0. /\ \A t \in Trans : ClientInv(t) /\ ServerInv(t) /\ NetInv(t)
      /\ ClientTypeOK /\ ServerTypeOK
  BY Zenon DEF IInv, ClientIInv, ServerIInv, JointInv
<1>1. ASSUME NEW t \in Trans, ClientStart(t) PROVE RR!Ask(t)
  BY <1>1, Zenon DEF ClientStart, sVars, RR!Ask
<1>2. ASSUME NEW t \in Trans, NEW v \in Answers,
             ClientRspInForward(t, v) \/ ClientRspInTemporary(t, v)
      PROVE  RR!Report(t, v)
  <2>1. /\ Rsp(t, v) \in net /\ cState[t] \in {"FORWARD", "TEMPORARY"}
        /\ outcome' = [outcome EXCEPT ![t] = v]
        /\ UNCHANGED <<started, delivered, sGone, given>>
    BY <1>2, Zenon DEF ClientRspInForward, ClientRspInTemporary, LeaveForward, Tell, Arrive, sVars
  <2> QED
    BY <1>0, <2>1, Zenon DEF ClientInv, NetInv, RR!Report
<1>3. ASSUME NEW t \in Trans, ServerReqInInit(t) PROVE RR!Execute(t)
  <2>1. /\ Req(t) \in net /\ sState[t] = "none"
        /\ delivered' = [delivered EXCEPT ![t] = @ + 1]
        /\ UNCHANGED <<started, sGone, given, outcome>>
    BY <1>3, Zenon DEF ServerReqInInit, Arrive, cVars
  <2> QED
    BY <1>0, <2>1 DEF ServerInv, ServerTypeOK, NetInv, RR!Execute
<1>4. ASSUME NEW t \in Trans, NEW v \in Answers,
             ServerAnswerInForward(t, v) \/ ServerAnswerInTemporary(t, v)
      PROVE  RR!Answer(t, v)
  <2>1. /\ sState[t] \in {"FORWARD", "TEMPORARY"}
        /\ given' = [given EXCEPT ![t] = @ \cup {v}]
        /\ UNCHANGED <<started, delivered, sGone, outcome>>
    BY <1>4, Zenon DEF ServerAnswerInForward, ServerAnswerInTemporary, cVars
  <2> QED
    BY <1>0, <2>1, SMTT(60) DEF ServerInv, ServerTypeOK, RR!Answer
<1>5. ASSUME ClientMaintain PROVE \E U \in SUBSET Trans : RR!GiveUp(U)
  <2> DEFINE U == Unanswered(Expired(cState, cAge))
  <2>1. /\ outcome' = Reset(outcome, U, Timeout408)
        /\ UNCHANGED <<started, delivered, sGone, given>>
    BY <1>5, SMTT(60) DEF ClientMaintain, sVars
  <2>2. U \in SUBSET Trans /\ \A t \in U : t \in started /\ outcome[t] = None
    BY <1>0, Zenon DEF Unanswered, Expired, ClientInv
  <2> HIDE DEF U
  <2>3. RR!GiveUp(U)
    BY <2>1, <2>2, Zenon DEF RR!GiveUp, Reset
  <2> QED
    BY <2>2, <2>3, Zenon
<1>6. ASSUME ServerMaintain PROVE \E E \in SUBSET Trans : RR!Forget(E)
  <2> DEFINE E == Expired(sState, sAge)
  <2>1. /\ sGone' = [t \in Trans |-> sGone[t] + IF t \in E THEN 1 ELSE 0]
        /\ UNCHANGED <<started, delivered, given, outcome>>
    BY <1>6, Zenon DEF ServerMaintain, cVars
  <2>2. E \in SUBSET Trans /\ \A t \in E : delivered[t] > sGone[t]
    BY <1>0 DEF Expired, ServerInv, ServerTypeOK
  <2> HIDE DEF E
  <2>3. RR!Forget(E)
    BY <2>1, <2>2, Zenon DEF RR!Forget
  <2> QED
    BY <2>2, <2>3, Zenon
<1>7. ASSUME UNCHANGED <<started, delivered, sGone, given, outcome>> PROVE UNCHANGED RR!rrVars
  BY <1>7, Zenon DEF RR!rrVars
<1>8. ASSUME NEW t \in Trans, ClientStep(t) PROVE [RR!Next]_RR!rrVars
  <2>1. ASSUME ClientTmpInForward(t) PROVE UNCHANGED RR!rrVars
    BY <1>7, <2>1, Zenon DEF ClientTmpInForward, LeaveForward, sVars
  <2>2. ASSUME NEW v \in Answers, ClientRspInTerminated(t, v) PROVE UNCHANGED RR!rrVars
    BY <1>7, <2>2, Zenon DEF ClientRspInTerminated, cVars, sVars
  <2> QED
    BY <1>1, <1>2, <1>8, <2>1, <2>2, Zenon DEF ClientStep, RR!Next
<1>9. ASSUME NEW t \in Trans, ServerStep(t) PROVE [RR!Next]_RR!rrVars
  <2>1. ASSUME ServerReqInProgress(t) \/ ServerReqInTerminated(t) \/ ServerAck(t)
        PROVE  UNCHANGED RR!rrVars
    BY <1>7, <2>1, SMTT(60) DEF ServerReqInProgress, ServerReqInTerminated, ServerAck, cVars, sVars
  <2> QED
    BY <1>3, <1>4, <1>9, <2>1, SMTT(60) DEF ServerStep, RR!Next
<1>10. ASSUME TimerStep \/ Tick PROVE UNCHANGED RR!rrVars
  <2>1. ASSUME Tick PROVE UNCHANGED RR!rrVars
    BY <1>7, <2>1, SMTT(60) DEF Tick
  <2>2. ASSUME NEW p, ClientTimerFires(p) \/ ClientTimeout(p[1], p[2]) PROVE UNCHANGED RR!rrVars
    BY <1>7, <2>2, SMTT(60) DEF ClientTimerFires, ClientTimeout, sVars
  <2>3. ASSUME NEW p, ServerTimerFires(p) \/ ServerTimeout(p[1], p[2]) PROVE UNCHANGED RR!rrVars
    BY <1>7, <2>3, Zenon DEF ServerTimerFires, ServerTimeout, cVars
  <2> QED
    BY <1>10, <2>1, <2>2, <2>3, Zenon DEF TimerStep
<1>11. ASSUME UNCHANGED vars \/ \E m \in net : Drop(m) PROVE UNCHANGED RR!rrVars
  BY <1>7, <1>11, Zenon DEF Drop, vars, cVars, sVars
<1>12. ASSUME ClientMaintain \/ ServerMaintain PROVE RR!Next
  BY <1>5, <1>6, <1>12, Zenon DEF RR!Next
<1> QED
  BY <1>8, <1>9, <1>10, <1>11, <1>12, Zenon DEF Next

(* The transaction layer implements RequestReply: over a network that      *)
(* loses, duplicates and reorders, its applications see requests executed  *)
(* at most once per responder state and at most one, genuine, outcome.     *)
THEOREM Refinement == Spec => ImplementsRequestReply
<1>1. Init => RR!Init
  BY Zenon DEF Init, RR!Init
<1> QED
  BY <1>1, StepSimulation, Invariance, PTL DEF Spec, RR!Spec, ImplementsRequestReply
=============================================================================
