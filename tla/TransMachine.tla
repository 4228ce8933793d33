---------------------------- MODULE TransMachine ----------------------------
(***************************************************************************)
(* The transaction layer of the transport (TTransState / TTransMachine):   *)
(* a requester and a responder, each with a table of transactions, a       *)
(* resend timer per transaction and a maintenance timer, joined by UDP,    *)
(* which loses, duplicates and reorders.                                   *)
(*                                                                         *)
(* One TTransMachine serves every transaction of its process; a transid    *)
(* has a sending state (tssend = TRUE, "c" below) in the requester and a   *)
(* receiving state (tssend = FALSE, "s" below) in the responder.  Each     *)
(* processTM call is one action, glued to the application and the wire as  *)
(* the contract in transstate.h (57-75) says.                              *)
(***************************************************************************)
EXTENDS Naturals, FiniteSets

CONSTANTS Trans,        \* transaction identifiers
          OneWay,       \* requests whose pri parameter asks for no final response
          Answers,      \* what the responder's application may answer
          Keys,         \* timer keys
          NoKey,        \* TTransState::timer = 0
          NoMsg,        \* TTransState::msg = NULL
          None,         \* no outcome reported to the application yet
          Timeout408,   \* the outcome of a TSC_TIMEOUT response
          LivingTime,   \* tminit(sendTimeOutSec), in ticks
          MaxDeliver    \* bound: server states created per transaction

ASSUME ConstantsAssumption ==
  /\ OneWay \subseteq Trans
  /\ NoKey \notin Keys
  /\ None \notin Answers
  /\ Timeout408 \notin Answers
  /\ None # Timeout408
  /\ LivingTime \in Nat
  /\ MaxDeliver \in Nat

(* Wire messages.  REQ and the acknowledging TMP go to the responder, RSP  *)
(* and the provisional TMP to the requester (genComMsgResp swaps the       *)
(* addresses and keeps the transid; only an RSP carries an answer).        *)
Req(t)    == [to |-> "server", name |-> "REQ", tid |-> t, val |-> None]
Ack(t)    == [to |-> "server", name |-> "TMP", tid |-> t, val |-> None]
Tmp(t)    == [to |-> "client", name |-> "TMP", tid |-> t, val |-> None]
Rsp(t, v) == [to |-> "client", name |-> "RSP", tid |-> t, val |-> v]

Message == {Req(t) : t \in Trans} \cup {Ack(t) : t \in Trans}
             \cup {Tmp(t) : t \in Trans}
             \cup {Rsp(t, v) : t \in Trans, v \in Answers}

ASSUME NoMsgAssumption == NoMsg \notin Message

(* "none": the transid is not in mTSState.  TS_INIT is left in the call    *)
(* that creates the state, so it is never seen between two calls.          *)
States == {"none", "FORWARD", "TEMPORARY", "TERMINATED"}

VARIABLES
  cState, cMsg, cTimer, cAge,   \* the requester's TTransState of each transid
  sState, sMsg, sTimer, sAge,   \* the responder's
  cArmed, cDue,                 \* <<key, transid>>: timers running, timeouts queued
  sArmed, sDue,
  net,                          \* messages in flight
  started,                      \* history: requests the application has sent
  outcome, told,                \* history: what the requester's application was told, how often
  delivered, given,             \* history: REQs forwarded to, answers taken from, the responder's application
  cGone, sGone                  \* history: states removed by the maintenance timer

cVars == <<cState, cMsg, cTimer, cAge, cArmed, cDue, started, outcome, told, cGone>>
sVars == <<sState, sMsg, sTimer, sAge, sArmed, sDue, delivered, given, sGone>>
vars  == <<cVars, sVars, net>>

ClientTypeOK ==
  /\ cState \in [Trans -> States]
  /\ cMsg \in [Trans -> Message \cup {NoMsg}]
  /\ cTimer \in [Trans -> Keys \cup {NoKey}]
  /\ cAge \in [Trans -> Nat]
  /\ cArmed \subseteq Keys \X Trans /\ cDue \subseteq Keys \X Trans
  /\ started \subseteq Trans /\ cGone \subseteq Trans
  /\ outcome \in [Trans -> Answers \cup {None, Timeout408}]
  /\ told \in [Trans -> Nat]

ServerTypeOK ==
  /\ sState \in [Trans -> States]
  /\ sMsg \in [Trans -> Message \cup {NoMsg}]
  /\ sTimer \in [Trans -> Keys \cup {NoKey}]
  /\ sAge \in [Trans -> Nat]
  /\ sArmed \subseteq Keys \X Trans /\ sDue \subseteq Keys \X Trans
  /\ delivered \in [Trans -> Nat] /\ sGone \in [Trans -> Nat]
  /\ given \in [Trans -> SUBSET Answers]

(* Both tables, their timers and the network hold values of their types;   *)
(* in particular no absent message (TTransState::msg = NULL) is ever sent. *)
TypeOK == ClientTypeOK /\ ServerTypeOK /\ net \subseteq Message

Init ==
  /\ cState = [t \in Trans |-> "none"] /\ sState = [t \in Trans |-> "none"]
  /\ cMsg = [t \in Trans |-> NoMsg]    /\ sMsg = [t \in Trans |-> NoMsg]
  /\ cTimer = [t \in Trans |-> NoKey]  /\ sTimer = [t \in Trans |-> NoKey]
  /\ cAge = [t \in Trans |-> 0]        /\ sAge = [t \in Trans |-> 0]
  /\ cArmed = {} /\ cDue = {} /\ sArmed = {} /\ sDue = {}
  /\ net = {} /\ started = {} /\ cGone = {}
  /\ outcome = [t \in Trans |-> None]
  /\ told = [t \in Trans |-> 0]
  /\ delivered = [t \in Trans |-> 0] /\ sGone = [t \in Trans |-> 0]
  /\ given = [t \in Trans |-> {}]

----------------------------------------------------------------------------
(* A UDP datagram that arrives may have been duplicated: it is taken out   *)
(* of the network or left there.                                           *)
Arrive(m, out) ==
  /\ m \in net
  /\ \/ net' = (net \ {m}) \cup out
     \/ net' = net \cup out

(* TaskTimerQueue::add hands out a key no running or queued timer has.     *)
Fresh(armed, due) == {k \in Keys : \A p \in armed \cup due : p[1] # k}

(* delResendTimer -> TaskTimerQueue::remove: a timeout that is already in  *)
(* the queue stays there.                                                  *)
DelTimer(armed, k) == {p \in armed : p[1] # k}

(* TSC_FORWARD of a response, or TSC_TIMEOUT: the application is told.     *)
Tell(t, o) ==
  /\ outcome' = [outcome EXCEPT ![t] = o]
  /\ told' = [told EXCEPT ![t] = @ + 1]

----------------------------------------------------------------------------
(* The requester: TSClient_CHANGE *)

(* TS_INIT, REQ from the application: keep a copy, set the resend timer,   *)
(* send.  Transids are unique, so a transid is started once; a repeated    *)
(* REQ in any later state is TSC_NULL and changes nothing.                 *)
ClientStart(t) ==
  /\ t \notin started
  /\ \E k \in Fresh(cArmed, cDue) :
       /\ cTimer' = [cTimer EXCEPT ![t] = k]
       /\ cArmed' = cArmed \cup {<<k, t>>}
  /\ cState' = [cState EXCEPT ![t] = "FORWARD"]
  /\ cMsg' = [cMsg EXCEPT ![t] = Req(t)]
  /\ cAge' = [cAge EXCEPT ![t] = 0]
  /\ started' = started \cup {t}
  /\ net' = net \cup {Req(t)}
  /\ UNCHANGED <<cDue, outcome, told, cGone, sVars>>

(* Slip: the timer is forgotten but not stopped. *)
LeaveForwardTimerRuns(t, to) ==
  /\ cState[t] = "FORWARD"
  /\ cState' = [cState EXCEPT ![t] = to]
  /\ cTimer' = [cTimer EXCEPT ![t] = NoKey]
  /\ cMsg' = [cMsg EXCEPT ![t] = NoMsg]
  /\ UNCHANGED <<cAge, cArmed, cDue, started, cGone, sVars>>

(* TS_FORWARD leaves its state on RSP and on TMP alike: stop the timer,    *)
(* drop the saved request.                                                 *)
LeaveForward(t, to) ==
  /\ cState[t] = "FORWARD"
  /\ cState' = [cState EXCEPT ![t] = to]
  /\ cArmed' = DelTimer(cArmed, cTimer[t])
  /\ cTimer' = [cTimer EXCEPT ![t] = NoKey]
  /\ cMsg' = [cMsg EXCEPT ![t] = NoMsg]
  /\ UNCHANGED <<cAge, cDue, started, cGone, sVars>>

ClientRspInForward(t, v) ==
  /\ Arrive(Rsp(t, v), {})
  /\ LeaveForward(t, "TERMINATED")
  /\ Tell(t, v)

ClientTmpInForward(t) ==
  /\ Arrive(Tmp(t), {})
  /\ LeaveForward(t, IF t \in OneWay THEN "TERMINATED" ELSE "TEMPORARY")
  /\ UNCHANGED <<outcome, told>>

ClientRspInTemporary(t, v) ==
  /\ cState[t] = "TEMPORARY"
  /\ Arrive(Rsp(t, v), {Ack(t)})
  /\ cState' = [cState EXCEPT ![t] = "TERMINATED"]
  /\ Tell(t, v)
  /\ UNCHANGED <<cMsg, cTimer, cAge, cArmed, cDue, started, cGone, sVars>>

(* Slip: a repeated RSP is forwarded (TSC_FORWARD for TSC_REFUSE). *)
ClientRspForwardedAgain(t, v) ==
  /\ cState[t] = "TERMINATED"
  /\ Arrive(Rsp(t, v), {Ack(t)})
  /\ Tell(t, v)
  /\ UNCHANGED <<cState, cMsg, cTimer, cAge, cArmed, cDue, started, cGone, sVars>>

(* Slip: a repeated RSP is dropped without the TMP that acknowledges it. *)
ClientRspNotAcked(t, v) ==
  /\ cState[t] = "TERMINATED"
  /\ Arrive(Rsp(t, v), {})
  /\ UNCHANGED <<cVars, sVars>>

(* TSC_REFUSE: a repeated RSP is only acknowledged. *)
ClientRspInTerminated(t, v) ==
  /\ cState[t] = "TERMINATED"
  /\ Arrive(Rsp(t, v), {Ack(t)})
  /\ UNCHANGED <<cVars, sVars>>

----------------------------------------------------------------------------
(* The responder: TSServer_CHANGE *)

(* Slip: the table is not searched, every REQ makes a state. *)
ServerReqNotLookedUp(t) ==
  /\ delivered[t] < MaxDeliver
  /\ Arrive(Req(t), IF t \in OneWay THEN {Tmp(t)} ELSE {})
  /\ sState' = [sState EXCEPT ![t] = IF t \in OneWay THEN "TERMINATED" ELSE "FORWARD"]
  /\ sAge' = [sAge EXCEPT ![t] = 0]
  /\ delivered' = [delivered EXCEPT ![t] = @ + 1]
  /\ UNCHANGED <<sMsg, sTimer, sArmed, sDue, given, sGone, cVars>>

(* TS_INIT, REQ: no state for this transid, so one is made and the request *)
(* goes to the application; a one-way request is finished at once.         *)
ServerReqInInit(t) ==
  /\ sState[t] = "none"
  /\ delivered[t] < MaxDeliver
  /\ Arrive(Req(t), IF t \in OneWay THEN {Tmp(t)} ELSE {})
  /\ sState' = [sState EXCEPT ![t] = IF t \in OneWay THEN "TERMINATED" ELSE "FORWARD"]
  /\ sAge' = [sAge EXCEPT ![t] = 0]
  /\ delivered' = [delivered EXCEPT ![t] = @ + 1]
  /\ UNCHANGED <<sMsg, sTimer, sArmed, sDue, given, sGone, cVars>>

(* Slip: a repeated REQ is forwarded to the application again. *)
ServerReqForwardedAgain(t) ==
  /\ sState[t] \in {"FORWARD", "TEMPORARY"}
  /\ delivered[t] < MaxDeliver
  /\ Arrive(Req(t), {Tmp(t)})
  /\ sState' = [sState EXCEPT ![t] = "TEMPORARY"]
  /\ delivered' = [delivered EXCEPT ![t] = @ + 1]
  /\ UNCHANGED <<sMsg, sTimer, sAge, sArmed, sDue, given, sGone, cVars>>

(* REQ again before the answer: TSC_REFUSE with a provisional response. *)
ServerReqInProgress(t) ==
  /\ sState[t] \in {"FORWARD", "TEMPORARY"}
  /\ Arrive(Req(t), {Tmp(t)})
  /\ sState' = [sState EXCEPT ![t] = "TEMPORARY"]
  /\ UNCHANGED <<sMsg, sTimer, sAge, sArmed, sDue, delivered, given, sGone, cVars>>

(* REQ again after the answer: repeat what the requester did not get. *)
ServerReqInTerminated(t) ==
  /\ sState[t] = "TERMINATED"
  /\ Arrive(Req(t), IF sMsg[t] # NoMsg THEN {sMsg[t]}
                    ELSE IF t \in OneWay THEN {Tmp(t)} ELSE {})
  /\ UNCHANGED <<cVars, sVars>>

(* Slip: a second answer is accepted after the first. *)
ServerAnswerTwice(t, v) ==
  /\ sState[t] \in {"FORWARD", "TERMINATED"}
  /\ sMsg' = [sMsg EXCEPT ![t] = Rsp(t, v)]
  /\ sState' = [sState EXCEPT ![t] = "TERMINATED"]
  /\ given' = [given EXCEPT ![t] = @ \cup {v}]
  /\ net' = net \cup {Rsp(t, v)}
  /\ UNCHANGED <<sTimer, sAge, sArmed, sDue, delivered, sGone, cVars>>

(* RSP from the application in TS_FORWARD: saved and sent, no timer. *)
ServerAnswerInForward(t, v) ==
  /\ sState[t] = "FORWARD"
  /\ sMsg' = [sMsg EXCEPT ![t] = Rsp(t, v)]
  /\ sState' = [sState EXCEPT ![t] = "TERMINATED"]
  /\ given' = [given EXCEPT ![t] = @ \cup {v}]
  /\ net' = net \cup {Rsp(t, v)}
  /\ UNCHANGED <<sTimer, sAge, sArmed, sDue, delivered, sGone, cVars>>

(* Slip: no resend timer after a provisional response either. *)
ServerAnswerNoTimer(t, v) ==
  /\ sState[t] = "TEMPORARY"
  /\ sMsg' = [sMsg EXCEPT ![t] = Rsp(t, v)]
  /\ sState' = [sState EXCEPT ![t] = "TERMINATED"]
  /\ given' = [given EXCEPT ![t] = @ \cup {v}]
  /\ net' = net \cup {Rsp(t, v)}
  /\ UNCHANGED <<sTimer, sAge, sArmed, sDue, delivered, sGone, cVars>>

(* In TS_TEMPORARY the requester has stopped repeating, so the RSP is      *)
(* repeated until it is acknowledged.                                      *)
ServerAnswerInTemporary(t, v) ==
  /\ sState[t] = "TEMPORARY"
  /\ sMsg' = [sMsg EXCEPT ![t] = Rsp(t, v)]
  /\ \E k \in Fresh(sArmed, sDue) :
       /\ sTimer' = [sTimer EXCEPT ![t] = k]
       /\ sArmed' = sArmed \cup {<<k, t>>}
  /\ sState' = [sState EXCEPT ![t] = "TERMINATED"]
  /\ given' = [given EXCEPT ![t] = @ \cup {v}]
  /\ net' = net \cup {Rsp(t, v)}
  /\ UNCHANGED <<sAge, sDue, delivered, sGone, cVars>>

(* TMP in TS_TERMINATED: the answer has arrived, stop repeating it. *)
ServerAck(t) ==
  /\ sState[t] = "TERMINATED"
  /\ Arrive(Ack(t), {})
  /\ sArmed' = DelTimer(sArmed, sTimer[t])
  /\ sTimer' = [sTimer EXCEPT ![t] = NoKey]
  /\ UNCHANGED <<sState, sMsg, sAge, sDue, delivered, given, sGone, cVars>>

----------------------------------------------------------------------------
(* Resend timers: TaskTimerQueue::processTimer queues the timeout, the     *)
(* task handles it later (processTM(tk, para, resend)).  A timeout whose   *)
(* key is no longer the state's timer is ignored.                          *)
ClientTimerFires(p) ==
  /\ p \in cArmed
  /\ cArmed' = cArmed \ {p}
  /\ cDue' = cDue \cup {p}
  /\ UNCHANGED <<cState, cMsg, cTimer, cAge, started, outcome, told, cGone, sVars, net>>

ServerTimerFires(p) ==
  /\ p \in sArmed
  /\ sArmed' = sArmed \ {p}
  /\ sDue' = sDue \cup {p}
  /\ UNCHANGED <<sState, sMsg, sTimer, sAge, delivered, given, sGone, cVars, net>>

Resent(m) == IF m # NoMsg THEN {m} ELSE {}

ClientResend(k, t) ==
  /\ cTimer[t] = k /\ cState[t] = "FORWARD"
  /\ net' = net \cup Resent(cMsg[t])
  /\ \E n \in Fresh(cArmed, cDue) :
       /\ cTimer' = [cTimer EXCEPT ![t] = n]
       /\ cArmed' = cArmed \cup {<<n, t>>}

ClientTimeout(k, t) ==
  /\ <<k, t>> \in cDue
  /\ cDue' = cDue \ {<<k, t>>}
  /\ \/ ClientResend(k, t)
     \/ /\ ~(cTimer[t] = k /\ cState[t] = "FORWARD")
        /\ UNCHANGED <<cTimer, cArmed, net>>
  /\ UNCHANGED <<cState, cMsg, cAge, started, outcome, told, cGone, sVars>>

ServerResend(k, t) ==
  /\ sTimer[t] = k /\ sState[t] = "TERMINATED"
  /\ net' = net \cup Resent(sMsg[t])
  /\ \E n \in Fresh(sArmed, sDue) :
       /\ sTimer' = [sTimer EXCEPT ![t] = n]
       /\ sArmed' = sArmed \cup {<<n, t>>}

ServerTimeout(k, t) ==
  /\ <<k, t>> \in sDue
  /\ sDue' = sDue \ {<<k, t>>}
  /\ \/ ServerResend(k, t)
     \/ /\ ~(sTimer[t] = k /\ sState[t] = "TERMINATED")
        /\ UNCHANGED <<sTimer, sArmed, net>>
  /\ UNCHANGED <<sState, sMsg, sAge, delivered, given, sGone, cVars>>

----------------------------------------------------------------------------
(* Maintenance: processTM(resp, currenttime), called until it returns      *)
(* TSC_NULL, pops every state older than the living time (the table is in  *)
(* order of creation and is never refreshed).  A sending state that has    *)
(* not ended and still holds its request yields the 408 response; every    *)
(* other state goes silently.  ~TTransState cancels the timer.             *)
Expired(state, age) == {t \in Trans : state[t] # "none" /\ age[t] > LivingTime}

(* Slip: only a state that got a provisional response is reported. *)
UnansweredTemporary(E) == {t \in E : cState[t] = "TEMPORARY" /\ cMsg[t] # NoMsg}

Unanswered(E) == {t \in E : cState[t] \in {"FORWARD", "TEMPORARY"} /\ cMsg[t] # NoMsg}

Reset(f, E, v) == [t \in Trans |-> IF t \in E THEN v ELSE f[t]]

DelTimers(armed, timer, E) == {p \in armed : \A t \in E : p[1] # timer[t]}

ClientMaintain ==
  LET E == Expired(cState, cAge)
      U == Unanswered(E)
  IN /\ E # {}
     /\ cState' = Reset(cState, E, "none")
     /\ cMsg' = Reset(cMsg, E, NoMsg)
     /\ cTimer' = Reset(cTimer, E, NoKey)
     /\ cArmed' = DelTimers(cArmed, cTimer, E)
     /\ cGone' = cGone \cup E
     /\ outcome' = Reset(outcome, U, Timeout408)
     /\ told' = [t \in Trans |-> told[t] + IF t \in U THEN 1 ELSE 0]
     /\ UNCHANGED <<cAge, cDue, started, sVars, net>>

ServerMaintain ==
  LET E == Expired(sState, sAge)
  IN /\ E # {}
     /\ sState' = Reset(sState, E, "none")
     /\ sMsg' = Reset(sMsg, E, NoMsg)
     /\ sTimer' = Reset(sTimer, E, NoKey)
     /\ sArmed' = DelTimers(sArmed, sTimer, E)
     /\ sGone' = [t \in Trans |-> sGone[t] + IF t \in E THEN 1 ELSE 0]
     /\ UNCHANGED <<sAge, sDue, delivered, given, cVars, net>>

(* One second passes.  Ages are kept up to LivingTime + 1, past which they *)
(* are not told apart.                                                     *)
Older(state, age) ==
  [t \in Trans |-> IF state[t] # "none" /\ age[t] <= LivingTime THEN age[t] + 1 ELSE age[t]]

Tick ==
  /\ cAge' = Older(cState, cAge)
  /\ sAge' = Older(sState, sAge)
  /\ UNCHANGED <<cState, cMsg, cTimer, cArmed, cDue, started, outcome, told, cGone,
                 sState, sMsg, sTimer, sArmed, sDue, delivered, given, sGone, net>>

(* A datagram is lost, or reaches a state that answers TSC_NULL. *)
Drop(m) ==
  /\ m \in net
  /\ net' = net \ {m}
  /\ UNCHANGED <<cVars, sVars>>

ClientStep(t) ==
  \/ ClientStart(t)
  \/ ClientTmpInForward(t)
  \/ \E v \in Answers : ClientRspInForward(t, v) \/ ClientRspInTemporary(t, v)
                          \/ ClientRspInTerminated(t, v)

ServerStep(t) ==
  \/ ServerReqInInit(t)
  \/ ServerReqInProgress(t)
  \/ ServerReqInTerminated(t)
  \/ ServerAck(t)
  \/ \E v \in Answers : ServerAnswerInForward(t, v) \/ ServerAnswerInTemporary(t, v)

TimerStep ==
  \/ \E p \in cArmed : ClientTimerFires(p)
  \/ \E p \in sArmed : ServerTimerFires(p)
  \/ \E p \in cDue : ClientTimeout(p[1], p[2])
  \/ \E p \in sDue : ServerTimeout(p[1], p[2])

Next ==
  \/ \E t \in Trans : ClientStep(t) \/ ServerStep(t)
  \/ TimerStep
  \/ ClientMaintain
  \/ ServerMaintain
  \/ Tick
  \/ \E m \in net : Drop(m)

Spec == Init /\ [][Next]_vars

----------------------------------------------------------------------------
(* Safety *)

(* The requester's application is told the outcome of a request (the       *)
(* answer, or 408) at most once, whatever is duplicated, delayed or        *)
(* expires in between (TSC_FORWARD and TSC_TIMEOUT of the sending state).  *)
AtMostOneOutcome == \A t \in Trans : told[t] <= 1

(* A request reaches the responder's application once per server state:    *)
(* again only after the maintenance timer has removed the earlier state    *)
(* (TSServer_CHANGE refuses repeated REQs).                                *)
AtMostOnceDelivery == \A t \in Trans : delivered[t] <= 1 + sGone[t]

(* An answer the requester's application gets is one the responder's       *)
(* application gave; and as long as the responder has not forgotten the    *)
(* transaction, every copy in the network and the one reported carry the   *)
(* single answer saved in TTransState::msg, however often the application  *)
(* answers.                                                                *)
AnswerIntegrity ==
  \A t \in Trans :
    /\ outcome[t] \in given[t] \cup {None, Timeout408}
    /\ sGone[t] = 0 =>
         /\ outcome[t] \in Answers => sMsg[t] = Rsp(t, outcome[t])
         /\ \A v \in Answers : Rsp(t, v) \in net => sMsg[t] = Rsp(t, v)

TimerLive(timer, armed, due, t) == timer[t] # NoKey /\ <<timer[t], t>> \in armed \cup due

(* A requester that stopped repeating because of a provisional response    *)
(* (TS_TEMPORARY) is never left alone: unless the responder's state has    *)
(* expired, the responder still owes the answer, or has it saved with a    *)
(* resend timer that is running or whose timeout is queued.                *)
AnswerIsOwed ==
  \A t \in Trans :
    cState[t] = "TEMPORARY" /\ sGone[t] = 0 =>
      \/ sState[t] = "TEMPORARY"
      \/ sState[t] = "TERMINATED" /\ sMsg[t] # NoMsg /\ TimerLive(sTimer, sArmed, sDue, t)

(* Resend timers are neither lost nor orphaned.  A requester that waits    *)
(* for a first reaction holds its request and a timer that will repeat it: *)
(* there is no lost wake-up between firing, cancelling and re-arming.  A   *)
(* running timer, on either side, is the one its transaction knows by key, *)
(* so that cancelling it by that key stops all repetition (a queued        *)
(* timeout may be stale, a running timer may not).                         *)
ResendTimersSound ==
  /\ \A t \in Trans :
       cState[t] = "FORWARD" => cMsg[t] = Req(t) /\ TimerLive(cTimer, cArmed, cDue, t)
  /\ \A p \in cArmed : cState[p[2]] = "FORWARD" /\ cTimer[p[2]] = p[1]
  /\ \A p \in sArmed : sState[p[2]] = "TERMINATED" /\ sTimer[p[2]] = p[1]

(* A request does not vanish: a sending state that ends its living time    *)
(* without any report to the application (which processTM leaves out once  *)
(* the saved request is dropped) is of a request that did reach the        *)
(* responder's application.  Only the 408 tells a request that was never   *)
(* delivered.                                                              *)
SilentOnlyIfDelivered == \A t \in cGone : outcome[t] = None => delivered[t] > 0

----------------------------------------------------------------------------
(* The inductive invariant behind the safety properties, in parts. *)

(* Timer bookkeeping, the same on both sides: a timer is running or its    *)
(* timeout is queued, not both; keys tell timers and queued timeouts       *)
(* apart; a running timer is known to its transaction; a timer the         *)
(* transaction knows is running or queued.                                 *)
TimersInv(timer, armed, due) ==
  /\ armed \cap due = {}
  /\ \A p, q \in armed \cup due : p[1] = q[1] => p = q
  /\ \A p \in armed : timer[p[2]] = p[1]
  /\ \A t \in Trans : timer[t] # NoKey => <<timer[t], t>> \in armed \cup due

ClientInv(t) ==
  /\ cState[t] # "none" => t \in started /\ t \notin cGone
  /\ t \in cGone => t \in started
  /\ told[t] = IF outcome[t] = None THEN 0 ELSE 1
  /\ cState[t] \in {"FORWARD", "TEMPORARY"} \/ t \notin started => outcome[t] = None
  /\ cState[t] = "FORWARD" => cMsg[t] = Req(t) /\ cTimer[t] # NoKey
  /\ cState[t] # "FORWARD" => cMsg[t] = NoMsg /\ cTimer[t] = NoKey
  /\ cState[t] = "TEMPORARY" => t \notin OneWay

ServerInv(t) ==
  /\ delivered[t] = sGone[t] + IF sState[t] = "none" THEN 0 ELSE 1
  /\ sState[t] # "TERMINATED" => sMsg[t] = NoMsg /\ sTimer[t] = NoKey
  /\ sState[t] = "TERMINATED" /\ t \notin OneWay => \E v \in given[t] : sMsg[t] = Rsp(t, v)
  /\ t \in OneWay => sState[t] \in {"none", "TERMINATED"} /\ sMsg[t] = NoMsg
  /\ sState[t] # "TERMINATED" /\ sGone[t] = 0 => given[t] = {}

ClientIInv ==
  ClientTypeOK /\ TimersInv(cTimer, cArmed, cDue) /\ \A t \in Trans : ClientInv(t)

ServerIInv ==
  ServerTypeOK /\ TimersInv(sTimer, sArmed, sDue) /\ \A t \in Trans : ServerInv(t)

(* The requester has left the waiting states for good. *)
ClientDone(t) == cState[t] = "TERMINATED" \/ t \in cGone

(* What a message in flight says about the two ends. *)
NetInv(t) ==
  /\ Req(t) \in net \/ delivered[t] > 0 => t \in started
  /\ Ack(t) \in net => ClientDone(t)
  /\ \A v \in Answers : Rsp(t, v) \in net \/ outcome[t] = v => v \in given[t]

(* What holds until the responder's state expires for the first time: one  *)
(* answer, and after a provisional response a timer that repeats it until  *)
(* the requester is done.                                                  *)
FirstLifeInv(t) ==
  sGone[t] = 0 =>
    /\ \A v \in Answers : Rsp(t, v) \in net \/ outcome[t] = v => sMsg[t] = Rsp(t, v)
    /\ t \notin OneWay /\ (Tmp(t) \in net \/ cState[t] = "TEMPORARY") =>
         \/ sState[t] = "TEMPORARY"
         \/ sState[t] = "TERMINATED" /\ (ClientDone(t) \/ sTimer[t] # NoKey)

JointInv ==
  /\ net \subseteq Message
  /\ \A t \in Trans : NetInv(t) /\ FirstLifeInv(t)

(* The inductive invariant: what TransMachineProof proves and the safety   *)
(* properties follow from.                                                 *)
IInv == ClientIInv /\ ServerIInv /\ JointInv

(* Behind SilentOnlyIfDelivered: whatever the requester has heard, however *)
(* late, was said by a responder that had forwarded the request.           *)
HeardInv(t) ==
  Tmp(t) \in net \/ cState[t] \in {"TEMPORARY", "TERMINATED"} \/ (t \in cGone /\ outcome[t] = None)
    => delivered[t] > 0

----------------------------------------------------------------------------
(* Liveness.  The task's thread keeps taking timers and messages (weak     *)
(* fairness), the responder's application answers what it was given, and   *)
(* a datagram that is sent again and again gets through at some point      *)
(* (strong fairness of its arrival).  Nothing is assumed of the clock.     *)
Fairness ==
  /\ \A t \in Trans :
       /\ WF_vars(\E k \in Keys : <<k, t>> \in cArmed /\ ClientTimerFires(<<k, t>>))
       /\ WF_vars(\E k \in Keys : <<k, t>> \in sArmed /\ ServerTimerFires(<<k, t>>))
       /\ WF_vars(\E k \in Keys : ClientTimeout(k, t))
       /\ WF_vars(\E k \in Keys : ServerTimeout(k, t))
       /\ WF_vars(\E v \in Answers : ServerAnswerInForward(t, v) \/ ServerAnswerInTemporary(t, v))
       /\ SF_vars(ServerReqInInit(t))
       /\ SF_vars(ServerReqInProgress(t) \/ ServerReqInTerminated(t))
       /\ SF_vars(ServerAck(t))
       /\ SF_vars(ClientTmpInForward(t))
       /\ SF_vars(\E v \in Answers : ClientRspInForward(t, v) \/ ClientRspInTemporary(t, v))
       /\ SF_vars(\E v \in Answers : ClientRspInTerminated(t, v))

FairSpec == Spec /\ Fairness

(* Over a network that loses, duplicates and reorders, repetition of the   *)
(* REQ (TS_FORWARD) and of the RSP (TS_TERMINATED after TS_TEMPORARY) gets *)
(* an answer to every request that needs one, unless a living time ends.   *)
EventuallyAnswered ==
  \A t \in Trans \ OneWay :
    (t \in started) ~> (outcome[t] \in Answers \/ t \in cGone \/ sGone[t] > 0)

(* The responder does not repeat its RSP for ever: the requester           *)
(* acknowledges repeated RSPs even after it has ended (TSC_REFUSE), unless *)
(* it has forgotten the transaction.                                       *)
ResendingStops ==
  \A t \in Trans : (sTimer[t] # NoKey) ~> (sTimer[t] = NoKey \/ t \in cGone)

----------------------------------------------------------------------------
(* The transaction layer implements RequestReply. *)
RR == INSTANCE RequestReply
        WITH asked <- started, executed <- delivered, forgotten <- sGone, answers <- given

(* Every step of the two state machines, the timers and the network is a   *)
(* step of RequestReply or leaves its variables alone (transstate.C).      *)
ImplementsRequestReply == RR!Spec
=============================================================================
