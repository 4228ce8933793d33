----------------------------- MODULE MqttSession -----------------------------
(***************************************************************************)
(* The MQTT protocol stack (facility/psamqtt-wangpan with the state        *)
(* machines and tasks of test/psamqtt): clients, each a task with one TCP  *)
(* link and an application behind it, and a server task with one link per  *)
(* client, the subscriptions, and an application that makes the            *)
(* acknowledgements.                                                       *)
(*                                                                         *)
(* A link's queue wantsToSend is emptied one message at a time, when the   *)
(* socket is writable; the state machine sees a message when it leaves the *)
(* queue.  A stream carries whole packets in order.  A read takes what     *)
(* there is: packets it gets whole are handled one after the other, and a  *)
(* packet of which it gets a part is lost, because msgParse refuses both   *)
(* parts.  Every client connects once, so a client stands for its link.    *)
(***************************************************************************)
EXTENDS Integers, Sequences

CONSTANTS Clients,
          Topics,
          Requests,    \* of each client, what its application may ask for
          MaxAsk,      \* bound: of each client, how often it asks
          MaxResend,   \* bound: of each client, how often its resend timer expires
          MaxIdle,     \* bound: of each client, how often its keepalive timer expires
          MaxSplit,    \* bound: how many packets a read gets in parts
          NullMsg      \* the empty shared_ptr

(* Messages and packets.  The id is the number the application gives
   (msgId of a subscription, cnt of a publication). *)
ReqNames == {"CONNECT", "PUBLISH", "SUBSCRIBE", "UNSUBSCRIBE", "DISCONNECT"}
AckNames == {"CONNACK", "SUBACK", "UNSUBACK"}
Messages == [name : ReqNames \cup AckNames, topics : SUBSET Topics, id : Nat, from : Clients]

ASSUME MqttAssumption ==
  /\ NullMsg \notin Messages
  /\ MaxAsk \in [Clients -> Nat] /\ MaxResend \in [Clients -> Nat]
  /\ MaxIdle \in [Clients -> Nat] /\ MaxSplit \in Nat
  /\ \A c \in Clients : \A r \in Requests[c] :
       r.name \in ReqNames \ {"CONNECT"} /\ r.topics \subseteq Topics

VARIABLES client,    \* of each client, its link and state machine (see ClientInit)
          link,      \* of each client, the server's link and state machine
          up,        \* clients whose connection is established
          toServer,  \* of each client, packets on their way to the server
          toClient,  \* of each client, packets on their way to it
          subDict,   \* of each topic, the links subscribed to it
          toApp,     \* messages the server task has sent to its application
          fromApp,   \* acknowledgements the application has sent to the server task
          asked,     \* of each client, how many messages its application has sent
          got,       \* of each client, what its application has received
          resent, idle, split,
          crashed    \* a null pointer was followed

serverVars == <<link, subDict, toApp>>
boundVars == <<resent, idle, split>>
vars == <<client, serverVars, up, toServer, toClient, fromApp, asked, got, boundVars, crashed>>

Waits == {"WAIT_CONACK", "WAIT_SUBACK", "WAIT_UNSUBACK"}
ServerWaits == {"RECV_CON", "RECV_SUB", "RECV_UNSUB"}

Msg(n, t, i, c) == [name |-> n, topics |-> t, id |-> i, from |-> c]
Connect(c) == Msg("CONNECT", {}, 0, c)

-----------------------------------------------------------------------------
(* MqttClientStateMachine.  Of the timers a link has set only the two whose
   keys it remembers are kept, as running or not: a keepalive timer whose key
   was overwritten expires without effect (the last branch of onTimeOut). *)

WaitOf(n) ==
  CASE n = "CONNECT" -> "WAIT_CONACK"
    [] n = "SUBSCRIBE" -> "WAIT_SUBACK"
    [] n = "UNSUBSCRIBE" -> "WAIT_UNSUBACK"

MaySend(s, m) ==
  CASE m.name = "CONNECT" -> s.curState = "INIT"
    [] m.name = "DISCONNECT" -> s.curState # "INIT"
    [] OTHER -> s.curState = "CONNECTED"

(* Slip: only a CONNECT is timed. *)
OnSendUntimed(s, m) ==
  LET kept == [s EXCEPT !.msg = m, !.preState = s.curState]
  IN CASE m.name = "CONNECT" -> [kept EXCEPT !.curState = "WAIT_CONACK", !.resendTimer = TRUE]
       [] m.name = "PUBLISH" -> [kept EXCEPT !.keepaliveTimer = TRUE]
       [] m.name = "DISCONNECT" -> [kept EXCEPT !.curState = "END"]
       [] OTHER -> [kept EXCEPT !.curState = WaitOf(m.name), !.keepaliveTimer = TRUE]

(* onSend, a message it forwards. *)
OnSend(s, m) ==
  LET kept == [s EXCEPT !.msg = m, !.preState = s.curState]
      waiting == [kept EXCEPT !.curState = WaitOf(m.name), !.resendTimer = TRUE]
  IN CASE m.name = "CONNECT" -> waiting
       [] m.name = "PUBLISH" -> [kept EXCEPT !.keepaliveTimer = TRUE]
       [] m.name = "DISCONNECT" -> [kept EXCEPT !.curState = "END"]
       [] OTHER -> [waiting EXCEPT !.keepaliveTimer = TRUE]

MayRecv(s, m) ==
  CASE m.name = "PUBLISH" -> TRUE
    [] m.name = "CONNACK" -> s.curState = "WAIT_CONACK"
    [] m.name = "SUBACK" -> s.curState = "WAIT_SUBACK"
    [] m.name = "UNSUBACK" -> s.curState = "WAIT_UNSUBACK"

(* Slip: the resend timer is not deleted. *)
OnRecvKeepsTimer(s, m) ==
  IF m.name = "PUBLISH" THEN s
  ELSE [s EXCEPT !.preState = s.curState, !.curState = "CONNECTED", !.keepaliveTimer = TRUE]

(* onRecv, a message it forwards. *)
OnRecv(s, m) ==
  IF m.name = "PUBLISH" THEN s
  ELSE [s EXCEPT !.preState = s.curState, !.curState = "CONNECTED",
                 !.resendTimer = FALSE, !.keepaliveTimer = TRUE]

(* onTimeOut of the state machine and of the link: the message to be repeated
   goes to the end of the queue.  For the keepalive timer there is none, and
   what goes to the queue is null.  The key of the timer, which is deleted, stays
   behind; it names no timer any more. *)
OnResendTimeOut(s) ==
  [s EXCEPT !.curState = s.preState, !.resendTimer = FALSE, !.wantsToSend = Append(@, s.msg)]

OnKeepaliveTimeOut(s) ==
  [s EXCEPT !.keepaliveTimer = FALSE, !.wantsToSend = Append(@, NullMsg)]

-----------------------------------------------------------------------------
(* MqttServerStateMachine. *)

(* Slip: a repeated SUBSCRIBE is taken while the first is answered. *)
ServerMayRecvAgain(st, m) ==
  CASE m.name = "CONNECT" -> st = "INIT"
    [] m.name = "DISCONNECT" -> TRUE
    [] m.name = "SUBSCRIBE" -> st \in {"CONNECTED", "RECV_SUB"}
    [] OTHER -> st = "CONNECTED"

ServerMayRecv(st, m) ==
  CASE m.name = "CONNECT" -> st = "INIT"
    [] m.name = "DISCONNECT" -> TRUE
    [] OTHER -> st = "CONNECTED"

ServerOnRecv(st, m) ==
  CASE m.name = "CONNECT" -> "RECV_CON"
    [] m.name = "SUBSCRIBE" -> "RECV_SUB"
    [] m.name = "UNSUBSCRIBE" -> "RECV_UNSUB"
    [] m.name = "DISCONNECT" -> "END"
    [] m.name = "PUBLISH" -> st

ServerMaySend(st, m) ==
  CASE m.name = "PUBLISH" -> TRUE
    [] m.name = "CONNACK" -> st = "RECV_CON"
    [] m.name = "SUBACK" -> st = "RECV_SUB"
    [] m.name = "UNSUBACK" -> st = "RECV_UNSUB"

(* Slip: CONNACK leaves the state as it is. *)
ServerOnSendStays(st, m) == IF m.name \in {"PUBLISH", "CONNACK"} THEN st ELSE "CONNECTED"

ServerOnSend(st, m) == IF m.name = "PUBLISH" THEN st ELSE "CONNECTED"

-----------------------------------------------------------------------------
(* A client's task. *)

(* onInit queues a CONNECT before the timer for the connection expires. *)
ClientInit(c) ==
  [curState |-> "INIT", preState |-> "INIT", msg |-> NullMsg, resendTimer |-> FALSE,
   keepaliveTimer |-> FALSE, wantsToSend |-> <<Connect(c)>>]

(* connServerTimer: init connects. *)
OpenLink(c) ==
  /\ c \notin up
  /\ up' = up \cup {c}
  /\ UNCHANGED <<client, serverVars, toServer, toClient, fromApp, asked, got, boundVars, crashed>>

(* The application asks, and procMsg queues it (wantToSend). *)
Ask(c, r) ==
  /\ asked[c] < MaxAsk[c]
  /\ asked' = [asked EXCEPT ![c] = @ + 1]
  /\ client' = [client EXCEPT ![c].wantsToSend = Append(@, Msg(r.name, r.topics, asked[c] + 1, c))]
  /\ UNCHANGED <<serverVars, up, toServer, toClient, fromApp, got, boundVars, crashed>>

(* processSend: a null message is followed by onSend. *)
ClientSend(c) ==
  /\ c \in up /\ client[c].wantsToSend # <<>>
  /\ LET m == Head(client[c].wantsToSend)
         s == [client[c] EXCEPT !.wantsToSend = Tail(@)]
     IN \/ /\ m = NullMsg
           /\ crashed' = TRUE
           /\ UNCHANGED <<client, toServer>>
        \/ /\ m # NullMsg /\ MaySend(s, m)
           /\ client' = [client EXCEPT ![c] = OnSend(s, m)]
           /\ toServer' = [toServer EXCEPT ![c] = Append(@, m)]
           /\ UNCHANGED crashed
        \/ /\ m # NullMsg /\ ~MaySend(s, m)
           /\ client' = [client EXCEPT ![c] = s]
           /\ UNCHANGED <<toServer, crashed>>
  /\ UNCHANGED <<serverVars, up, toClient, fromApp, asked, got, boundVars>>

(* processRecv of a whole packet, and protocolLogic. *)
ClientRecv(c) ==
  /\ toClient[c] # <<>>
  /\ LET m == Head(toClient[c])
     IN IF MayRecv(client[c], m)
        THEN /\ client' = [client EXCEPT ![c] = OnRecv(@, m)]
             /\ got' = [got EXCEPT ![c] = Append(@, m)]
        ELSE UNCHANGED <<client, got>>
  /\ toClient' = [toClient EXCEPT ![c] = Tail(@)]
  /\ UNCHANGED <<serverVars, up, toServer, fromApp, asked, boundVars, crashed>>

(* A timer expires; one that was deleted does not (see TaskContainer). *)
ResendTimeOut(c) ==
  /\ client[c].resendTimer /\ resent[c] < MaxResend[c]
  /\ client' = [client EXCEPT ![c] = OnResendTimeOut(@)]
  /\ resent' = [resent EXCEPT ![c] = @ + 1]
  /\ UNCHANGED <<serverVars, up, toServer, toClient, fromApp, asked, got, idle, split, crashed>>

KeepaliveTimeOut(c) ==
  /\ client[c].keepaliveTimer /\ idle[c] < MaxIdle[c]
  /\ client' = [client EXCEPT ![c] = OnKeepaliveTimeOut(@)]
  /\ idle' = [idle EXCEPT ![c] = @ + 1]
  /\ UNCHANGED <<serverVars, up, toServer, toClient, fromApp, asked, got, resent, split, crashed>>

-----------------------------------------------------------------------------
(* The server's task and its application. *)

(* procFdSet: a new connection. *)
Accept(c) ==
  /\ c \in up /\ link[c].curState = "NONE"
  /\ link' = [link EXCEPT ![c].curState = "INIT"]
  /\ UNCHANGED <<client, subDict, toApp, up, toServer, toClient, fromApp, asked, got, boundVars, crashed>>

Subscribers(m) == UNION {subDict[t] : t \in m.topics}

(* procSub and procUnsub. *)
NewSubDict(c, m) ==
  [t \in Topics |->
     IF t \notin m.topics THEN subDict[t]
     ELSE CASE m.name = "SUBSCRIBE" -> subDict[t] \cup {c}
            [] m.name = "UNSUBSCRIBE" -> subDict[t] \ {c}
            [] OTHER -> subDict[t]]

(* processRecv of a whole packet, and protocolLogic: a publication goes to the
   queue of every subscribed link, and whatever is not refused to the
   application. *)
ServerRecv(c) ==
  /\ link[c].curState # "NONE" /\ toServer[c] # <<>>
  /\ LET m == Head(toServer[c])
         st == link[c].curState
         receivers == IF m.name = "PUBLISH" THEN Subscribers(m) ELSE {}
     IN IF ServerMayRecv(st, m)
        THEN /\ link' = [d \in Clients |->
                  [curState |-> IF d = c THEN ServerOnRecv(st, m) ELSE link[d].curState,
                   wantsToSend |-> IF d \in receivers THEN Append(link[d].wantsToSend, m)
                                                      ELSE link[d].wantsToSend]]
             /\ subDict' = NewSubDict(c, m)
             /\ toApp' = Append(toApp, [to |-> c, msg |-> m])
        ELSE UNCHANGED serverVars
  /\ toServer' = [toServer EXCEPT ![c] = Tail(@)]
  /\ UNCHANGED <<client, up, toClient, fromApp, asked, got, boundVars, crashed>>

(* processSend. *)
ServerSend(c) ==
  /\ link[c].wantsToSend # <<>>
  /\ LET m == Head(link[c].wantsToSend)
         st == link[c].curState
         forward == ServerMaySend(st, m)
     IN /\ link' = [link EXCEPT ![c] =
             [curState |-> IF forward THEN ServerOnSend(st, m) ELSE st,
              wantsToSend |-> Tail(@.wantsToSend)]]
        /\ toClient' = IF forward THEN [toClient EXCEPT ![c] = Append(@, m)] ELSE toClient
  /\ UNCHANGED <<client, subDict, toApp, up, toServer, fromApp, asked, got, boundVars, crashed>>

AckOf(n) ==
  CASE n = "CONNECT" -> "CONNACK"
    [] n = "SUBSCRIBE" -> "SUBACK"
    [] n = "UNSUBSCRIBE" -> "UNSUBACK"

(* ServerSelfTask::procMsg: publications and DISCONNECT are not answered. *)
ServerApp ==
  /\ toApp # <<>>
  /\ LET h == Head(toApp)
     IN fromApp' = IF h.msg.name \in {"PUBLISH", "DISCONNECT"} THEN fromApp
                   ELSE Append(fromApp, [to |-> h.to, msg |-> Msg(AckOf(h.msg.name), {}, h.msg.id, h.to)])
  /\ toApp' = Tail(toApp)
  /\ UNCHANGED <<client, link, subDict, up, toServer, toClient, asked, got, boundVars, crashed>>

(* MqttServerTask::procMsg, CMqttServerTcp::procMsg. *)
ServerProcMsg ==
  /\ fromApp # <<>>
  /\ link' = [link EXCEPT ![Head(fromApp).to].wantsToSend = Append(@, Head(fromApp).msg)]
  /\ fromApp' = Tail(fromApp)
  /\ UNCHANGED <<client, subDict, toApp, up, toServer, toClient, asked, got, boundVars, crashed>>

-----------------------------------------------------------------------------
(* msgParse refuses both parts of a packet that two reads share. *)
Split(c) ==
  /\ split < MaxSplit
  /\ split' = split + 1
  /\ \/ /\ toServer[c] # <<>> /\ link[c].curState # "NONE"
        /\ toServer' = [toServer EXCEPT ![c] = Tail(@)]
        /\ UNCHANGED toClient
     \/ /\ toClient[c] # <<>>
        /\ toClient' = [toClient EXCEPT ![c] = Tail(@)]
        /\ UNCHANGED toServer
  /\ UNCHANGED <<client, serverVars, up, fromApp, asked, got, resent, idle, crashed>>

Init ==
  /\ client = [c \in Clients |-> ClientInit(c)]
  /\ link = [c \in Clients |-> [curState |-> "NONE", wantsToSend |-> <<>>]]
  /\ up = {}
  /\ toServer = [c \in Clients |-> <<>>] /\ toClient = [c \in Clients |-> <<>>]
  /\ subDict = [t \in Topics |-> {}]
  /\ toApp = <<>> /\ fromApp = <<>>
  /\ asked = [c \in Clients |-> 0] /\ got = [c \in Clients |-> <<>>]
  /\ resent = [c \in Clients |-> 0] /\ idle = [c \in Clients |-> 0] /\ split = 0
  /\ crashed = FALSE

ClientStep(c) ==
  \/ OpenLink(c)
  \/ \E r \in Requests[c] : Ask(c, r)
  \/ ClientSend(c)
  \/ ClientRecv(c)
  \/ ResendTimeOut(c)
  \/ KeepaliveTimeOut(c)

ServerStep(c) == Accept(c) \/ ServerRecv(c) \/ ServerSend(c)

Next ==
  /\ ~crashed
  /\ \/ \E c \in Clients : ClientStep(c) \/ ServerStep(c) \/ Split(c)
     \/ ServerApp
     \/ ServerProcMsg

Spec == Init /\ [][Next]_vars

-----------------------------------------------------------------------------
(* Properties *)

IsAck(m) == m.name \in AckNames
WantsAck(m) == m.name \in {"CONNECT", "SUBSCRIBE", "UNSUBSCRIBE"}

(* The state in which a link may send an acknowledgement. *)
RecvOf(n) ==
  CASE n = "CONNACK" -> "RECV_CON"
    [] n = "SUBACK" -> "RECV_SUB"
    [] n = "UNSUBACK" -> "RECV_UNSUB"

(* Where an answer to c is in the making: a request at the application, its
   answer on the way back, its answer in the link's queue. *)
AtApp(c) == {i \in DOMAIN toApp : toApp[i].to = c /\ WantsAck(toApp[i].msg)}
OnWayBack(c) == {i \in DOMAIN fromApp : fromApp[i].to = c}
InQueue(c) == {i \in DOMAIN link[c].wantsToSend : IsAck(link[c].wantsToSend[i])}

AtMostOneIn(A, B, Q) ==
  /\ \A S \in {A, B, Q} : \A i, j \in S : i = j
  /\ A = {} \/ B = {}
  /\ A = {} \/ Q = {}
  /\ B = {} \/ Q = {}

OwesOne(c) ==
  LET st == link[c].curState
  IN /\ AtMostOneIn(AtApp(c), OnWayBack(c), InQueue(c))
     /\ st # "END" =>
          /\ st \in ServerWaits <=> ~(AtApp(c) = {} /\ OnWayBack(c) = {} /\ InQueue(c) = {})
          /\ \A i \in AtApp(c) : st = RecvOf(AckOf(toApp[i].msg.name))
          /\ \A i \in OnWayBack(c) : st = RecvOf(fromApp[i].msg.name)
          /\ \A i \in InQueue(c) : st = RecvOf(link[c].wantsToSend[i].name)

(* A link of the server that waits for its application owes the client exactly
   one answer, of the kind it waits for, and one that does not wait owes none:
   through three queues and two tasks no answer is doubled or lost, and onSend
   refuses one only if the client has disconnected. *)
OneAnswerOwed == \A c \in Clients : OwesOne(c)

(* A client that believes itself connected is connected for the server too:
   a CONNECT that was repeated or an acknowledgement that comes late does not
   bring a client there before the server. *)
SessionAgreement ==
  \A c \in Clients :
    client[c].curState \in {"CONNECTED", "WAIT_SUBACK", "WAIT_UNSUBACK"} =>
      link[c].curState \in {"CONNECTED", "RECV_SUB", "RECV_UNSUB", "END"}

(* A publication reaches a subscriber at most once and after the earlier ones
   of its publisher, although the state machine keeps a publication as the
   message to be repeated: no resend timer runs when one is sent. *)
PublishedOnceInOrder ==
  \A c \in Clients : \A i, j \in DOMAIN got[c] :
    i < j /\ got[c][i].name = "PUBLISH" /\ got[c][j].name = "PUBLISH" /\ got[c][i].from = got[c][j].from
      => got[c][i].id < got[c][j].id

(* A client that waits for an acknowledgement has a running resend timer,
   unless that timer has brought it back from END, which it had reached
   without deleting it: then its DISCONNECT is in the queue again. *)
WaitingIsTimed ==
  \A c \in Clients :
    client[c].curState \in Waits =>
      \/ client[c].resendTimer
      \/ \E i \in DOMAIN client[c].wantsToSend :
           client[c].wantsToSend[i] # NullMsg /\ client[c].wantsToSend[i].name = "DISCONNECT"

=============================================================================
