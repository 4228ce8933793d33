-------------------------- MODULE MqttSessionProof --------------------------
(***************************************************************************)
(* The safety properties of MqttSession, for any clients, topics and       *)
(* requests, any number of repetitions and of packets lost in reading.     *)
(***************************************************************************)
EXTENDS MqttSession, TLAPS

-----------------------------------------------------------------------------
(* The inductive invariant *)

Requested == {m \in Messages : m.name \in ReqNames}
Acks == {m \in Messages : m.name \in AckNames}
Downs == {m \in Messages : m.name \in AckNames \cup {"PUBLISH"}}
ClientStates == {"INIT", "CONNECTED", "END"} \cup Waits
LinkStates == {"NONE", "INIT", "CONNECTED", "END"} \cup ServerWaits

ClientLinks ==
  [curState : ClientStates, preState : ClientStates, msg : Requested \cup {NullMsg},
   resendTimer : BOOLEAN, keepaliveTimer : BOOLEAN, wantsToSend : Seq(Requested \cup {NullMsg})]
ServerLinks == [curState : LinkStates, wantsToSend : Seq(Downs)]

(* What the variables hold: only the server makes acknowledgements, and a
   null pointer can be in a client's queue and nowhere else. *)
TypeOK ==
  /\ client \in [Clients -> ClientLinks] /\ link \in [Clients -> ServerLinks]
  /\ up \subseteq Clients /\ crashed \in BOOLEAN
  /\ toServer \in [Clients -> Seq(Requested)]
  /\ toClient \in [Clients -> Seq(Downs)] /\ got \in [Clients -> Seq(Downs)]
  /\ subDict \in [Topics -> SUBSET Clients]
  /\ toApp \in Seq([to : Clients, msg : Requested]) /\ fromApp \in Seq([to : Clients, msg : Acks])
  /\ asked \in [Clients -> Nat] /\ resent \in [Clients -> Nat] /\ idle \in [Clients -> Nat]
  /\ split \in Nat

(* The resend timer runs only while there is something to repeat: not when
   connected, never for a publication, and where it would go back to waiting
   it repeats a DISCONNECT. *)
TimerInv ==
  \A c \in Clients :
    LET s == client[c]
    IN /\ s.curState = "CONNECTED" => ~s.resendTimer
       /\ s.resendTimer => /\ s.msg # NullMsg /\ s.msg.name # "PUBLISH"
                           /\ s.preState \in Waits => s.msg.name = "DISCONNECT"

(* Whatever makes a client believe itself connected, or once more, implies
   that the server's link has got beyond CONNACK. *)
Connected == {"CONNECTED", "WAIT_SUBACK", "WAIT_UNSUBACK"}
Beyond == {"CONNECTED", "RECV_SUB", "RECV_UNSUB", "END"}

AgreementInv ==
  \A c \in Clients :
    \/ client[c].curState \in Connected
    \/ client[c].preState \in Connected
    \/ \E i \in DOMAIN toClient[c] : toClient[c][i].name = "CONNACK"
    => link[c].curState \in Beyond

(* A client's messages bear its name. *)
SenderInv ==
  \A c \in Clients :
    /\ \A i \in DOMAIN toServer[c] : toServer[c][i].from = c
    /\ \A i \in DOMAIN client[c].wantsToSend :
         client[c].wantsToSend[i] # NullMsg => client[c].wantsToSend[i].from = c
    /\ client[c].msg # NullMsg => client[c].msg.from = c

(* The way of a publication from s to r, the end of it first. *)
Stages == 1..5
Way(s, r) ==
  [k \in Stages |-> CASE k = 1 -> got[r]
                      [] k = 2 -> toClient[r]
                      [] k = 3 -> link[r].wantsToSend
                      [] k = 4 -> toServer[s]
                      [] k = 5 -> client[s].wantsToSend]

Pub(s, m) == m # NullMsg /\ m.name = "PUBLISH" /\ m.from = s

(* The publications of s on a way are in order, through all its queues, and
   n is the last number that s has given. *)
Ordered(s, w) ==
  \A a, b \in Stages : \A i \in DOMAIN w[a], j \in DOMAIN w[b] :
    (a < b \/ (a = b /\ i < j)) /\ Pub(s, w[a][i]) /\ Pub(s, w[b][j]) => w[a][i].id < w[b][j].id

UpTo(s, n, w) ==
  \A a \in Stages : \A i \in DOMAIN w[a] : Pub(s, w[a][i]) => w[a][i].id <= n

WayInv == \A s, r \in Clients : Ordered(s, Way(s, r)) /\ UpTo(s, asked[s], Way(s, r))

IInv ==
  TypeOK /\ OneAnswerOwed /\ TimerInv /\ WaitingIsTimed /\ AgreementInv /\ SenderInv /\ WayInv
-----------------------------------------------------------------------------
(* The state machines and sequences *)

(* What onSend makes of a link, by the kind of message (statemachine.C 16). *)
LEMMA OnSendEffect ==
  ASSUME NEW s \in ClientLinks, NEW m \in Requested
  PROVE  /\ OnSend(s, m) \in ClientLinks
         /\ OnSend(s, m).msg = m /\ OnSend(s, m).preState = s.curState
         /\ OnSend(s, m).wantsToSend = s.wantsToSend
         /\ m.name = "CONNECT" => OnSend(s, m).curState = "WAIT_CONACK" /\ OnSend(s, m).resendTimer
         /\ m.name = "SUBSCRIBE" => OnSend(s, m).curState = "WAIT_SUBACK" /\ OnSend(s, m).resendTimer
         /\ m.name = "UNSUBSCRIBE" => OnSend(s, m).curState = "WAIT_UNSUBACK" /\ OnSend(s, m).resendTimer
         /\ m.name = "PUBLISH" => OnSend(s, m).curState = s.curState /\ OnSend(s, m).resendTimer = s.resendTimer
         /\ m.name = "DISCONNECT" => OnSend(s, m).curState = "END" /\ OnSend(s, m).resendTimer = s.resendTimer
<1> USE DEF ClientLinks, OnSend, WaitOf, ClientStates, Waits
<1>1. CASE m.name = "CONNECT"  BY <1>1, Zenon
<1>2. CASE m.name = "SUBSCRIBE"  BY <1>2, Zenon
<1>3. CASE m.name = "UNSUBSCRIBE"  BY <1>3, Zenon
<1>4. CASE m.name = "PUBLISH"  BY <1>4, Zenon
<1>5. CASE m.name = "DISCONNECT"  BY <1>5, Zenon
<1> QED
  BY <1>1, <1>2, <1>3, <1>4, <1>5, Zenon DEF Requested, ReqNames

(* What onRecv makes of it (statemachine.C 119). *)
LEMMA OnRecvEffect ==
  ASSUME NEW s \in ClientLinks, NEW m
  PROVE  /\ OnRecv(s, m) \in ClientLinks
         /\ OnRecv(s, m).msg = s.msg /\ OnRecv(s, m).wantsToSend = s.wantsToSend
         /\ m.name = "PUBLISH" => OnRecv(s, m) = s
         /\ m.name # "PUBLISH" => /\ OnRecv(s, m).preState = s.curState
                                 /\ OnRecv(s, m).curState = "CONNECTED" /\ ~OnRecv(s, m).resendTimer
BY Zenon DEF ClientLinks, OnRecv, ClientStates, Waits

(* A sequence with one more element, and without its first. *)
LEMMA Appended ==
  ASSUME NEW S, NEW q \in Seq(S), NEW x \in S
  PROVE  /\ Append(q, x) \in Seq(S) /\ DOMAIN Append(q, x) = 1..Len(q) + 1 /\ DOMAIN q = 1..Len(q)
         /\ Len(q) \in Nat
         /\ \A i \in DOMAIN q : Append(q, x)[i] = q[i]
         /\ Append(q, x)[Len(q) + 1] = x
OBVIOUS

LEMMA Shortened ==
  ASSUME NEW S, NEW q \in Seq(S), q # <<>>
  PROVE  /\ Tail(q) \in Seq(S) /\ Head(q) \in S /\ Head(q) = q[1]
         /\ DOMAIN q = 1..Len(q) /\ Len(q) \in Nat \ {0}
         /\ DOMAIN Tail(q) = 1..Len(q) - 1
         /\ \A i \in DOMAIN Tail(q) : Tail(q)[i] = q[i + 1] /\ i + 1 \in DOMAIN q
OBVIOUS

-----------------------------------------------------------------------------
(* Types *)

(* A link keeps its type when its queue changes. *)
LEMMA ClientQueue ==
  ASSUME NEW s \in ClientLinks, NEW q \in Seq(Requested \cup {NullMsg})
  PROVE  [s EXCEPT !.wantsToSend = q] \in ClientLinks
BY Zenon DEF ClientLinks

LEMMA ServerQueue ==
  ASSUME NEW s \in ServerLinks, NEW q \in Seq(Downs)
  PROVE  [s EXCEPT !.wantsToSend = q] \in ServerLinks
BY Zenon DEF ServerLinks

LEMMA LinkFields ==
  ASSUME TypeOK, NEW c \in Clients
  PROVE  /\ client[c] \in ClientLinks /\ client[c].wantsToSend \in Seq(Requested \cup {NullMsg})
         /\ client[c].msg \in Requested \cup {NullMsg}
         /\ client[c].curState \in ClientStates /\ client[c].preState \in ClientStates
         /\ link[c] \in ServerLinks /\ link[c].wantsToSend \in Seq(Downs)
         /\ link[c].curState \in LinkStates
         /\ toServer[c] \in Seq(Requested) /\ toClient[c] \in Seq(Downs) /\ got[c] \in Seq(Downs)
BY Zenon DEF TypeOK, ClientLinks, ServerLinks

LEMMA InitType == Init => TypeOK
<1> SUFFICES ASSUME Init PROVE TypeOK
  BY Zenon
<1>1. ASSUME NEW c \in Clients PROVE ClientInit(c) \in ClientLinks
  <2>1. Connect(c) \in Requested
    BY Zenon DEF Connect, Msg, Requested, Messages, ReqNames
  <2> QED
    BY <2>1 DEF ClientInit, ClientLinks, ClientStates
<1>2. [curState |-> "NONE", wantsToSend |-> <<>>] \in ServerLinks
  BY DEF ServerLinks, LinkStates
<1>3. client \in [Clients -> ClientLinks] /\ link \in [Clients -> ServerLinks]
  BY <1>1, <1>2, Zenon DEF Init
<1>4. /\ toServer \in [Clients -> Seq(Requested)]
      /\ toClient \in [Clients -> Seq(Downs)] /\ got \in [Clients -> Seq(Downs)]
  BY DEF Init
<1>5. toApp \in Seq([to : Clients, msg : Requested]) /\ fromApp \in Seq([to : Clients, msg : Acks])
  BY DEF Init
<1> QED
  BY <1>3, <1>4, <1>5, Zenon DEF Init, TypeOK

(* A client's step keeps the types. *)
LEMMA ClientStepType ==
  ASSUME TypeOK, NEW c \in Clients, ClientStep(c)
  PROVE  TypeOK'
<1> USE DEF TypeOK, serverVars, boundVars
<1>1. CASE OpenLink(c)
  BY <1>1, Zenon DEF OpenLink
<1>2. ASSUME NEW r \in Requests[c], Ask(c, r) PROVE TypeOK'
  <2> DEFINE m == Msg(r.name, r.topics, asked[c] + 1, c)
  <2>1. m \in Requested
    <3>1. asked[c] + 1 \in Nat
      OBVIOUS
    <3> QED
      BY <3>1, MqttAssumption, Zenon DEF Msg, Requested, Messages
  <2>2. [client[c] EXCEPT !.wantsToSend = Append(@, m)] \in ClientLinks
    <3>1. Append(client[c].wantsToSend, m) \in Seq(Requested \cup {NullMsg})
      BY <2>1, LinkFields, Appended, Zenon
    <3> QED
      BY <3>1, LinkFields, ClientQueue, Zenon
  <2>3. client' \in [Clients -> ClientLinks]
    BY <1>2, <2>2, Zenon DEF Ask
  <2> QED
    BY <1>2, <2>3, SMTT(60) DEF Ask
<1>3. CASE ClientSend(c)
  <2> DEFINE m == Head(client[c].wantsToSend)
             s == [client[c] EXCEPT !.wantsToSend = Tail(@)]
  <2>1. s \in ClientLinks /\ m \in Requested \cup {NullMsg}
    <3>1. client[c].wantsToSend # <<>>
      BY <1>3, Zenon DEF ClientSend
    <3>2. Tail(client[c].wantsToSend) \in Seq(Requested \cup {NullMsg}) /\ m \in Requested \cup {NullMsg}
      BY <3>1, LinkFields, Shortened, Zenon
    <3> QED
      BY <3>2, LinkFields, ClientQueue, Zenon
  <2>2. CASE m = NullMsg
    BY <1>3, <2>2, Zenon DEF ClientSend
  <2>3. CASE m # NullMsg /\ MaySend(s, m)
    <3>1. OnSend(s, m) \in ClientLinks /\ Append(toServer[c], m) \in Seq(Requested)
      BY <2>1, <2>3, OnSendEffect
    <3>2. client' = [client EXCEPT ![c] = OnSend(s, m)] /\ toServer' = [toServer EXCEPT ![c] = Append(@, m)]
      BY <1>3, <2>3, Zenon DEF ClientSend
    <3> QED
      BY <1>3, <2>3, <3>1, <3>2, Zenon DEF ClientSend
  <2>4. CASE m # NullMsg /\ ~MaySend(s, m)
    BY <1>3, <2>1, <2>4, Zenon DEF ClientSend
  <2> QED
    BY <1>3, <2>2, <2>3, <2>4, Zenon DEF ClientSend
<1>4. CASE ClientRecv(c)
  <2> DEFINE m == Head(toClient[c])
  <2>1. m \in Downs /\ Tail(toClient[c]) \in Seq(Downs)
    BY <1>4 DEF ClientRecv
  <2>2. toClient' \in [Clients -> Seq(Downs)]
    BY <1>4, <2>1, Zenon DEF ClientRecv
  <2>3. client' \in [Clients -> ClientLinks] /\ got' \in [Clients -> Seq(Downs)]
    <3>1. OnRecv(client[c], m) \in ClientLinks /\ Append(got[c], m) \in Seq(Downs)
      BY <2>1, OnRecvEffect, LinkFields, Appended, Zenon
    <3>2. CASE MayRecv(client[c], m)
      <4>1. /\ client' = [client EXCEPT ![c] = OnRecv(client[c], m)]
            /\ got' = [got EXCEPT ![c] = Append(got[c], m)]
        BY <1>4, <3>2, Zenon DEF ClientRecv
      <4> QED
        BY <3>1, <4>1, Zenon
    <3>3. CASE ~MayRecv(client[c], m)
      BY <1>4, <3>3, Zenon DEF ClientRecv
    <3> QED
      BY <3>2, <3>3, Zenon
  <2> QED
    BY <1>4, <2>2, <2>3, Zenon DEF ClientRecv
<1>5. CASE ResendTimeOut(c)
  <2>1. OnResendTimeOut(client[c]) \in ClientLinks
    <3> DEFINE q == Append(client[c].wantsToSend, client[c].msg)
    <3>1. q \in Seq(Requested \cup {NullMsg})
      BY LinkFields, Appended, Zenon
    <3>2. [client[c] EXCEPT !.wantsToSend = q] \in ClientLinks
      BY <3>1, LinkFields, ClientQueue, Zenon
    <3>3. OnResendTimeOut(client[c])
            = [[client[c] EXCEPT !.wantsToSend = q] EXCEPT !.curState = client[c].preState, !.resendTimer = FALSE]
      BY LinkFields, Zenon DEF OnResendTimeOut, ClientLinks
    <3> HIDE DEF q
    <3> QED
      BY <3>2, <3>3, LinkFields, Zenon DEF ClientLinks
  <2> QED
    BY <1>5, <2>1, SMTT(60) DEF ResendTimeOut
<1>6. CASE KeepaliveTimeOut(c)
  <2>1. OnKeepaliveTimeOut(client[c]) \in ClientLinks
    <3> DEFINE q == Append(client[c].wantsToSend, NullMsg)
    <3>1. q \in Seq(Requested \cup {NullMsg})
      BY LinkFields, Appended, Zenon
    <3>2. [client[c] EXCEPT !.wantsToSend = q] \in ClientLinks
      BY <3>1, LinkFields, ClientQueue, Zenon
    <3>3. OnKeepaliveTimeOut(client[c])
            = [[client[c] EXCEPT !.wantsToSend = q] EXCEPT !.keepaliveTimer = FALSE]
      BY LinkFields, Zenon DEF OnKeepaliveTimeOut, ClientLinks
    <3> HIDE DEF q
    <3> QED
      BY <3>2, <3>3, Zenon DEF ClientLinks
  <2> QED
    BY <1>6, <2>1, SMTT(60) DEF KeepaliveTimeOut
<1> QED
  BY <1>1, <1>2, <1>3, <1>4, <1>5, <1>6, Zenon DEF ClientStep

(* A step of the server on a link, or of its application, keeps the types. *)
LEMMA ServerStepType ==
  ASSUME TypeOK,
         (\E c \in Clients : ServerStep(c) \/ Split(c)) \/ ServerApp \/ ServerProcMsg
  PROVE  TypeOK'
<1> USE DEF TypeOK, serverVars, boundVars
<1>1. ASSUME NEW c \in Clients, Accept(c) PROVE TypeOK'
  BY <1>1, ZenonT(60) DEF Accept, ServerLinks, LinkStates
<1>2. ASSUME NEW c \in Clients, ServerRecv(c) PROVE TypeOK'
  <2> DEFINE m == Head(toServer[c])
             st == link[c].curState
  <2>1. m \in Requested /\ toServer' \in [Clients -> Seq(Requested)]
    BY <1>2, SMTT(60) DEF ServerRecv
  <2>2. CASE ServerMayRecv(st, m)
    <3> DEFINE receivers == IF m.name = "PUBLISH" THEN Subscribers(m) ELSE {}
               after(d) == [curState |-> IF d = c THEN ServerOnRecv(st, m) ELSE link[d].curState,
                            wantsToSend |-> IF d \in receivers THEN Append(link[d].wantsToSend, m)
                                                               ELSE link[d].wantsToSend]
    <3>1. ServerOnRecv(st, m) \in LinkStates
      BY <2>1, Zenon DEF ServerOnRecv, LinkStates, ServerWaits, Requested, ReqNames, ServerLinks
    <3>2. ASSUME NEW d \in Clients PROVE after(d) \in ServerLinks
      <4>1. d \in receivers => m \in Downs
        BY <2>1, Zenon DEF Requested, Downs
      <4>2. d \in receivers => Append(link[d].wantsToSend, m) \in Seq(Downs)
        BY <4>1, LinkFields, Appended, Zenon
      <4> QED
        BY <3>1, <4>2, LinkFields, Zenon DEF ServerLinks
    <3>3. link' = [d \in Clients |-> after(d)] /\ subDict' = NewSubDict(c, m)
          /\ toApp' = Append(toApp, [to |-> c, msg |-> m])
      BY <1>2, <2>2, Zenon DEF ServerRecv
    <3>4. link' \in [Clients -> ServerLinks]
      BY <3>2, <3>3, Zenon
    <3>5. subDict' \in [Topics -> SUBSET Clients]
      BY <3>3, Zenon DEF NewSubDict
    <3>6. toApp' \in Seq([to : Clients, msg : Requested])
      BY <2>1, <3>3
    <3> QED
      BY <1>2, <2>1, <3>4, <3>5, <3>6, Zenon DEF ServerRecv
  <2>3. CASE ~ServerMayRecv(st, m)
    BY <1>2, <2>1, <2>3, Zenon DEF ServerRecv
  <2> QED
    BY <2>2, <2>3, Zenon
<1>3. ASSUME NEW c \in Clients, ServerSend(c) PROVE TypeOK'
  <2> DEFINE m == Head(link[c].wantsToSend)
             st == link[c].curState
             forward == ServerMaySend(st, m)
             after == [curState |-> IF forward THEN ServerOnSend(st, m) ELSE st,
                       wantsToSend |-> Tail(link[c].wantsToSend)]
  <2>1. m \in Downs /\ Tail(link[c].wantsToSend) \in Seq(Downs) /\ st \in LinkStates
    BY <1>3 DEF ServerSend, ServerLinks
  <2>2. after \in ServerLinks
    BY <2>1, Zenon DEF ServerOnSend, ServerLinks, LinkStates
  <2>3. link' = [link EXCEPT ![c] = after]
        /\ toClient' = IF forward THEN [toClient EXCEPT ![c] = Append(@, m)] ELSE toClient
    BY <1>3, Zenon DEF ServerSend
  <2>4. toClient' \in [Clients -> Seq(Downs)]
    BY <2>1, <2>3
  <2> QED
    BY <1>3, <2>2, <2>3, <2>4, ZenonT(60) DEF ServerSend
<1>4. CASE ServerApp
  <2>1. toApp' \in Seq([to : Clients, msg : Requested])
    BY <1>4 DEF ServerApp
  <2>2. fromApp' \in Seq([to : Clients, msg : Acks])
    <3> DEFINE h == Head(toApp)
    <3>1. h \in [to : Clients, msg : Requested]
      BY <1>4, Shortened, Zenon DEF ServerApp
    <3>2. h.msg.name \notin {"PUBLISH", "DISCONNECT"} => AckOf(h.msg.name) \in AckNames
      BY <3>1, Zenon DEF AckOf, Requested, ReqNames, AckNames
    <3>3. h.msg.name \notin {"PUBLISH", "DISCONNECT"} => Msg(AckOf(h.msg.name), {}, h.msg.id, h.to) \in Acks
      BY <3>1, <3>2, Zenon DEF Msg, Acks, Requested, Messages
    <3> DEFINE x == [to |-> h.to, msg |-> Msg(AckOf(h.msg.name), {}, h.msg.id, h.to)]
    <3>4. h.msg.name \notin {"PUBLISH", "DISCONNECT"} => x \in [to : Clients, msg : Acks]
      BY <3>1, <3>3, Zenon
    <3>5. fromApp' = IF h.msg.name \in {"PUBLISH", "DISCONNECT"} THEN fromApp ELSE Append(fromApp, x)
      BY <1>4, Zenon DEF ServerApp
    <3> HIDE DEF x, h
    <3> QED
      BY <3>4, <3>5, Appended, Zenon
  <2> QED
    BY <1>4, <2>1, <2>2, Zenon DEF ServerApp
<1>5. CASE ServerProcMsg
  <2> DEFINE h == Head(fromApp)
  <2>1. h \in [to : Clients, msg : Acks] /\ fromApp' \in Seq([to : Clients, msg : Acks])
    BY <1>5, Shortened, Zenon DEF ServerProcMsg
  <2>2. h.to \in Clients /\ h.msg \in Downs
    BY <2>1, Zenon DEF Acks, Downs
  <2> DEFINE q == Append(link[h.to].wantsToSend, h.msg)
  <2>3. q \in Seq(Downs)
    BY <2>2, LinkFields, Appended, Zenon
  <2>4. [link[h.to] EXCEPT !.wantsToSend = q] \in ServerLinks
    BY <2>2, <2>3, LinkFields, ServerQueue, Zenon
  <2>5. link' = [link EXCEPT ![h.to].wantsToSend = q]
    BY <1>5, Zenon DEF ServerProcMsg
  <2> HIDE DEF q, h
  <2>6. link' \in [Clients -> ServerLinks]
    BY <2>2, <2>4, <2>5, Zenon
  <2> QED
    BY <1>5, <2>1, <2>6, Zenon DEF ServerProcMsg
<1>6. ASSUME NEW c \in Clients, Split(c) PROVE TypeOK'
  <2>1. toServer[c] # <<>> => Tail(toServer[c]) \in Seq(Requested)
    BY LinkFields, Shortened, Zenon
  <2>2. toClient[c] # <<>> => Tail(toClient[c]) \in Seq(Downs)
    BY LinkFields, Shortened, Zenon
  <2>3. /\ toServer' = toServer \/ (toServer[c] # <<>> /\ toServer' = [toServer EXCEPT ![c] = Tail(toServer[c])])
        /\ toClient' = toClient \/ (toClient[c] # <<>> /\ toClient' = [toClient EXCEPT ![c] = Tail(toClient[c])])
    BY <1>6, Zenon DEF Split
  <2>4. toServer' \in [Clients -> Seq(Requested)] /\ toClient' \in [Clients -> Seq(Downs)]
    BY <2>1, <2>2, <2>3, Zenon
  <2>5. split' \in Nat
    BY <1>6 DEF Split
  <2> QED
    BY <1>6, <2>4, <2>5, Zenon DEF Split
<1> QED
  BY <1>1, <1>2, <1>3, <1>4, <1>5, <1>6, Zenon DEF ServerStep

(* No step leaves the types. *)
LEMMA NextType == TypeOK /\ [Next]_vars => TypeOK'
<1>1. TypeOK /\ Next => TypeOK'
  BY ClientStepType, ServerStepType, Zenon DEF Next
<1>2. TypeOK /\ UNCHANGED vars => TypeOK'
  BY Zenon DEF TypeOK, vars, serverVars, boundVars
<1> QED
  BY <1>1, <1>2, Zenon

-----------------------------------------------------------------------------
(* One answer owed *)

(* The three places depend on the queues and the link of the client only. *)
LEMMA OwedFrame ==
  ASSUME NEW c \in Clients, OwesOne(c),
         AtApp(c)' = AtApp(c), OnWayBack(c)' = OnWayBack(c), InQueue(c)' = InQueue(c),
         link[c]'.curState = link[c].curState \/ link[c]'.curState = "END",
         \A i \in AtApp(c) : toApp'[i] = toApp[i],
         \A i \in OnWayBack(c) : fromApp'[i] = fromApp[i],
         \A i \in InQueue(c) : link'[c].wantsToSend[i] = link[c].wantsToSend[i]
  PROVE  OwesOne(c)'
BY DEF OwesOne, AtMostOneIn

(* The kinds of messages and the states that go with them. *)
LEMMA Kinds ==
  /\ \A m \in Requested : WantsAck(m) => AckOf(m.name) \in AckNames
  /\ \A m \in Requested : ~WantsAck(m) <=> m.name \in {"PUBLISH", "DISCONNECT"}
  /\ \A n \in AckNames : RecvOf(n) \in ServerWaits
  /\ \A m \in Downs : IsAck(m) <=> m.name # "PUBLISH"
  /\ \A m \in Downs, st \in LinkStates : IsAck(m) => (ServerMaySend(st, m) <=> st = RecvOf(m.name))
  /\ \A m \in Requested, st \in LinkStates :
       WantsAck(m) /\ ServerMayRecv(st, m) =>
         /\ st \notin ServerWaits /\ st # "END"
         /\ ServerOnRecv(st, m) = RecvOf(AckOf(m.name))
  /\ \A m \in Requested : \A st : ~WantsAck(m) => ServerOnRecv(st, m) \in {st, "END"}
<1> USE DEF WantsAck, IsAck, AckOf, RecvOf, AckNames, ReqNames, Requested, Downs, ServerWaits, LinkStates
<1>1. \A m \in Requested : WantsAck(m) => AckOf(m.name) \in AckNames
  BY Zenon
<1>2. \A m \in Requested : ~WantsAck(m) <=> m.name \in {"PUBLISH", "DISCONNECT"}
  BY Zenon
<1>3. \A n \in AckNames : RecvOf(n) \in ServerWaits
  BY Zenon
<1>4. \A m \in Downs : IsAck(m) <=> m.name # "PUBLISH"
  BY Zenon
<1>5. \A m \in Downs, st \in LinkStates : IsAck(m) => (ServerMaySend(st, m) <=> st = RecvOf(m.name))
  BY Zenon DEF ServerMaySend
<1>6. ASSUME NEW m \in Requested, NEW st \in LinkStates, WantsAck(m), ServerMayRecv(st, m)
      PROVE  st \notin ServerWaits /\ st # "END" /\ ServerOnRecv(st, m) = RecvOf(AckOf(m.name))
  BY <1>6, Zenon DEF ServerMayRecv, ServerOnRecv
<1>7. \A m \in Requested : \A st : ~WantsAck(m) => ServerOnRecv(st, m) \in {st, "END"}
  BY Zenon DEF ServerOnRecv
<1> QED
  BY <1>1, <1>2, <1>3, <1>4, <1>5, <1>6, <1>7, Zenon

(* The places hold positions of their queues. *)
LEMMA Places ==
  ASSUME TypeOK, NEW c \in Clients
  PROVE  /\ AtApp(c) \subseteq Nat \ {0} /\ OnWayBack(c) \subseteq Nat \ {0} /\ InQueue(c) \subseteq Nat \ {0}
         /\ Len(toApp) + 1 \notin AtApp(c) /\ Len(fromApp) + 1 \notin OnWayBack(c)
         /\ Len(link[c].wantsToSend) + 1 \notin InQueue(c)
<1>1. /\ DOMAIN toApp = 1..Len(toApp) /\ DOMAIN fromApp = 1..Len(fromApp)
      /\ DOMAIN link[c].wantsToSend = 1..Len(link[c].wantsToSend)
      /\ Len(toApp) \in Nat /\ Len(fromApp) \in Nat /\ Len(link[c].wantsToSend) \in Nat
  BY LinkFields, SMTT(60) DEF TypeOK
<1> QED
  BY <1>1, SMTT(60) DEF AtApp, OnWayBack, InQueue

(* What is owed stays owed when a queue loses its first element and that one
   was no part of it. *)
LEMMA OwedShift ==
  ASSUME TypeOK, NEW c \in Clients, OwesOne(c), NEW a \in 0..1, NEW b \in 0..1, NEW q \in 0..1,
         AtApp(c)' = {i - a : i \in AtApp(c)}, OnWayBack(c)' = {i - b : i \in OnWayBack(c)},
         InQueue(c)' = {i - q : i \in InQueue(c)},
         link'[c].curState = link[c].curState,
         \A i \in AtApp(c) : toApp'[i - a] = toApp[i],
         \A i \in OnWayBack(c) : fromApp'[i - b] = fromApp[i],
         \A i \in InQueue(c) : link'[c].wantsToSend[i - q] = link[c].wantsToSend[i]
  PROVE  OwesOne(c)'
<1>1. AtApp(c) \subseteq Nat /\ OnWayBack(c) \subseteq Nat /\ InQueue(c) \subseteq Nat
  BY Places, Zenon
<1>2. AtMostOneIn(AtApp(c), OnWayBack(c), InQueue(c))
  BY Zenon DEF OwesOne
<1>3. AtMostOneIn(AtApp(c)', OnWayBack(c)', InQueue(c)')
  BY <1>1, <1>2 DEF AtMostOneIn
<1>4. /\ AtApp(c)' = {} <=> AtApp(c) = {}
      /\ OnWayBack(c)' = {} <=> OnWayBack(c) = {}
      /\ InQueue(c)' = {} <=> InQueue(c) = {}
  OBVIOUS
<1>5. /\ \A j \in AtApp(c)' : \E i \in AtApp(c) : j = i - a
      /\ \A j \in OnWayBack(c)' : \E i \in OnWayBack(c) : j = i - b
      /\ \A j \in InQueue(c)' : \E i \in InQueue(c) : j = i - q
  BY Zenon
<1> QED
  BY <1>3, <1>4, <1>5 DEF OwesOne

(* A new last element of a queue. *)
LEMMA AtAppGrows ==
  ASSUME TypeOK, NEW c \in Clients, NEW x \in [to : Clients, msg : Requested], toApp' = Append(toApp, x)
  PROVE  /\ AtApp(c)' = AtApp(c) \cup (IF x.to = c /\ WantsAck(x.msg) THEN {Len(toApp) + 1} ELSE {})
         /\ \A i \in AtApp(c) : toApp'[i] = toApp[i]
         /\ toApp'[Len(toApp) + 1] = x
<1>1. toApp \in Seq([to : Clients, msg : Requested])
  BY Zenon DEF TypeOK
<1>2. /\ DOMAIN toApp' = 1..Len(toApp) + 1 /\ DOMAIN toApp = 1..Len(toApp) /\ Len(toApp) \in Nat
      /\ \A i \in DOMAIN toApp : toApp'[i] = toApp[i]
      /\ toApp'[Len(toApp) + 1] = x
  BY <1>1, Appended
<1> QED
  BY <1>2 DEF AtApp

LEMMA OnWayBackGrows ==
  ASSUME TypeOK, NEW c \in Clients, NEW x \in [to : Clients, msg : Acks], fromApp' = Append(fromApp, x)
  PROVE  /\ OnWayBack(c)' = OnWayBack(c) \cup (IF x.to = c THEN {Len(fromApp) + 1} ELSE {})
         /\ \A i \in OnWayBack(c) : fromApp'[i] = fromApp[i]
         /\ fromApp'[Len(fromApp) + 1] = x
<1>1. fromApp \in Seq([to : Clients, msg : Acks])
  BY Zenon DEF TypeOK
<1>2. /\ DOMAIN fromApp' = 1..Len(fromApp) + 1 /\ DOMAIN fromApp = 1..Len(fromApp) /\ Len(fromApp) \in Nat
      /\ \A i \in DOMAIN fromApp : fromApp'[i] = fromApp[i]
      /\ fromApp'[Len(fromApp) + 1] = x
  BY <1>1, Appended
<1> QED
  BY <1>2 DEF OnWayBack

LEMMA InQueueGrows ==
  ASSUME TypeOK, NEW c \in Clients, NEW x \in Downs,
         link'[c].wantsToSend = Append(link[c].wantsToSend, x)
  PROVE  /\ InQueue(c)' = InQueue(c) \cup (IF IsAck(x) THEN {Len(link[c].wantsToSend) + 1} ELSE {})
         /\ \A i \in InQueue(c) : link'[c].wantsToSend[i] = link[c].wantsToSend[i]
         /\ link'[c].wantsToSend[Len(link[c].wantsToSend) + 1] = x
<1> DEFINE q == link[c].wantsToSend
           r == link'[c].wantsToSend
<1>1. /\ DOMAIN r = 1..Len(q) + 1 /\ DOMAIN q = 1..Len(q) /\ Len(q) \in Nat
      /\ \A i \in DOMAIN q : r[i] = q[i]
      /\ r[Len(q) + 1] = x
  BY LinkFields, Appended
<1>2. InQueue(c)' = {i \in DOMAIN r : IsAck(r[i])} /\ InQueue(c) = {i \in DOMAIN q : IsAck(q[i])}
  BY Zenon DEF InQueue, IsAck
<1> HIDE DEF q, r
<1>3. InQueue(c)' = InQueue(c) \cup (IF IsAck(x) THEN {Len(q) + 1} ELSE {})
  BY <1>1, <1>2
<1>4. \A i \in InQueue(c) : r[i] = q[i]
  BY <1>1, <1>2, Zenon
<1> QED
  BY <1>1, <1>3, <1>4, Zenon DEF q, r

(* A queue without its first element. *)
LEMMA AtAppShrinks ==
  ASSUME TypeOK, NEW c \in Clients, toApp # <<>>, toApp' = Tail(toApp)
  PROVE  /\ 1 \notin AtApp(c) => /\ AtApp(c)' = {i - 1 : i \in AtApp(c)}
                                /\ \A i \in AtApp(c) : toApp'[i - 1] = toApp[i]
         /\ 1 \in AtApp(c) /\ OwesOne(c) => AtApp(c)' = {}
<1>1. toApp \in Seq([to : Clients, msg : Requested])
  BY Zenon DEF TypeOK
<1>2. /\ DOMAIN toApp' = 1..Len(toApp) - 1 /\ DOMAIN toApp = 1..Len(toApp) /\ Len(toApp) \in Nat \ {0}
      /\ \A i \in DOMAIN toApp' : toApp'[i] = toApp[i + 1] /\ i + 1 \in DOMAIN toApp
  BY <1>1, Shortened, Zenon
<1>3. \A i : i \in AtApp(c)' <=> i \in Nat \ {0} /\ i + 1 \in AtApp(c)
  BY <1>2 DEF AtApp
<1>4. ASSUME 1 \notin AtApp(c)
      PROVE  /\ AtApp(c)' = {i - 1 : i \in AtApp(c)}
             /\ \A i \in AtApp(c) : toApp'[i - 1] = toApp[i]
  <2>1. AtApp(c) \subseteq Nat \ {0, 1}
    BY <1>4, Places, Zenon
  <2>2. AtApp(c)' = {i - 1 : i \in AtApp(c)}
    BY <1>3, <2>1
  <2>3. \A i \in AtApp(c) : i \in DOMAIN toApp
    BY Zenon DEF AtApp
  <2> QED
    BY <1>2, <2>1, <2>2, <2>3
<1>5. ASSUME 1 \in AtApp(c), OwesOne(c) PROVE AtApp(c)' = {}
  <2>1. \A i \in AtApp(c) : i = 1
    BY <1>5, Zenon DEF OwesOne, AtMostOneIn
  <2> QED
    BY <1>3, <2>1
<1> QED
  BY <1>4, <1>5, Zenon

LEMMA OnWayBackShrinks ==
  ASSUME TypeOK, NEW c \in Clients, fromApp # <<>>, fromApp' = Tail(fromApp)
  PROVE  /\ 1 \notin OnWayBack(c) => /\ OnWayBack(c)' = {i - 1 : i \in OnWayBack(c)}
                                    /\ \A i \in OnWayBack(c) : fromApp'[i - 1] = fromApp[i]
         /\ 1 \in OnWayBack(c) /\ OwesOne(c) => OnWayBack(c)' = {}
<1>1. fromApp \in Seq([to : Clients, msg : Acks])
  BY Zenon DEF TypeOK
<1>2. /\ DOMAIN fromApp' = 1..Len(fromApp) - 1 /\ DOMAIN fromApp = 1..Len(fromApp) /\ Len(fromApp) \in Nat \ {0}
      /\ \A i \in DOMAIN fromApp' : fromApp'[i] = fromApp[i + 1] /\ i + 1 \in DOMAIN fromApp
  BY <1>1, Shortened
<1>3. \A i : i \in OnWayBack(c)' <=> i \in Nat \ {0} /\ i + 1 \in OnWayBack(c)
  BY <1>2 DEF OnWayBack
<1>4. ASSUME 1 \notin OnWayBack(c)
      PROVE  /\ OnWayBack(c)' = {i - 1 : i \in OnWayBack(c)}
             /\ \A i \in OnWayBack(c) : fromApp'[i - 1] = fromApp[i]
  <2>1. OnWayBack(c) \subseteq Nat \ {0, 1}
    BY <1>4, Places, Zenon
  <2>2. OnWayBack(c)' = {i - 1 : i \in OnWayBack(c)}
    BY <1>3, <2>1
  <2>3. \A i \in OnWayBack(c) : i \in DOMAIN fromApp
    BY Zenon DEF OnWayBack
  <2> QED
    BY <1>2, <2>1, <2>2, <2>3
<1>5. ASSUME 1 \in OnWayBack(c), OwesOne(c) PROVE OnWayBack(c)' = {}
  <2>1. \A i \in OnWayBack(c) : i = 1
    BY <1>5, Zenon DEF OwesOne, AtMostOneIn
  <2> QED
    BY <1>3, <2>1
<1> QED
  BY <1>4, <1>5, Zenon

LEMMA InQueueShrinks ==
  ASSUME TypeOK, NEW c \in Clients, link[c].wantsToSend # <<>>,
         link'[c].wantsToSend = Tail(link[c].wantsToSend)
  PROVE  /\ 1 \notin InQueue(c) => /\ InQueue(c)' = {i - 1 : i \in InQueue(c)}
                                  /\ \A i \in InQueue(c) : link'[c].wantsToSend[i - 1] = link[c].wantsToSend[i]
         /\ 1 \in InQueue(c) /\ OwesOne(c) => InQueue(c)' = {}
<1> DEFINE q == link[c].wantsToSend
           r == link'[c].wantsToSend
<1>1. /\ DOMAIN r = 1..Len(q) - 1 /\ DOMAIN q = 1..Len(q) /\ Len(q) \in Nat \ {0}
      /\ \A i \in DOMAIN r : r[i] = q[i + 1] /\ i + 1 \in DOMAIN q
  BY LinkFields, Shortened
<1>2. InQueue(c)' = {i \in DOMAIN r : IsAck(r[i])} /\ InQueue(c) = {i \in DOMAIN q : IsAck(q[i])}
  BY Zenon DEF InQueue, IsAck
<1> HIDE DEF q, r
<1>3. \A i : i \in InQueue(c)' <=> i \in Nat \ {0} /\ i + 1 \in InQueue(c)
  BY <1>1, <1>2
<1>4. ASSUME 1 \notin InQueue(c)
      PROVE  InQueue(c)' = {i - 1 : i \in InQueue(c)} /\ \A i \in InQueue(c) : r[i - 1] = q[i]
  <2>1. InQueue(c) \subseteq Nat \ {0, 1}
    BY <1>4, Places, Zenon
  <2>2. InQueue(c)' = {i - 1 : i \in InQueue(c)}
    BY <1>3, <2>1
  <2> QED
    BY <1>1, <1>2, <2>1, <2>2
<1>5. ASSUME 1 \in InQueue(c), OwesOne(c) PROVE InQueue(c)' = {}
  <2>1. \A i \in InQueue(c) : i = 1
    BY <1>5, Zenon DEF OwesOne, AtMostOneIn
  <2> QED
    BY <1>3, <2>1
<1> QED
  BY <1>4, <1>5, Zenon DEF q, r

(* A queue that stays as it is. *)
LEMMA Stay ==
  ASSUME TypeOK, NEW c \in Clients
  PROVE  /\ toApp' = toApp => AtApp(c)' = AtApp(c) /\ AtApp(c)' = {i - 0 : i \in AtApp(c)}
                              /\ \A i \in AtApp(c) : toApp'[i - 0] = toApp[i]
         /\ fromApp' = fromApp => OnWayBack(c)' = OnWayBack(c) /\ OnWayBack(c)' = {i - 0 : i \in OnWayBack(c)}
                                  /\ \A i \in OnWayBack(c) : fromApp'[i - 0] = fromApp[i]
         /\ link'[c].wantsToSend = link[c].wantsToSend =>
              InQueue(c)' = InQueue(c) /\ InQueue(c)' = {i - 0 : i \in InQueue(c)}
              /\ \A i \in InQueue(c) : link'[c].wantsToSend[i - 0] = link[c].wantsToSend[i]
<1>1. toApp' = toApp => AtApp(c)' = AtApp(c)
  BY Zenon DEF AtApp
<1>2. fromApp' = fromApp => OnWayBack(c)' = OnWayBack(c)
  BY Zenon DEF OnWayBack
<1>3. link'[c].wantsToSend = link[c].wantsToSend => InQueue(c)' = InQueue(c)
  BY Zenon DEF InQueue, IsAck
<1>4. /\ \A i \in AtApp(c) : i - 0 = i
      /\ \A i \in OnWayBack(c) : i - 0 = i
      /\ \A i \in InQueue(c) : i - 0 = i
  BY Places
<1> QED
  BY <1>1, <1>2, <1>3, <1>4, Zenon

(* A request comes to the server (mqttserver.C 36). *)
LEMMA ServerRecvOwes ==
  ASSUME TypeOK, OneAnswerOwed, NEW c \in Clients, ServerRecv(c), NEW d \in Clients
  PROVE  OwesOne(d)'
<1> DEFINE m == Head(toServer[c])
           st == link[c].curState
           x == [to |-> c, msg |-> m]
<1>1. m \in Requested /\ st \in LinkStates /\ link[d].curState \in LinkStates
  <2>1. toServer[c] # <<>>
    BY Zenon DEF ServerRecv
  <2> QED
    BY <2>1, LinkFields, Shortened, Zenon
<1>2. OwesOne(d) /\ OwesOne(c)
  BY Zenon DEF OneAnswerOwed
<1>3. fromApp' = fromApp
  BY Zenon DEF ServerRecv
<1>4. OnWayBack(d)' = OnWayBack(d) /\ \A i \in OnWayBack(d) : fromApp'[i] = fromApp[i]
  BY <1>3, Stay, Zenon
<1>5. CASE ~ServerMayRecv(st, m)
  <2>1. link' = link /\ toApp' = toApp
    BY <1>5, Zenon DEF ServerRecv, serverVars
  <2>2. AtApp(d)' = AtApp(d) /\ InQueue(d)' = InQueue(d)
    BY <2>1, Stay, Zenon
  <2> QED
    BY <1>2, <1>4, <2>1, <2>2, OwedFrame, Zenon
<1>6. CASE ServerMayRecv(st, m)
  <2> DEFINE receivers == IF m.name = "PUBLISH" THEN Subscribers(m) ELSE {}
  <2>1. /\ link'[d].curState = IF d = c THEN ServerOnRecv(st, m) ELSE link[d].curState
        /\ link'[d].wantsToSend = IF d \in receivers THEN Append(link[d].wantsToSend, m)
                                                     ELSE link[d].wantsToSend
        /\ toApp' = Append(toApp, x)
    <3> DEFINE after(e) == [curState |-> IF e = c THEN ServerOnRecv(st, m) ELSE link[e].curState,
                            wantsToSend |-> IF e \in receivers THEN Append(link[e].wantsToSend, m)
                                                               ELSE link[e].wantsToSend]
    <3>1. link' = [e \in Clients |-> after(e)] /\ toApp' = Append(toApp, x)
      BY <1>6, Zenon DEF ServerRecv
    <3>2. link'[d] = after(d)
      BY <3>1, Zenon
    <3> QED
      BY <3>1, <3>2, Zenon
  <2>2. x \in [to : Clients, msg : Requested]
    BY <1>1, Zenon
  <2>3. InQueue(d)' = InQueue(d) /\ \A i \in InQueue(d) : link'[d].wantsToSend[i] = link[d].wantsToSend[i]
    <3>1. CASE d \in receivers
      <4>1. m \in Downs /\ ~IsAck(m)
        BY <1>1, <3>1, Zenon DEF Requested, Downs, IsAck, AckNames
      <4> QED
        BY <2>1, <3>1, <4>1, InQueueGrows, Zenon
    <3>2. CASE d \notin receivers
      <4>1. link'[d].wantsToSend = link[d].wantsToSend
        BY <2>1, <3>2, Zenon
      <4> QED
        BY <4>1, Stay, Zenon
    <3> QED
      BY <3>1, <3>2, Zenon
  <2>4. /\ AtApp(d)' = AtApp(d) \cup (IF x.to = d /\ WantsAck(x.msg) THEN {Len(toApp) + 1} ELSE {})
        /\ \A i \in AtApp(d) : toApp'[i] = toApp[i]
        /\ toApp'[Len(toApp) + 1] = x
    BY <2>1, <2>2, AtAppGrows, Zenon
  <2>5. CASE d = c /\ WantsAck(m)
    <3>1. st \notin ServerWaits /\ st # "END" /\ ServerOnRecv(st, m) = RecvOf(AckOf(m.name))
      BY <1>1, <1>6, <2>5, Kinds, Zenon
    <3>2. AtApp(d) = {} /\ OnWayBack(d) = {} /\ InQueue(d) = {}
      BY <1>2, <2>5, <3>1, Zenon DEF OwesOne
    <3>3. AtApp(d)' = {Len(toApp) + 1} /\ OnWayBack(d)' = {} /\ InQueue(d)' = {}
      BY <1>4, <2>3, <2>4, <2>5, <3>2, Zenon
    <3>4. link'[d].curState = RecvOf(AckOf(m.name)) /\ link'[d].curState \in ServerWaits
      BY <1>1, <2>1, <2>5, <3>1, Kinds, Zenon
    <3> QED
      BY <2>4, <3>3, <3>4 DEF OwesOne, AtMostOneIn
  <2>6. CASE ~(d = c /\ WantsAck(m))
    <3>1. AtApp(d)' = AtApp(d)
      BY <2>4, <2>6, Zenon
    <3>2. link'[d].curState = link[d].curState \/ link'[d].curState = "END"
      BY <1>1, <2>1, <2>6, Kinds, Zenon
    <3> QED
      BY <1>2, <1>4, <2>3, <2>4, <3>1, <3>2, OwedFrame, Zenon
  <2> QED
    BY <2>5, <2>6, Zenon
<1> QED
  BY <1>5, <1>6, Zenon

(* A message leaves the queue of a link (mqttserver.C 112). *)
LEMMA ServerSendOwes ==
  ASSUME TypeOK, OneAnswerOwed, NEW c \in Clients, ServerSend(c), NEW d \in Clients
  PROVE  OwesOne(d)'
<1> DEFINE m == Head(link[c].wantsToSend)
           st == link[c].curState
           forward == ServerMaySend(st, m)
<1>1. /\ link[c].wantsToSend # <<>> /\ toApp' = toApp /\ fromApp' = fromApp
      /\ link' = [link EXCEPT ![c] = [curState |-> IF forward THEN ServerOnSend(st, m) ELSE st,
                                      wantsToSend |-> Tail(link[c].wantsToSend)]]
  BY Zenon DEF ServerSend
<1>2. m \in Downs /\ st \in LinkStates /\ m = link[c].wantsToSend[1] /\ 1 \in DOMAIN link[c].wantsToSend
  BY <1>1, LinkFields, Shortened
<1>3. OwesOne(d) /\ OwesOne(c)
  BY DEF OneAnswerOwed
<1>4. CASE d # c
  <2>1. link'[d] = link[d]
    BY <1>1, <1>4, Zenon DEF TypeOK
  <2> QED
    BY <1>1, <1>3, <2>1, Stay, OwedFrame, Zenon
<1>5. CASE d = c
  <2>1. /\ link'[c].curState = IF forward THEN ServerOnSend(st, m) ELSE st
        /\ link'[c].wantsToSend = Tail(link[c].wantsToSend)
    BY <1>1, Zenon DEF TypeOK
  <2>2. 1 \in InQueue(c) <=> IsAck(m)
    BY <1>2, Zenon DEF InQueue
  <2>3. CASE IsAck(m)
    <3>1. AtApp(c) = {} /\ OnWayBack(c) = {} /\ InQueue(c)' = {}
      BY <1>1, <1>3, <2>1, <2>2, <2>3, InQueueShrinks, Zenon DEF OwesOne, AtMostOneIn
    <3>2. AtApp(c)' = {} /\ OnWayBack(c)' = {}
      BY <1>1, <3>1, Stay, Zenon
    <3>3. forward <=> st = RecvOf(m.name)
      BY <1>2, <2>3, Kinds, Zenon
    <3>4. st = "END" \/ st = RecvOf(m.name)
      BY <1>2, <1>3, <2>2, <2>3, Zenon DEF OwesOne
    <3>5. st = RecvOf(m.name) => link'[c].curState = "CONNECTED"
      BY <1>2, <2>1, <2>3, <3>3, Kinds, Zenon DEF ServerOnSend
    <3>6. link'[c].curState \notin ServerWaits \/ link'[c].curState = "END"
      BY <2>1, <3>3, <3>4, <3>5, Zenon DEF ServerWaits
    <3> QED
      BY <1>5, <3>1, <3>2, <3>6, Zenon DEF OwesOne, AtMostOneIn
  <2>4. CASE ~IsAck(m)
    <3>1. /\ InQueue(c)' = {i - 1 : i \in InQueue(c)}
          /\ \A i \in InQueue(c) : link'[c].wantsToSend[i - 1] = link[c].wantsToSend[i]
      BY <1>1, <2>1, <2>2, <2>4, InQueueShrinks, Zenon
    <3>2. link'[c].curState = st
      BY <1>2, <2>1, <2>4, Kinds, Zenon DEF ServerOnSend
    <3>3. /\ AtApp(c)' = {i - 0 : i \in AtApp(c)} /\ OnWayBack(c)' = {i - 0 : i \in OnWayBack(c)}
          /\ \A i \in AtApp(c) : toApp'[i - 0] = toApp[i]
          /\ \A i \in OnWayBack(c) : fromApp'[i - 0] = fromApp[i]
      BY <1>1, Stay, Zenon
    <3> QED
      BY <1>3, <1>5, <3>1, <3>2, <3>3, OwedShift
  <2> QED
    BY <2>3, <2>4, Zenon
<1> QED
  BY <1>4, <1>5, Zenon

(* The application answers, or does not (server_selftask.C 7). *)
LEMMA ServerAppOwes ==
  ASSUME TypeOK, OneAnswerOwed, ServerApp, NEW d \in Clients
  PROVE  OwesOne(d)'
<1> DEFINE h == Head(toApp)
           x == [to |-> h.to, msg |-> Msg(AckOf(h.msg.name), {}, h.msg.id, h.to)]
<1>1. /\ toApp # <<>> /\ toApp' = Tail(toApp) /\ link' = link
      /\ fromApp' = IF h.msg.name \in {"PUBLISH", "DISCONNECT"} THEN fromApp ELSE Append(fromApp, x)
  BY Zenon DEF ServerApp
<1>2. h \in [to : Clients, msg : Requested] /\ h = toApp[1] /\ 1 \in DOMAIN toApp
  <2> DEFINE S == [to : Clients, msg : Requested]
  <2>1. toApp \in Seq(S)
    BY Zenon DEF TypeOK
  <2> HIDE DEF S
  <2>2. Head(toApp) \in S /\ Head(toApp) = toApp[1] /\ 1 \in DOMAIN toApp
    BY <1>1, <2>1, Shortened
  <2> QED
    BY <2>2, Zenon DEF S
<1>3. WantsAck(h.msg) <=> h.msg.name \notin {"PUBLISH", "DISCONNECT"}
  BY <1>2, Kinds, Zenon
<1>4. 1 \in AtApp(d) <=> h.to = d /\ WantsAck(h.msg)
  BY <1>2, Zenon DEF AtApp
<1>5. OwesOne(d)
  BY Zenon DEF OneAnswerOwed
<1>6. /\ InQueue(d)' = InQueue(d) /\ InQueue(d)' = {i - 0 : i \in InQueue(d)}
      /\ \A i \in InQueue(d) : link'[d].wantsToSend[i - 0] = link[d].wantsToSend[i]
  BY <1>1, Stay, Zenon
<1>7. WantsAck(h.msg) => fromApp' = Append(fromApp, x) /\ x \in [to : Clients, msg : Acks]
                         /\ x.to = h.to /\ x.msg.name = AckOf(h.msg.name)
  <2>1. WantsAck(h.msg) => AckOf(h.msg.name) \in AckNames
    BY <1>2, Kinds, Zenon
  <2>2. WantsAck(h.msg) => Msg(AckOf(h.msg.name), {}, h.msg.id, h.to) \in Acks
    BY <1>2, <2>1, Zenon DEF Msg, Acks, Requested, Messages
  <2> QED
    BY <1>1, <1>2, <1>3, <2>2, Zenon DEF Msg
<1> HIDE DEF x, h
<1>8. CASE h.to = d /\ WantsAck(h.msg)
  <2>1. AtApp(d)' = {} /\ OnWayBack(d) = {} /\ InQueue(d)' = {}
    BY <1>1, <1>4, <1>5, <1>6, <1>8, AtAppShrinks, Zenon DEF OwesOne, AtMostOneIn
  <2>2. OnWayBack(d)' = {Len(fromApp) + 1} /\ fromApp'[Len(fromApp) + 1] = x
    BY <1>7, <1>8, <2>1, OnWayBackGrows, Zenon
  <2>3. link[d].curState = "END" \/ link[d].curState = RecvOf(AckOf(h.msg.name))
    BY <1>2, <1>4, <1>5, <1>8, Zenon DEF OwesOne
  <2>4. RecvOf(AckOf(h.msg.name)) \in ServerWaits
    BY <1>2, <1>8, Kinds, Zenon
  <2> QED
    BY <1>1, <1>7, <1>8, <2>1, <2>2, <2>3, <2>4 DEF OwesOne, AtMostOneIn
<1>9. CASE ~(h.to = d /\ WantsAck(h.msg))
  <2>1. AtApp(d)' = {i - 1 : i \in AtApp(d)} /\ \A i \in AtApp(d) : toApp'[i - 1] = toApp[i]
    BY <1>1, <1>4, <1>9, AtAppShrinks, Zenon
  <2>2. OnWayBack(d)' = OnWayBack(d) /\ \A i \in OnWayBack(d) : fromApp'[i] = fromApp[i]
    <3>1. CASE WantsAck(h.msg)
      <4>1. fromApp' = Append(fromApp, x) /\ x \in [to : Clients, msg : Acks] /\ x.to # d
        BY <1>7, <1>9, <3>1, Zenon
      <4> QED
        BY <4>1, OnWayBackGrows, ZenonT(60)
    <3>2. CASE ~WantsAck(h.msg)
      BY <1>1, <1>3, <3>2, Stay, Zenon
    <3> QED
      BY <3>1, <3>2, Zenon
  <2>3. OnWayBack(d)' = {i - 0 : i \in OnWayBack(d)} /\ \A i \in OnWayBack(d) : fromApp'[i - 0] = fromApp[i]
    BY <2>2, Places
  <2> QED
    BY <1>1, <1>5, <1>6, <2>1, <2>3, OwedShift, 0 \in 0..1, 1 \in 0..1, Zenon
<1> QED
  BY <1>8, <1>9, Zenon

(* The answer goes to the queue of its link (mqttserver.C 74). *)
LEMMA ServerProcMsgOwes ==
  ASSUME TypeOK, OneAnswerOwed, ServerProcMsg, NEW d \in Clients
  PROVE  OwesOne(d)'
<1> DEFINE h == Head(fromApp)
           q == Append(link[h.to].wantsToSend, h.msg)
<1>1. fromApp # <<>> /\ fromApp' = Tail(fromApp) /\ toApp' = toApp /\ link' = [link EXCEPT ![h.to].wantsToSend = q]
  BY Zenon DEF ServerProcMsg
<1>2. h \in [to : Clients, msg : Acks] /\ h = fromApp[1] /\ 1 \in DOMAIN fromApp
  <2> DEFINE S == [to : Clients, msg : Acks]
  <2>1. fromApp \in Seq(S)
    BY Zenon DEF TypeOK
  <2> HIDE DEF S
  <2>2. Head(fromApp) \in S /\ Head(fromApp) = fromApp[1] /\ 1 \in DOMAIN fromApp
    BY <1>1, <2>1, Shortened
  <2> QED
    BY <2>2 DEF S
<1>3. 1 \in OnWayBack(d) <=> h.to = d
  BY <1>2, Zenon DEF OnWayBack
<1>4. OwesOne(d)
  BY DEF OneAnswerOwed
<1>5. /\ AtApp(d)' = AtApp(d) /\ AtApp(d)' = {i - 0 : i \in AtApp(d)}
      /\ \A i \in AtApp(d) : toApp'[i - 0] = toApp[i]
  BY <1>1, Stay, Zenon
<1>6. /\ link'[d].curState = link[d].curState
      /\ link'[d].wantsToSend = IF d = h.to THEN q ELSE link[d].wantsToSend
  <2> HIDE DEF q, h
  <2> QED
    BY <1>1, LinkFields, Zenon DEF TypeOK, ServerLinks
<1>7. CASE h.to = d
  <2>1. OnWayBack(d)' = {} /\ AtApp(d)' = {} /\ InQueue(d) = {}
    BY <1>1, <1>3, <1>4, <1>5, <1>7, OnWayBackShrinks, Zenon DEF OwesOne, AtMostOneIn
  <2>2. h.msg \in Downs /\ IsAck(h.msg)
    BY <1>2, Zenon DEF Acks, Downs, IsAck
  <2>3. /\ InQueue(d)' = {Len(link[d].wantsToSend) + 1}
        /\ link'[d].wantsToSend[Len(link[d].wantsToSend) + 1] = h.msg
    BY <1>6, <1>7, <2>1, <2>2, InQueueGrows, Zenon
  <2>4. link[d].curState = "END" \/ link[d].curState = RecvOf(h.msg.name)
    BY <1>2, <1>3, <1>4, <1>7, Zenon DEF OwesOne
  <2>5. RecvOf(h.msg.name) \in ServerWaits
    BY <1>2, Kinds, Zenon DEF Acks
  <2> DEFINE k == Len(link[d].wantsToSend) + 1
             n == h.msg.name
  <2>6. /\ link'[d].curState = "END" \/ link'[d].curState = RecvOf(n)
        /\ link'[d].wantsToSend[k].name = n /\ InQueue(d)' = {k} /\ RecvOf(n) \in ServerWaits
    BY <1>6, <2>3, <2>4, <2>5, Zenon
  <2> HIDE DEF k, n
  <2> QED
    BY <2>1, <2>6 DEF OwesOne, AtMostOneIn
<1>8. CASE h.to # d
  <2>1. /\ OnWayBack(d)' = {i - 1 : i \in OnWayBack(d)}
        /\ \A i \in OnWayBack(d) : fromApp'[i - 1] = fromApp[i]
    BY <1>1, <1>3, <1>8, OnWayBackShrinks, Zenon
  <2>2. /\ InQueue(d)' = {i - 0 : i \in InQueue(d)}
        /\ \A i \in InQueue(d) : link'[d].wantsToSend[i - 0] = link[d].wantsToSend[i]
    BY <1>6, <1>8, Stay, Zenon
  <2> QED
    BY <1>4, <1>5, <1>6, <2>1, <2>2, OwedShift, 0 \in 0..1, 1 \in 0..1, Zenon
<1> QED
  BY <1>7, <1>8, Zenon

(* No step makes the server owe an answer twice, or none where it waits. *)
LEMMA NextOwes ==
  ASSUME TypeOK, OneAnswerOwed, Next, NEW d \in Clients
  PROVE  OwesOne(d)'
<1>1. OwesOne(d)
  BY DEF OneAnswerOwed
<1>2. ASSUME link' = link, toApp' = toApp, fromApp' = fromApp PROVE OwesOne(d)'
  BY <1>1, <1>2, Stay, OwedFrame, Zenon
<1>3. ASSUME NEW c \in Clients, ClientStep(c) PROVE OwesOne(d)'
  <2>1. link' = link /\ toApp' = toApp /\ fromApp' = fromApp
    BY <1>3, Zenon DEF ClientStep, OpenLink, Ask, ClientSend, ClientRecv, ResendTimeOut, KeepaliveTimeOut, serverVars
  <2> QED
    BY <1>2, <2>1, Zenon
<1>4. ASSUME NEW c \in Clients, Split(c) PROVE OwesOne(d)'
  <2>1. link' = link /\ toApp' = toApp /\ fromApp' = fromApp
    BY <1>4, Zenon DEF Split, serverVars
  <2> QED
    BY <1>2, <2>1
<1>5. ASSUME NEW c \in Clients, Accept(c) PROVE OwesOne(d)'
  <2>1. /\ toApp' = toApp /\ fromApp' = fromApp /\ link'[d].wantsToSend = link[d].wantsToSend
        /\ \/ link'[d].curState = link[d].curState
           \/ link[d].curState = "NONE" /\ link'[d].curState = "INIT"
    BY <1>5, LinkFields, Zenon DEF Accept, TypeOK, ServerLinks
  <2>2. AtApp(d)' = AtApp(d) /\ OnWayBack(d)' = OnWayBack(d) /\ InQueue(d)' = InQueue(d)
    BY <2>1, Stay, Zenon
  <2>3. CASE link'[d].curState = link[d].curState
    BY <1>1, <2>1, <2>2, <2>3, OwedFrame, Zenon
  <2>4. CASE link[d].curState = "NONE" /\ link'[d].curState = "INIT"
    <3>1. AtApp(d) = {} /\ OnWayBack(d) = {} /\ InQueue(d) = {}
      BY <1>1, <2>4, Zenon DEF OwesOne, ServerWaits
    <3> QED
      BY <2>2, <2>4, <3>1, Zenon DEF OwesOne, AtMostOneIn, ServerWaits
  <2> QED
    BY <2>1, <2>3, <2>4, Zenon
<1> QED
  BY <1>3, <1>4, <1>5, ServerRecvOwes, ServerSendOwes, ServerAppOwes, ServerProcMsgOwes, Zenon DEF Next, ServerStep

-----------------------------------------------------------------------------
(* The client's timers *)

(* What a step does to the link of a client: nothing, or one of these. *)
ClientMoves(c) ==
  LET s == client[c]
      t == [s EXCEPT !.wantsToSend = Tail(@)]
      m == Head(s.wantsToSend)
  IN \/ client'[c] = s
     \/ \E x \in Requested : x.from = c /\ client'[c] = [s EXCEPT !.wantsToSend = Append(@, x)]
     \/ /\ s.wantsToSend # <<>> /\ m # NullMsg
        /\ \/ MaySend(t, m) /\ client'[c] = OnSend(t, m)
           \/ ~MaySend(t, m) /\ client'[c] = t
     \/ \E x \in Downs : /\ toClient[c] # <<>> /\ x = Head(toClient[c])
                        /\ MayRecv(s, x) /\ client'[c] = OnRecv(s, x)
     \/ s.resendTimer /\ client'[c] = OnResendTimeOut(s)
     \/ client'[c] = OnKeepaliveTimeOut(s)

LEMMA NextMoves ==
  ASSUME TypeOK, Next, NEW d \in Clients
  PROVE  ClientMoves(d)
<1>1. client \in [Clients -> ClientLinks]
  BY Zenon DEF TypeOK
<1>2. ASSUME client' = client PROVE ClientMoves(d)
  BY <1>2, Zenon DEF ClientMoves
<1>3. ASSUME NEW c \in Clients, ClientStep(c) PROVE ClientMoves(d)
  <2>1. CASE c # d
    <3>1. \E v : client' = [client EXCEPT ![c] = v]
      BY <1>1, <1>3, Zenon DEF ClientStep, OpenLink, Ask, ClientSend, ClientRecv, ResendTimeOut, KeepaliveTimeOut
    <3>2. client'[d] = client[d]
      BY <1>1, <2>1, <3>1, Zenon
    <3> QED
      BY <3>2, Zenon DEF ClientMoves
  <2>2. CASE c = d
    <3>1. CASE OpenLink(c)
      BY <1>2, <3>1, Zenon DEF OpenLink
    <3>2. ASSUME NEW r \in Requests[c], Ask(c, r) PROVE ClientMoves(d)
      <4> DEFINE x == Msg(r.name, r.topics, asked[c] + 1, c)
      <4>1. x \in Requested /\ x.from = c
        <5>1. asked[c] + 1 \in Nat
          BY SMTT(60) DEF TypeOK
        <5> QED
          BY <5>1, MqttAssumption, Zenon DEF Msg, Requested, Messages
      <4>2. client' = [client EXCEPT ![c].wantsToSend = Append(@, x)]
        BY <3>2, Zenon DEF Ask
      <4> HIDE DEF x
      <4>3. client'[c] = [client[c] EXCEPT !.wantsToSend = Append(@, x)]
        BY <1>1, <4>2, Zenon
      <4> QED
        BY <2>2, <4>1, <4>3, Zenon DEF ClientMoves
    <3>3. CASE ClientSend(c)
      BY <1>1, <2>2, <3>3, Zenon DEF ClientSend, ClientMoves
    <3>4. CASE ClientRecv(c)
      <4>1. Head(toClient[c]) \in Downs
        BY <3>4, LinkFields, Shortened, Zenon DEF ClientRecv
      <4> QED
        BY <1>1, <2>2, <3>4, <4>1, Zenon DEF ClientRecv, ClientMoves
    <3>5. CASE ResendTimeOut(c)
      BY <1>1, <2>2, <3>5, Zenon DEF ResendTimeOut, ClientMoves
    <3>6. CASE KeepaliveTimeOut(c)
      BY <1>1, <2>2, <3>6, Zenon DEF KeepaliveTimeOut, ClientMoves
    <3> QED
      BY <1>3, <3>1, <3>2, <3>3, <3>4, <3>5, <3>6, Zenon DEF ClientStep
  <2> QED
    BY <2>1, <2>2, Zenon
<1>4. ASSUME NEW c \in Clients, ServerStep(c) \/ Split(c) PROVE ClientMoves(d)
  BY <1>2, <1>4, Zenon DEF ServerStep, Accept, ServerRecv, ServerSend, Split
<1>5. CASE ServerApp \/ ServerProcMsg
  BY <1>2, <1>5, Zenon DEF ServerApp, ServerProcMsg
<1> QED
  BY <1>3, <1>4, <1>5, Zenon DEF Next

(* Only the queue of a link changes. *)
SameButQueue(s, t) ==
  /\ t.curState = s.curState /\ t.preState = s.preState /\ t.msg = s.msg
  /\ t.resendTimer = s.resendTimer

LEMMA QueueOnly ==
  ASSUME NEW s \in ClientLinks, NEW q
  PROVE  SameButQueue(s, [s EXCEPT !.wantsToSend = q]) /\ [s EXCEPT !.wantsToSend = q].wantsToSend = q
BY Zenon DEF ClientLinks, SameButQueue

(* What an expired timer makes of a link (statemachine.C 198). *)
LEMMA TimeOutEffect ==
  ASSUME NEW s \in ClientLinks
  PROVE  /\ OnResendTimeOut(s).curState = s.preState /\ OnResendTimeOut(s).preState = s.preState
         /\ OnResendTimeOut(s).msg = s.msg /\ ~OnResendTimeOut(s).resendTimer
         /\ OnResendTimeOut(s).wantsToSend = Append(s.wantsToSend, s.msg)
         /\ SameButQueue(s, OnKeepaliveTimeOut(s))
         /\ OnKeepaliveTimeOut(s).wantsToSend = Append(s.wantsToSend, NullMsg)
BY Zenon DEF ClientLinks, OnResendTimeOut, OnKeepaliveTimeOut, SameButQueue

(* When onSend forwards what. *)
LEMMA SendGuard ==
  ASSUME NEW s, NEW m \in Requested
  PROVE  /\ MaySend(s, m) /\ m.name \in {"PUBLISH", "SUBSCRIBE", "UNSUBSCRIBE"} => s.curState = "CONNECTED"
         /\ MaySend(s, m) /\ m.name = "CONNECT" => s.curState = "INIT"
         /\ m.name = "DISCONNECT" => (MaySend(s, m) <=> s.curState # "INIT")
         /\ m.name \in {"PUBLISH", "SUBSCRIBE", "UNSUBSCRIBE", "CONNECT", "DISCONNECT"}
BY Zenon DEF MaySend, Requested, ReqNames

(* The client's link, the message at the head of its queue and the link
   without it. *)
LEMMA HeadOfQueue ==
  ASSUME TypeOK, NEW c \in Clients, client[c].wantsToSend # <<>>, Head(client[c].wantsToSend) # NullMsg
  PROVE  /\ Head(client[c].wantsToSend) \in Requested
         /\ [client[c] EXCEPT !.wantsToSend = Tail(@)] \in ClientLinks
         /\ SameButQueue(client[c], [client[c] EXCEPT !.wantsToSend = Tail(@)])
         /\ [client[c] EXCEPT !.wantsToSend = Tail(@)].wantsToSend = Tail(client[c].wantsToSend)
<1>1. client[c] \in ClientLinks /\ client[c].wantsToSend \in Seq(Requested \cup {NullMsg})
  BY LinkFields, Zenon
<1>2. /\ Tail(client[c].wantsToSend) \in Seq(Requested \cup {NullMsg})
      /\ Head(client[c].wantsToSend) \in Requested \cup {NullMsg}
  BY <1>1, Shortened, Zenon
<1> QED
  BY <1>1, <1>2, ClientQueue, QueueOnly, Zenon

(* TimerInv for one client. *)
TimerOK(s) ==
  /\ s.curState = "CONNECTED" => ~s.resendTimer
  /\ s.resendTimer => /\ s.msg # NullMsg /\ s.msg.name # "PUBLISH"
                      /\ s.preState \in Waits => s.msg.name = "DISCONNECT"

(* No step lets the resend timer run when there is nothing to repeat. *)
LEMMA NextTimer ==
  ASSUME TypeOK, TimerInv, Next, NEW d \in Clients
  PROVE  TimerOK(client'[d])
<1> DEFINE s == client[d]
           t == [s EXCEPT !.wantsToSend = Tail(@)]
           m == Head(s.wantsToSend)
<1>1. TimerOK(s) /\ s \in ClientLinks /\ NullMsg \notin Requested
  BY LinkFields, MqttAssumption, Zenon DEF TimerInv, TimerOK, Requested
<1>2. \A u : SameButQueue(s, u) => TimerOK(u)
  BY <1>1, Zenon DEF SameButQueue, TimerOK
<1>3. CASE client'[d] = s
  BY <1>1, <1>3, Zenon
<1>4. CASE \E x \in Requested : client'[d] = [s EXCEPT !.wantsToSend = Append(@, x)]
  BY <1>1, <1>2, <1>4, QueueOnly, Zenon
<1>5. CASE s.wantsToSend # <<>> /\ m # NullMsg /\ MaySend(t, m) /\ client'[d] = OnSend(t, m)
  <2>1. m \in Requested /\ t \in ClientLinks /\ SameButQueue(s, t)
    BY <1>5, HeadOfQueue, Zenon
  <2>2. TimerOK(t)
    BY <1>2, <2>1, Zenon
  <2> HIDE DEF t, m, s
  <2> QED
    BY <1>1, <1>5, <2>1, <2>2, OnSendEffect, SendGuard DEF TimerOK, Waits
<1>6. CASE s.wantsToSend # <<>> /\ m # NullMsg /\ client'[d] = t
  BY <1>2, <1>6, HeadOfQueue, Zenon
<1>7. CASE \E x \in Downs : MayRecv(s, x) /\ client'[d] = OnRecv(s, x)
  BY <1>1, <1>7, OnRecvEffect, ZenonT(60) DEF TimerOK
<1>8. CASE s.resendTimer /\ client'[d] = OnResendTimeOut(s)
  BY <1>1, <1>8, TimeOutEffect, Zenon DEF TimerOK
<1>9. CASE client'[d] = OnKeepaliveTimeOut(s)
  BY <1>1, <1>2, <1>9, TimeOutEffect, Zenon
<1> QED
  BY <1>3, <1>4, <1>5, <1>6, <1>7, <1>8, <1>9, NextMoves, Zenon DEF ClientMoves

(* WaitingIsTimed for one client. *)
Disconnects(q) == \E i \in DOMAIN q : q[i] # NullMsg /\ q[i].name = "DISCONNECT"
WaitsTimed(s) == s.curState \in Waits => s.resendTimer \/ Disconnects(s.wantsToSend)

LEMMA DisconnectsAppended ==
  ASSUME NEW q \in Seq(Requested \cup {NullMsg}), NEW x \in Requested \cup {NullMsg}
  PROVE  /\ Disconnects(q) => Disconnects(Append(q, x))
         /\ x # NullMsg /\ x.name = "DISCONNECT" => Disconnects(Append(q, x))
BY Appended DEF Disconnects

(* A client that waits is not left without a timer. *)
LEMMA NextWaits ==
  ASSUME TypeOK, TimerInv, WaitingIsTimed, Next, NEW d \in Clients
  PROVE  WaitsTimed(client'[d])
<1> DEFINE s == client[d]
           t == [s EXCEPT !.wantsToSend = Tail(@)]
           m == Head(s.wantsToSend)
<1>1. WaitsTimed(s) /\ TimerOK(s)
  BY Zenon DEF WaitingIsTimed, WaitsTimed, Disconnects, TimerInv, TimerOK
<1>2. s \in ClientLinks /\ s.wantsToSend \in Seq(Requested \cup {NullMsg}) /\ s.msg \in Requested \cup {NullMsg}
      /\ NullMsg \notin Requested
  BY LinkFields, MqttAssumption, Zenon DEF Requested
<1>3. CASE client'[d] = s
  BY <1>1, <1>3, Zenon
<1>4. ASSUME NEW x \in Requested, client'[d] = [s EXCEPT !.wantsToSend = Append(@, x)]
      PROVE  WaitsTimed(client'[d])
  <2>1. Disconnects(s.wantsToSend) => Disconnects(Append(s.wantsToSend, x))
    BY <1>2, DisconnectsAppended, Zenon
  <2> DEFINE q == Append(s.wantsToSend, x)
  <2>2. client'[d] = [s EXCEPT !.wantsToSend = q]
    BY <1>4, Zenon
  <2> HIDE DEF q, s
  <2>3. SameButQueue(s, client'[d]) /\ client'[d].wantsToSend = q
    BY <1>2, <2>2, QueueOnly, SMTT(60)
  <2> QED
    BY <1>1, <2>1, <2>3, Zenon DEF WaitsTimed, SameButQueue, q
<1>5. CASE s.wantsToSend # <<>> /\ m # NullMsg /\ MaySend(t, m) /\ client'[d] = OnSend(t, m)
  <2>1. m \in Requested /\ t \in ClientLinks /\ SameButQueue(s, t)
    BY <1>5, HeadOfQueue, Zenon
  <2> HIDE DEF t, m, s
  <2> QED
    BY <1>5, <2>1, OnSendEffect, SendGuard DEF WaitsTimed, Waits
<1>6. CASE s.wantsToSend # <<>> /\ m # NullMsg /\ ~MaySend(t, m) /\ client'[d] = t
  <2>1. m \in Requested /\ SameButQueue(s, t) /\ t.wantsToSend = Tail(s.wantsToSend)
    BY <1>6, HeadOfQueue, Zenon
  <2>2. s.curState \in Waits => m.name # "DISCONNECT"
    BY <1>6, <2>1, SendGuard, Zenon DEF Waits, SameButQueue
  <2> DEFINE q == s.wantsToSend
  <2>3. q \in Seq(Requested \cup {NullMsg}) /\ q # <<>> /\ m = Head(q)
    BY <1>2, <1>6, Zenon
  <2> HIDE DEF q, m
  <2>4. /\ m = q[1] /\ DOMAIN q = 1..Len(q) /\ DOMAIN Tail(q) = 1..Len(q) - 1 /\ Len(q) \in Nat
        /\ \A i \in DOMAIN Tail(q) : Tail(q)[i] = q[i + 1]
    BY <2>3, Shortened, Zenon
  <2>5. Disconnects(q) /\ m.name # "DISCONNECT" => Disconnects(Tail(q))
    <3> SUFFICES ASSUME Disconnects(q), m.name # "DISCONNECT" PROVE Disconnects(Tail(q))
      BY Zenon
    <3>1. PICK i \in DOMAIN q : q[i] # NullMsg /\ q[i].name = "DISCONNECT"
      BY Zenon DEF Disconnects
    <3>2. i # 1
      BY <2>4, <3>1, Zenon
    <3>3. i - 1 \in 1..Len(q) - 1 /\ (i - 1) + 1 = i
      BY <2>4, <3>1, <3>2
    <3>4. i - 1 \in DOMAIN Tail(q) /\ Tail(q)[i - 1] = q[i]
      BY <2>4, <3>3, Zenon
    <3> QED
      BY <3>1, <3>4, Zenon DEF Disconnects
  <2> QED
    BY <1>1, <1>6, <2>1, <2>2, <2>5, Zenon DEF WaitsTimed, SameButQueue, q
<1>7. CASE \E x \in Downs : MayRecv(s, x) /\ client'[d] = OnRecv(s, x)
  BY <1>1, <1>2, <1>7, OnRecvEffect, ZenonT(60) DEF WaitsTimed, Waits
<1>8. CASE s.resendTimer /\ client'[d] = OnResendTimeOut(s)
  <2>1. s.preState \in Waits => s.msg # NullMsg /\ s.msg.name = "DISCONNECT"
    BY <1>1, <1>8, Zenon DEF TimerOK
  <2>2. s.preState \in Waits => Disconnects(Append(s.wantsToSend, s.msg))
    BY <1>2, <2>1, DisconnectsAppended, Zenon
  <2> QED
    BY <1>2, <1>8, <2>2, TimeOutEffect, Zenon DEF WaitsTimed
<1>9. CASE client'[d] = OnKeepaliveTimeOut(s)
  <2>1. Disconnects(s.wantsToSend) => Disconnects(Append(s.wantsToSend, NullMsg))
    BY <1>2, DisconnectsAppended, Zenon
  <2> HIDE DEF s
  <2>2. SameButQueue(s, client'[d]) /\ client'[d].wantsToSend = Append(s.wantsToSend, NullMsg)
    BY <1>2, <1>9, TimeOutEffect, Zenon
  <2> QED
    BY <1>1, <2>1, <2>2, Zenon DEF WaitsTimed, SameButQueue
<1> QED
  BY <1>3, <1>4, <1>5, <1>6, <1>7, <1>8, <1>9, NextMoves, Zenon DEF ClientMoves

-----------------------------------------------------------------------------
(* Who is connected *)

(* What a step does to a link's state and to what is on its way to the client:
   a CONNACK comes there only with the step to CONNECTED. *)
LEMMA NextLink ==
  ASSUME TypeOK, Next, NEW d \in Clients
  PROVE  /\ link[d].curState \in Beyond => link'[d].curState \in Beyond
         /\ \/ toClient'[d] = toClient[d]
            \/ toClient[d] # <<>> /\ toClient'[d] = Tail(toClient[d])
            \/ \E m \in Downs : /\ toClient'[d] = Append(toClient[d], m)
                                /\ m.name = "CONNACK" => link'[d].curState \in Beyond
<1> DEFINE Kept == link[d].curState \in Beyond => link'[d].curState \in Beyond
<1>1. ASSUME NEW c \in Clients, ClientStep(c) \/ Split(c)
      PROVE  /\ Kept
             /\ toClient'[d] = toClient[d] \/ (toClient[d] # <<>> /\ toClient'[d] = Tail(toClient[d]))
  <2>1. link' = link
    BY <1>1, Zenon DEF ClientStep, OpenLink, Ask, ClientSend, ClientRecv, ResendTimeOut, KeepaliveTimeOut, Split, serverVars
  <2>2. toClient' = toClient \/ (toClient[c] # <<>> /\ toClient' = [toClient EXCEPT ![c] = Tail(@)])
    BY <1>1, Zenon DEF ClientStep, OpenLink, Ask, ClientSend, ClientRecv, ResendTimeOut, KeepaliveTimeOut, Split, serverVars
  <2> QED
    BY <2>1, <2>2, Zenon DEF TypeOK
<1>2. ASSUME NEW c \in Clients, Accept(c) PROVE Kept /\ toClient' = toClient
  BY <1>2, Zenon DEF Accept, Beyond, TypeOK, ServerLinks
<1>3. ASSUME NEW c \in Clients, ServerRecv(c) PROVE Kept /\ toClient' = toClient
  <2> DEFINE m == Head(toServer[c])
             st == link[c].curState
  <2>1. m \in Requested /\ toClient' = toClient
    BY <1>3, LinkFields, Shortened, Zenon DEF ServerRecv
  <2>2. link'[d].curState = link[d].curState \/ (d = c /\ ServerMayRecv(st, m) /\ link'[d].curState = ServerOnRecv(st, m))
    <3>1. CASE ServerMayRecv(st, m)
      <4>1. \E f : link' = [e \in Clients |->
              [curState |-> IF e = c THEN ServerOnRecv(st, m) ELSE link[e].curState, wantsToSend |-> f[e]]]
        <5> DEFINE f == [e \in Clients |->
                     IF e \in (IF m.name = "PUBLISH" THEN Subscribers(m) ELSE {})
                     THEN Append(link[e].wantsToSend, m) ELSE link[e].wantsToSend]
        <5>1. link' = [e \in Clients |->
                [curState |-> IF e = c THEN ServerOnRecv(st, m) ELSE link[e].curState, wantsToSend |-> f[e]]]
          BY <1>3, <3>1, Zenon DEF ServerRecv
        <5> HIDE DEF f
        <5> QED
          BY <5>1, Zenon
      <4> HIDE DEF m, st
      <4> QED
        BY <3>1, <4>1
    <3>2. CASE ~ServerMayRecv(st, m)
      BY <1>3, <3>2, Zenon DEF ServerRecv, serverVars
    <3> QED
      BY <3>1, <3>2, Zenon
  <2>3. ServerMayRecv(st, m) /\ st \in Beyond => ServerOnRecv(st, m) \in Beyond
    BY <2>1, Zenon DEF ServerMayRecv, ServerOnRecv, Beyond, Requested, ReqNames
  <2> QED
    BY <2>1, <2>2, <2>3, Zenon
<1>4. ASSUME NEW c \in Clients, ServerSend(c)
      PROVE  /\ Kept
             /\ \/ toClient'[d] = toClient[d]
                \/ \E m \in Downs : /\ toClient'[d] = Append(toClient[d], m)
                                    /\ m.name = "CONNACK" => link'[d].curState \in Beyond
  <2> DEFINE m == Head(link[c].wantsToSend)
             st == link[c].curState
             q == Tail(link[c].wantsToSend)
  <2>1. /\ link' = [link EXCEPT ![c] = [curState |-> IF ServerMaySend(st, m) THEN ServerOnSend(st, m) ELSE st,
                                        wantsToSend |-> q]]
        /\ toClient' = IF ServerMaySend(st, m) THEN [toClient EXCEPT ![c] = Append(@, m)] ELSE toClient
    BY <1>4, Zenon DEF ServerSend
  <2>2. m \in Downs
    BY <1>4, LinkFields, Shortened, Zenon DEF ServerSend
  <2>3. /\ st \in Beyond => ServerOnSend(st, m) \in Beyond
        /\ m.name = "CONNACK" => ServerOnSend(st, m) \in Beyond
    BY Zenon DEF ServerOnSend, Beyond
  <2> HIDE DEF m, st, q
  <2>4. CASE d # c
    BY <2>1, <2>4, Zenon DEF TypeOK
  <2>5. CASE d = c
    <3>1. /\ link'[c].curState = IF ServerMaySend(st, m) THEN ServerOnSend(st, m) ELSE st
          /\ toClient'[c] = IF ServerMaySend(st, m) THEN Append(toClient[c], m) ELSE toClient[c]
      BY <2>1, Zenon DEF TypeOK
    <3> QED
      BY <2>2, <2>3, <2>5, <3>1, Zenon DEF st
  <2> QED
    BY <2>4, <2>5, Zenon
<1>5. CASE ServerApp
  BY <1>5, Zenon DEF ServerApp
<1>6. CASE ServerProcMsg
  <2> DEFINE h == Head(fromApp)
             q == Append(link[h.to].wantsToSend, h.msg)
  <2>1. link' = [link EXCEPT ![h.to].wantsToSend = q] /\ toClient' = toClient
    BY <1>6, Zenon DEF ServerProcMsg
  <2> HIDE DEF h, q
  <2>2. link'[d].curState = link[d].curState
    BY <2>1, SMTT(60) DEF TypeOK, ServerLinks
  <2> QED
    BY <2>1, <2>2, Zenon
<1> QED
  BY <1>1, <1>2, <1>3, <1>4, <1>5, <1>6, Zenon DEF Next, ServerStep

(* AgreementInv for one client. *)
Acked(q) == \E i \in DOMAIN q : q[i].name = "CONNACK"
Believes(s) == s.curState \in Connected \/ s.preState \in Connected
Agrees(c) == Believes(client[c]) \/ Acked(toClient[c]) => link[c].curState \in Beyond

(* A client believes itself connected only after a CONNACK. *)
LEMMA NextBelieves ==
  ASSUME TypeOK, Next, NEW d \in Clients, Believes(client'[d])
  PROVE  Believes(client[d]) \/ Acked(toClient[d])
<1> DEFINE s == client[d]
           t == [s EXCEPT !.wantsToSend = Tail(@)]
           m == Head(s.wantsToSend)
<1>1. s \in ClientLinks
  BY LinkFields, Zenon
<1>2. \A u : SameButQueue(s, u) /\ Believes(u) => Believes(s)
  BY Zenon DEF SameButQueue, Believes
<1>3. CASE client'[d] = s
  BY <1>3, Zenon
<1>4. CASE \E x \in Requested : client'[d] = [s EXCEPT !.wantsToSend = Append(@, x)]
  BY <1>1, <1>2, <1>4, QueueOnly, Zenon
<1>5. CASE s.wantsToSend # <<>> /\ m # NullMsg /\ MaySend(t, m) /\ client'[d] = OnSend(t, m)
  <2>1. m \in Requested /\ t \in ClientLinks /\ SameButQueue(s, t)
    BY <1>5, HeadOfQueue, Zenon
  <2> HIDE DEF t, m, s
  <2>2. Believes(OnSend(t, m)) => Believes(t)
    BY <1>5, <2>1, OnSendEffect, SendGuard DEF Believes, Connected
  <2> QED
    BY <1>2, <1>5, <2>1, <2>2, Zenon DEF s
<1>6. CASE s.wantsToSend # <<>> /\ m # NullMsg /\ client'[d] = t
  BY <1>2, <1>6, HeadOfQueue, Zenon
<1>7. ASSUME NEW x \in Downs, toClient[d] # <<>>, x = Head(toClient[d]), MayRecv(s, x), client'[d] = OnRecv(s, x)
      PROVE  Believes(s) \/ Acked(toClient[d])
  <2>1. x = toClient[d][1] /\ 1 \in DOMAIN toClient[d]
    BY <1>7, LinkFields, Shortened
  <2>2. x.name = "CONNACK" => Acked(toClient[d])
    BY <2>1, Zenon DEF Acked
  <2>3. x.name \in {"SUBACK", "UNSUBACK"} => Believes(s)
    BY <1>7, Zenon DEF MayRecv, Believes, Connected
  <2>4. x.name = "PUBLISH" => Believes(s)
    BY <1>7, Zenon DEF OnRecv
  <2> QED
    BY <2>2, <2>3, <2>4, Zenon DEF Downs, AckNames
<1>8. CASE client'[d] = OnResendTimeOut(s)
  BY <1>1, <1>8, TimeOutEffect, Zenon DEF Believes
<1>9. CASE client'[d] = OnKeepaliveTimeOut(s)
  BY <1>1, <1>2, <1>9, TimeOutEffect, Zenon
<1> QED
  BY <1>3, <1>4, <1>5, <1>6, <1>7, <1>8, <1>9, NextMoves, Zenon DEF ClientMoves

LEMMA NextAgrees ==
  ASSUME TypeOK, AgreementInv, Next, NEW d \in Clients
  PROVE  Agrees(d)'
<1>1. Agrees(d)
  BY Zenon DEF AgreementInv, Agrees, Believes, Acked
<1>2. link[d].curState \in Beyond => link'[d].curState \in Beyond
  BY NextLink, Zenon
<1>3. Believes(client'[d]) => link'[d].curState \in Beyond
  BY <1>1, <1>2, NextBelieves, Zenon DEF Agrees
<1>4. Acked(toClient'[d]) => link'[d].curState \in Beyond
  <2>1. toClient[d] \in Seq(Downs)
    BY LinkFields, Zenon
  <2>2. CASE toClient'[d] = toClient[d]
    BY <1>1, <1>2, <2>2, Zenon DEF Agrees
  <2>3. CASE toClient[d] # <<>> /\ toClient'[d] = Tail(toClient[d])
    <3>1. Acked(toClient'[d]) => Acked(toClient[d])
      BY <2>1, <2>3, Shortened DEF Acked
    <3> QED
      BY <1>1, <1>2, <3>1, Zenon DEF Agrees
  <2>4. ASSUME NEW m \in Downs, toClient'[d] = Append(toClient[d], m),
               m.name = "CONNACK" => link'[d].curState \in Beyond, Acked(toClient'[d])
        PROVE  link'[d].curState \in Beyond
    <3>1. Acked(toClient[d]) \/ m.name = "CONNACK"
      BY <2>1, <2>4, Appended DEF Acked
    <3> QED
      BY <1>1, <1>2, <2>4, <3>1, Zenon DEF Agrees
  <2> QED
    BY <2>2, <2>3, <2>4, NextLink, Zenon
<1> QED
  BY <1>3, <1>4, Zenon DEF Agrees

-----------------------------------------------------------------------------
(* Whose messages *)

(* SenderInv for one client. *)
From(c, q) == \A i \in DOMAIN q : q[i] # NullMsg => q[i].from = c
Sends(c) == From(c, toServer[c]) /\ From(c, client[c].wantsToSend) /\ (client[c].msg # NullMsg => client[c].msg.from = c)

LEMMA FromQueue ==
  ASSUME NEW S, NEW q \in Seq(S), NEW c, From(c, q)
  PROVE  /\ q # <<>> => From(c, Tail(q)) /\ (Head(q) # NullMsg => Head(q).from = c)
         /\ \A x \in S : (x # NullMsg => x.from = c) => From(c, Append(q, x))
<1>1. ASSUME q # <<>> PROVE From(c, Tail(q)) /\ (Head(q) # NullMsg => Head(q).from = c)
  BY <1>1, Shortened DEF From
<1>2. ASSUME NEW x \in S, x # NullMsg => x.from = c PROVE From(c, Append(q, x))
  BY <1>2, Appended DEF From
<1> QED
  BY <1>1, <1>2, Zenon

LEMMA NextSends ==
  ASSUME TypeOK, SenderInv, Next, NEW d \in Clients
  PROVE  Sends(d)'
<1> DEFINE s == client[d]
           t == [s EXCEPT !.wantsToSend = Tail(@)]
           m == Head(s.wantsToSend)
           Mine == From(d, client'[d].wantsToSend) /\ (client'[d].msg # NullMsg => client'[d].msg.from = d)
<1>1. Sends(d)
  BY MqttAssumption, Zenon DEF SenderInv, Sends, From
<1>2. /\ s \in ClientLinks /\ s.wantsToSend \in Seq(Requested \cup {NullMsg}) /\ s.msg \in Requested \cup {NullMsg}
      /\ toServer[d] \in Seq(Requested)
  BY LinkFields, Zenon
<1>3. s.wantsToSend # <<>> => From(d, Tail(s.wantsToSend)) /\ (m # NullMsg => m.from = d)
  BY <1>1, <1>2, FromQueue, Zenon DEF Sends
<1>4. \A x \in Requested \cup {NullMsg} : (x # NullMsg => x.from = d) => From(d, Append(s.wantsToSend, x))
  BY <1>1, <1>2, FromQueue, Zenon DEF Sends
<1>5. Mine
  <2>1. CASE client'[d] = s
    BY <1>1, <2>1, Zenon DEF Sends
  <2>2. ASSUME NEW x \in Requested, x.from = d, client'[d] = [s EXCEPT !.wantsToSend = Append(@, x)] PROVE Mine
    <3> DEFINE q == Append(s.wantsToSend, x)
    <3>1. From(d, q) /\ client'[d] = [s EXCEPT !.wantsToSend = q]
      BY <1>4, <2>2, Zenon
    <3> HIDE DEF q, s
    <3>2. client'[d].wantsToSend = q /\ client'[d].msg = s.msg
      BY <1>2, <3>1, QueueOnly DEF SameButQueue
    <3> QED
      BY <1>1, <3>1, <3>2, Zenon DEF Sends, s
  <2>3. CASE s.wantsToSend # <<>> /\ m # NullMsg /\ (client'[d] = OnSend(t, m) \/ client'[d] = t)
    <3>1. m \in Requested /\ t \in ClientLinks /\ SameButQueue(s, t) /\ t.wantsToSend = Tail(s.wantsToSend)
      BY <2>3, HeadOfQueue, Zenon
    <3> HIDE DEF t, m
    <3>2. client'[d].wantsToSend = Tail(s.wantsToSend) /\ (client'[d].msg = m \/ client'[d].msg = s.msg)
      BY <2>3, <3>1, OnSendEffect DEF SameButQueue
    <3> QED
      BY <1>1, <1>3, <2>3, <3>2, Zenon DEF Sends
  <2>4. CASE \E x \in Downs : client'[d] = OnRecv(s, x)
    <3>1. client'[d].wantsToSend = s.wantsToSend /\ client'[d].msg = s.msg
      <4>1. PICK x \in Downs : client'[d] = OnRecv(s, x)
        BY <2>4, Zenon
      <4>2. OnRecv(s, x).wantsToSend = s.wantsToSend /\ OnRecv(s, x).msg = s.msg
        BY <1>2, OnRecvEffect, Zenon
      <4> QED
        BY <4>1, <4>2, Zenon
    <3> QED
      BY <1>1, <3>1, Zenon DEF Sends
  <2>5. CASE client'[d] = OnResendTimeOut(s)
    <3>1. From(d, Append(s.wantsToSend, s.msg)) /\ (s.msg # NullMsg => s.msg.from = d)
      BY <1>1, <1>2, <1>4, Zenon DEF Sends
    <3> HIDE DEF s
    <3> QED
      BY <1>2, <2>5, <3>1, TimeOutEffect, Zenon
  <2>6. CASE client'[d] = OnKeepaliveTimeOut(s)
    <3>1. From(d, Append(s.wantsToSend, NullMsg))
      BY <1>4, Zenon
    <3> HIDE DEF s
    <3> QED
      BY <1>1, <1>2, <2>6, <3>1, TimeOutEffect, Zenon DEF Sends, SameButQueue, s
  <2> QED
    BY <2>1, <2>2, <2>3, <2>4, <2>5, <2>6, NextMoves, Zenon DEF ClientMoves
<1>6. From(d, toServer'[d])
  <2>1. \/ toServer'[d] = toServer[d]
        \/ toServer[d] # <<>> /\ toServer'[d] = Tail(toServer[d])
        \/ s.wantsToSend # <<>> /\ m # NullMsg /\ toServer'[d] = Append(toServer[d], m)
    <3>1. ASSUME NEW c \in Clients, ClientStep(c)
          PROVE  \/ toServer' = toServer
                 \/ /\ client[c].wantsToSend # <<>> /\ Head(client[c].wantsToSend) # NullMsg
                    /\ toServer' = [toServer EXCEPT ![c] = Append(@, Head(client[c].wantsToSend))]
      BY <3>1, Zenon DEF ClientStep, OpenLink, Ask, ClientSend, ClientRecv, ResendTimeOut, KeepaliveTimeOut
    <3>2. ASSUME NEW c \in Clients, ServerStep(c) \/ Split(c)
          PROVE  toServer' = toServer \/ (toServer[c] # <<>> /\ toServer' = [toServer EXCEPT ![c] = Tail(@)])
      BY <3>2, Zenon DEF ServerStep, Accept, ServerRecv, ServerSend, Split
    <3>3. CASE ServerApp \/ ServerProcMsg
      BY <3>3, Zenon DEF ServerApp, ServerProcMsg
    <3> QED
      BY <3>1, <3>2, <3>3, Zenon DEF Next, TypeOK
  <2>2. CASE toServer'[d] = toServer[d]
    BY <1>1, <2>2, Zenon DEF Sends
  <2>3. CASE toServer[d] # <<>> /\ toServer'[d] = Tail(toServer[d])
    BY <1>1, <1>2, <2>3, FromQueue, Zenon DEF Sends
  <2>4. CASE s.wantsToSend # <<>> /\ m # NullMsg /\ toServer'[d] = Append(toServer[d], m)
    <3>1. m \in Requested /\ m.from = d
      BY <1>3, <2>4, HeadOfQueue, Zenon
    <3> QED
      BY <1>1, <1>2, <2>4, <3>1, FromQueue DEF Sends
  <2> QED
    BY <2>1, <2>2, <2>3, <2>4, Zenon
<1> QED
  BY <1>5, <1>6, Zenon DEF Sends

-----------------------------------------------------------------------------
(* The way of a publication *)

Ways == [Stages -> Seq(Messages \cup {NullMsg})]

(* What a step makes of a way: a stage loses its first message, hands it to
   the next one, or gets a new last message. *)
Dropped(w, v, b) ==
  w[b] # <<>> /\ v[b] = Tail(w[b]) /\ \A k \in Stages \ {b} : v[k] = w[k]
Moved(w, v, b) ==
  /\ w[b] # <<>> /\ v[b] = Tail(w[b]) /\ v[b - 1] = Append(w[b - 1], Head(w[b]))
  /\ \A k \in Stages \ {b - 1, b} : v[k] = w[k]
Added(w, v, b, x) ==
  v[b] = Append(w[b], x) /\ \A k \in Stages \ {b} : v[k] = w[k]

(* Where a message of the new way was before. *)
LEMMA DroppedWay ==
  ASSUME NEW s, NEW n \in Nat, NEW w \in Ways, NEW v, NEW b \in Stages,
         Ordered(s, w), UpTo(s, n, w), Dropped(w, v, b)
  PROVE  Ordered(s, v) /\ UpTo(s, n, v)
<1> DEFINE sh(k) == IF k = b THEN 1 ELSE 0
<1>1. \A k \in Stages : \A i \in DOMAIN v[k] :
        i \in Nat /\ i + sh(k) \in DOMAIN w[k] /\ v[k][i] = w[k][i + sh(k)]
  <2>1. ASSUME NEW k \in Stages, k # b, NEW i \in DOMAIN v[k]
        PROVE  i \in Nat /\ i + 0 \in DOMAIN w[k] /\ v[k][i] = w[k][i + 0]
    <3>1. v[k] = w[k] /\ w[k] \in Seq(Messages \cup {NullMsg})
      BY <2>1, Zenon DEF Dropped, Ways
    <3>2. i \in 1..Len(w[k]) /\ Len(w[k]) \in Nat /\ DOMAIN w[k] = 1..Len(w[k])
      BY <2>1, <3>1
    <3> QED
      BY <3>1, <3>2
  <2>2. ASSUME NEW i \in DOMAIN v[b]
        PROVE  i \in Nat /\ i + 1 \in DOMAIN w[b] /\ v[b][i] = w[b][i + 1]
    <3>1. v[b] = Tail(w[b]) /\ w[b] # <<>> /\ w[b] \in Seq(Messages \cup {NullMsg})
      BY Zenon DEF Dropped, Ways
    <3> QED
      BY <2>2, <3>1, Shortened
  <2> QED
    BY <2>1, <2>2, Zenon
<1>2. \A k \in Stages : sh(k) \in Nat
  BY Zenon
<1> HIDE DEF sh
<1>3. Ordered(s, v)
  <2> SUFFICES ASSUME NEW a \in Stages, NEW c \in Stages, NEW i \in DOMAIN v[a], NEW j \in DOMAIN v[c],
                      a < c \/ (a = c /\ i < j), Pub(s, v[a][i]), Pub(s, v[c][j])
               PROVE  v[a][i].id < v[c][j].id
    BY Zenon DEF Ordered
  <2>1. a < c \/ (a = c /\ i + sh(a) < j + sh(c))
    BY <1>1, <1>2
  <2> QED
    BY <1>1, <2>1, Zenon DEF Ordered
<1>4. UpTo(s, n, v)
  BY <1>1, Zenon DEF UpTo
<1> QED
  BY <1>3, <1>4, Zenon

LEMMA AddedWay ==
  ASSUME NEW s, NEW n \in Nat, NEW w \in Ways, NEW v, NEW b \in Stages, NEW x \in Messages \cup {NullMsg},
         Ordered(s, w), UpTo(s, n, w), Added(w, v, b, x)
  PROVE  /\ ~Pub(s, x) => Ordered(s, v) /\ UpTo(s, n, v)
         /\ b = 5 /\ x # NullMsg /\ x.id = n + 1 => Ordered(s, v) /\ UpTo(s, n + 1, v)
<1>1. w[b] \in Seq(Messages \cup {NullMsg}) /\ v[b] = Append(w[b], x)
  BY Zenon DEF Ways, Added
<1>2. /\ DOMAIN v[b] = 1..Len(w[b]) + 1 /\ DOMAIN w[b] = 1..Len(w[b]) /\ Len(w[b]) \in Nat
      /\ \A i \in DOMAIN w[b] : v[b][i] = w[b][i]
      /\ v[b][Len(w[b]) + 1] = x
  BY <1>1, Appended
<1>3. \A k \in Stages \ {b} : v[k] = w[k]
  BY Zenon DEF Added
<1>4. \A k \in Stages : \A i \in DOMAIN v[k] :
        (i \in DOMAIN w[k] /\ v[k][i] = w[k][i]) \/ (k = b /\ i = Len(w[b]) + 1 /\ v[k][i] = x)
  BY <1>2, <1>3, SMTT(60)
<1>5. ASSUME ~Pub(s, x) PROVE Ordered(s, v) /\ UpTo(s, n, v)
  <2>1. Ordered(s, v)
    BY <1>4, <1>5 DEF Ordered
  <2>2. UpTo(s, n, v)
    BY <1>4, <1>5, Zenon DEF UpTo
  <2> QED
    BY <2>1, <2>2, Zenon
<1>6. ASSUME b = 5, x # NullMsg, x.id = n + 1 PROVE Ordered(s, v) /\ UpTo(s, n + 1, v)
  <2>0. ASSUME NEW k \in Stages, NEW i \in DOMAIN w[k], Pub(s, w[k][i])
        PROVE  w[k][i].id \in Nat /\ w[k][i].id <= n
    <3>1. w[k] \in Seq(Messages \cup {NullMsg})
      BY Zenon DEF Ways
    <3>2. w[k][i] \in Messages
      BY <2>0, <3>1 DEF Pub
    <3>3. w[k][i].id \in Nat
      BY <3>2, Zenon DEF Messages
    <3> QED
      BY <2>0, <3>3, Zenon DEF UpTo
  <2>1. UpTo(s, n + 1, v)
    BY <1>4, <1>6, <2>0 DEF UpTo
  <2>2. Ordered(s, v)
    <3> SUFFICES ASSUME NEW a \in Stages, NEW c \in Stages, NEW i \in DOMAIN v[a], NEW j \in DOMAIN v[c],
                        a < c \/ (a = c /\ i < j), Pub(s, v[a][i]), Pub(s, v[c][j])
                 PROVE  v[a][i].id < v[c][j].id
      BY Zenon DEF Ordered
    <3>1. i \in DOMAIN w[a] /\ v[a][i] = w[a][i]
      <4>1. ~(a = b /\ i = Len(w[b]) + 1)
        <5> SUFFICES ASSUME a = b, i = Len(w[b]) + 1 PROVE FALSE
          BY Zenon
        <5>1. c = b /\ i < j
          BY <1>6 DEF Stages
        <5> QED
          BY <1>2, <5>1
      <4> QED
        BY <1>4, <4>1, Zenon
    <3>2. CASE j \in DOMAIN w[c] /\ v[c][j] = w[c][j]
      BY <3>1, <3>2, Zenon DEF Ordered
    <3>3. CASE v[c][j] = x
      BY <1>6, <2>0, <3>1, <3>3
    <3> QED
      BY <1>4, <3>2, <3>3, Zenon
  <2> QED
    BY <2>1, <2>2, Zenon
<1> QED
  BY <1>5, <1>6, Zenon

LEMMA MovedWay ==
  ASSUME NEW s, NEW n \in Nat, NEW w \in Ways, NEW v, NEW b \in 2..5,
         Ordered(s, w), UpTo(s, n, w), Moved(w, v, b)
  PROVE  Ordered(s, v) /\ UpTo(s, n, v)
<1> DEFINE L == Len(w[b - 1])
           st(k, i) == IF k = b - 1 /\ i = L + 1 THEN b ELSE k
           at(k, i) == IF k = b - 1 /\ i = L + 1 THEN 1 ELSE IF k = b THEN i + 1 ELSE i
<1>1. b \in Stages /\ b - 1 \in Stages /\ b \in Int
  BY DEF Stages
<1>2. /\ DOMAIN v[b] = 1..Len(w[b]) - 1 /\ DOMAIN w[b] = 1..Len(w[b]) /\ Len(w[b]) \in Nat \ {0}
      /\ \A i \in DOMAIN v[b] : v[b][i] = w[b][i + 1] /\ i + 1 \in DOMAIN w[b]
      /\ Head(w[b]) = w[b][1] /\ Head(w[b]) \in Messages \cup {NullMsg}
  <2>1. v[b] = Tail(w[b]) /\ w[b] # <<>> /\ w[b] \in Seq(Messages \cup {NullMsg})
    BY <1>1, Zenon DEF Moved, Ways
  <2> QED
    BY <2>1, Shortened, SMTT(60)
<1>3. /\ DOMAIN v[b - 1] = 1..L + 1 /\ DOMAIN w[b - 1] = 1..L /\ L \in Nat
      /\ \A i \in DOMAIN w[b - 1] : v[b - 1][i] = w[b - 1][i]
      /\ v[b - 1][L + 1] = w[b][1]
  <2>1. v[b - 1] = Append(w[b - 1], Head(w[b])) /\ w[b - 1] \in Seq(Messages \cup {NullMsg})
    BY <1>1, Zenon DEF Moved, Ways
  <2> QED
    BY <1>2, <2>1, Appended, SMTT(60)
<1>4. ASSUME NEW k \in Stages, k # b, k # b - 1
      PROVE  v[k] = w[k] /\ DOMAIN w[k] \subseteq Nat
  <2>1. v[k] = w[k] /\ w[k] \in Seq(Messages \cup {NullMsg})
    BY <1>4, Zenon DEF Moved, Ways
  <2>2. DOMAIN w[k] = 1..Len(w[k]) /\ Len(w[k]) \in Nat
    BY <2>1
  <2> QED
    BY <2>1, <2>2
<1>5. ASSUME NEW k \in Stages, NEW i \in DOMAIN v[k]
      PROVE  i \in Nat /\ st(k, i) \in Stages /\ at(k, i) \in DOMAIN w[st(k, i)] /\ v[k][i] = w[st(k, i)][at(k, i)]
  <2> HIDE DEF L
  <2>1. CASE k = b
    BY <1>1, <1>2, <2>1, SMTT(60)
  <2>2. CASE k = b - 1
    <3>1. i \in 1..L \/ i = L + 1
      BY <1>3, <2>2
    <3>2. i \in Nat
      BY <1>3, <3>1, SMTT(60)
    <3>3. CASE i = L + 1
      BY <1>1, <1>2, <1>3, <2>2, <3>2, <3>3
    <3>4. CASE i \in 1..L
      <4>1. i # L + 1 /\ k # b
        BY <1>1, <1>3, <2>2, <3>4
      <4> QED
        BY <1>3, <2>2, <3>2, <3>4, <4>1, Zenon
    <3> QED
      BY <3>1, <3>3, <3>4, Zenon
  <2>3. CASE k # b /\ k # b - 1
    BY <1>4, <2>3, Zenon
  <2> QED
    BY <2>1, <2>2, <2>3, Zenon
<1>6. Ordered(s, v)
  <2> SUFFICES ASSUME NEW a \in Stages, NEW c \in Stages, NEW i \in DOMAIN v[a], NEW j \in DOMAIN v[c],
                      a < c \/ (a = c /\ i < j), Pub(s, v[a][i]), Pub(s, v[c][j])
               PROVE  v[a][i].id < v[c][j].id
    BY Zenon DEF Ordered
  <2>1. i \in Nat /\ j \in Nat /\ a \in Int /\ c \in Int
    BY <1>5 DEF Stages
  <2>2. /\ a = b - 1 => i <= L + 1
        /\ c = b - 1 => j <= L + 1
        /\ c = b => j >= 1
    BY <1>2, <1>3, SMTT(60)
  <2>3. st(a, i) < st(c, j) \/ (st(a, i) = st(c, j) /\ at(a, i) < at(c, j))
    <3> HIDE DEF L
    <3> QED
      BY <1>1, <1>3, <2>1, <2>2
  <2> HIDE DEF st, at
  <2>4. /\ st(a, i) \in Stages /\ at(a, i) \in DOMAIN w[st(a, i)] /\ v[a][i] = w[st(a, i)][at(a, i)]
        /\ st(c, j) \in Stages /\ at(c, j) \in DOMAIN w[st(c, j)] /\ v[c][j] = w[st(c, j)][at(c, j)]
    BY <1>5, Zenon
  <2> QED
    BY <2>3, <2>4, Zenon DEF Ordered
<1>7. UpTo(s, n, v)
  <2> SUFFICES ASSUME NEW a \in Stages, NEW i \in DOMAIN v[a], Pub(s, v[a][i])
               PROVE  v[a][i].id <= n
    BY Zenon DEF UpTo
  <2> HIDE DEF st, at
  <2> QED
    BY <1>5, Zenon DEF UpTo
<1> QED
  BY <1>6, <1>7, Zenon

(* The way of a publication in a state, and after a step. *)
LEMMA WayFields ==
  ASSUME NEW s, NEW r
  PROVE  /\ Way(s, r)[1] = got[r] /\ Way(s, r)[2] = toClient[r] /\ Way(s, r)[3] = link[r].wantsToSend
         /\ Way(s, r)[4] = toServer[s] /\ Way(s, r)[5] = client[s].wantsToSend
         /\ Way(s, r)'[1] = got'[r] /\ Way(s, r)'[2] = toClient'[r] /\ Way(s, r)'[3] = link'[r].wantsToSend
         /\ Way(s, r)'[4] = toServer'[s] /\ Way(s, r)'[5] = client'[s].wantsToSend
BY DEF Way, Stages

LEMMA WayType ==
  ASSUME TypeOK, NEW s \in Clients, NEW r \in Clients
  PROVE  Way(s, r) \in Ways
<1>1. ASSUME NEW S, NEW T, S \subseteq T, NEW q \in Seq(S) PROVE q \in Seq(T)
  BY <1>1
<1>2. /\ Requested \subseteq Messages \cup {NullMsg} /\ Downs \subseteq Messages \cup {NullMsg}
      /\ Requested \cup {NullMsg} \subseteq Messages \cup {NullMsg}
  BY Zenon DEF Requested, Downs
<1> DEFINE T == Messages \cup {NullMsg}
<1> HIDE DEF T
<1>3. /\ got[r] \in Seq(T) /\ toClient[r] \in Seq(T) /\ link[r].wantsToSend \in Seq(T)
      /\ toServer[s] \in Seq(T) /\ client[s].wantsToSend \in Seq(T)
  BY <1>1, <1>2, LinkFields, Zenon DEF T
<1> QED
  BY <1>3 DEF Way, Ways, Stages, T

(* The publications of s to r are in order, up to the last number given. *)
WayOK(s, r) == Ordered(s, Way(s, r)) /\ UpTo(s, asked[s], Way(s, r))

(* A step of a client keeps the order, whoever it is. *)
LEMMA ClientStepWay ==
  ASSUME TypeOK, TimerInv, WayInv, NEW s \in Clients, NEW r \in Clients, NEW c \in Clients, ClientStep(c)
  PROVE  WayOK(s, r)'
<1> DEFINE w == Way(s, r)
           v == Way(s, r)'
           n == asked[s]
<1>1. Ordered(s, w) /\ UpTo(s, n, w) /\ w \in Ways /\ n \in Nat
  BY WayType, Zenon DEF WayInv, TypeOK
<1>2. /\ w[1] = got[r] /\ w[2] = toClient[r] /\ w[3] = link[r].wantsToSend
      /\ w[4] = toServer[s] /\ w[5] = client[s].wantsToSend
      /\ v[1] = got'[r] /\ v[2] = toClient'[r] /\ v[3] = link'[r].wantsToSend
      /\ v[4] = toServer'[s] /\ v[5] = client'[s].wantsToSend
  BY WayFields, Zenon
<1>3. WayOK(s, r)' <=> Ordered(s, v) /\ UpTo(s, asked'[s], v)
  BY Zenon DEF WayOK, Ordered, UpTo, Pub
<1>4. /\ client \in [Clients -> ClientLinks] /\ client[s] \in ClientLinks /\ client[c] \in ClientLinks
      /\ asked \in [Clients -> Nat]
  BY LinkFields, Zenon DEF TypeOK
<1> HIDE DEF w, v, n
<1>5. ASSUME v[1] = w[1], v[2] = w[2], v[3] = w[3], v[4] = w[4], v[5] = w[5], asked'[s] = n
      PROVE  WayOK(s, r)'
  <2>1. \A k \in Stages : v[k] = w[k]
    BY <1>5 DEF Stages
  <2> QED
    BY <1>1, <1>3, <1>5, <2>1, Zenon DEF Ordered, UpTo
<1>6. CASE OpenLink(c)
  BY <1>2, <1>5, <1>6, Zenon DEF OpenLink, serverVars, n
<1>7. ASSUME NEW a \in Requests[c], Ask(c, a) PROVE WayOK(s, r)'
  <2> DEFINE x == Msg(a.name, a.topics, asked[c] + 1, c)
  <2>1. /\ client' = [client EXCEPT ![c].wantsToSend = Append(@, x)]
        /\ asked' = [asked EXCEPT ![c] = @ + 1]
        /\ v[1] = w[1] /\ v[2] = w[2] /\ v[3] = w[3] /\ v[4] = w[4]
    BY <1>2, <1>7, Zenon DEF Ask, serverVars
  <2>2. x \in Messages /\ x.id = asked[c] + 1
    <3>1. asked[c] + 1 \in Nat
      BY <1>4
    <3> QED
      BY <3>1, MqttAssumption, Zenon DEF Msg, Messages
  <2>3. CASE c # s
    <3>1. client'[s] = client[s] /\ asked'[s] = n
      BY <1>4, <2>1, <2>3, Zenon DEF TypeOK, n
    <3> QED
      BY <1>2, <1>5, <2>1, <3>1, Zenon
  <2>4. CASE c = s
    <3> HIDE DEF x
    <3>1. v[5] = Append(w[5], x) /\ asked'[s] = n + 1 /\ x.id = n + 1
      BY <1>2, <1>4, <2>1, <2>2, <2>4, Zenon DEF TypeOK, ClientLinks, n
    <3>2. Added(w, v, 5, x)
      BY <2>1, <3>1 DEF Added, Stages
    <3>3. x # NullMsg
      BY <2>2, MqttAssumption, Zenon
    <3> QED
      <4>1. 5 \in Stages /\ x \in Messages \cup {NullMsg}
        BY <2>2 DEF Stages
      <4>2. Ordered(s, v) /\ UpTo(s, n + 1, v)
        BY <1>1, <3>1, <3>2, <3>3, <4>1, AddedWay, Zenon
      <4> QED
        BY <1>3, <3>1, <4>2, Zenon
  <2> QED
    BY <2>3, <2>4, Zenon
<1>8. CASE ClientSend(c)
  <2>1. v[1] = w[1] /\ v[2] = w[2] /\ v[3] = w[3] /\ asked'[s] = n
    BY <1>2, <1>8, Zenon DEF ClientSend, serverVars, n
  <2>2. CASE c # s
    <3>1. client'[s] = client[s] /\ toServer'[s] = toServer[s]
      BY <1>4, <1>8, <2>2, Zenon DEF ClientSend, TypeOK
    <3> QED
      BY <1>2, <1>5, <2>1, <3>1, Zenon
  <2>3. CASE c = s
    <3> DEFINE m == Head(client[s].wantsToSend)
               t == [client[s] EXCEPT !.wantsToSend = Tail(@)]
    <3>1. /\ client[s].wantsToSend # <<>>
          /\ \/ m = NullMsg /\ client' = client /\ toServer' = toServer
             \/ /\ m # NullMsg /\ client' = [client EXCEPT ![s] = OnSend(t, m)]
                /\ toServer' = [toServer EXCEPT ![s] = Append(@, m)]
             \/ m # NullMsg /\ client' = [client EXCEPT ![s] = t] /\ toServer' = toServer
      BY <1>8, <2>3, Zenon DEF ClientSend
    <3>2. m # NullMsg => /\ m \in Requested /\ t \in ClientLinks
                         /\ t.wantsToSend = Tail(client[s].wantsToSend)
      BY <3>1, HeadOfQueue, Zenon
    <3>3. m # NullMsg => OnSend(t, m).wantsToSend = Tail(client[s].wantsToSend)
      BY <3>2, OnSendEffect, Zenon
    <3>4. w[5] # <<>> /\ m = Head(w[5])
      BY <1>2, <3>1, Zenon
    <3> HIDE DEF t, m
    <3>5. CASE m = NullMsg
      BY <1>2, <1>5, <2>1, <3>1, <3>5, Zenon
    <3>6. CASE m # NullMsg /\ client' = [client EXCEPT ![s] = OnSend(t, m)]
               /\ toServer' = [toServer EXCEPT ![s] = Append(@, m)]
      <4>1. v[5] = Tail(w[5]) /\ v[4] = Append(w[4], Head(w[5]))
        BY <1>2, <1>4, <3>3, <3>4, <3>6, Zenon DEF TypeOK
      <4>2. Moved(w, v, 5)
        BY <2>1, <3>4, <4>1 DEF Moved, Stages
      <4> QED
        BY <1>1, <1>3, <2>1, <4>2, MovedWay
    <3>7. CASE m # NullMsg /\ client' = [client EXCEPT ![s] = t] /\ toServer' = toServer
      <4>1. v[5] = Tail(w[5]) /\ v[4] = w[4]
        BY <1>2, <1>4, <3>2, <3>7, Zenon
      <4>2. Dropped(w, v, 5)
        BY <2>1, <3>4, <4>1 DEF Dropped, Stages
      <4> QED
        BY <1>1, <1>3, <2>1, <4>2, DroppedWay DEF Stages
    <3> QED
      BY <3>1, <3>5, <3>6, <3>7, Zenon
  <2> QED
    BY <2>2, <2>3, Zenon
<1>9. CASE ClientRecv(c)
  <2> DEFINE m == Head(toClient[c])
  <2>1. v[3] = w[3] /\ v[4] = w[4] /\ asked'[s] = n
    BY <1>2, <1>9, Zenon DEF ClientRecv, serverVars, n
  <2>2. v[5] = w[5]
    <3>1. OnRecv(client[c], m).wantsToSend = client[c].wantsToSend
      BY <1>4, OnRecvEffect, Zenon
    <3>2. client' = client \/ client' = [client EXCEPT ![c] = OnRecv(client[c], m)]
      BY <1>9, Zenon DEF ClientRecv
    <3> HIDE DEF m
    <3>3. client'[s].wantsToSend = client[s].wantsToSend
      BY <1>4, <3>1, <3>2, Zenon
    <3> QED
      BY <1>2, <3>3, Zenon
  <2>3. CASE c # r
    <3>1. got'[r] = got[r] /\ toClient'[r] = toClient[r]
      BY <1>9, <2>3, Zenon DEF ClientRecv, TypeOK
    <3> QED
      BY <1>2, <1>5, <2>1, <2>2, <3>1, Zenon
  <2>4. CASE c = r
    <3>1. /\ toClient[r] # <<>> /\ toClient'[r] = Tail(toClient[r])
          /\ got'[r] = got[r] \/ got'[r] = Append(got[r], Head(toClient[r]))
      BY <1>9, <2>4, Zenon DEF ClientRecv, TypeOK
    <3>2. CASE got'[r] = got[r]
      <4>1. Dropped(w, v, 2)
        BY <1>2, <2>1, <2>2, <3>1, <3>2 DEF Dropped, Stages
      <4> QED
        BY <1>1, <1>3, <2>1, <4>1, DroppedWay DEF Stages
    <3>3. CASE got'[r] = Append(got[r], Head(toClient[r]))
      <4>1. Moved(w, v, 2)
        BY <1>2, <2>1, <2>2, <3>1, <3>3, SMTT(60) DEF Moved, Stages
      <4> QED
        BY <1>1, <1>3, <2>1, <4>1, MovedWay
    <3> QED
      BY <3>1, <3>2, <3>3, Zenon
  <2> QED
    BY <2>3, <2>4, Zenon
<1>10. CASE ResendTimeOut(c) \/ KeepaliveTimeOut(c)
  <2>1. v[1] = w[1] /\ v[2] = w[2] /\ v[3] = w[3] /\ v[4] = w[4] /\ asked'[s] = n
    BY <1>2, <1>10 DEF ResendTimeOut, KeepaliveTimeOut, serverVars, n
  <2>2. \E x \in Messages \cup {NullMsg} :
          /\ x = NullMsg \/ x.name # "PUBLISH"
          /\ \E u : u.wantsToSend = Append(client[c].wantsToSend, x) /\ client' = [client EXCEPT ![c] = u]
    <3>1. CASE ResendTimeOut(c)
      <4>1. client[c].resendTimer /\ client' = [client EXCEPT ![c] = OnResendTimeOut(client[c])]
        BY <3>1, Zenon DEF ResendTimeOut
      <4>2. client[c].msg.name # "PUBLISH" /\ client[c].msg \in Messages \cup {NullMsg}
        BY <4>1, LinkFields, Zenon DEF TimerInv, Requested
      <4> QED
        BY <1>4, <4>1, <4>2, TimeOutEffect, Zenon
    <3>2. CASE KeepaliveTimeOut(c)
      <4>1. client' = [client EXCEPT ![c] = OnKeepaliveTimeOut(client[c])]
        BY <3>2, Zenon DEF KeepaliveTimeOut
      <4> QED
        BY <1>4, <4>1, TimeOutEffect, Zenon
    <3> QED
      BY <1>10, <3>1, <3>2, Zenon
  <2>3. PICK x \in Messages \cup {NullMsg} :
          /\ x = NullMsg \/ x.name # "PUBLISH"
          /\ \E u : u.wantsToSend = Append(client[c].wantsToSend, x) /\ client' = [client EXCEPT ![c] = u]
    BY <2>2, Zenon
  <2>4. CASE c # s
    <3>1. client'[s] = client[s]
      BY <1>4, <2>3, <2>4, Zenon
    <3> QED
      BY <1>2, <1>5, <2>1, <3>1, Zenon
  <2>5. CASE c = s
    <3>1. Added(w, v, 5, x)
      BY <1>2, <1>4, <2>1, <2>3, <2>5 DEF Added, Stages
    <3>2. ~Pub(s, x)
      BY <2>3, Zenon DEF Pub
    <3> QED
      BY <1>1, <1>3, <2>1, <3>1, <3>2, AddedWay, SMTT(60) DEF Stages
  <2> QED
    BY <2>4, <2>5, Zenon
<1> QED
  BY <1>6, <1>7, <1>8, <1>9, <1>10, Zenon DEF ClientStep

(* And so does a step of the server, of its application, or a packet lost. *)
LEMMA ServerStepWay ==
  ASSUME TypeOK, SenderInv, WayInv, NEW s \in Clients, NEW r \in Clients,
         (\E c \in Clients : ServerStep(c) \/ Split(c)) \/ ServerApp \/ ServerProcMsg
  PROVE  WayOK(s, r)'
<1> DEFINE w == Way(s, r)
           v == Way(s, r)'
           n == asked[s]
<1>1. Ordered(s, w) /\ UpTo(s, n, w) /\ w \in Ways /\ n \in Nat
  BY WayType, Zenon DEF WayInv, TypeOK
<1>2. /\ w[1] = got[r] /\ w[2] = toClient[r] /\ w[3] = link[r].wantsToSend
      /\ w[4] = toServer[s] /\ w[5] = client[s].wantsToSend
      /\ v[1] = got'[r] /\ v[2] = toClient'[r] /\ v[3] = link'[r].wantsToSend
      /\ v[4] = toServer'[s] /\ v[5] = client'[s].wantsToSend
  BY WayFields, Zenon
<1>3. /\ WayOK(s, r)' <=> Ordered(s, v) /\ UpTo(s, asked'[s], v)
      /\ \A k \in 1..5 : k \in Stages
  BY Zenon DEF WayOK, Ordered, UpTo, Pub, Stages
<1>4. link \in [Clients -> ServerLinks] /\ toServer \in [Clients -> Seq(Requested)]
      /\ toClient \in [Clients -> Seq(Downs)]
  BY Zenon DEF TypeOK
<1>5. v[1] = w[1] /\ v[5] = w[5] /\ asked'[s] = n
  BY <1>2, Zenon DEF ServerStep, Accept, ServerRecv, ServerSend, Split, ServerApp, ServerProcMsg
<1> HIDE DEF w, v, n
<1>6. ASSUME v[2] = w[2], v[3] = w[3], v[4] = w[4] PROVE WayOK(s, r)'
  <2>1. \A k \in Stages : v[k] = w[k]
    BY <1>5, <1>6 DEF Stages
  <2> QED
    BY <1>1, <1>3, <1>5, <2>1, Zenon DEF Ordered, UpTo
<1>7. ASSUME NEW c \in Clients, Accept(c) PROVE WayOK(s, r)'
  <2>1. toClient' = toClient /\ toServer' = toServer /\ link'[r].wantsToSend = link[r].wantsToSend
    BY <1>4, <1>7, Zenon DEF Accept, ServerLinks
  <2> QED
    BY <1>2, <1>6, <2>1, Zenon
<1>8. ASSUME NEW c \in Clients, ServerRecv(c) PROVE WayOK(s, r)'
  <2> DEFINE m == Head(toServer[c])
             q == Append(link[r].wantsToSend, m)
  <2>1. toServer[c] # <<>> /\ toServer' = [toServer EXCEPT ![c] = Tail(@)] /\ v[2] = w[2]
    BY <1>2, <1>8, Zenon DEF ServerRecv
  <2>2. m \in Requested /\ m.from = c
    <3>1. m = toServer[c][1] /\ 1 \in DOMAIN toServer[c] /\ m \in Requested
      BY <2>1, LinkFields, Shortened
    <3> QED
      BY <3>1, ZenonT(60) DEF SenderInv
  <2>3. link'[r].wantsToSend = link[r].wantsToSend \/ link'[r].wantsToSend = q
    <3> DEFINE f == [e \in Clients |->
                      IF e \in (IF m.name = "PUBLISH" THEN Subscribers(m) ELSE {})
                      THEN Append(link[e].wantsToSend, m) ELSE link[e].wantsToSend]
               g == [e \in Clients |-> IF e = c THEN ServerOnRecv(link[c].curState, m) ELSE link[e].curState]
    <3>1. link' = link \/ link' = [e \in Clients |-> [curState |-> g[e], wantsToSend |-> f[e]]]
      BY <1>8, Zenon DEF ServerRecv, serverVars
    <3>2. f[r] = link[r].wantsToSend \/ f[r] = q
      BY Zenon
    <3> HIDE DEF f, g, q
    <3> QED
      BY <3>1, <3>2
  <2>4. CASE c = s
    <3>1. v[4] = Tail(w[4]) /\ w[4] # <<>> /\ m = Head(w[4])
      BY <1>2, <1>4, <2>1, <2>4, Zenon
    <3>2. CASE link'[r].wantsToSend = link[r].wantsToSend
      <4>1. Dropped(w, v, 4)
        BY <1>2, <1>5, <2>1, <3>1, <3>2 DEF Dropped, Stages
      <4> QED
        BY <1>1, <1>3, <1>5, <4>1, DroppedWay
    <3>3. CASE link'[r].wantsToSend = q
      <4>1. Moved(w, v, 4)
        BY <1>2, <1>5, <2>1, <3>1, <3>3, SMTT(60) DEF Moved, Stages
      <4> QED
        BY <1>1, <1>3, <1>5, <4>1, MovedWay, SMTT(60)
    <3> QED
      BY <2>3, <3>2, <3>3, Zenon
  <2>5. CASE c # s
    <3>1. v[4] = w[4]
      BY <1>2, <1>4, <2>1, <2>5, Zenon
    <3>2. CASE link'[r].wantsToSend = link[r].wantsToSend
      BY <1>2, <1>6, <2>1, <3>1, <3>2, Zenon
    <3>3. CASE link'[r].wantsToSend = q
      <4>1. Added(w, v, 3, m)
        BY <1>2, <1>5, <2>1, <3>1, <3>3 DEF Added, Stages
      <4>2. ~Pub(s, m) /\ m \in Messages \cup {NullMsg}
        BY <2>2, <2>5, Zenon DEF Pub, Requested
      <4> HIDE DEF m
      <4> QED
        BY <1>1, <1>3, <1>5, <4>1, <4>2, AddedWay
    <3> QED
      BY <2>3, <3>2, <3>3
  <2> QED
    BY <2>4, <2>5, Zenon
<1>9. ASSUME NEW c \in Clients, ServerSend(c) PROVE WayOK(s, r)'
  <2> DEFINE m == Head(link[c].wantsToSend)
             q == Tail(link[c].wantsToSend)
  <2>1. /\ link[c].wantsToSend # <<>> /\ v[4] = w[4]
        /\ \E st : link' = [link EXCEPT ![c] = [curState |-> st, wantsToSend |-> q]]
        /\ toClient' = toClient \/ toClient' = [toClient EXCEPT ![c] = Append(@, m)]
    BY <1>2, <1>9, Zenon DEF ServerSend
  <2>2. CASE c # r
    <3>1. link'[r] = link[r] /\ toClient'[r] = toClient[r]
      BY <1>4, <2>1, <2>2, Zenon
    <3> QED
      BY <1>2, <1>6, <2>1, <3>1, Zenon
  <2>3. CASE c = r
    <3>1. w[3] # <<>> /\ v[3] = Tail(w[3]) /\ (v[2] = w[2] \/ v[2] = Append(w[2], Head(w[3])))
      <4>1. link'[r].wantsToSend = q /\ (toClient'[r] = toClient[r] \/ toClient'[r] = Append(toClient[r], m))
        <5> HIDE DEF q, m
        <5> QED
          BY <1>4, <2>1, <2>3
      <4> QED
        BY <1>2, <2>1, <2>3, <4>1, ZenonT(60)
    <3>2. CASE v[2] = w[2]
      <4>1. Dropped(w, v, 3)
        BY <1>5, <2>1, <3>1, <3>2 DEF Dropped, Stages
      <4> QED
        BY <1>1, <1>3, <1>5, <4>1, DroppedWay, SMTT(60)
    <3>3. CASE v[2] = Append(w[2], Head(w[3]))
      <4>1. Moved(w, v, 3)
        BY <1>5, <2>1, <3>1, <3>3 DEF Moved, Stages
      <4> QED
        BY <1>1, <1>3, <1>5, <4>1, MovedWay, SMTT(60)
    <3> QED
      BY <3>1, <3>2, <3>3, Zenon
  <2> QED
    BY <2>2, <2>3, Zenon
<1>10. CASE ServerApp
  BY <1>2, <1>6, <1>10, Zenon DEF ServerApp
<1>11. CASE ServerProcMsg
  <2> DEFINE h == Head(fromApp)
             q == Append(link[h.to].wantsToSend, h.msg)
  <2>1. fromApp # <<>> /\ v[2] = w[2] /\ v[4] = w[4] /\ link' = [link EXCEPT ![h.to].wantsToSend = q]
    BY <1>2, <1>11, Zenon DEF ServerProcMsg
  <2>2. h.msg \in Acks
    <3> DEFINE S == [to : Clients, msg : Acks]
    <3>1. fromApp \in Seq(S)
      BY Zenon DEF TypeOK
    <3> HIDE DEF S
    <3>2. h \in S
      BY <2>1, <3>1, Shortened, Zenon
    <3> QED
      BY <3>2, Zenon DEF S
  <2>3. link'[r].wantsToSend = link[r].wantsToSend \/ link'[r].wantsToSend = Append(link[r].wantsToSend, h.msg)
    <3>1. link'[r].wantsToSend = link[r].wantsToSend \/ (h.to = r /\ link'[r].wantsToSend = q)
      <4> HIDE DEF h, q
      <4> QED
        BY <1>4, <2>1, Zenon DEF ServerLinks
    <3> QED
      BY <3>1, Zenon
  <2>4. CASE link'[r].wantsToSend = link[r].wantsToSend
    BY <1>2, <1>6, <2>1, <2>4, ZenonT(60)
  <2>5. CASE link'[r].wantsToSend = Append(link[r].wantsToSend, h.msg)
    <3>0. v[3] = Append(w[3], h.msg) /\ v[2] = w[2] /\ v[4] = w[4]
      BY <1>2, <2>1, <2>5, Zenon
    <3>1. Added(w, v, 3, h.msg)
      BY <1>5, <3>0 DEF Added, Stages
    <3>2. ~Pub(s, h.msg) /\ h.msg \in Messages \cup {NullMsg}
      BY <2>2, Zenon DEF Pub, Acks, AckNames
    <3> HIDE DEF h
    <3> QED
      BY <1>1, <1>3, <1>5, <3>1, <3>2, AddedWay
  <2> QED
    BY <2>3, <2>4, <2>5, Zenon
<1>12. ASSUME NEW c \in Clients, Split(c) PROVE WayOK(s, r)'
  <2>1. v[3] = w[3]
    BY <1>2, <1>12, Zenon DEF Split, serverVars
  <2>2. \/ v[4] = w[4] /\ v[2] = w[2]
        \/ v[4] = w[4] /\ w[2] # <<>> /\ v[2] = Tail(w[2])
        \/ v[2] = w[2] /\ w[4] # <<>> /\ v[4] = Tail(w[4])
    <3>1. \/ /\ toServer[c] # <<>> /\ toServer' = [toServer EXCEPT ![c] = Tail(@)] /\ toClient' = toClient
          \/ /\ toClient[c] # <<>> /\ toClient' = [toClient EXCEPT ![c] = Tail(@)] /\ toServer' = toServer
      BY <1>12, Zenon DEF Split
    <3>2. CASE /\ toServer[c] # <<>> /\ toServer' = [toServer EXCEPT ![c] = Tail(@)] /\ toClient' = toClient
      BY <1>2, <1>4, <3>2, Zenon
    <3>3. CASE /\ toClient[c] # <<>> /\ toClient' = [toClient EXCEPT ![c] = Tail(@)] /\ toServer' = toServer
      BY <1>2, <1>4, <3>3, Zenon
    <3> QED
      BY <3>1, <3>2, <3>3, Zenon
  <2>3. CASE v[4] = w[4] /\ v[2] = w[2]
    BY <1>6, <2>1, <2>3, Zenon
  <2>4. CASE v[4] = w[4] /\ w[2] # <<>> /\ v[2] = Tail(w[2])
    <3>1. Dropped(w, v, 2)
      BY <1>5, <2>1, <2>4, SMTT(60) DEF Dropped, Stages
    <3> QED
      BY <1>1, <1>3, <1>5, <3>1, DroppedWay, SMTT(60)
  <2>5. CASE v[2] = w[2] /\ w[4] # <<>> /\ v[4] = Tail(w[4])
    <3>1. Dropped(w, v, 4)
      BY <1>5, <2>1, <2>5 DEF Dropped, Stages
    <3> QED
      BY <1>1, <1>3, <1>5, <3>1, DroppedWay
  <2> QED
    BY <2>2, <2>3, <2>4, <2>5, Zenon
<1> QED
  BY <1>7, <1>8, <1>9, <1>10, <1>11, <1>12, Zenon DEF ServerStep

-----------------------------------------------------------------------------
(* The invariant and what follows from it *)

(* A client has asked for nothing but to be connected, and nobody waits. *)
LEMMA InitInv == Init => IInv
<1> SUFFICES ASSUME Init PROVE IInv
  OBVIOUS
<1>1. TypeOK
  BY InitType, Zenon
<1>2. OneAnswerOwed
  <2> SUFFICES ASSUME NEW c \in Clients PROVE OwesOne(c)
    BY Zenon DEF OneAnswerOwed
  <2>1. AtApp(c) = {} /\ OnWayBack(c) = {} /\ InQueue(c) = {}
    BY DEF Init, AtApp, OnWayBack, InQueue
  <2>2. link[c].curState = "NONE"
    BY Zenon DEF Init
  <2> QED
    BY <2>1, <2>2, Zenon DEF OwesOne, AtMostOneIn, ServerWaits
<1>3. TimerInv /\ WaitingIsTimed
  BY Zenon DEF Init, ClientInit, TimerInv, WaitingIsTimed, Waits
<1>4. AgreementInv
  BY SMTT(60) DEF Init, ClientInit, AgreementInv, Connected
<1>5. SenderInv
  <2> SUFFICES ASSUME NEW c \in Clients
               PROVE  /\ \A i \in DOMAIN toServer[c] : toServer[c][i].from = c
                      /\ \A i \in DOMAIN client[c].wantsToSend :
                           client[c].wantsToSend[i] # NullMsg => client[c].wantsToSend[i].from = c
                      /\ client[c].msg # NullMsg => client[c].msg.from = c
    BY Zenon DEF SenderInv
  <2>1. toServer[c] = <<>> /\ client[c].wantsToSend = <<Connect(c)>> /\ client[c].msg = NullMsg
    BY Zenon DEF Init, ClientInit
  <2>2. Connect(c).from = c
    BY Zenon DEF Connect, Msg
  <2> QED
    BY <2>1, <2>2
<1>6. WayInv
  <2> SUFFICES ASSUME NEW s \in Clients, NEW r \in Clients
               PROVE  Ordered(s, Way(s, r)) /\ UpTo(s, asked[s], Way(s, r))
    BY Zenon DEF WayInv
  <2>1. /\ got[r] = <<>> /\ toClient[r] = <<>> /\ link[r].wantsToSend = <<>>
        /\ toServer[s] = <<>> /\ client[s].wantsToSend = <<Connect(s)>>
    BY Zenon DEF Init, ClientInit
  <2>2. ~Pub(s, Connect(s))
    BY Zenon DEF Pub, Connect, Msg
  <2> DEFINE w == Way(s, r)
  <2>3. \A k \in Stages : w[k] = <<>> \/ w[k] = <<Connect(s)>>
    BY <2>1, WayFields DEF Stages
  <2>4. \A k \in Stages : \A i \in DOMAIN w[k] : ~Pub(s, w[k][i])
    BY <2>2, <2>3
  <2> HIDE DEF w
  <2>5. Ordered(s, w) /\ UpTo(s, asked[s], w)
    BY <2>4, Zenon DEF Ordered, UpTo
  <2> QED
    BY <2>5, Zenon DEF w
<1> QED
  BY <1>1, <1>2, <1>3, <1>4, <1>5, <1>6, Zenon DEF IInv

LEMMA NextInv == IInv /\ [Next]_vars => IInv'
<1>1. ASSUME IInv, Next PROVE IInv'
  <2> USE <1>1
  <2>0. TypeOK /\ OneAnswerOwed /\ TimerInv /\ WaitingIsTimed /\ AgreementInv /\ SenderInv /\ WayInv
    BY Zenon DEF IInv
  <2>1. TypeOK'
    BY <2>0, NextType, Zenon
  <2>2. OneAnswerOwed'
    BY <2>0, NextOwes, Zenon DEF OneAnswerOwed
  <2>3. TimerInv'
    BY <2>0, NextTimer, Zenon DEF TimerInv, TimerOK
  <2>4. WaitingIsTimed'
    BY <2>0, NextWaits, Zenon DEF WaitingIsTimed, WaitsTimed, Disconnects
  <2>5. AgreementInv'
    BY <2>0, NextAgrees, Zenon DEF AgreementInv, Agrees, Believes, Acked
  <2>6. SenderInv'
    <3>1. \A d \in Clients : Sends(d)'
      BY <2>0, NextSends, Zenon
    <3>2. \A d \in Clients : \A i \in DOMAIN toServer'[d] : toServer'[d][i] # NullMsg
      <4> SUFFICES ASSUME NEW d \in Clients, NEW i \in DOMAIN toServer'[d] PROVE toServer'[d][i] # NullMsg
        BY Zenon
      <4>1. toServer'[d] \in Seq(Requested)
        BY <2>1, Zenon DEF TypeOK
      <4>2. toServer'[d][i] \in Requested
        BY <4>1
      <4> QED
        BY <4>2, MqttAssumption, Zenon DEF Requested
    <3> QED
      BY <3>1, <3>2, Zenon DEF SenderInv, Sends, From
  <2>7. WayInv'
    <3>1. \A s, r \in Clients : WayOK(s, r)'
      BY <2>0, ClientStepWay, ServerStepWay, Zenon DEF Next
    <3> QED
      BY <3>1, Zenon DEF WayInv, WayOK
  <2> QED
    BY <2>1, <2>2, <2>3, <2>4, <2>5, <2>6, <2>7, Zenon DEF IInv
<1>2. ASSUME IInv, UNCHANGED vars PROVE IInv'
  <2>1. /\ client' = client /\ link' = link /\ toServer' = toServer /\ toClient' = toClient
        /\ toApp' = toApp /\ fromApp' = fromApp /\ asked' = asked /\ got' = got
    BY <1>2, Zenon DEF vars, serverVars
  <2>2. TypeOK'
    BY <1>2, NextType, Zenon DEF IInv
  <2>3. OneAnswerOwed'
    BY <1>2, <2>1, ZenonT(60) DEF IInv, OneAnswerOwed, OwesOne, AtApp, OnWayBack, InQueue
  <2>4. TimerInv' /\ WaitingIsTimed'
    BY <1>2, <2>1, Zenon DEF IInv, TimerInv, WaitingIsTimed
  <2>5. AgreementInv' /\ SenderInv'
    BY <1>2, <2>1, Zenon DEF IInv, AgreementInv, SenderInv
  <2>6. WayInv'
    <3>1. \A s, r \in Clients : WayOK(s, r)
      BY <1>2, ZenonT(60) DEF IInv, WayInv, WayOK
    <3>2. ASSUME NEW s \in Clients, NEW r \in Clients PROVE WayOK(s, r)'
      <4>1. Way(s, r)' = Way(s, r)
        BY <2>1 DEF Way
      <4> QED
        BY <2>1, <3>1, <4>1, SMTT(60) DEF WayOK, Ordered, UpTo, Pub
    <3> QED
      BY <3>2, Zenon DEF WayInv, WayOK
  <2> QED
    BY <2>2, <2>3, <2>4, <2>5, <2>6, Zenon DEF IInv
<1> QED
  BY <1>1, <1>2, Zenon

(* The invariant holds in every reachable state, for any number of clients,
   repetitions, expiries and lost packets. *)
THEOREM Invariance == Spec => []IInv
BY InitInv, NextInv, PTL DEF Spec

(* A server's link that waits for its application owes exactly one answer, of
   the kind it waits for (MqttServerStateMachine::onRecv and onSend). *)
THEOREM AnswersOwed == Spec => []OneAnswerOwed
<1>1. IInv => OneAnswerOwed
  BY Zenon DEF IInv
<1> QED
  BY <1>1, Invariance, PTL

(* A client that believes itself connected is connected for the server
   (MqttClientStateMachine::onRecv of a CONNACK). *)
THEOREM Agreement == Spec => []SessionAgreement
<1>1. IInv => SessionAgreement
  BY Zenon DEF IInv, AgreementInv, SessionAgreement, Connected, Beyond
<1> QED
  BY <1>1, Invariance, PTL

(* A subscriber gets a publication at most once, and those of one publisher in
   the order they were published (MqttServerTask::protocolLogic), whatever is
   repeated. *)
THEOREM InOrder == Spec => []PublishedOnceInOrder
<1>1. IInv => PublishedOnceInOrder
  <2> SUFFICES ASSUME IInv, NEW c \in Clients, NEW i \in DOMAIN got[c], NEW j \in DOMAIN got[c], i < j,
                      got[c][i].name = "PUBLISH", got[c][j].name = "PUBLISH", got[c][i].from = got[c][j].from
               PROVE  got[c][i].id < got[c][j].id
    BY Zenon DEF PublishedOnceInOrder
  <2> DEFINE s == got[c][i].from
  <2>1. got[c][i] \in Messages /\ got[c][j] \in Messages /\ s \in Clients
    <3>1. got[c] \in Seq(Downs)
      BY LinkFields, Zenon DEF IInv
    <3>2. got[c][i] \in Downs /\ got[c][j] \in Downs
      BY <3>1
    <3> QED
      BY <3>2, Zenon DEF Downs, Messages
  <2>2. Pub(s, got[c][i]) /\ Pub(s, got[c][j])
    BY <2>1, MqttAssumption, ZenonT(60) DEF Pub
  <2>3. Ordered(s, Way(s, c)) /\ Way(s, c)[1] = got[c] /\ 1 \in Stages
    BY <2>1, WayFields DEF IInv, WayInv, Stages
  <2> HIDE DEF s
  <2> QED
    BY <2>2, <2>3, Zenon DEF Ordered
<1> QED
  BY <1>1, Invariance, PTL

(* A client that waits for an acknowledgement has a running resend timer, or
   its DISCONNECT is queued again (MqttClientStateMachine::onSend, onTimeOut). *)
THEOREM NoEndlessWait == Spec => []WaitingIsTimed
<1>1. IInv => WaitingIsTimed
  BY Zenon DEF IInv
<1> QED
  BY <1>1, Invariance, PTL

=============================================================================
