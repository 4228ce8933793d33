------------------------------ MODULE RscWire --------------------------------
(***************************************************************************)
(* The RSC adaptor, TPsaRscTask, over the UDP transport, TUDPTrasnport: on *)
(* every node the adaptor's task and the transport's thread, joined by two *)
(* queues, and between the nodes a network that loses, damages, duplicates *)
(* and reorders datagrams.                                                 *)
(*                                                                         *)
(* What a task sends goes to mFifo as it is; what a datagram brings passes *)
(* the transaction layer as a request that wants no answer, because only   *)
(* cseq, transid and body are on the wire (Recv).  Such a state is         *)
(* TERMINATED at once and lives m_living_time, 172800 s: it outlives the   *)
(* behaviours modelled here (its expiry is in TransMachine).               *)
(***************************************************************************)
EXTENDS Integers, SequencesExt

CONSTANTS Nodes,
          Msgs,          \* what the tasks send: from, to, link, net, at, tid, answers
          BindList,      \* mBindList of each node: id and first octet (its digits), in the order of the ids
          NoLink,        \* host.password is empty
          NoNet,         \* the destination is a name the DNS cache does not hold
          NoDest,        \* host.domain is empty
          NoMsg,
          FifoBatch,     \* 20 in TTransport::process
          RecvBatch,     \* 10 in TUDPTrasnport::Recv
          MaxFaults      \* bound: losses, damages and duplications

(* A node has a bind, and std::map keeps them in the order of their ids, which
   are positive (onInit). *)
ASSUME BindListAssumption ==
  \A n \in Nodes :
    /\ Len(BindList[n]) \in Nat \ {0}
    /\ \A i \in 1..Len(BindList[n]) : BindList[n][i].id \in Nat \ {0}
    /\ \A i, j \in 1..Len(BindList[n]) : i < j => BindList[n][i].id < BindList[n][j].id

Binds(n) == {BindList[n][i].id : i \in 1..Len(BindList[n])}
FirstBind(n) == BindList[n][1].id

(* Messages travel between nodes; a link id is that of a bind, or no id. *)
ASSUME MsgsAssumption ==
  \A m \in Msgs :
    /\ m.from \in Nodes /\ m.to \in Nodes /\ m.at \in Binds(m.to)
    /\ m.link = NoLink \/ (m.link \in Int /\ (m.link > 0 => m.link \in Binds(m.from)))

ASSUME BatchAssumption == FifoBatch \in Nat \ {0} /\ RecvBatch \in Nat \ {0}

(* setTransId digests the sender's address and name, the type and the cseq, and
   an answer keeps its request's id.  So the ids a node receives are distinct as
   long as every sender counts mCSeq on: it starts at 0, and an adaptor started
   again within m_living_time, or a second one on the same host, repeats ids. *)
ASSUME TransidsAssumption ==
  \A m1, m2 \in Msgs : m1.to = m2.to /\ m1.tid = m2.tid => m1 = m2

VARIABLES queue,      \* the adaptor task's queue: messages of tasks and of the transport
          fifo,       \* TTransport::mFifo
          buffer,     \* of each bind, TBind::mSendBuffer
          pc,         \* which half of its pass TTransportThread::process does next
          socket,     \* of each bind, the datagrams the system holds for it
          net,        \* datagrams in flight
          seen,       \* transids in mTSState
          faults,
          submitted,  \* history: of each node, what its tasks have sent, in order
          sent,       \* history: of each bind, the messages given to sendCode, in order
          lost,       \* history: messages of which a datagram was lost or damaged
          delivered   \* history: of each node, how often a message reached its default task

taskVars == <<queue, seen, submitted, delivered>>
threadVars == <<buffer, pc, sent>>
netVars == <<socket, net, faults, lost>>
vars == <<taskVars, fifo, threadVars, netVars>>

(* The members of a sequence that are in a set, in their order. *)
Kept(s, keep) ==
  LET kept[i \in 0..Len(s)] ==
        IF i = 0 THEN <<>> ELSE IF s[i] \in keep THEN Append(kept[i - 1], s[i]) ELSE kept[i - 1]
  IN kept[Len(s)]

Messages(s) == [i \in DOMAIN s |-> s[i].msg]

(* What travels inside a node: a message of a task, or the provisional response
   of the transaction layer, which has no body. *)
Carriers == [msg : Msgs, body : BOOLEAN, facility : Int]
Whole == [msg : Msgs, body : {TRUE}, facility : Int]
Carrier(m, b) == [msg |-> m, body |-> TRUE, facility |-> b]
Tmp(m, b) == [msg |-> m, body |-> FALSE, facility |-> b]

(* transExist: the first bind whose address begins with the digits of the
   destination's first octet (10 and 192 both do with those of 1), or the first. *)
TransExist(n, p) ==
  LET near == {i \in 1..Len(BindList[n]) : p # NoNet /\ IsPrefix(p, BindList[n][i].octet)}
  IN IF near # {} THEN BindList[n][Min(near)].id ELSE FirstBind(n)

Facility(m) == IF m.link # NoLink THEN m.link ELSE TransExist(m.from, m.net)

IsSubmitted(m) == m \in ToSet(submitted[m.from])

(* A task sends; an answer follows its request. *)
Submit(m) ==
  /\ ~IsSubmitted(m)
  /\ m.answers # NoMsg => \E q \in Msgs : q.id = m.answers /\ delivered[m.from][q] > 0
  /\ submitted' = [submitted EXCEPT ![m.from] = Append(@, m)]
  /\ queue' = [queue EXCEPT ![m.from] = Append(@, [from |-> "task", msg |-> m, bind |-> 0])]
  /\ UNCHANGED <<seen, delivered, fifo, threadVars, netVars>>

(* procMsg, a message of a task. *)
FromTask(n) ==
  /\ queue[n] # <<>> /\ Head(queue[n]).from = "task"
  /\ LET m == Head(queue[n]).msg
     IN fifo' = [fifo EXCEPT ![n] =
          IF m.link = NoLink /\ m.net = NoDest THEN @ ELSE Append(@, Carrier(m, Facility(m)))]
  /\ queue' = [queue EXCEPT ![n] = Tail(@)]
  /\ UNCHANGED <<seen, submitted, delivered, threadVars, netVars>>

(* Slip: a transid is not looked up. *)
FromWireUnchecked(n) ==
  /\ queue[n] # <<>> /\ Head(queue[n]).from = "wire"
  /\ LET m == Head(queue[n]).msg
     IN /\ fifo' = [fifo EXCEPT ![n] = Append(@, Tmp(m, Head(queue[n]).bind))]
        /\ seen' = [seen EXCEPT ![n] = @ \cup {m.tid}]
        /\ delivered' = [delivered EXCEPT ![n][m] = @ + 1]
  /\ queue' = [queue EXCEPT ![n] = Tail(@)]
  /\ UNCHANGED <<submitted, threadVars, netVars>>

(* procMsg, a message of the transport: processTM(TRUE, ...) refuses a transid
   it knows and forwards a new one to the default task, with a provisional
   response to the transport in either case. *)
FromWire(n) ==
  /\ queue[n] # <<>> /\ Head(queue[n]).from = "wire"
  /\ LET m == Head(queue[n]).msg
     IN /\ fifo' = [fifo EXCEPT ![n] = Append(@, Tmp(m, Head(queue[n]).bind))]
        /\ seen' = [seen EXCEPT ![n] = @ \cup {m.tid}]
        /\ delivered' = IF m.tid \in seen[n] THEN delivered ELSE [delivered EXCEPT ![n][m] = @ + 1]
  /\ queue' = [queue EXCEPT ![n] = Tail(@)]
  /\ UNCHANGED <<submitted, threadVars, netVars>>

-----------------------------------------------------------------------------
(* The transport's thread: in turn a poll (select, and what onCheckFDSet does
   for the binds that are ready, in the order of their ids) and up to FifoBatch
   messages of mFifo.  Only this thread touches sockets and send buffers, and
   the other side of each queue only appends to it or only takes from it, so
   each half of a pass is one step. *)

(* How many datagrams Recv takes: it stops after RecvBatch good ones. *)
RecvCount(s) ==
  LET Good(i) == Cardinality({j \in 1..i : s[j].whole})
      full == {i \in DOMAIN s : Good(i) = RecvBatch}
  IN IF full = {} THEN Len(s) ELSE Min(full)

(* Recv: the good datagrams go to the adaptor's task. *)
Received(n, b) ==
  LET good == Kept(SubSeq(socket[n][b], 1, RecvCount(socket[n][b])), [msg : Msgs, whole : {TRUE}])
  IN [i \in DOMAIN good |-> [from |-> "wire", msg |-> good[i].msg, bind |-> b]]

(* The adaptor's queue after Recv of every bind, in the order of their ids. *)
Gathered(n) ==
  LET q[i \in 0..Len(BindList[n])] ==
        IF i = 0 THEN queue[n] ELSE q[i - 1] \o Received(n, BindList[n][i].id)
  IN q[Len(BindList[n])]

(* Slip: the buffer is emptied from its young end. *)
SendBackwards(n, b) == Reverse(Messages(Kept(buffer[n][b], Whole)))

(* Send: the whole buffer, of which messages without a body are deleted. *)
Send(n, b) == Messages(Kept(buffer[n][b], Whole))

(* Slip: the set is built for reading only. *)
PollReaders(n, writable) ==
  /\ pc[n] = "poll"
  /\ queue' = [queue EXCEPT ![n] = Gathered(n)]
  /\ socket' = [socket EXCEPT ![n] =
       [b \in Binds(n) |-> SubSeq(@[b], RecvCount(@[b]) + 1, Len(@[b]))]]
  /\ pc' = [pc EXCEPT ![n] = "drain"]
  /\ UNCHANGED <<buffer, sent, net, seen, submitted, delivered, fifo, faults, lost>>

Poll(n, writable) ==
  /\ pc[n] = "poll"
  /\ queue' = [queue EXCEPT ![n] = Gathered(n)]
  /\ socket' = [socket EXCEPT ![n] =
       [b \in Binds(n) |-> SubSeq(@[b], RecvCount(@[b]) + 1, Len(@[b]))]]
  /\ buffer' = [buffer EXCEPT ![n] = [b \in Binds(n) |-> IF b \in writable THEN <<>> ELSE @[b]]]
  /\ sent' = [sent EXCEPT ![n] = [b \in Binds(n) |-> IF b \in writable THEN @[b] \o Send(n, b) ELSE @[b]]]
  /\ net' = net \cup UNION {ToSet(Send(n, b)) : b \in writable}
  /\ pc' = [pc EXCEPT ![n] = "drain"]
  /\ UNCHANGED <<seen, submitted, delivered, fifo, faults, lost>>

(* onRecvSendMsg: the bind of a message. *)
BindOf(n, c) == IF c.facility > 0 THEN c.facility ELSE FirstBind(n)

Over(n, b) == {c \in Carriers : BindOf(n, c) = b}

(* process *)
Drain(n) ==
  /\ pc[n] = "drain"
  /\ LET k == Min({FifoBatch, Len(fifo[n])})
         batch == SubSeq(fifo[n], 1, k)
     IN /\ buffer' = [buffer EXCEPT ![n] =
             [b \in Binds(n) |-> @[b] \o Kept(batch, Over(n, b))]]
        /\ fifo' = [fifo EXCEPT ![n] = SubSeq(@, k + 1, Len(@))]
  /\ pc' = [pc EXCEPT ![n] = "poll"]
  /\ UNCHANGED <<taskVars, sent, netVars>>

-----------------------------------------------------------------------------
(* UDP. *)
Arrive(m, whole, kept) ==
  /\ m \in net
  /\ (~whole \/ kept) => faults < MaxFaults
  /\ faults' = IF ~whole \/ kept THEN faults + 1 ELSE faults
  /\ net' = IF kept THEN net ELSE net \ {m}
  /\ socket' = [socket EXCEPT ![m.to][m.at] = Append(@, [msg |-> m, whole |-> whole])]
  /\ lost' = IF whole THEN lost ELSE lost \cup {m}
  /\ UNCHANGED <<taskVars, fifo, threadVars>>

(* In the network, or in sendCode, whose error is only counted. *)
Lose(m) ==
  /\ m \in net /\ faults < MaxFaults
  /\ faults' = faults + 1
  /\ net' = net \ {m} /\ lost' = lost \cup {m}
  /\ UNCHANGED <<taskVars, fifo, threadVars, socket>>

Init ==
  /\ queue = [n \in Nodes |-> <<>>] /\ fifo = [n \in Nodes |-> <<>>]
  /\ buffer = [n \in Nodes |-> [b \in Binds(n) |-> <<>>]]
  /\ socket = [n \in Nodes |-> [b \in Binds(n) |-> <<>>]]
  /\ sent = [n \in Nodes |-> [b \in Binds(n) |-> <<>>]]
  /\ pc = [n \in Nodes |-> "poll"]
  /\ net = {} /\ faults = 0 /\ lost = {}
  /\ seen = [n \in Nodes |-> {}]
  /\ submitted = [n \in Nodes |-> <<>>] /\ delivered = [n \in Nodes |-> [m \in Msgs |-> 0]]

Thread(n) == Drain(n) \/ \E writable \in SUBSET Binds(n) : Poll(n, writable)
Arrives(m) == \E whole, kept \in BOOLEAN : Arrive(m, whole, kept)

Next ==
  \/ \E m \in Msgs : Submit(m) \/ Arrives(m) \/ Lose(m)
  \/ \E n \in Nodes : FromTask(n) \/ FromWire(n) \/ Thread(n)

(* The adaptor's container and the transport's thread run; every bind is
   writable again and again; a datagram that is not lost arrives. *)
Fairness ==
  /\ \A n \in Nodes :
       /\ WF_vars(FromTask(n) \/ FromWire(n)) /\ WF_vars(Thread(n))
       /\ \A b \in Binds(n) : SF_vars(\E writable \in SUBSET Binds(n) : b \in writable /\ Poll(n, writable))
  /\ \A m \in Msgs : WF_vars(Arrive(m, TRUE, FALSE))

Spec == Init /\ [][Next]_vars /\ Fairness

-----------------------------------------------------------------------------
Routed(m) == m.link # NoLink \/ m.net # NoDest
FromTasks == [from : {"task"}, msg : Msgs, bind : Int]
For(n, b) == {m \in Msgs : Routed(m) /\ BindOf(n, Carrier(m, Facility(m))) = b}

(* What tasks send over one bind leaves it in their order, each message once
   and none forgotten, whatever the batches, the acknowledgements between them
   and the two threads do: what was sent, what waits in mSendBuffer, in mFifo
   and in the task's queue are together what was submitted (procMsg, process,
   Send). *)
InOrderOverOneBind ==
  \A n \in Nodes : \A b \in Binds(n) :
    sent[n][b] \o Messages(Kept(buffer[n][b], Whole))
               \o Messages(Kept(fifo[n], Whole \cap Over(n, b)))
               \o Kept(Messages(Kept(queue[n], FromTasks)), For(n, b))
      = Kept(submitted[n], For(n, b))

(* The network may duplicate: a message still reaches the default task of a
   node at most once, and an answer that bears the transid of its
   request is not taken for a repetition of it (processTM). *)
AtMostOnce == \A n \in Nodes, m \in Msgs : delivered[n][m] <= 1

(* A message with a destination reaches the other node's default task unless a
   datagram of it was lost or damaged: no queue, buffer or batch limit keeps
   it for ever, on either bind (the loops of process and Recv). *)
ArrivesUnlessLost ==
  \A m \in Msgs : IsSubmitted(m) /\ Routed(m) ~> delivered[m.to][m] > 0 \/ m \in lost
=============================================================================
