----------------------------- MODULE SipMessage ------------------------------
(***************************************************************************)
(* What the SIP adaptor does to the headers of a message: the checks on    *)
(* what the stack hands up (checkSipMessage) and the routing of what it    *)
(* hands down (sendSipMessage).  A host stands for host, port and          *)
(* transport together; a message keeps the headers these two functions     *)
(* read: Max-Forwards, the Vias, the Routes, the request URI and the       *)
(* target forced on the stack.                                             *)
(***************************************************************************)
EXTENDS Integers, Sequences

CONSTANTS Hosts,
          Mine,       \* the bound addresses, mBinds
          NoTarget,   \* no target has been forced
          Rehosted,   \* of a route's host and a URI's: the route's, over the URI's transport if it names none
          DNSCache    \* mDNSCache: host names to the hosts they stand for

ASSUME HostsAssumption ==
  /\ NoTarget \notin Hosts /\ Rehosted \in [Hosts -> [Hosts -> Hosts]]
  /\ \A h \in DOMAIN DNSCache : DNSCache[h] \in Hosts

MaxForwards == 70

Creating == {"REGISTER", "OPTIONS", "INVITE"}     \* INVITE for all other requests that open a dialog
InDialogOnly == {"BYE", "CANCEL"}                 \* BYE for ACK, INFO, PRACK, UPDATE and unknown methods

SipMessages ==
  [request : BOOLEAN, method : Creating \cup InDialogOnly, hasHops : BOOLEAN, hops : Nat,
   vias : Seq(Hosts), routes : Seq([host : Hosts, lr : BOOLEAN]), uri : Hosts,
   target : Hosts \cup {NoTarget}]

TransExist(h) == h \in Mine

(* A missing Max-Forwards is 0 here: the header is created when it is read. *)
HopsChecked(m) == IF ~m.hasHops \/ m.hops > MaxForwards THEN MaxForwards ELSE m.hops

(* The answers checkSipMessage makes itself. *)
Replies(m) ==
  IF ~m.request THEN <<>>
  ELSE IF HopsChecked(m) <= 1 THEN <<483>>
  ELSE IF TransExist(Head(m.vias)) THEN <<482>>
  ELSE IF m.method = "CANCEL" THEN <<200>> ELSE <<>>

CheckSipMessage(m) ==
  IF m.request THEN HopsChecked(m) > 1 /\ ~TransExist(Head(m.vias))
               ELSE TransExist(Head(m.vias))

(* The message as checkSipMessage leaves it. *)
Checked(m) == IF m.request THEN [m EXCEPT !.hops = HopsChecked(m), !.hasHops = TRUE] ELSE m

(* Slip: the route of a second bound address is left in place. *)
OwnRoutesDroppedOnce(routes) ==
  IF routes # <<>> /\ TransExist(Head(routes).host) THEN Tail(routes) ELSE routes

(* The top Route is dropped when it names this host, and so is the one below it. *)
OwnRoutesDropped(routes) ==
  LET Mines(i) == i <= Len(routes) /\ TransExist(routes[i].host)
  IN IF Mines(1) THEN IF Mines(2) THEN Tail(Tail(routes)) ELSE Tail(routes) ELSE routes

(* A next hop that is no loose router takes the place of the request URI, whose
   transport stays if the route names none. *)
StrictRouted(m) ==
  IF m.routes # <<>> /\ ~Head(m.routes).lr
    THEN [m EXCEPT !.uri = Rehosted[Head(m.routes).host][@], !.routes = Tail(m.routes)] ELSE m

Targeted(m) ==
  IF m.target # NoTarget THEN m
  ELSE IF m.routes = <<>> THEN [m EXCEPT !.target = m.uri]
  ELSE [m EXCEPT !.target = Head(m.routes).host,
                 !.routes = IF m.method = "CANCEL" THEN <<>> ELSE @]

Resolved(m) == IF m.target \in DOMAIN DNSCache THEN [m EXCEPT !.target = DNSCache[@]] ELSE m

(* Slip: a request handed straight back to the stack keeps its hop count. *)
HopKept(m) == [m EXCEPT !.hasHops = TRUE]

HopTaken(m) == [m EXCEPT !.hasHops = TRUE, !.hops = IF m.hasHops /\ @ > 0 THEN @ - 1 ELSE 0]

SendRequest(m) ==
  HopTaken(Resolved(Targeted(StrictRouted([m EXCEPT !.routes = OwnRoutesDropped(@)]))))

(* What goes to the stack: nothing, when a response has no Via left to follow. *)
SendSipMessage(m) ==
  IF m.request THEN <<SendRequest(m)>>
  ELSE LET vias == IF m.vias # <<>> /\ TransExist(Head(m.vias)) THEN Tail(m.vias) ELSE m.vias
       IN IF vias = <<>> THEN <<>> ELSE <<[m EXCEPT !.vias = vias]>>
=============================================================================
