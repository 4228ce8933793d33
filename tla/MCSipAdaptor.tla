---------------------------- MODULE MCSipAdaptor -----------------------------
(* Instances of SipAdaptor: a call with two names, and the messages that take
   each branch of the checks and of the routing. *)
EXTENDS SipAdaptor, TLC

CONSTANTS a1, a2, call, callee, me, me2, proxy, strict, strictTcp, phone, named

MCPeer(d) == IF d = call THEN callee ELSE call
MCHosts == {me, me2, proxy, strict, strictTcp, phone, named}

(* The route to strict names no transport, the URI of the phone does. *)
MCRehosted ==
  [r \in MCHosts |-> [u \in MCHosts |-> IF r = strict /\ u = phone THEN strictTcp ELSE r]]
MCDNSCache == [h \in {named} |-> phone]

Base == [request |-> TRUE, method |-> "INVITE", hasHops |-> TRUE, hops |-> 70,
         vias |-> <<phone>>, routes |-> <<>>, uri |-> phone, target |-> NoTarget]
Loose(h) == [host |-> h, lr |-> TRUE]
Strict(h) == [host |-> h, lr |-> FALSE]
Response == [Base EXCEPT !.request = FALSE, !.vias = <<me, phone>>, !.target = phone]
Bye == [Base EXCEPT !.method = "BYE"]

MCWireMsgs ==
  {[Base EXCEPT !.method = "REGISTER"], [Base EXCEPT !.method = "OPTIONS"], Base,
   [Base EXCEPT !.hops = 1], [Base EXCEPT !.vias = <<me>>],
   [Bye EXCEPT !.hops = 2, !.routes = <<Loose(me), Loose(me2), Loose(proxy)>>],
   [Bye EXCEPT !.hasHops = FALSE, !.hops = 0, !.routes = <<Loose(me), Strict(strict)>>],
   [Bye EXCEPT !.method = "CANCEL", !.hops = 71, !.routes = <<Loose(proxy)>>],
   [Bye EXCEPT !.uri = me],
   Response, [Response EXCEPT !.vias = <<phone>>], [Response EXCEPT !.vias = <<me>>]}

MCAppMsgs ==
  {[Base EXCEPT !.uri = named], [Bye EXCEPT !.target = proxy],
   [Response EXCEPT !.vias = <<phone>>]}

MCDbRows == {{}, {[name |-> "call", value |-> 1]}}

(* The tasks are alike, and so are the two names of the call. *)
Symmetry == Permutations({a1, a2}) \cup Permutations({call, callee})
============================================================================
