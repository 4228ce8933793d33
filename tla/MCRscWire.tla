----------------------------- MODULE MCRscWire -------------------------------
(* Two nodes.  The tasks of the first, which has two binds, send two messages
   over the second bind, one chosen by its link id, the other because the bind's
   address begins with 20 and the destination's with 2; the first of them is
   answered. *)
EXTENDS RscWire

CONSTANTS a, b, t1, t2

Bind(i, p) == [id |-> i, octet |-> p]
MCBindList == [n \in {a, b} |-> IF n = a THEN <<Bind(1, <<1, 0>>), Bind(2, <<2, 0>>)>>
                                         ELSE <<Bind(1, <<3, 0>>)>>]

Ask(i, l, p, t) == [id |-> i, from |-> a, to |-> b, link |-> l, net |-> p, at |-> 1, tid |-> t, answers |-> NoMsg]
Answer(i, q, t) == [id |-> i, from |-> b, to |-> a, link |-> NoLink, net |-> NoNet, at |-> 2, tid |-> t, answers |-> q]

MCMsgs == {Ask(1, 2, <<3, 0>>, t1), Ask(2, NoLink, <<2>>, t2), Answer(3, 1, t1)}
============================================================================
