--------------------------- MODULE MCMqttSession ----------------------------
(* A publisher and a client that does everything, with one topic. *)
EXTENDS MqttSession, TLC

CONSTANTS pub, sub, t

Req(n) == [name |-> n, topics |-> IF n = "DISCONNECT" THEN {} ELSE {t}]

MCRequests == (pub :> {Req("PUBLISH")})
                @@ (sub :> {Req(n) : n \in {"PUBLISH", "SUBSCRIBE", "UNSUBSCRIBE", "DISCONNECT"}})
MCMaxAsk == (pub :> 2) @@ (sub :> 2)
MCMaxResend == (pub :> 0) @@ (sub :> 1)
MCMaxIdle == (pub :> 0) @@ (sub :> 1)
=============================================================================
