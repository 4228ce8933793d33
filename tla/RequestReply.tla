---------------------------- MODULE RequestReply ----------------------------
(***************************************************************************)
(* What the transaction layer promises its two applications: a request is  *)
(* executed at most once for as long as the responder remembers it, its    *)
(* first execution is answered once, and the requester is told one         *)
(* outcome: an answer that was given, or a timeout.                        *)
(* No network, no timers, no copies: TransMachine implements this module.  *)
(***************************************************************************)
EXTENDS Naturals

CONSTANTS Trans, Answers, None, Timeout408

VARIABLES asked,      \* requests made
          executed,   \* how often each request was handed to the responder's application
          forgotten,  \* how often the responder forgot a request it had executed
          answers,    \* answers given
          outcome     \* what the requester was told

rrVars == <<asked, executed, forgotten, answers, outcome>>

Init ==
  /\ asked = {}
  /\ executed = [t \in Trans |-> 0]
  /\ forgotten = [t \in Trans |-> 0]
  /\ answers = [t \in Trans |-> {}]
  /\ outcome = [t \in Trans |-> None]

Ask(t) ==
  /\ t \notin asked
  /\ asked' = asked \cup {t}
  /\ UNCHANGED <<executed, forgotten, answers, outcome>>

Execute(t) ==
  /\ t \in asked
  /\ executed[t] = forgotten[t]
  /\ executed' = [executed EXCEPT ![t] = @ + 1]
  /\ UNCHANGED <<asked, forgotten, answers, outcome>>

Answer(t, v) ==
  /\ executed[t] > forgotten[t]
  /\ forgotten[t] = 0 => answers[t] = {}
  /\ answers' = [answers EXCEPT ![t] = @ \cup {v}]
  /\ UNCHANGED <<asked, executed, forgotten, outcome>>

Report(t, v) ==
  /\ outcome[t] = None
  /\ v \in answers[t]
  /\ outcome' = [outcome EXCEPT ![t] = v]
  /\ UNCHANGED <<asked, executed, forgotten, answers>>

GiveUp(U) ==
  /\ \A t \in U : t \in asked /\ outcome[t] = None
  /\ outcome' = [t \in Trans |-> IF t \in U THEN Timeout408 ELSE outcome[t]]
  /\ UNCHANGED <<asked, executed, forgotten, answers>>

Forget(E) ==
  /\ \A t \in E : executed[t] > forgotten[t]
  /\ forgotten' = [t \in Trans |-> forgotten[t] + IF t \in E THEN 1 ELSE 0]
  /\ UNCHANGED <<asked, executed, answers, outcome>>

Next ==
  \/ \E t \in Trans : Ask(t) \/ Execute(t)
  \/ \E t \in Trans, v \in Answers : Answer(t, v) \/ Report(t, v)
  \/ \E U \in SUBSET Trans : GiveUp(U) \/ Forget(U)

Spec == Init /\ [][Next]_rrVars
=============================================================================
