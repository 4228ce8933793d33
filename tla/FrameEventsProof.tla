-------------------------- MODULE FrameEventsProof --------------------------
(***************************************************************************)
(* The safety properties of FrameEvents, for any clients, containers,      *)
(* tasks and commands.                                                     *)
(***************************************************************************)
EXTENDS FrameEvents, SequenceTheorems, TLAPS

-----------------------------------------------------------------------------
(* The inductive invariant *)

Cmds == [client : Clients, kind : Kinds, task : Nat, inst : Nat]

(* A request of the manager has status 0; the kernel answers as instance 0, a
   container as itself. *)
Events ==
  {e \in [trans : Nat, task : Nat, inst : Containers \cup {0}, status : 0..2] :
     /\ e.status = 0 <=> e.task = 0
     /\ e.status = 0 => e.inst = 0
     /\ e.inst > 0 => e.status = 1}

TypeOK ==
  /\ pc \in {"start", "get", "recv"}
  /\ sock \in Seq(Cmds) /\ asked \in Seq(Cmds \cup {INIT}) /\ peer \in Clients \cup {None}
  /\ mng \in Seq(Events) /\ mFifo \in Seq(Nat) /\ rx \in [Containers -> Seq(Nat)]
  /\ todo \in [Containers -> SUBSET Events] /\ \A c \in Containers : \A e \in todo[c] : e.inst = c
  /\ answers \in Seq([event : Events, to : Clients \cup {None}])

(* INIT is asked first and only once, and the manager remembers who asked last. *)
AskedInv ==
  IF pc = "start"
  THEN peer = None /\ asked = <<>> /\ mng = <<>> /\ mFifo = <<>> /\ answers = <<>>
       /\ \A c \in Containers : rx[c] = <<>> /\ todo[c] = {}
  ELSE /\ asked # <<>> /\ asked[1] = INIT /\ peer = asked[Len(asked)].client
       /\ \A n \in 2..Len(asked) : asked[n] \in Cmds

(* The answers that have left, and the queues as sets.  The kernel is sender 0
   and has no queue of its own. *)
Sent == [i \in DOMAIN answers |-> answers[i].event]
Queue(c) == IF c \in Containers THEN Range(rx[c]) ELSE {}
Todo(c) == IF c \in Containers THEN todo[c] ELSE {}
From(c, e) == e.status > 0 /\ e.inst = c

Rising(q) == \A i, j \in DOMAIN q : i < j => q[i] < q[j]
AsksRise(q) == \A i, j \in DOMAIN q : i < j /\ q[i].status = 0 /\ q[j].status = 0 => q[i].trans < q[j].trans
AnswersRise(c, q) == \A i, j \in DOMAIN q : i < j /\ From(c, q[i]) /\ From(c, q[j]) => q[i].trans <= q[j].trans

(* A command that the kernel has handled is older than those it has not. *)
Past(n) ==
  /\ n \in DOMAIN asked
  /\ \A p \in Range(mFifo) : n < p
  /\ \A e \in Range(mng) : e.status = 0 => n < e.trans

(* Commands do not overtake each other on the way to the kernel ... *)
OrderInv ==
  /\ \A p \in Range(mFifo) : p \in DOMAIN asked /\ \A e \in Range(mng) : e.status = 0 => p < e.trans
  /\ \A e \in Range(mng) \cup Range(Sent) : e.status = 0 => e.trans \in DOMAIN asked
  /\ \A e \in Range(Sent), f \in Range(mng) : e.status = 0 /\ f.status = 0 => e.trans < f.trans
  /\ AsksRise(mng) /\ AsksRise(Sent) /\ Rising(mFifo)

(* ... nor on the way to a container, nor its answers on the way back. *)
SenderInv(c) ==
  /\ \A n \in Queue(c) : Past(n)
  /\ \A e \in Todo(c) : /\ Past(e.trans)
                        /\ \A n \in Queue(c) : e.trans < n
                        /\ \A f \in Todo(c) : e.trans = f.trans
  /\ \A e \in Range(mng) \cup Range(Sent) :
       From(c, e) => /\ Past(e.trans)
                     /\ \A n \in Queue(c) : e.trans < n
                     /\ \A f \in Todo(c) : e.trans <= f.trans
  /\ \A e \in Range(Sent), f \in Range(mng) : From(c, e) /\ From(c, f) => e.trans <= f.trans
  /\ c \in Containers => Rising(rx[c])
  /\ AnswersRise(c, mng) /\ AnswersRise(c, Sent)

(* A container's answer is in one place. *)
Single(q) == \A i, j \in DOMAIN q : i # j /\ q[i].inst > 0 => q[i] # q[j]
OnceInv ==
  /\ Single(mng) /\ Single(Sent)
  /\ \A e \in Range(mng) : e.inst > 0 => e \notin Range(Sent)
  /\ \A c \in Containers : \A e \in todo[c] : e \notin Range(mng) /\ e \notin Range(Sent)

(* It was asked for. *)
AskedFor(e) ==
  LET x == asked[e.trans]
  IN e.inst > 0 => IF x.kind = "set" THEN x.inst \in {0, e.inst} ELSE Asks(x, e.task, e.inst)
AskedForInv ==
  /\ \A c \in Containers : \A n \in Range(rx[c]) : asked[n].inst \in {0, c}
  /\ \A c \in Containers : \A e \in todo[c] : AskedFor(e)
  /\ \A e \in Range(mng) \cup Range(Sent) : AskedFor(e)

(* And whatever was asked for is somewhere. *)
Said(S, n, task, inst) == \E e \in S : e.trans = n /\ e.task = task /\ e.inst = inst
Passed(n) ==
  LET x == asked[n]
  IN IF x.kind = "sclist" THEN Said(Range(Sent), n, 0, 0)
     ELSE /\ Local(x) => Said(Range(mng) \cup Range(Sent), n, FRAMECONTROL, 0)
          /\ \A t \in Tasks : \A c \in Range(Hosts[t]) :
               Asks(x, t, c) =>
                 \/ n \in Range(rx[c])
                 \/ Said(todo[c] \cup Range(mng) \cup Range(Sent), n,
                         IF x.kind = "set" THEN TASKCONTAINER ELSE t, c)
Located(n) ==
  n \in Range(mFifo) \/ (\E e \in Range(mng) : e.status = 0 /\ e.trans = n) \/ Passed(n)
CompleteInv ==
  /\ \A n \in Range(mFifo) : asked[n].kind # "sclist"
  /\ \A n \in DOMAIN asked : Located(n)

IInv ==
  /\ TypeOK /\ AskedInv /\ OrderInv /\ (\A c \in Containers \cup {0} : SenderInv(c))
  /\ OnceInv /\ AskedForInv /\ CompleteInv /\ AnswerNotToEarlierClient

-----------------------------------------------------------------------------
(* Queues *)

LEMMA Appended ==
  ASSUME NEW S, NEW q \in Seq(S), NEW x \in S
  PROVE  /\ Append(q, x) \in Seq(S) /\ DOMAIN Append(q, x) = 1..Len(q) + 1 /\ DOMAIN q = 1..Len(q)
         /\ Len(q) \in Nat /\ Len(Append(q, x)) = Len(q) + 1
         /\ \A i \in DOMAIN q : Append(q, x)[i] = q[i]
         /\ Append(q, x)[Len(q) + 1] = x
OBVIOUS

LEMMA Shortened ==
  ASSUME NEW S, NEW q \in Seq(S), q # <<>>
  PROVE  /\ Tail(q) \in Seq(S) /\ Head(q) \in S /\ Head(q) = q[1] /\ 1 \in DOMAIN q
         /\ DOMAIN q = 1..Len(q) /\ Len(q) \in Nat \ {0}
         /\ DOMAIN Tail(q) = 1..Len(q) - 1
         /\ \A i \in DOMAIN Tail(q) : Tail(q)[i] = q[i + 1] /\ i + 1 \in DOMAIN q
OBVIOUS

LEMMA Ranges ==
  ASSUME NEW S, NEW q \in Seq(S)
  PROVE  /\ Range(q) \subseteq S
         /\ \A x \in S : Range(Append(q, x)) = Range(q) \cup {x}
         /\ q # <<>> => Range(q) = Range(Tail(q)) \cup {Head(q)} /\ Head(q) \in Range(q)
<1>1. DOMAIN q = 1..Len(q) /\ Len(q) \in Nat /\ \A i \in DOMAIN q : q[i] \in S
  OBVIOUS
<1>2. Range(q) \subseteq S
  BY <1>1, Zenon DEF Range
<1>3. ASSUME NEW x \in S PROVE Range(Append(q, x)) = Range(q) \cup {x}
  BY Appended DEF Range
<1>4. ASSUME q # <<>> PROVE Range(q) = Range(Tail(q)) \cup {Head(q)} /\ Head(q) \in Range(q)
  <2> DEFINE r == Tail(q)
  <2>1. /\ Head(q) = q[1] /\ Len(q) \in Nat \ {0} /\ DOMAIN r = 1..Len(q) - 1
        /\ \A i \in DOMAIN r : r[i] = q[i + 1] /\ i + 1 \in DOMAIN q
    BY <1>4, Shortened, Zenon
  <2> HIDE DEF r
  <2>2. \A i \in DOMAIN q : i = 1 \/ (i - 1 \in DOMAIN r /\ r[i - 1] = q[i])
    BY <1>1, <2>1
  <2>3. Range(q) = Range(r) \cup {Head(q)}
    <3>1. ASSUME NEW x \in Range(q) PROVE x \in Range(r) \cup {Head(q)}
      <4>1. PICK i \in DOMAIN q : x = q[i]
        BY Zenon DEF Range
      <4>2. CASE i = 1
        BY <2>1, <4>1, <4>2, Zenon
      <4>3. CASE i - 1 \in DOMAIN r /\ r[i - 1] = q[i]
        BY <4>1, <4>3, Zenon DEF Range
      <4> QED
        BY <2>2, <4>2, <4>3, Zenon
    <3>2. ASSUME NEW x \in Range(r) \cup {Head(q)} PROVE x \in Range(q)
      <4>1. 1 \in DOMAIN q
        BY <1>1, <2>1
      <4> QED
        BY <2>1, <4>1 DEF Range
    <3> QED
      BY <3>1, <3>2, Zenon
  <2> QED
    BY <2>3, Zenon DEF r
<1> QED
  BY <1>2, <1>3, <1>4, Zenon

LEMMA Empty == Range(<<>>) = {}
BY DEF Range

(* Order in a queue of numbers. *)
LEMMA RisingQueue ==
  ASSUME NEW q \in Seq(Nat), Rising(q)
  PROVE  /\ \A x \in Nat : (\A n \in Range(q) : n < x) => Rising(Append(q, x))
         /\ q # <<>> => Rising(Tail(q)) /\ \A n \in Range(Tail(q)) : Head(q) < n
<1>1. ASSUME NEW x \in Nat, \A n \in Range(q) : n < x PROVE Rising(Append(q, x))
  BY <1>1, Appended DEF Rising, Range
<1>2. ASSUME q # <<>> PROVE Rising(Tail(q)) /\ \A n \in Range(Tail(q)) : Head(q) < n
  <2> DEFINE r == Tail(q)
  <2>1. /\ Head(q) = q[1] /\ 1 \in DOMAIN q /\ DOMAIN r = 1..Len(q) - 1
        /\ \A i \in DOMAIN r : r[i] = q[i + 1] /\ i + 1 \in DOMAIN q
        /\ Len(q) \in Nat
    BY <1>2, Shortened, Zenon
  <2> HIDE DEF r
  <2>2. Rising(r) /\ \A n \in Range(r) : Head(q) < n
    BY <2>1, SMTT(60) DEF Rising, Range
  <2> QED
    BY <2>2, Zenon DEF r
<1> QED
  BY <1>1, <1>2, Zenon

(* Order in a queue of events, and no container's answer twice. *)
LEMMA EventQueue ==
  ASSUME NEW q \in Seq(Events), NEW c
  PROVE  /\ \A x \in Events :
              /\ AsksRise(q) /\ (\A e \in Range(q) : e.status = 0 /\ x.status = 0 => e.trans < x.trans)
                   => AsksRise(Append(q, x))
              /\ AnswersRise(c, q) /\ (\A e \in Range(q) : From(c, e) /\ From(c, x) => e.trans <= x.trans)
                   => AnswersRise(c, Append(q, x))
              /\ Single(q) /\ (x.inst > 0 => x \notin Range(q)) => Single(Append(q, x))
         /\ q # <<>> =>
              /\ AsksRise(q) => /\ AsksRise(Tail(q))
                                /\ \A e \in Range(Tail(q)) : Head(q).status = 0 /\ e.status = 0 => Head(q).trans < e.trans
              /\ AnswersRise(c, q) =>
                   /\ AnswersRise(c, Tail(q))
                   /\ \A e \in Range(Tail(q)) : From(c, Head(q)) /\ From(c, e) => Head(q).trans <= e.trans
              /\ Single(q) => Single(Tail(q)) /\ (Head(q).inst > 0 => Head(q) \notin Range(Tail(q)))
<1>1. ASSUME NEW x \in Events
      PROVE  /\ AsksRise(q) /\ (\A e \in Range(q) : e.status = 0 /\ x.status = 0 => e.trans < x.trans)
                   => AsksRise(Append(q, x))
             /\ AnswersRise(c, q) /\ (\A e \in Range(q) : From(c, e) /\ From(c, x) => e.trans <= x.trans)
                   => AnswersRise(c, Append(q, x))
             /\ Single(q) /\ (x.inst > 0 => x \notin Range(q)) => Single(Append(q, x))
  <2> DEFINE r == Append(q, x)
  <2>1. /\ DOMAIN r = 1..Len(q) + 1 /\ DOMAIN q = 1..Len(q) /\ Len(q) \in Nat
        /\ \A i \in DOMAIN q : r[i] = q[i]
        /\ r[Len(q) + 1] = x
    BY Appended
  <2>2. \A i \in DOMAIN q : q[i] \in Range(q)
    BY Zenon DEF Range
  <2> HIDE DEF r
  <2>3. \A i \in DOMAIN r : i \in Nat /\ ((i \in DOMAIN q /\ r[i] = q[i] /\ i <= Len(q)) \/ (i = Len(q) + 1 /\ r[i] = x))
    BY <2>1
  <2>4. AsksRise(q) /\ (\A e \in Range(q) : e.status = 0 /\ x.status = 0 => e.trans < x.trans) => AsksRise(r)
    BY <2>1, <2>2, <2>3 DEF AsksRise
  <2>5. AnswersRise(c, q) /\ (\A e \in Range(q) : From(c, e) /\ From(c, x) => e.trans <= x.trans) => AnswersRise(c, r)
    BY <2>1, <2>2, <2>3 DEF AnswersRise
  <2>6. ASSUME Single(q), x.inst > 0 => x \notin Range(q) PROVE Single(r)
    <3> SUFFICES ASSUME NEW i \in DOMAIN r, NEW j \in DOMAIN r, i # j, r[i].inst > 0 PROVE r[i] # r[j]
      BY Zenon DEF Single
    <3>1. CASE i \in DOMAIN q /\ r[i] = q[i] /\ j \in DOMAIN q /\ r[j] = q[j]
      BY <2>6, <3>1, Zenon DEF Single
    <3>2. CASE r[i] = x /\ j \in DOMAIN q /\ r[j] = q[j]
      BY <2>2, <2>6, <3>2, Zenon
    <3>3. CASE r[j] = x /\ i \in DOMAIN q /\ r[i] = q[i]
      BY <2>2, <2>6, <3>3, Zenon
    <3> QED
      BY <2>1, <2>3, <3>1, <3>2, <3>3, Zenon
  <2> QED
    BY <2>4, <2>5, <2>6, Zenon DEF r
<1>2. ASSUME q # <<>>
      PROVE  /\ AsksRise(q) => /\ AsksRise(Tail(q))
                               /\ \A e \in Range(Tail(q)) : Head(q).status = 0 /\ e.status = 0 => Head(q).trans < e.trans
             /\ AnswersRise(c, q) =>
                  /\ AnswersRise(c, Tail(q))
                  /\ \A e \in Range(Tail(q)) : From(c, Head(q)) /\ From(c, e) => Head(q).trans <= e.trans
             /\ Single(q) => Single(Tail(q)) /\ (Head(q).inst > 0 => Head(q) \notin Range(Tail(q)))
  <2> DEFINE r == Tail(q)
             h == Head(q)
  <2>1. /\ h = q[1] /\ 1 \in DOMAIN q /\ DOMAIN r = 1..Len(q) - 1 /\ Len(q) \in Nat
        /\ \A i \in DOMAIN r : r[i] = q[i + 1] /\ i + 1 \in DOMAIN q
    BY <1>2, Shortened, Zenon
  <2>2. \A e \in Range(r) : \E i \in DOMAIN r : e = r[i]
    BY Zenon DEF Range
  <2> HIDE DEF r, h
  <2>3. \A e \in Range(r) : \E i \in DOMAIN q : e = q[i] /\ 1 < i
    BY <2>1, <2>2
  <2>4. AsksRise(q) => AsksRise(r) /\ \A e \in Range(r) : h.status = 0 /\ e.status = 0 => h.trans < e.trans
    BY <2>1, <2>3, SMTT(60) DEF AsksRise
  <2>5. ASSUME AnswersRise(c, q)
        PROVE  AnswersRise(c, r) /\ \A e \in Range(r) : From(c, h) /\ From(c, e) => h.trans <= e.trans
    <3>1. AnswersRise(c, r)
      <4> SUFFICES ASSUME NEW i \in DOMAIN r, NEW j \in DOMAIN r, i < j, From(c, r[i]), From(c, r[j])
                   PROVE  r[i].trans <= r[j].trans
        BY Zenon DEF AnswersRise
      <4>1. i + 1 \in DOMAIN q /\ j + 1 \in DOMAIN q /\ i + 1 < j + 1 /\ r[i] = q[i + 1] /\ r[j] = q[j + 1]
        BY <2>1
      <4> QED
        BY <2>5, <4>1, Zenon DEF AnswersRise
    <3>2. ASSUME NEW e \in Range(r), From(c, h), From(c, e) PROVE h.trans <= e.trans
      <4>1. PICK i \in DOMAIN q : e = q[i] /\ 1 < i
        BY <2>3, Zenon
      <4> QED
        BY <2>1, <2>5, <3>2, <4>1, Zenon DEF AnswersRise
    <3> QED
      BY <3>1, <3>2, Zenon
  <2>6. Single(q) => Single(r)
    BY <2>1 DEF Single
  <2>7. Single(q) /\ h.inst > 0 => h \notin Range(r)
    BY <2>1, <2>3 DEF Single
  <2> QED
    BY <2>4, <2>5, <2>6, <2>7, Zenon DEF r, h
<1> QED
  BY <1>1, <1>2, Zenon

-----------------------------------------------------------------------------
(* Types *)

LEMMA ContainerIds == \A c \in Containers : c \in Nat /\ c > 0
BY EventsAssumption

LEMMA SentType ==
  ASSUME TypeOK
  PROVE  Sent \in Seq(Events) /\ DOMAIN Sent = DOMAIN answers
<1>1. DOMAIN answers = 1..Len(answers) /\ Len(answers) \in Nat
      /\ \A i \in DOMAIN answers : answers[i].event \in Events
  <2> DEFINE S == [event : Events, to : Clients \cup {None}]
  <2>1. answers \in Seq(S)
    BY Zenon DEF TypeOK
  <2>2. \A x \in S : x.event \in Events
    BY Zenon
  <2> HIDE DEF S
  <2> QED
    BY <2>1, <2>2
<1>2. Sent \in [1..Len(answers) -> Events]
  BY <1>1, Zenon DEF Sent
<1>3. Sent \in Seq(Events)
  BY <1>1, <1>2, SeqDef
<1> QED
  BY <1>3, Zenon DEF Sent

LEMMA SentGrows ==
  ASSUME TypeOK, NEW e \in Events, NEW p \in Clients \cup {None},
         answers' = Append(answers, [event |-> e, to |-> p])
  PROVE  Sent' = Append(Sent, e)
<1> DEFINE x == [event |-> e, to |-> p]
           S == [event : Events, to : Clients \cup {None}]
<1>1. x \in S /\ answers \in Seq(S)
  BY Zenon DEF TypeOK
<1>2. x.event = e
  BY Zenon
<1>3. answers' = Append(answers, x)
  BY Zenon
<1> HIDE DEF x, S
<1>4. /\ DOMAIN answers' = 1..Len(answers) + 1 /\ DOMAIN answers = 1..Len(answers) /\ Len(answers) \in Nat
      /\ \A i \in DOMAIN answers : answers'[i] = answers[i]
      /\ answers'[Len(answers) + 1] = x
  BY <1>1, <1>3, Appended
<1>5. Sent \in Seq(Events) /\ Len(Sent) = Len(answers)
  BY <1>4, SentType
<1>6. Sent' = [i \in 1..Len(answers) + 1 |-> IF i = Len(answers) + 1 THEN e ELSE answers[i].event]
  BY <1>2, <1>4 DEF Sent
<1>7. \A i \in 1..Len(answers) : Sent[i] = answers[i].event /\ Sent[i] \in Events
  BY <1>4, SentType DEF Sent
<1>8. Sent' \in [1..Len(answers) + 1 -> Events]
  BY <1>6, <1>7
<1>9. Sent' \in Seq(Events) /\ Len(Sent') = Len(answers) + 1
  BY <1>4, <1>8, SeqDef
<1>10. /\ Append(Sent, e) \in Seq(Events) /\ Len(Append(Sent, e)) = Len(answers) + 1
       /\ \A i \in 1..Len(answers) : Append(Sent, e)[i] = Sent[i]
       /\ Append(Sent, e)[Len(answers) + 1] = e
  BY <1>5
<1>11. \A i \in 1..Len(Sent') : Sent'[i] = Append(Sent, e)[i]
  BY <1>4, <1>6, <1>7, <1>9, <1>10
<1> QED
  BY <1>9, <1>10, <1>11, SeqEqual, Zenon

LEMMA AskedKinds ==
  ASSUME TypeOK, NEW n \in DOMAIN asked
  PROVE  /\ n \in Nat /\ n \in 1..Len(asked) /\ DOMAIN asked = 1..Len(asked) /\ Len(asked) \in Nat
         /\ asked[n].kind \in Kinds \cup {"init"}
         /\ asked[n].task \in Nat /\ asked[n].inst \in Nat
         /\ asked[n].client \in Clients \cup {None}
<1>1. asked[n] \in Cmds \cup {INIT}
  BY DEF TypeOK
<1> QED
  BY <1>1, SMTT(60) DEF TypeOK, Cmds, INIT

(* The events the model makes. *)
LEMMA EventTypes ==
  ASSUME NEW n \in Nat
  PROVE  /\ Request(n) \in Events /\ Request(n).status = 0 /\ Request(n).trans = n
         /\ Request(n).inst = 0 /\ Request(n).task = 0
         /\ \A s \in {1, 2} : /\ Answer(n, FRAMECONTROL, 0, s) \in Events
                              /\ Answer(n, FRAMECONTROL, 0, s).status = s
                              /\ Answer(n, FRAMECONTROL, 0, s).trans = n
                              /\ Answer(n, FRAMECONTROL, 0, s).inst = 0
                              /\ Answer(n, FRAMECONTROL, 0, s).task = FRAMECONTROL
         /\ \A t \in Nat \ {0}, c \in Containers :
              /\ Answer(n, t, c, 1) \in Events /\ Answer(n, t, c, 1).status = 1
              /\ Answer(n, t, c, 1).trans = n
              /\ Answer(n, t, c, 1).inst = c
              /\ Answer(n, t, c, 1).task = t
BY EventsAssumption DEF Events, Answer, Request, FRAMECONTROL

LEMMA AnswerType ==
  ASSUME NEW n \in Nat, NEW t \in Nat \ {0}, NEW c \in Containers
  PROVE  /\ Answer(n, t, c, 1) \in Events /\ Answer(n, t, c, 1).trans = n
         /\ Answer(n, t, c, 1).inst = c /\ Answer(n, t, c, 1).status = 1
BY EventTypes

LEMMA EventFields ==
  ASSUME NEW e \in Events
  PROVE  /\ e.trans \in Nat /\ e.task \in Nat /\ e.inst \in Containers \cup {0} /\ e.inst \in Nat /\ e.status \in 0..2
         /\ e.status = 0 <=> e.task = 0
         /\ e.status = 0 => e.inst = 0
         /\ e.inst > 0 => e.status = 1
<1> DEFINE R == [trans : Nat, task : Nat, inst : Containers \cup {0}, status : 0..2]
<1>1. e \in R /\ (e.status = 0 <=> e.task = 0) /\ (e.status = 0 => e.inst = 0) /\ (e.inst > 0 => e.status = 1)
  <2> HIDE DEF R
  <2>1. Events = {d \in R : /\ d.status = 0 <=> d.task = 0
                            /\ d.status = 0 => d.inst = 0
                            /\ d.inst > 0 => d.status = 1}
    BY Zenon DEF Events, R
  <2> QED
    BY <2>1, Zenon
<1>2. e.trans \in Nat /\ e.task \in Nat /\ e.inst \in Containers \cup {0} /\ e.status \in 0..2
  BY <1>1, Zenon
<1>3. e.inst \in Nat
  <2>1. CASE e.inst = 0
    BY <2>1
  <2>2. CASE e.inst \in Containers
    BY <2>2, ContainerIds, Zenon
  <2> QED
    BY <1>2, <2>1, <2>2, Zenon
<1> HIDE DEF R
<1> QED
  BY <1>1, <1>2, <1>3, Zenon

LEMMA SameEvent ==
  ASSUME NEW e \in Events, NEW f \in Events,
         e.trans = f.trans, e.task = f.task, e.inst = f.inst, e.inst > 0
  PROVE  e = f
<1>1. e.status = 1 /\ f.status = 1
  BY EventFields, Zenon
<1>2. /\ e \in [trans : Nat, task : Nat, inst : Containers \cup {0}, status : 0..2]
      /\ f \in [trans : Nat, task : Nat, inst : Containers \cup {0}, status : 0..2]
  BY Zenon DEF Events
<1> QED
  BY <1>1, <1>2

LEMMA AnsweringType ==
  ASSUME NEW c \in Containers, NEW x
  PROVE  Answering(c, x) \subseteq Nat \ {0}
BY EventsAssumption DEF Answering, HostedBy, TASKCONTAINER

LEMMA AskType ==
  ASSUME TypeOK, NEW k \in Clients, NEW x \in Commands, Ask(k, x)
  PROVE  TypeOK'
<1>1. x.kind \in Kinds /\ x.task \in Nat /\ x.inst \in Nat
  BY EventsAssumption, Zenon
<1>2. [client |-> k, kind |-> x.kind, task |-> x.task, inst |-> x.inst] \in Cmds
  BY <1>1, Zenon DEF Cmds
<1>3. sock' \in Seq(Cmds)
  BY <1>2, Appended DEF Ask, TypeOK
<1> QED
  BY <1>3, Zenon DEF Ask, TypeOK

LEMMA StartType ==
  ASSUME TypeOK, Start
  PROVE  TypeOK'
<1>1. asked' \in Seq(Cmds \cup {INIT}) /\ mFifo' \in Seq(Nat) /\ pc' = "get"
  BY DEF Start
<1> QED
  BY <1>1, Zenon DEF Start, TypeOK

(* What the manager finds at the head of its queue. *)
LEMMA MngHead ==
  ASSUME IInv, mng # <<>>
  PROVE  /\ Head(mng) \in Events /\ Head(mng).trans \in DOMAIN asked /\ Head(mng) \in Range(mng)
         /\ Tail(mng) \in Seq(Events)
         /\ pc # "start"
<1>1. Head(mng) \in Events /\ Tail(mng) \in Seq(Events)
  BY Shortened, Zenon DEF IInv, TypeOK
<1>2. Head(mng) \in Range(mng)
  BY Ranges, Zenon DEF IInv, TypeOK
<1>3. pc # "start"
  BY Zenon DEF IInv, AskedInv
<1>4. CASE Head(mng).status = 0
  BY <1>1, <1>2, <1>3, <1>4, Zenon DEF IInv, OrderInv
<1>5. CASE Head(mng).status # 0
  <2> DEFINE c == Head(mng).inst
  <2>1. c \in Containers \cup {0} /\ From(c, Head(mng))
    BY <1>1, <1>5, EventFields DEF From
  <2>2. SenderInv(c)
    BY <2>1, Zenon DEF IInv
  <2> HIDE DEF c
  <2> QED
    BY <1>1, <1>2, <1>3, <2>1, <2>2, Zenon DEF SenderInv, Past
<1> QED
  BY <1>1, <1>2, <1>3, <1>4, <1>5, Zenon

LEMMA MngGetType ==
  ASSUME IInv, MngGet
  PROVE  TypeOK'
<1> DEFINE e == Head(mng)
           p == IF asked[e.trans].kind = "init" THEN None ELSE peer
           S == [event : Events, to : Clients \cup {None}]
<1>1. e \in Events /\ e.trans \in Nat /\ mng' \in Seq(Events)
  BY MngHead, EventFields, Zenon DEF MngGet
<1>2. p \in Clients \cup {None}
  BY Zenon DEF IInv, TypeOK
<1>3. [event |-> e, to |-> p] \in S /\ answers \in Seq(S)
  BY <1>1, <1>2, Zenon DEF IInv, TypeOK
<1>4. \/ answers' = Append(answers, [event |-> e, to |-> p]) /\ mFifo' = mFifo
      \/ answers' = answers /\ mFifo' = Append(mFifo, e.trans)
  BY Zenon DEF MngGet, Reply
<1> HIDE DEF e, p, S
<1>5. answers' \in Seq(S)
  BY <1>3, <1>4, Appended
<1>6. mFifo' \in Seq(Nat)
  <2>1. mFifo \in Seq(Nat)
    BY Zenon DEF IInv, TypeOK
  <2>2. Append(mFifo, e.trans) \in Seq(Nat)
    BY <1>1, <2>1
  <2> QED
    BY <1>4, <2>1, <2>2, Zenon
<1> QED
  BY <1>1, <1>5, <1>6, Zenon DEF MngGet, IInv, TypeOK, S

LEMMA MngRecvType ==
  ASSUME TypeOK, MngRecv
  PROVE  TypeOK'
<1>1. CASE sock = <<>>
  BY <1>1, Zenon DEF MngRecv, TypeOK
<1>2. CASE sock # <<>>
  <2>1. Head(sock) \in Cmds /\ Tail(sock) \in Seq(Cmds)
    BY <1>2, Shortened, Zenon DEF TypeOK
  <2>2. Head(sock).client \in Clients /\ Head(sock) \in Cmds \cup {INIT}
    BY <2>1, Zenon DEF Cmds
  <2>3. asked' \in Seq(Cmds \cup {INIT})
    <3>1. asked \in Seq(Cmds \cup {INIT}) /\ asked' = Append(asked, Head(sock))
      BY <1>2, Zenon DEF MngRecv, TypeOK
    <3> QED
      BY <2>2, <3>1, Appended, Zenon
  <2>4. Request(Len(asked) + 1) \in Events
    <3>1. Len(asked) + 1 \in Nat
      BY DEF TypeOK
    <3> QED
      BY <3>1, EventTypes, Zenon
  <2>5. mng' \in Seq(Events)
    <3>1. mng \in Seq(Events) /\ mng' = Append(mng, Request(Len(asked) + 1))
      BY <1>2, Zenon DEF MngRecv, TypeOK
    <3> QED
      BY <2>4, <3>1, Appended, Zenon
  <2> QED
    BY <1>2, <2>1, <2>2, <2>3, <2>5, Zenon DEF MngRecv, TypeOK
<1> QED
  BY <1>1, <1>2, Zenon

-----------------------------------------------------------------------------
(* What the kernel's step does to the queues. *)

LEMMA KernelHead ==
  ASSUME IInv, Kernel
  PROVE  /\ Head(mFifo) \in Nat /\ Head(mFifo) \in DOMAIN asked /\ pc # "start"
         /\ mFifo' \in Seq(Nat) /\ Rising(mFifo') /\ Range(mFifo) = Range(mFifo') \cup {Head(mFifo)}
         /\ \A p \in Range(mFifo') : Head(mFifo) < p
         /\ \A e \in Range(mng) : e.status = 0 => Head(mFifo) < e.trans
<1>1. mFifo \in Seq(Nat) /\ mFifo # <<>> /\ mFifo' = Tail(mFifo) /\ Rising(mFifo)
  BY Zenon DEF IInv, TypeOK, OrderInv, Kernel
<1>2. Head(mFifo) \in Nat /\ mFifo' \in Seq(Nat)
  BY <1>1, Shortened, Zenon
<1>3. Range(mFifo) = Range(mFifo') \cup {Head(mFifo)} /\ Head(mFifo) \in Range(mFifo)
  BY <1>1, Ranges, Zenon
<1>4. Rising(mFifo') /\ \A p \in Range(mFifo') : Head(mFifo) < p
  BY <1>1, RisingQueue, Zenon
<1>5. Head(mFifo) \in DOMAIN asked /\ \A e \in Range(mng) : e.status = 0 => Head(mFifo) < e.trans
  BY <1>3, Zenon DEF IInv, OrderInv
<1>6. pc # "start"
  BY <1>1, Zenon DEF IInv, AskedInv
<1> QED
  BY <1>2, <1>3, <1>4, <1>5, <1>6, Zenon

(* A kernel's answer at the end of a queue. *)
LEMMA KernelAnswer ==
  ASSUME NEW q \in Seq(Events), NEW n \in Nat, NEW s \in {1, 2},
         AsksRise(q), Single(q), \A c \in Containers \cup {0} : AnswersRise(c, q),
         \A e \in Range(q) : From(0, e) => e.trans <= n
  PROVE  LET r == Append(q, Answer(n, FRAMECONTROL, 0, s))
         IN /\ r \in Seq(Events) /\ Range(q) \subseteq Range(r)
            /\ \A e \in Range(r) \ Range(q) : e.status > 0 /\ e.inst = 0 /\ e.trans = n
            /\ AsksRise(r) /\ Single(r) /\ \A c \in Containers \cup {0} : AnswersRise(c, r)
            /\ \A e \in Range(r) : From(0, e) => e.trans <= n
            /\ Said(Range(r), n, FRAMECONTROL, 0)
<1> DEFINE x == Answer(n, FRAMECONTROL, 0, s)
           r == Append(q, x)
<1>1. x \in Events /\ x.status > 0 /\ x.inst = 0 /\ x.trans = n /\ x.task = FRAMECONTROL
  BY EventTypes
<1> HIDE DEF x
<1>2. r \in Seq(Events) /\ Range(r) = Range(q) \cup {x}
  BY <1>1, Appended, Ranges
<1>3. AsksRise(r) /\ Single(r)
  BY <1>1, EventQueue
<1>4. ASSUME NEW c \in Containers \cup {0} PROVE AnswersRise(c, r)
  <2>1. \A e \in Range(q) : From(c, e) /\ From(c, x) => e.trans <= x.trans
    BY <1>1, Zenon DEF From
  <2> QED
    BY <1>1, <2>1, EventQueue, Zenon
<1>5. \A e \in Range(r) : From(0, e) => e.trans <= n
  BY <1>1, <1>2
<1>6. Said(Range(r), n, FRAMECONTROL, 0)
  BY <1>1, <1>2, Zenon DEF Said
<1> HIDE DEF r
<1>7. \A e \in Range(r) \ Range(q) : e.status > 0 /\ e.inst = 0 /\ e.trans = n
  BY <1>1, <1>2, Zenon
<1> QED
  BY <1>2, <1>3, <1>4, <1>5, <1>6, <1>7, Zenon DEF r, x

LEMMA KernelMng ==
  ASSUME IInv, Kernel
  PROVE  LET n == Head(mFifo)
         IN /\ mng' \in Seq(Events) /\ Range(mng) \subseteq Range(mng')
            /\ \A e \in Range(mng') \ Range(mng) : e.status > 0 /\ e.inst = 0 /\ e.trans = n
            /\ AsksRise(mng') /\ Single(mng') /\ \A c \in Containers \cup {0} : AnswersRise(c, mng')
            /\ Local(asked[n]) => Said(Range(mng'), n, FRAMECONTROL, 0)
<1> DEFINE n == Head(mFifo)
           x == asked[n]
           own == Append(mng, Answer(n, FRAMECONTROL, 0, 1))
           P(q) == /\ q \in Seq(Events) /\ Range(mng) \subseteq Range(q)
                   /\ \A e \in Range(q) \ Range(mng) : e.status > 0 /\ e.inst = 0 /\ e.trans = n
                   /\ AsksRise(q) /\ Single(q) /\ \A c \in Containers \cup {0} : AnswersRise(c, q)
                   /\ \A e \in Range(q) : From(0, e) => e.trans <= n
<1>1. n \in Nat
  BY KernelHead, Zenon
<1>2. mng \in Seq(Events) /\ Answer(n, FRAMECONTROL, 0, 1) \in Events /\ Answer(n, FRAMECONTROL, 0, 2) \in Events
  BY <1>1, EventTypes, Zenon DEF IInv, TypeOK
<1>3. P(mng)
  <2>1. AsksRise(mng) /\ Single(mng)
    BY Zenon DEF IInv, OrderInv, OnceInv
  <2>2. SenderInv(0) /\ \A c \in Containers \cup {0} : AnswersRise(c, mng)
    BY Zenon DEF IInv, SenderInv
  <2>3. \A e \in Range(mng) : From(0, e) => e.trans <= n
    <3> SUFFICES ASSUME NEW e \in Range(mng), From(0, e) PROVE e.trans <= n
      BY Zenon
    <3>1. Past(e.trans) /\ n \in Range(mFifo)
      BY <2>2, KernelHead, Zenon DEF SenderInv
    <3>2. e.trans \in Nat
      BY <1>2, Ranges, EventFields, Zenon
    <3> QED
      BY <1>1, <3>1, <3>2 DEF Past
  <2> QED
    BY <1>2, <2>1, <2>2, <2>3, Zenon
<1>4. P(own) /\ Said(Range(own), n, FRAMECONTROL, 0)
  BY <1>1, <1>3, KernelAnswer, Zenon
<1>5. ASSUME NEW q, P(q)
      PROVE  P(Append(q, Answer(n, FRAMECONTROL, 0, 2)))
  <2> DEFINE r == Append(q, Answer(n, FRAMECONTROL, 0, 2))
  <2>1. /\ r \in Seq(Events) /\ Range(q) \subseteq Range(r)
        /\ \A e \in Range(r) \ Range(q) : e.status > 0 /\ e.inst = 0 /\ e.trans = n
        /\ AsksRise(r) /\ Single(r) /\ \A c \in Containers \cup {0} : AnswersRise(c, r)
        /\ \A e \in Range(r) : From(0, e) => e.trans <= n
    BY <1>1, <1>5, KernelAnswer, Zenon
  <2> HIDE DEF r
  <2>2. P(r)
    BY <1>5, <2>1, Zenon
  <2> QED
    BY <2>2, Zenon DEF r
<1>6. LET first == IF Local(x) THEN own ELSE mng
      IN mng' = first \/ mng' = Append(first, Answer(n, FRAMECONTROL, 0, 2))
  <2>1. mng \o <<>> \o <<>> = mng
    BY <1>2
  <2> DEFINE a == Answer(n, FRAMECONTROL, 0, 1)
             b == Answer(n, FRAMECONTROL, 0, 2)
  <2>2. own \in Seq(Events)
    BY <1>4, Zenon
  <2>3. /\ mng \o <<a>> \o <<>> = own /\ mng \o <<a>> \o <<b>> = Append(own, b)
        /\ mng \o <<>> \o <<b>> = Append(mng, b)
    <3>1. a \in Events /\ b \in Events
      BY <1>2, Zenon
    <3> HIDE DEF a, b
    <3>2. mng \o <<a>> = Append(mng, a) /\ mng \o <<>> = mng /\ mng \o <<b>> = Append(mng, b)
      BY <1>2, <3>1, AppendIsConcat, ConcatEmptySeq, Zenon
    <3>3. Append(mng, a) \in Seq(Events)
      BY <1>2, <3>1
    <3>4. Append(mng, a) \o <<>> = Append(mng, a) /\ Append(mng, a) \o <<b>> = Append(Append(mng, a), b)
      BY <3>1, <3>3, AppendIsConcat, ConcatEmptySeq, Zenon
    <3> QED
      BY <3>2, <3>4, Zenon DEF a, b
  <2> QED
    BY <2>1, <2>3, Zenon DEF Kernel
<1> DEFINE first == IF Local(x) THEN own ELSE mng
<1>7. P(first) /\ (Local(x) => Said(Range(first), n, FRAMECONTROL, 0))
  BY <1>3, <1>4, Zenon
<1> DEFINE more == Append(first, Answer(n, FRAMECONTROL, 0, 2))
<1> HIDE DEF first
<1>8. P(more)
  BY <1>5, <1>7, Zenon
<1>9. Range(first) \subseteq Range(more)
  BY <1>2, <1>7, Ranges
<1> HIDE DEF more
<1>10. Local(x) => Said(Range(more), n, FRAMECONTROL, 0)
  BY <1>7, <1>9, Zenon DEF Said
<1>11. mng' = first \/ mng' = more
  BY <1>6, Zenon DEF first, more
<1>12. P(mng')
  BY <1>7, <1>8, <1>11, Zenon
<1>13. Local(x) => Said(Range(mng'), n, FRAMECONTROL, 0)
  BY <1>7, <1>10, <1>11, Zenon
<1> HIDE DEF n
<1> QED
  BY <1>12, <1>13, Zenon DEF n

LEMMA KernelRx ==
  ASSUME IInv, Kernel
  PROVE  LET n == Head(mFifo)
         IN /\ rx' \in [Containers -> Seq(Nat)]
            /\ \A c \in Containers :
                 /\ Rising(rx'[c])
                 /\ \/ rx'[c] = rx[c] /\ ~(Forwarded(asked[n]) /\ c \in Targets(asked[n]))
                    \/ /\ Range(rx'[c]) = Range(rx[c]) \cup {n}
                       /\ Forwarded(asked[n]) /\ c \in Targets(asked[n])
<1> DEFINE n == Head(mFifo)
           to == IF Forwarded(asked[n]) THEN Targets(asked[n]) ELSE {}
<1>1. n \in Nat /\ n \in Range(mFifo)
  BY KernelHead, Zenon
<1>2. rx' = [c \in Containers |-> IF c \in to THEN Append(rx[c], n) ELSE rx[c]]
  BY Zenon DEF Kernel
<1>3. \A c \in Containers : rx[c] \in Seq(Nat) /\ SenderInv(c)
  BY Zenon DEF IInv, TypeOK
<1>4. \A c \in Containers : Rising(rx[c]) /\ \A p \in Range(rx[c]) : p < n
  BY <1>1, <1>3, Zenon DEF SenderInv, Queue, Past
<1> HIDE DEF n
<1>5. \A c \in Containers : Append(rx[c], n) \in Seq(Nat)
  BY <1>1, <1>3
<1>6. \A c \in Containers : Range(Append(rx[c], n)) = Range(rx[c]) \cup {n} /\ Rising(Append(rx[c], n))
  BY <1>1, <1>3, <1>4, Ranges, RisingQueue
<1>7. \A c \in Containers : c \in to <=> Forwarded(asked[n]) /\ c \in Targets(asked[n])
  BY Zenon
<1> HIDE DEF to
<1>8. rx' \in [Containers -> Seq(Nat)]
  BY <1>2, <1>3, <1>5, Zenon
<1>9. ASSUME NEW c \in Containers
      PROVE  /\ Rising(rx'[c])
             /\ \/ rx'[c] = rx[c] /\ ~(Forwarded(asked[n]) /\ c \in Targets(asked[n]))
                \/ /\ Range(rx'[c]) = Range(rx[c]) \cup {n}
                   /\ Forwarded(asked[n]) /\ c \in Targets(asked[n])
  <2>1. rx'[c] = IF c \in to THEN Append(rx[c], n) ELSE rx[c]
    BY <1>2, Zenon
  <2> QED
    BY <1>4, <1>6, <1>7, <2>1, Zenon
<1> QED
  BY <1>8, <1>9, Zenon DEF n

LEMMA KernelType ==
  ASSUME IInv, Kernel
  PROVE  TypeOK'
<1>1. mng' \in Seq(Events) /\ mFifo' \in Seq(Nat) /\ rx' \in [Containers -> Seq(Nat)]
  BY KernelHead, KernelMng, KernelRx, Zenon
<1>2. UNCHANGED <<pc, sock, peer, todo, asked, answers>>
  BY Zenon DEF Kernel
<1> QED
  BY <1>1, <1>2, Zenon DEF IInv, TypeOK

(* What a container's steps do. *)
LEMMA TakeStep ==
  ASSUME IInv, NEW c \in Containers, Take(c)
  PROVE  LET n == Head(rx[c])
         IN /\ n \in Nat /\ Past(n) /\ n \in Range(rx[c]) /\ todo[c] = {}
            /\ rx' \in [Containers -> Seq(Nat)] /\ todo' \in [Containers -> SUBSET Events]
            /\ \A e \in todo'[c] : e.trans = n /\ e.inst = c /\ e.status = 1
            /\ Range(rx[c]) = Range(rx'[c]) \cup {n} /\ \A p \in Range(rx'[c]) : n < p
            /\ Rising(rx'[c])
            /\ \A d \in Containers \ {c} : rx'[d] = rx[d] /\ todo'[d] = todo[d]
            /\ UNCHANGED <<pc, sock, peer, mng, mFifo, asked, answers>>
<1> DEFINE n == Head(rx[c])
           T == {Answer(n, t, c, 1) : t \in Answering(c, asked[n])}
<1>1. /\ rx \in [Containers -> Seq(Nat)] /\ rx[c] # <<>> /\ todo \in [Containers -> SUBSET Events]
      /\ rx' = [rx EXCEPT ![c] = Tail(rx[c])] /\ todo' = [todo EXCEPT ![c] = T] /\ todo[c] = {}
      /\ UNCHANGED <<pc, sock, peer, mng, mFifo, asked, answers>>
  BY Zenon DEF IInv, TypeOK, Take
<1>2. n \in Nat /\ Tail(rx[c]) \in Seq(Nat)
  BY <1>1, Shortened, Zenon
<1>3. Range(rx[c]) = Range(Tail(rx[c])) \cup {n} /\ n \in Range(rx[c])
  BY <1>1, Ranges, Zenon
<1>4. SenderInv(c)
  BY Zenon DEF IInv
<1>5. Rising(Tail(rx[c])) /\ \A p \in Range(Tail(rx[c])) : n < p
  BY <1>1, <1>4, RisingQueue, Zenon DEF SenderInv
<1>6. Past(n)
  BY <1>3, <1>4, Zenon DEF SenderInv, Queue
<1> HIDE DEF n
<1>7. T \subseteq Events /\ \A e \in T : e.trans = n /\ e.inst = c /\ e.status = 1
  <2> SUFFICES ASSUME NEW e \in T PROVE e \in Events /\ e.trans = n /\ e.inst = c /\ e.status = 1
    BY Zenon
  <2>1. PICK t \in Answering(c, asked[n]) : e = Answer(n, t, c, 1)
    BY Zenon
  <2>2. t \in Nat \ {0}
    BY AnsweringType, Zenon
  <2>3. /\ Answer(n, t, c, 1) \in Events /\ Answer(n, t, c, 1).trans = n
        /\ Answer(n, t, c, 1).inst = c /\ Answer(n, t, c, 1).status = 1
    BY <1>2, <2>2, AnswerType, Zenon
  <2> QED
    BY <2>1, <2>3, Zenon
<1> HIDE DEF T
<1>8. rx'[c] = Tail(rx[c]) /\ todo'[c] = T
  BY <1>1, Zenon
<1>9. \A d \in Containers \ {c} : rx'[d] = rx[d] /\ todo'[d] = todo[d]
  BY <1>1, Zenon
<1>10. rx' \in [Containers -> Seq(Nat)] /\ todo' \in [Containers -> SUBSET Events]
  BY <1>1, <1>2, <1>7, Zenon
<1> QED
  BY <1>1, <1>2, <1>3, <1>5, <1>6, <1>7, <1>8, <1>9, <1>10, Zenon DEF n

LEMMA TakeTodo ==
  ASSUME IInv, NEW c \in Containers, Take(c), NEW n, n = Head(rx[c])
  PROVE  /\ \A e \in todo'[c] : \E t \in Answering(c, asked[n]) : e = Answer(n, t, c, 1)
         /\ \A t \in Answering(c, asked[n]) : Answer(n, t, c, 1) \in todo'[c]
<1> DEFINE T == {Answer(Head(rx[c]), t, c, 1) : t \in Answering(c, asked[Head(rx[c])])}
<1>1. todo \in [Containers -> SUBSET Events] /\ todo' = [todo EXCEPT ![c] = T]
  BY Zenon DEF IInv, TypeOK, Take
<1>2. /\ \A e \in T : \E t \in Answering(c, asked[n]) : e = Answer(n, t, c, 1)
      /\ \A t \in Answering(c, asked[n]) : Answer(n, t, c, 1) \in T
  BY Zenon
<1> HIDE DEF T
<1>3. todo'[c] = T
  BY <1>1, Zenon
<1> QED
  BY <1>2, <1>3, Zenon

LEMMA PostStep ==
  ASSUME IInv, NEW c \in Containers, Post(c)
  PROVE  \E e \in todo[c] :
           /\ e \in Events /\ e.inst = c /\ e.status = 1 /\ Past(e.trans)
           /\ mng' = Append(mng, e) /\ mng' \in Seq(Events) /\ Range(mng') = Range(mng) \cup {e}
           /\ todo' \in [Containers -> SUBSET Events] /\ todo'[c] = todo[c] \ {e}
           /\ \A d \in Containers \ {c} : todo'[d] = todo[d]
           /\ UNCHANGED <<pc, sock, peer, mFifo, rx, asked, answers>>
<1>1. PICK e \in todo[c] : mng' = Append(mng, e) /\ todo' = [todo EXCEPT ![c] = todo[c] \ {e}]
  BY Zenon DEF Post
<1>2. todo \in [Containers -> SUBSET Events] /\ e \in Events /\ e.inst = c /\ mng \in Seq(Events)
  BY Zenon DEF IInv, TypeOK
<1>3. e.status = 1
  BY <1>2, EventFields, ContainerIds, Zenon
<1>4. Past(e.trans)
  <2>1. SenderInv(c)
    BY Zenon DEF IInv
  <2> QED
    BY <2>1, Zenon DEF SenderInv, Todo
<1>5. mng' \in Seq(Events) /\ Range(mng') = Range(mng) \cup {e}
  BY <1>1, <1>2, Appended, Ranges
<1>6. /\ todo' \in [Containers -> SUBSET Events] /\ todo'[c] = todo[c] \ {e}
      /\ \A d \in Containers \ {c} : todo'[d] = todo[d]
  BY <1>1, <1>2, Zenon
<1> QED
  BY <1>1, <1>2, <1>3, <1>4, <1>5, <1>6, Zenon DEF Post

(* What the manager's steps do. *)
LEMMA MngTail ==
  ASSUME IInv, mng # <<>>, mng' = Tail(mng)
  PROVE  LET e == Head(mng)
         IN /\ mng' \in Seq(Events) /\ Range(mng) = Range(mng') \cup {e}
            /\ AsksRise(mng') /\ \A f \in Range(mng') : e.status = 0 /\ f.status = 0 => e.trans < f.trans
            /\ \A c \in Containers \cup {0} :
                 /\ AnswersRise(c, mng')
                 /\ \A f \in Range(mng') : From(c, e) /\ From(c, f) => e.trans <= f.trans
            /\ Single(mng') /\ (e.inst > 0 => e \notin Range(mng'))
<1>1. mng \in Seq(Events) /\ AsksRise(mng) /\ Single(mng)
  BY Zenon DEF IInv, TypeOK, OrderInv, OnceInv
<1>2. \A c \in Containers \cup {0} : AnswersRise(c, mng)
  BY Zenon DEF IInv, SenderInv
<1>3. mng' \in Seq(Events) /\ Range(mng) = Range(mng') \cup {Head(mng)}
  BY <1>1, Shortened, Ranges, Zenon
<1> QED
  BY <1>1, <1>2, <1>3, EventQueue, Zenon

LEMMA ReplyStep ==
  ASSUME IInv, MngGet, Head(mng).status > 0 \/ asked[Head(mng).trans].kind = "sclist"
  PROVE  /\ mng # <<>> /\ mng' = Tail(mng)
         /\ Sent' = Append(Sent, Head(mng)) /\ Sent' \in Seq(Events) /\ Range(Sent') = Range(Sent) \cup {Head(mng)}
         /\ UNCHANGED <<mFifo, rx, todo, asked>>
<1> DEFINE e == Head(mng)
           p == IF asked[e.trans].kind = "init" THEN None ELSE peer
<1>1. mng # <<>> /\ mng' = Tail(mng) /\ UNCHANGED <<mFifo, rx, todo, asked>>
  BY Zenon DEF MngGet
<1>2. answers' = Append(answers, [event |-> e, to |-> p])
  BY Zenon DEF MngGet, Reply
<1>3. TypeOK /\ e \in Events /\ p \in Clients \cup {None}
  BY <1>1, MngHead, Zenon DEF IInv, TypeOK
<1>4. Sent' = Append(Sent, e)
  <2> HIDE DEF e, p
  <2> QED
    BY <1>2, <1>3, SentGrows, Zenon
<1> HIDE DEF e
<1>5. Sent' \in Seq(Events) /\ Range(Sent') = Range(Sent) \cup {e}
  BY <1>3, <1>4, SentType, Appended, Ranges
<1> QED
  BY <1>1, <1>4, <1>5, Zenon DEF e

LEMMA ForwardStep ==
  ASSUME IInv, MngGet, ~(Head(mng).status > 0 \/ asked[Head(mng).trans].kind = "sclist")
  PROVE  LET n == Head(mng).trans
         IN /\ mng # <<>> /\ mng' = Tail(mng) /\ Head(mng).status = 0 /\ Head(mng).inst = 0
            /\ n \in Nat /\ n \in DOMAIN asked /\ asked[n].kind # "sclist"
            /\ \A p \in Range(mFifo) : p < n
            /\ Range(mFifo') = Range(mFifo) \cup {n} /\ mFifo' \in Seq(Nat) /\ Rising(mFifo')
            /\ UNCHANGED <<rx, todo, asked, answers>>
<1> DEFINE n == Head(mng).trans
<1>1. /\ mng # <<>> /\ mng' = Tail(mng) /\ UNCHANGED <<rx, todo, asked, answers>>
      /\ mFifo' = Append(mFifo, n) /\ asked[n].kind # "sclist"
  BY Zenon DEF MngGet
<1>2. Head(mng) \in Events /\ Head(mng) \in Range(mng) /\ n \in DOMAIN asked
  BY <1>1, MngHead, Zenon
<1>3. n \in Nat /\ Head(mng).status = 0 /\ Head(mng).inst = 0
  BY <1>2, EventFields
<1>4. mFifo \in Seq(Nat) /\ Rising(mFifo) /\ \A p \in Range(mFifo) : p < n
  BY <1>2, <1>3, Zenon DEF IInv, TypeOK, OrderInv
<1> HIDE DEF n
<1>5. mFifo' \in Seq(Nat) /\ Range(mFifo') = Range(mFifo) \cup {n} /\ Rising(mFifo')
  <2>1. mFifo' = Append(mFifo, n) /\ n \in Nat /\ mFifo \in Seq(Nat)
    BY <1>1, <1>3, <1>4, Zenon
  <2>2. mFifo' \in Seq(Nat)
    BY <2>1
  <2>3. Range(mFifo') = Range(mFifo) \cup {n}
    BY <2>1, Ranges
  <2>4. Rising(mFifo')
    BY <1>4, <2>1, RisingQueue, Zenon
  <2> QED
    BY <2>2, <2>3, <2>4, Zenon
<1> QED
  BY <1>1, <1>2, <1>3, <1>4, <1>5, Zenon DEF n

LEMMA RecvStep ==
  ASSUME IInv, MngRecv, sock # <<>>
  PROVE  LET e == Request(Len(asked) + 1)
         IN /\ Len(asked) \in Nat /\ DOMAIN asked = 1..Len(asked) /\ DOMAIN asked' = 1..Len(asked) + 1
            /\ Len(asked') = Len(asked) + 1
            /\ \A n \in DOMAIN asked : asked'[n] = asked[n]
            /\ asked'[Len(asked) + 1] = Head(sock) /\ Head(sock) \in Cmds
            /\ e \in Events /\ e.status = 0 /\ e.trans = Len(asked) + 1 /\ e.inst = 0 /\ e.task = 0
            /\ mng' = Append(mng, e) /\ mng' \in Seq(Events) /\ Range(mng') = Range(mng) \cup {e}
            /\ peer' = Head(sock).client
            /\ pc # "start" /\ UNCHANGED <<mFifo, rx, todo, answers>>
<1> DEFINE e == Request(Len(asked) + 1)
           x == Head(sock)
<1>1. x \in Cmds /\ asked \in Seq(Cmds \cup {INIT}) /\ mng \in Seq(Events)
  BY Shortened, Zenon DEF IInv, TypeOK
<1>2. /\ asked' = Append(asked, x) /\ mng' = Append(mng, e) /\ peer' = x.client
      /\ pc # "start" /\ UNCHANGED <<mFifo, rx, todo, answers>>
  BY Zenon DEF MngRecv
<1>3. Len(asked) \in Nat /\ Len(asked) + 1 \in Nat
  BY <1>1
<1>4. e \in Events /\ e.status = 0 /\ e.trans = Len(asked) + 1 /\ e.inst = 0 /\ e.task = 0
  BY <1>3, EventTypes, Zenon
<1> HIDE DEF e, x
<1>5. /\ DOMAIN asked = 1..Len(asked) /\ DOMAIN asked' = 1..Len(asked) + 1 /\ Len(asked') = Len(asked) + 1
      /\ \A n \in DOMAIN asked : asked'[n] = asked[n]
      /\ asked'[Len(asked) + 1] = x
  <2>1. x \in Cmds \cup {INIT}
    BY <1>1, Zenon
  <2> QED
    BY <1>1, <1>2, <2>1, Appended
<1>6. mng' \in Seq(Events) /\ Range(mng') = Range(mng) \cup {e}
  BY <1>1, <1>2, <1>4, Appended, Ranges
<1> QED
  BY <1>1, <1>2, <1>3, <1>4, <1>5, <1>6, Zenon DEF e, x

-----------------------------------------------------------------------------
(* Every step keeps the invariant: types, and who was asked. *)

LEMMA NextType ==
  ASSUME IInv, [Next]_vars
  PROVE  TypeOK'
<1>1. TypeOK
  BY Zenon DEF IInv
<1>2. ASSUME NEW k \in Clients, NEW x \in Commands, Ask(k, x) PROVE TypeOK'
  BY <1>1, <1>2, AskType, Zenon
<1>3. CASE MngTimesOut
  BY <1>1, <1>3, Zenon DEF MngTimesOut, TypeOK
<1>4. ASSUME NEW c \in Containers, Take(c) PROVE TypeOK'
  <2>1. UNCHANGED <<pc, sock, peer, mng, mFifo, asked, answers>>
    BY <1>4, Zenon DEF Take
  <2>2. PICK n : n = Head(rx[c])
    BY Zenon
  <2>3. /\ rx' \in [Containers -> Seq(Nat)] /\ todo' \in [Containers -> SUBSET Events]
        /\ \A e \in todo'[c] : e.inst = c
        /\ \A d \in Containers \ {c} : todo'[d] = todo[d]
    BY <1>4, <2>2, TakeStep
  <2> QED
    BY <1>1, <2>1, <2>3, Zenon DEF TypeOK
<1>5. ASSUME NEW c \in Containers, Post(c) PROVE TypeOK'
  <2>1. UNCHANGED <<pc, sock, peer, mFifo, rx, asked, answers>>
    BY <1>5, Zenon DEF Post
  <2>2. /\ mng' \in Seq(Events) /\ todo' \in [Containers -> SUBSET Events] /\ todo'[c] \subseteq todo[c]
        /\ \A d \in Containers \ {c} : todo'[d] = todo[d]
    BY <1>5, PostStep, Zenon
  <2> QED
    BY <1>1, <2>1, <2>2, Zenon DEF TypeOK
<1>6. CASE UNCHANGED vars
  BY <1>1, <1>6, Zenon DEF vars, TypeOK
<1> QED
  BY <1>1, <1>2, <1>3, <1>4, <1>5, <1>6, StartType, MngGetType, MngRecvType, KernelType, Zenon DEF Next, Manager

LEMMA NextAsked ==
  ASSUME IInv, [Next]_vars
  PROVE  AskedInv'
<1>1. TypeOK /\ AskedInv
  BY Zenon DEF IInv
<1>2. ASSUME UNCHANGED asked, pc # "start", pc' # "start", peer' = peer PROVE AskedInv'
  BY <1>1, <1>2, Zenon DEF AskedInv
<1>3. ASSUME NEW k \in Clients, NEW x \in Commands, Ask(k, x) PROVE AskedInv'
  BY <1>2, <1>3, Zenon DEF Ask
<1>4. CASE Start
  <2>1. asked' = <<INIT>> /\ pc' = "get" /\ peer' = peer
    BY <1>4, Zenon DEF Start
  <2>2. peer = None
    BY <1>4, Zenon DEF Start, IInv, AskedInv
  <2> QED
    BY <2>1, <2>2 DEF AskedInv, INIT
<1>5. CASE MngGet
  BY <1>2, <1>5, Zenon DEF MngGet
<1>6. CASE MngTimesOut
  BY <1>2, <1>6, Zenon DEF MngTimesOut
<1>7. CASE MngRecv
  <2>1. CASE sock = <<>>
    BY <1>2, <1>7, <2>1, Zenon DEF MngRecv
  <2>2. CASE sock # <<>>
    <3>1. /\ Len(asked) \in Nat /\ DOMAIN asked = 1..Len(asked) /\ DOMAIN asked' = 1..Len(asked) + 1
          /\ Len(asked') = Len(asked) + 1
          /\ \A n \in DOMAIN asked : asked'[n] = asked[n]
          /\ asked'[Len(asked) + 1] = Head(sock) /\ Head(sock) \in Cmds
          /\ peer' = Head(sock).client /\ pc # "start"
      BY <1>7, <2>2, RecvStep, Zenon
    <3>2. asked # <<>> /\ asked[1] = INIT /\ \A n \in 2..Len(asked) : asked[n] \in Cmds
      BY <1>1, <3>1, Zenon DEF AskedInv
    <3>3. 1 \in DOMAIN asked
      BY <1>1, <3>2 DEF TypeOK
    <3>4. asked' # <<>> /\ asked'[1] = INIT
      BY <3>1, <3>2, <3>3
    <3>5. \A n \in 2..Len(asked') : asked'[n] \in Cmds
      <4> SUFFICES ASSUME NEW n \in 2..Len(asked') PROVE asked'[n] \in Cmds
        BY Zenon
      <4>1. CASE n = Len(asked) + 1
        BY <3>1, <4>1, Zenon
      <4>2. CASE n # Len(asked) + 1
        BY <3>1, <3>2, <4>2
      <4> QED
        BY <4>1, <4>2, Zenon
    <3>6. pc' # "start"
      BY <1>7, Zenon DEF MngRecv
    <3> QED
      BY <3>1, <3>4, <3>5, <3>6, Zenon DEF AskedInv
  <2> QED
    BY <2>1, <2>2, Zenon
<1>8. CASE Kernel
  <2>1. pc # "start" /\ UNCHANGED <<pc, peer, asked>>
    BY <1>8, KernelHead, Zenon DEF Kernel
  <2> QED
    BY <1>2, <2>1, Zenon
<1>9. ASSUME NEW c \in Containers, Take(c) PROVE AskedInv'
  <2>1. pc # "start" /\ UNCHANGED <<pc, peer, asked>>
    BY <1>1, <1>9, Zenon DEF Take, AskedInv
  <2> QED
    BY <1>2, <2>1, Zenon
<1>10. ASSUME NEW c \in Containers, Post(c) PROVE AskedInv'
  <2>1. pc # "start" /\ UNCHANGED <<pc, peer, asked>>
    BY <1>1, <1>10, Zenon DEF Post, AskedInv
  <2> QED
    BY <1>2, <2>1
<1>11. CASE UNCHANGED vars
  BY <1>1, <1>11, Zenon DEF vars, AskedInv
<1> QED
  BY <1>3, <1>4, <1>5, <1>6, <1>7, <1>8, <1>9, <1>10, <1>11, Zenon DEF Next, Manager

-----------------------------------------------------------------------------
(* Order *)

LEMMA StartStep ==
  ASSUME IInv, Start
  PROVE  /\ asked' = <<INIT>> /\ DOMAIN asked' = {1} /\ Range(mFifo') = {1} /\ Rising(mFifo')
         /\ mng' = <<>> /\ Range(mng') = {} /\ answers' = <<>> /\ Sent' = <<>> /\ Range(Sent') = {}
         /\ \A c \in Containers : rx'[c] = <<>> /\ Range(rx'[c]) = {} /\ todo'[c] = {}
<1>1. asked' = <<INIT>> /\ mFifo' = <<1>> /\ UNCHANGED <<mng, answers, rx, todo>>
  BY Zenon DEF Start
<1>2. mng = <<>> /\ answers = <<>> /\ \A c \in Containers : rx[c] = <<>> /\ todo[c] = {}
  BY Zenon DEF Start, IInv, AskedInv
<1>3. Sent' = <<>>
  <2>1. DOMAIN answers' = {}
    BY <1>1, <1>2
  <2> QED
    BY <2>1 DEF Sent
<1>4. DOMAIN asked' = {1} /\ Range(mFifo') = {1} /\ Rising(mFifo')
  <2>1. DOMAIN <<1>> = {1} /\ DOMAIN <<INIT>> = {1} /\ <<1>>[1] = 1
    OBVIOUS
  <2> QED
    BY <1>1, <2>1, Zenon DEF Range, Rising
<1> QED
  BY <1>1, <1>2, <1>3, <1>4, Empty, Zenon

LEMMA SentKept ==
  ASSUME UNCHANGED answers
  PROVE  Sent' = Sent
BY Zenon DEF Sent

LEMMA EmptyOrder ==
  /\ AsksRise(<<>>) /\ Rising(<<>>) /\ Single(<<>>)
  /\ \A c : AnswersRise(c, <<>>)
BY DEF AsksRise, Rising, Single, AnswersRise

LEMMA NextOrder ==
  ASSUME IInv, [Next]_vars
  PROVE  OrderInv'
<1>1. TypeOK /\ OrderInv
  BY Zenon DEF IInv
<1>2. ASSUME UNCHANGED <<mng, mFifo, asked, answers>> PROVE OrderInv'
  <2>1. Sent' = Sent
    BY <1>2, SentKept, Zenon
  <2> QED
    BY <1>1, <1>2, <2>1, Zenon DEF OrderInv
<1>3. CASE Start
  <2>1. /\ Range(mFifo') = {1} /\ DOMAIN asked' = {1} /\ Range(mng') = {} /\ Range(Sent') = {}
        /\ mng' = <<>> /\ Sent' = <<>> /\ Rising(mFifo')
    BY <1>3, StartStep, Zenon
  <2> QED
    BY <2>1, EmptyOrder, Zenon DEF OrderInv
<1>4. ASSUME MngGet, Head(mng).status > 0 \/ asked[Head(mng).trans].kind = "sclist" PROVE OrderInv'
  <2> DEFINE e == Head(mng)
  <2>1. /\ mng # <<>> /\ mng' = Tail(mng) /\ Sent' = Append(Sent, e) /\ Range(Sent') = Range(Sent) \cup {e}
        /\ UNCHANGED <<mFifo, asked>>
    BY <1>4, ReplyStep, Zenon
  <2>2. /\ Range(mng) = Range(mng') \cup {e}
        /\ AsksRise(mng') /\ \A f \in Range(mng') : e.status = 0 /\ f.status = 0 => e.trans < f.trans
    BY <2>1, MngTail, Zenon
  <2>3. e \in Events /\ Sent \in Seq(Events)
    BY <1>1, <2>1, MngHead, SentType, Zenon
  <2> HIDE DEF e
  <2>4. AsksRise(Sent')
    <3>1. \A g \in Range(Sent) : g.status = 0 /\ e.status = 0 => g.trans < e.trans
      BY <1>1, <2>2, Zenon DEF OrderInv
    <3>2. AsksRise(Sent)
      BY <1>1, Zenon DEF OrderInv
    <3> QED
      BY <2>1, <2>3, <3>1, <3>2, EventQueue, Zenon
  <2> QED
    BY <1>1, <2>1, <2>2, <2>4, Zenon DEF OrderInv
<1>5. ASSUME MngGet, ~(Head(mng).status > 0 \/ asked[Head(mng).trans].kind = "sclist") PROVE OrderInv'
  <2> DEFINE e == Head(mng)
             n == e.trans
  <2>1. /\ mng # <<>> /\ mng' = Tail(mng) /\ e.status = 0 /\ n \in Nat /\ n \in DOMAIN asked
        /\ Range(mFifo') = Range(mFifo) \cup {n} /\ Rising(mFifo')
        /\ UNCHANGED <<asked, answers>>
    BY <1>5, ForwardStep, Zenon
  <2>2. /\ Range(mng) = Range(mng') \cup {e}
        /\ AsksRise(mng') /\ \A f \in Range(mng') : e.status = 0 /\ f.status = 0 => e.trans < f.trans
    BY <2>1, MngTail, Zenon
  <2>3. Sent' = Sent
    BY <2>1, SentKept, Zenon
  <2> HIDE DEF e
  <2> QED
    BY <1>1, <2>1, <2>2, <2>3, Zenon DEF OrderInv
<1>6. ASSUME MngRecv, sock # <<>> PROVE OrderInv'
  <2> DEFINE e == Request(Len(asked) + 1)
  <2>1. /\ Len(asked) \in Nat /\ DOMAIN asked = 1..Len(asked) /\ DOMAIN asked' = 1..Len(asked) + 1
        /\ e \in Events /\ e.status = 0 /\ e.trans = Len(asked) + 1
        /\ mng' = Append(mng, e) /\ Range(mng') = Range(mng) \cup {e}
        /\ UNCHANGED <<mFifo, answers>>
    BY <1>6, RecvStep, Zenon
  <2>2. Sent' = Sent
    BY <2>1, SentKept, Zenon
  <2> HIDE DEF e
  <2>3. AsksRise(mng')
    <3>1. mng \in Seq(Events) /\ AsksRise(mng) /\ \A f \in Range(mng) : f.status = 0 => f.trans \in DOMAIN asked
      BY <1>1, Zenon DEF TypeOK, OrderInv
    <3>2. \A f \in Range(mng) : f.status = 0 /\ e.status = 0 => f.trans < e.trans
      BY <2>1, <3>1
    <3> QED
      BY <2>1, <3>1, <3>2, EventQueue, Zenon
  <2>4. \A p \in Range(mFifo') : p \in DOMAIN asked' /\ \A f \in Range(mng') : f.status = 0 => p < f.trans
    BY <1>1, <2>1 DEF OrderInv
  <2>5. \A f \in Range(mng') \cup Range(Sent') : f.status = 0 => f.trans \in DOMAIN asked'
    BY <1>1, <2>1, <2>2 DEF OrderInv
  <2>6. \A f \in Range(Sent'), g \in Range(mng') : f.status = 0 /\ g.status = 0 => f.trans < g.trans
    BY <1>1, <2>1, <2>2 DEF OrderInv
  <2> QED
    BY <1>1, <2>1, <2>2, <2>3, <2>4, <2>5, <2>6, Zenon DEF OrderInv
<1>7. CASE Kernel
  <2>1. Rising(mFifo') /\ Range(mFifo') \subseteq Range(mFifo)
    BY <1>7, KernelHead, Zenon
  <2>2. AsksRise(mng') /\ Range(mng) \subseteq Range(mng') /\ \A e \in Range(mng') \ Range(mng) : e.status > 0
    BY <1>7, KernelMng, Zenon
  <2>3. UNCHANGED <<asked, answers>> /\ Sent' = Sent
    BY <1>7, SentKept, Zenon DEF Kernel
  <2> QED
    BY <1>1, <2>1, <2>2, <2>3 DEF OrderInv
<1>8. ASSUME NEW c \in Containers, Post(c) PROVE OrderInv'
  <2>1. PICK e \in todo[c] :
          /\ e \in Events /\ e.status = 1 /\ mng' = Append(mng, e) /\ Range(mng') = Range(mng) \cup {e}
          /\ UNCHANGED <<mFifo, asked, answers>>
    BY <1>8, PostStep, Zenon
  <2>2. Sent' = Sent
    BY <2>1, SentKept, Zenon
  <2>3. AsksRise(mng')
    <3>1. mng \in Seq(Events) /\ AsksRise(mng)
      BY <1>1, Zenon DEF TypeOK, OrderInv
    <3>2. \A f \in Range(mng) : f.status = 0 /\ e.status = 0 => f.trans < e.trans
      BY <2>1
    <3> QED
      BY <2>1, <3>1, <3>2, EventQueue, Zenon
  <2> QED
    BY <1>1, <2>1, <2>2, <2>3 DEF OrderInv
<1>9. ASSUME NEW k \in Clients, NEW x \in Commands, Ask(k, x) PROVE OrderInv'
  BY <1>2, <1>9, Zenon DEF Ask
<1>10. CASE MngTimesOut
  BY <1>2, <1>10, Zenon DEF MngTimesOut
<1>11. ASSUME MngRecv, sock = <<>> PROVE OrderInv'
  BY <1>2, <1>11, Zenon DEF MngRecv
<1>12. ASSUME NEW c \in Containers, Take(c) PROVE OrderInv'
  BY <1>2, <1>12, Zenon DEF Take
<1>13. CASE UNCHANGED vars
  BY <1>2, <1>13, Zenon DEF vars
<1> QED
  BY <1>3, <1>4, <1>5, <1>6, <1>7, <1>8, <1>9, <1>10, <1>11, <1>12, <1>13, Zenon DEF Next, Manager

(* A command once handled stays handled, and the kernel's step handles one. *)
LEMMA PastKept ==
  ASSUME IInv, [Next]_vars, NEW n, Past(n)
  PROVE  Past(n)'
<1>1. TypeOK /\ OrderInv
  BY Zenon DEF IInv
<1>2. ASSUME UNCHANGED <<mng, mFifo, asked>> PROVE Past(n)'
  BY <1>2, Zenon DEF Past
<1>3. CASE Start
  <2>1. asked = <<>>
    BY <1>3, Zenon DEF Start, IInv, AskedInv
  <2> QED
    BY <2>1 DEF Past
<1>4. ASSUME MngGet, Head(mng).status > 0 \/ asked[Head(mng).trans].kind = "sclist" PROVE Past(n)'
  <2>1. mng # <<>> /\ mng' = Tail(mng) /\ UNCHANGED <<mFifo, asked>>
    BY <1>4, ReplyStep, Zenon
  <2>2. Range(mng') \subseteq Range(mng)
    BY <2>1, MngTail, Zenon
  <2> QED
    BY <2>1, <2>2, Zenon DEF Past
<1>5. ASSUME MngGet, ~(Head(mng).status > 0 \/ asked[Head(mng).trans].kind = "sclist") PROVE Past(n)'
  <2> DEFINE e == Head(mng)
  <2>1. /\ mng # <<>> /\ mng' = Tail(mng) /\ e.status = 0 /\ UNCHANGED asked
        /\ Range(mFifo') = Range(mFifo) \cup {e.trans}
    BY <1>5, ForwardStep, Zenon
  <2>2. Range(mng) = Range(mng') \cup {e}
    BY <2>1, MngTail, Zenon
  <2> HIDE DEF e
  <2> QED
    BY <2>1, <2>2, Zenon DEF Past
<1>6. ASSUME MngRecv, sock # <<>> PROVE Past(n)'
  <2> DEFINE e == Request(Len(asked) + 1)
  <2>1. /\ Len(asked) \in Nat /\ DOMAIN asked = 1..Len(asked) /\ DOMAIN asked' = 1..Len(asked) + 1
        /\ e.trans = Len(asked) + 1 /\ Range(mng') = Range(mng) \cup {e} /\ UNCHANGED mFifo
    BY <1>6, RecvStep, Zenon
  <2> HIDE DEF e
  <2> QED
    BY <2>1 DEF Past
<1>7. CASE Kernel
  <2>1. Range(mFifo') \subseteq Range(mFifo) /\ UNCHANGED asked
    BY <1>7, KernelHead, Zenon DEF Kernel
  <2>2. \A e \in Range(mng') \ Range(mng) : e.status > 0
    BY <1>7, KernelMng, Zenon
  <2> QED
    BY <2>1, <2>2 DEF Past
<1>8. ASSUME NEW c \in Containers, Post(c) PROVE Past(n)'
  <2>1. PICK e \in todo[c] : /\ e.status = 1 /\ Range(mng') = Range(mng) \cup {e}
                             /\ UNCHANGED <<mFifo, asked>>
    BY <1>8, PostStep, Zenon
  <2> QED
    BY <2>1 DEF Past
<1>9. ASSUME NEW k \in Clients, NEW x \in Commands, Ask(k, x) PROVE Past(n)'
  BY <1>2, <1>9, Zenon DEF Ask
<1>10. CASE MngTimesOut
  BY <1>2, <1>10, Zenon DEF MngTimesOut
<1>11. ASSUME MngRecv, sock = <<>> PROVE Past(n)'
  BY <1>2, <1>11, Zenon DEF MngRecv
<1>12. ASSUME NEW c \in Containers, Take(c) PROVE Past(n)'
  BY <1>2, <1>12, Zenon DEF Take
<1>13. CASE UNCHANGED vars
  BY <1>2, <1>13, Zenon DEF vars
<1> QED
  BY <1>3, <1>4, <1>5, <1>6, <1>7, <1>8, <1>9, <1>10, <1>11, <1>12, <1>13, Zenon DEF Next, Manager

LEMMA KernelPast ==
  ASSUME IInv, Kernel, NEW n, n = Head(mFifo)
  PROVE  Past(n)' /\ \A p : Past(p) => p \in Nat /\ p < n
<1>1. /\ n \in DOMAIN asked /\ \A p \in Range(mFifo') : n < p
      /\ \A e \in Range(mng) : e.status = 0 => n < e.trans
      /\ n \in Range(mFifo)
  BY KernelHead, Zenon
<1>2. \A e \in Range(mng') \ Range(mng) : e.status > 0
  BY KernelMng, Zenon
<1>3. UNCHANGED asked
  BY Zenon DEF Kernel
<1>4. DOMAIN asked \subseteq Nat
  BY DEF IInv, TypeOK
<1>5. n \in DOMAIN asked' /\ \A e \in Range(mng') : e.status = 0 => n < e.trans
  BY <1>1, <1>2, <1>3
<1>6. \A p : Past(p) => p \in Nat /\ p < n
  BY <1>1, <1>4, Zenon DEF Past
<1> QED
  BY <1>1, <1>5, <1>6, Zenon DEF Past

LEMMA SenderQuiet ==
  ASSUME IInv, [Next]_vars, NEW c \in Containers \cup {0},
         UNCHANGED <<rx, todo>>, Range(Sent') = Range(Sent), Range(mng') \subseteq Range(mng),
         AnswersRise(c, mng'), AnswersRise(c, Sent')
  PROVE  SenderInv(c)'
<1>1. SenderInv(c)
  BY Zenon DEF IInv
<1>2. Queue(c)' = Queue(c) /\ Todo(c)' = Todo(c)
  BY Zenon DEF Queue, Todo
<1>3. \A n : Past(n) => Past(n)'
  BY PastKept, Zenon
<1> QED
  BY <1>1, <1>2, <1>3, Zenon DEF SenderInv

LEMMA SenderReply ==
  ASSUME IInv, MngGet, Head(mng).status > 0 \/ asked[Head(mng).trans].kind = "sclist",
         NEW c \in Containers \cup {0}
  PROVE  SenderInv(c)'
<1>1. SenderInv(c) /\ TypeOK
  BY Zenon DEF IInv
<1>2. PICK e : e = Head(mng)
  BY Zenon
<1>3. /\ mng # <<>> /\ mng' = Tail(mng) /\ Sent' = Append(Sent, e) /\ Range(Sent') = Range(Sent) \cup {e}
      /\ UNCHANGED <<mFifo, rx, todo, asked>>
  BY <1>2, ReplyStep, Zenon
<1>4. /\ Range(mng) = Range(mng') \cup {e} /\ AnswersRise(c, mng')
      /\ \A f \in Range(mng') : From(c, e) /\ From(c, f) => e.trans <= f.trans
  BY <1>2, <1>3, MngTail, Zenon
<1>5. e \in Events /\ Sent \in Seq(Events)
  BY <1>1, <1>2, <1>3, MngHead, SentType, Zenon
<1>6. Queue(c)' = Queue(c) /\ Todo(c)' = Todo(c)
  BY <1>3, Zenon DEF Queue, Todo
<1>7. \A n : Past(n) => Past(n)'
  <2>1. Next
    BY Zenon DEF Next, Manager
  <2> QED
    BY <2>1, PastKept, Zenon
<1>8. AnswersRise(c, Sent')
  <2>1. \A f \in Range(Sent) : From(c, f) /\ From(c, e) => f.trans <= e.trans
    BY <1>1, <1>4, Zenon DEF SenderInv
  <2> QED
    BY <1>1, <1>3, <1>5, <2>1, EventQueue, Zenon DEF SenderInv
<1>9. \A f \in Range(Sent'), g \in Range(mng') : From(c, f) /\ From(c, g) => f.trans <= g.trans
  BY <1>1, <1>3, <1>4, Zenon DEF SenderInv
<1>10. Range(mng') \cup Range(Sent') = Range(mng) \cup Range(Sent)
  BY <1>3, <1>4, Zenon
<1> QED
  BY <1>1, <1>3, <1>4, <1>6, <1>7, <1>8, <1>9, <1>10 DEF SenderInv

LEMMA SenderRecv ==
  ASSUME IInv, MngRecv, sock # <<>>, NEW c \in Containers \cup {0}
  PROVE  SenderInv(c)'
<1>1. SenderInv(c) /\ TypeOK
  BY Zenon DEF IInv
<1>2. PICK e : e = Request(Len(asked) + 1)
  BY Zenon
<1>3. /\ e \in Events /\ e.status = 0 /\ mng' = Append(mng, e) /\ Range(mng') = Range(mng) \cup {e}
      /\ UNCHANGED <<mFifo, rx, todo, answers>>
  BY <1>2, RecvStep, Zenon
<1>4. Sent' = Sent
  BY <1>3, SentKept, Zenon
<1>5. ~From(c, e)
  BY <1>3 DEF From
<1>6. Queue(c)' = Queue(c) /\ Todo(c)' = Todo(c)
  BY <1>3, Zenon DEF Queue, Todo
<1>7. \A n : Past(n) => Past(n)'
  <2>1. Next
    BY Zenon DEF Next, Manager
  <2> QED
    BY <2>1, PastKept, Zenon
<1>8. AnswersRise(c, mng')
  <2>1. mng \in Seq(Events) /\ AnswersRise(c, mng)
    BY <1>1, Zenon DEF TypeOK, SenderInv
  <2> QED
    BY <1>3, <1>5, <2>1, EventQueue, Zenon
<1>9. \A f \in Range(mng') \cup Range(Sent') : From(c, f) => f \in Range(mng) \cup Range(Sent)
  BY <1>3, <1>4, <1>5, Zenon
<1>10. \A f \in Range(Sent'), g \in Range(mng') : From(c, f) /\ From(c, g) => f.trans <= g.trans
  BY <1>1, <1>3, <1>4, <1>5, Zenon DEF SenderInv
<1> QED
  BY <1>1, <1>3, <1>4, <1>6, <1>7, <1>8, <1>9, <1>10, SMTT(60) DEF SenderInv

LEMMA SenderKernel ==
  ASSUME IInv, Kernel, NEW c \in Containers \cup {0}
  PROVE  SenderInv(c)'
<1>1. SenderInv(c) /\ TypeOK
  BY Zenon DEF IInv
<1>2. PICK n : n = Head(mFifo)
  BY Zenon
<1>3. Past(n)' /\ \A p : Past(p) => p \in Nat /\ p < n
  BY <1>2, KernelPast, Zenon
<1>4. \A p : Past(p) => Past(p)'
  <2>1. Next
    BY Zenon DEF Next
  <2> QED
    BY <2>1, PastKept, Zenon
<1>5. /\ Range(mng) \subseteq Range(mng') /\ AnswersRise(c, mng')
      /\ \A e \in Range(mng') \ Range(mng) : e.status > 0 /\ e.inst = 0 /\ e.trans = n
  BY <1>2, KernelMng, Zenon
<1>6. UNCHANGED <<todo, asked, answers>> /\ Sent' = Sent /\ Todo(c)' = Todo(c)
  BY SentKept, Zenon DEF Kernel, Todo
<1>7. CASE c = 0
  <2>1. c \notin Containers
    BY <1>7, ContainerIds
  <2>2. Queue(c)' = {} /\ Todo(c)' = {}
    BY <2>1, Zenon DEF Queue, Todo
  <2>3. \A e \in Range(mng') \cup Range(Sent') : From(c, e) => Past(e.trans)'
    BY <1>1, <1>3, <1>4, <1>5, <1>6, Zenon DEF SenderInv
  <2>4. \A e \in Range(Sent'), f \in Range(mng') : From(c, e) /\ From(c, f) => e.trans <= f.trans
    <3> SUFFICES ASSUME NEW e \in Range(Sent'), NEW f \in Range(mng'), From(c, e), From(c, f)
                 PROVE  e.trans <= f.trans
      BY Zenon
    <3>1. CASE f \in Range(mng)
      BY <1>1, <1>6, <3>1, Zenon DEF SenderInv
    <3>2. CASE f \notin Range(mng)
      <4>1. f.trans = n /\ Past(e.trans)
        BY <1>1, <1>5, <1>6, <3>2, Zenon DEF SenderInv
      <4>2. e.trans \in Nat /\ e.trans < n /\ n \in Nat
        BY <1>2, <1>3, <4>1, KernelHead, Zenon
      <4> QED
        BY <4>1, <4>2
    <3> QED
      BY <3>1, <3>2, Zenon
  <2> QED
    BY <1>1, <1>5, <1>6, <2>1, <2>2, <2>3, <2>4, Zenon DEF SenderInv
<1>8. CASE c \in Containers
  <2>1. Rising(rx'[c]) /\ (Queue(c)' = Queue(c) \/ Queue(c)' = Queue(c) \cup {n})
    BY <1>2, <1>8, KernelRx, Zenon DEF Queue
  <2>2. \A e \in Range(mng') \cup Range(Sent') : From(c, e) => e \in Range(mng) \cup Range(Sent)
    BY <1>5, <1>6, <1>8, ContainerIds DEF From
  <2>3. \A p \in Queue(c)' : Past(p)'
    BY <1>1, <1>3, <1>4, <2>1, Zenon DEF SenderInv
  <2>4. \A e \in Todo(c)' : /\ Past(e.trans)'
                            /\ \A p \in Queue(c)' : e.trans < p
                            /\ \A f \in Todo(c)' : e.trans = f.trans
    BY <1>1, <1>3, <1>4, <1>6, <2>1, Zenon DEF SenderInv
  <2>5. \A e \in Range(mng') \cup Range(Sent') :
          From(c, e) => /\ Past(e.trans)'
                        /\ \A p \in Queue(c)' : e.trans < p
                        /\ \A f \in Todo(c)' : e.trans <= f.trans
    BY <1>1, <1>3, <1>4, <1>6, <2>1, <2>2, Zenon DEF SenderInv
  <2>6. \A e \in Range(Sent'), f \in Range(mng') : From(c, e) /\ From(c, f) => e.trans <= f.trans
    <3>1. \A f \in Range(mng') : From(c, f) => f \in Range(mng)
      BY <1>5, <1>8, ContainerIds DEF From
    <3> QED
      BY <1>1, <1>6, <3>1, Zenon DEF SenderInv
  <2> QED
    BY <1>1, <1>5, <1>6, <2>1, <2>3, <2>4, <2>5, <2>6, Zenon DEF SenderInv
<1> QED
  BY <1>7, <1>8, Zenon

LEMMA SenderTake ==
  ASSUME IInv, NEW d \in Containers, Take(d), NEW c \in Containers \cup {0}
  PROVE  SenderInv(c)'
<1>1. SenderInv(c) /\ TypeOK
  BY Zenon DEF IInv
<1>2. PICK n : n = Head(rx[d])
  BY Zenon
<1>3. /\ n \in Nat /\ Past(n) /\ n \in Range(rx[d])
      /\ \A e \in todo'[d] : e.trans = n /\ e.inst = d /\ e.status = 1
      /\ Range(rx[d]) = Range(rx'[d]) \cup {n} /\ \A p \in Range(rx'[d]) : n < p
      /\ Rising(rx'[d])
      /\ \A a \in Containers \ {d} : rx'[a] = rx[a] /\ todo'[a] = todo[a]
      /\ UNCHANGED <<mng, answers>>
  BY <1>2, TakeStep, Zenon
<1>4. Sent' = Sent
  BY <1>3, SentKept, Zenon
<1>5. \A p : Past(p) => Past(p)'
  <2>1. Next
    BY Zenon DEF Next
  <2> QED
    BY <2>1, PastKept, Zenon
<1>6. CASE c # d
  <2>1. Queue(c)' = Queue(c) /\ Todo(c)' = Todo(c) /\ (c \in Containers => rx'[c] = rx[c])
    BY <1>3, <1>6, Zenon DEF Queue, Todo
  <2> QED
    BY <1>1, <1>3, <1>4, <1>5, <2>1 DEF SenderInv
<1>7. CASE c = d
  <2>1. Queue(c) = Queue(c)' \cup {n} /\ \A p \in Queue(c)' : n < p
    BY <1>3, <1>7, Zenon DEF Queue
  <2>2. \A e \in Todo(c)' : e.trans = n
    BY <1>3, <1>7, Zenon DEF Todo
  <2>3. \A e \in Range(mng) \cup Range(Sent) : From(c, e) => e.trans <= n
    <3> SUFFICES ASSUME NEW e \in Range(mng) \cup Range(Sent), From(c, e) PROVE e.trans <= n
      BY Zenon
    <3>1. e.trans < n
      BY <1>1, <2>1, Zenon DEF SenderInv
    <3>2. e.trans \in Nat
      <4>1. e \in Events
        BY <1>1, SentType, Ranges, Zenon DEF TypeOK
      <4> QED
        BY <4>1, EventFields, Zenon
    <3> QED
      BY <1>3, <3>1, <3>2
  <2>4. /\ \A p \in Queue(c)' : Past(p)'
        /\ \A e \in Todo(c)' : /\ Past(e.trans)'
                               /\ \A p \in Queue(c)' : e.trans < p
                               /\ \A f \in Todo(c)' : e.trans = f.trans
    BY <1>1, <1>3, <1>5, <2>1, <2>2 DEF SenderInv
  <2>5. \A e \in Range(mng') \cup Range(Sent') :
          From(c, e) => /\ Past(e.trans)'
                        /\ \A p \in Queue(c)' : e.trans < p
                        /\ \A f \in Todo(c)' : e.trans <= f.trans
    <3> SUFFICES ASSUME NEW e \in Range(mng) \cup Range(Sent), From(c, e)
                 PROVE  /\ Past(e.trans)'
                        /\ \A p \in Queue(c)' : e.trans < p
                        /\ \A f \in Todo(c)' : e.trans <= f.trans
      BY <1>3, <1>4, Zenon
    <3>1. Past(e.trans) /\ \A p \in Queue(c) : e.trans < p
      BY <1>1, Zenon DEF SenderInv
    <3>2. e.trans <= n
      BY <2>3, Zenon
    <3> QED
      BY <1>5, <2>1, <2>2, <3>1, <3>2, Zenon
  <2> QED
    BY <1>1, <1>3, <1>4, <1>7, <2>4, <2>5, Zenon DEF SenderInv
<1> QED
  BY <1>6, <1>7, Zenon

LEMMA SenderPost ==
  ASSUME IInv, NEW d \in Containers, Post(d), NEW c \in Containers \cup {0}
  PROVE  SenderInv(c)'
<1>1. SenderInv(c) /\ TypeOK
  BY DEF IInv
<1>2. PICK e \in todo[d] :
        /\ e \in Events /\ e.inst = d /\ e.status = 1 /\ Past(e.trans)
        /\ mng' = Append(mng, e) /\ Range(mng') = Range(mng) \cup {e}
        /\ todo'[d] = todo[d] \ {e}
        /\ \A a \in Containers \ {d} : todo'[a] = todo[a]
        /\ UNCHANGED <<rx, answers>>
  BY PostStep, Zenon
<1>3. Sent' = Sent /\ Queue(c)' = Queue(c)
  BY <1>2, SentKept, Zenon DEF Queue
<1>4. \A p : Past(p) => Past(p)'
  <2>1. Next
    BY Zenon DEF Next
  <2> QED
    BY <2>1, PastKept, Zenon
<1>5. Todo(c)' \subseteq Todo(c) /\ (From(c, e) => e \in Todo(c))
  <2>1. CASE c = d
    BY <1>2, <2>1, Zenon DEF Todo
  <2>2. CASE c # d
    BY <1>2, <2>2, Zenon DEF Todo, From
  <2> QED
    BY <2>1, <2>2, Zenon
<1>6. \A f \in Range(mng) \cup Range(Sent) : From(c, f) /\ From(c, e) => f.trans <= e.trans
  BY <1>1, <1>5, Zenon DEF SenderInv
<1>7. AnswersRise(c, mng')
  <2>1. mng \in Seq(Events) /\ AnswersRise(c, mng)
    BY <1>1, Zenon DEF TypeOK, SenderInv
  <2> QED
    BY <1>2, <1>6, <2>1, EventQueue, Zenon
<1>8. \A f \in Range(mng') \cup Range(Sent') :
        From(c, f) => /\ Past(f.trans)'
                      /\ \A p \in Queue(c)' : f.trans < p
                      /\ \A g \in Todo(c)' : f.trans <= g.trans
  <2> SUFFICES ASSUME NEW f \in Range(mng') \cup Range(Sent'), From(c, f)
               PROVE  /\ Past(f.trans)'
                      /\ \A p \in Queue(c)' : f.trans < p
                      /\ \A g \in Todo(c)' : f.trans <= g.trans
    BY Zenon
  <2>1. CASE f \in Range(mng) \cup Range(Sent)
    BY <1>1, <1>3, <1>4, <1>5, <2>1, Zenon DEF SenderInv
  <2>2. CASE f = e
    <3>1. e.trans \in Nat
      BY <1>2, EventFields, Zenon
    <3>2. \A g \in Todo(c) : g.trans = e.trans
      BY <1>1, <1>5, <2>2, Zenon DEF SenderInv
    <3> QED
      BY <1>1, <1>2, <1>3, <1>4, <1>5, <2>2, <3>1, <3>2, SMTT(60) DEF SenderInv
  <2> QED
    BY <1>2, <1>3, <2>1, <2>2, Zenon
<1>9. \A f \in Range(Sent'), g \in Range(mng') : From(c, f) /\ From(c, g) => f.trans <= g.trans
  BY <1>1, <1>2, <1>3, <1>6, Zenon DEF SenderInv
<1> QED
  BY <1>1, <1>2, <1>3, <1>4, <1>5, <1>7, <1>8, <1>9, ZenonT(60) DEF SenderInv

LEMMA NextSender ==
  ASSUME IInv, [Next]_vars, NEW c \in Containers \cup {0}
  PROVE  SenderInv(c)'
<1>1. SenderInv(c) /\ TypeOK
  BY Zenon DEF IInv
<1>2. ASSUME UNCHANGED <<rx, todo, mng, answers>> PROVE SenderInv(c)'
  BY <1>1, <1>2, SentKept, SenderQuiet, Zenon DEF SenderInv
<1>3. CASE Start
  <2>1. /\ mng' = <<>> /\ Range(mng') = {} /\ Sent' = <<>> /\ Range(Sent') = {}
        /\ \A d \in Containers : rx'[d] = <<>> /\ Range(rx'[d]) = {} /\ todo'[d] = {}
    BY <1>3, StartStep, Zenon
  <2>2. Queue(c)' = {} /\ Todo(c)' = {}
    BY <2>1, Zenon DEF Queue, Todo
  <2> QED
    BY <2>1, <2>2, EmptyOrder, Zenon DEF SenderInv
<1>4. CASE MngGet
  <2>1. CASE Head(mng).status > 0 \/ asked[Head(mng).trans].kind = "sclist"
    BY <1>4, <2>1, SenderReply, Zenon
  <2>2. CASE ~(Head(mng).status > 0 \/ asked[Head(mng).trans].kind = "sclist")
    <3>1. mng # <<>> /\ mng' = Tail(mng) /\ UNCHANGED <<rx, todo, answers>>
      BY <1>4, <2>2, ForwardStep, Zenon
    <3>2. Range(mng') \subseteq Range(mng) /\ AnswersRise(c, mng')
      BY <3>1, MngTail, Zenon
    <3>3. Sent' = Sent /\ AnswersRise(c, Sent')
      BY <1>1, <3>1, SentKept, Zenon DEF SenderInv
    <3> QED
      BY <3>1, <3>2, <3>3, SenderQuiet, Zenon
  <2> QED
    BY <2>1, <2>2, Zenon
<1>5. CASE MngRecv
  <2>1. CASE sock = <<>>
    BY <1>2, <1>5, <2>1, Zenon DEF MngRecv
  <2> QED
    BY <1>5, <2>1, SenderRecv, Zenon
<1>6. ASSUME NEW k \in Clients, NEW x \in Commands, Ask(k, x) PROVE SenderInv(c)'
  BY <1>2, <1>6, Zenon DEF Ask
<1>7. CASE MngTimesOut
  BY <1>2, <1>7, Zenon DEF MngTimesOut
<1>8. CASE UNCHANGED vars
  BY <1>2, <1>8, Zenon DEF vars
<1> QED
  BY <1>3, <1>4, <1>5, <1>6, <1>7, <1>8, SenderKernel, SenderTake, SenderPost, Zenon DEF Next, Manager

-----------------------------------------------------------------------------
(* No answer twice, and none that was not asked for. *)

LEMMA NextOnce ==
  ASSUME IInv, [Next]_vars
  PROVE  OnceInv'
<1>1. OnceInv /\ TypeOK
  BY Zenon DEF IInv
<1>2. \A c \in Containers : \A e \in todo[c] : e.inst = c /\ e.inst > 0
  BY <1>1, ContainerIds, Zenon DEF TypeOK
<1>3. ASSUME UNCHANGED <<todo, answers>>, Range(mng') \subseteq Range(mng), Single(mng') PROVE OnceInv'
  BY <1>1, <1>3, SentKept, Zenon DEF OnceInv
<1>4. ASSUME UNCHANGED <<mng, todo, answers>> PROVE OnceInv'
  BY <1>1, <1>4, SentKept, Zenon DEF OnceInv
<1>5. CASE Start
  <2>1. /\ mng' = <<>> /\ Range(mng') = {} /\ Sent' = <<>> /\ Range(Sent') = {}
        /\ \A d \in Containers : todo'[d] = {}
    BY <1>5, StartStep, Zenon
  <2> QED
    BY <2>1, EmptyOrder, Zenon DEF OnceInv
<1>6. ASSUME MngGet, Head(mng).status > 0 \/ asked[Head(mng).trans].kind = "sclist" PROVE OnceInv'
  <2> DEFINE e == Head(mng)
  <2>1. /\ mng # <<>> /\ mng' = Tail(mng) /\ Sent' = Append(Sent, e) /\ Range(Sent') = Range(Sent) \cup {e}
        /\ UNCHANGED todo
    BY <1>6, ReplyStep, Zenon
  <2>2. Range(mng) = Range(mng') \cup {e} /\ Single(mng') /\ (e.inst > 0 => e \notin Range(mng'))
    BY <2>1, MngTail, Zenon
  <2>3. e \in Events /\ Sent \in Seq(Events)
    BY <1>1, <2>1, MngHead, SentType, Zenon
  <2> HIDE DEF e
  <2>4. Single(Sent')
    <3>1. Single(Sent) /\ (e.inst > 0 => e \notin Range(Sent))
      BY <1>1, <2>2, Zenon DEF OnceInv
    <3> QED
      BY <2>1, <2>3, <3>1, EventQueue, Zenon
  <2>5. \A f \in Range(mng') : f.inst > 0 => f \notin Range(Sent')
    BY <1>1, <2>1, <2>2, Zenon DEF OnceInv
  <2>6. \A c \in Containers : \A f \in todo'[c] : f \notin Range(mng') /\ f \notin Range(Sent')
    BY <1>1, <2>1, <2>2, Zenon DEF OnceInv
  <2> QED
    BY <2>2, <2>4, <2>5, <2>6, Zenon DEF OnceInv
<1>7. ASSUME MngGet, ~(Head(mng).status > 0 \/ asked[Head(mng).trans].kind = "sclist") PROVE OnceInv'
  <2>1. mng # <<>> /\ mng' = Tail(mng) /\ UNCHANGED <<todo, answers>>
    BY <1>7, ForwardStep, Zenon
  <2>2. Range(mng') \subseteq Range(mng) /\ Single(mng')
    BY <2>1, MngTail, Zenon
  <2> QED
    BY <1>3, <2>1, <2>2, Zenon
<1>8. ASSUME UNCHANGED <<todo, answers>>, Single(mng'), \A e \in Range(mng') \ Range(mng) : e.inst = 0 PROVE OnceInv'
  <2>1. Sent' = Sent
    BY <1>8, SentKept, Zenon
  <2> QED
    BY <1>1, <1>2, <1>8, <2>1 DEF OnceInv
<1>9. ASSUME MngRecv, sock # <<>> PROVE OnceInv'
  <2> DEFINE e == Request(Len(asked) + 1)
  <2>1. /\ e \in Events /\ e.inst = 0 /\ mng' = Append(mng, e) /\ Range(mng') = Range(mng) \cup {e}
        /\ UNCHANGED <<todo, answers>>
    BY <1>9, RecvStep, Zenon
  <2> HIDE DEF e
  <2>2. Single(mng')
    <3>1. mng \in Seq(Events) /\ Single(mng)
      BY <1>1, Zenon DEF TypeOK, OnceInv
    <3> QED
      BY <2>1, <3>1, EventQueue
  <2> QED
    BY <1>8, <2>1, <2>2, Zenon
<1>10. CASE Kernel
  <2>1. Single(mng') /\ \A e \in Range(mng') \ Range(mng) : e.inst = 0
    BY <1>10, KernelMng, Zenon
  <2>2. UNCHANGED <<todo, answers>>
    BY <1>10, Zenon DEF Kernel
  <2> QED
    BY <1>8, <2>1, <2>2, Zenon
<1>11. ASSUME NEW c \in Containers, Take(c) PROVE OnceInv'
  <2>1. PICK n : n = Head(rx[c])
    OBVIOUS
  <2>2. /\ n \in Nat /\ n \in Range(rx[c]) /\ UNCHANGED <<mng, answers>>
        /\ \A e \in todo'[c] : e.trans = n /\ e.inst = c /\ e.status = 1
        /\ \A d \in Containers \ {c} : todo'[d] = todo[d]
    BY <1>11, <2>1, TakeStep
  <2>3. SenderInv(c)
    BY Zenon DEF IInv
  <2>4. \A e \in Range(mng) \cup Range(Sent) : From(c, e) => e.trans # n
    <3> SUFFICES ASSUME NEW e \in Range(mng) \cup Range(Sent), From(c, e) PROVE e.trans # n
      BY Zenon
    <3>1. e.trans < n
      BY <2>2, <2>3, Zenon DEF SenderInv, Queue
    <3> QED
      BY <2>2, <3>1
  <2>5. \A e \in todo'[c] : e \notin Range(mng) /\ e \notin Range(Sent)
    <3>1. \A e \in todo'[c] : From(c, e) /\ e.trans = n
      BY <2>2 DEF From
    <3> QED
      BY <2>4, <3>1, Zenon
  <2>6. Sent' = Sent
    BY <2>2, SentKept, Zenon
  <2> QED
    BY <1>1, <2>2, <2>5, <2>6, Zenon DEF OnceInv
<1>12. ASSUME NEW c \in Containers, Post(c) PROVE OnceInv'
  <2>1. PICK e \in todo[c] :
          /\ e \in Events /\ e.inst = c
          /\ mng' = Append(mng, e) /\ Range(mng') = Range(mng) \cup {e}
          /\ todo'[c] = todo[c] \ {e}
          /\ \A d \in Containers \ {c} : todo'[d] = todo[d]
          /\ UNCHANGED answers
    BY <1>12, PostStep, Zenon
  <2>2. Sent' = Sent
    BY <2>1, SentKept, Zenon
  <2>3. e \notin Range(mng) /\ e \notin Range(Sent)
    BY <1>1, Zenon DEF OnceInv
  <2>4. Single(mng')
    <3>1. mng \in Seq(Events) /\ Single(mng)
      BY <1>1, Zenon DEF TypeOK, OnceInv
    <3> QED
      BY <2>1, <2>3, <3>1, EventQueue, Zenon
  <2>5. ASSUME NEW d \in Containers, NEW f \in todo'[d] PROVE f \notin Range(mng') /\ f \notin Range(Sent')
    <3>1. f \in todo[d] /\ f # e
      BY <1>2, <2>1
    <3> QED
      BY <1>1, <2>1, <2>2, <3>1, Zenon DEF OnceInv
  <2>6. \A f \in Range(mng') : f.inst > 0 => f \notin Range(Sent')
    BY <1>1, <2>1, <2>2, <2>3, Zenon DEF OnceInv
  <2>7. Single(Sent')
    BY <1>1, <2>2, Zenon DEF OnceInv
  <2> QED
    BY <2>4, <2>5, <2>6, <2>7, Zenon DEF OnceInv
<1>13. ASSUME NEW k \in Clients, NEW x \in Commands, Ask(k, x) PROVE OnceInv'
  BY <1>4, <1>13, Zenon DEF Ask
<1>14. CASE MngTimesOut
  BY <1>4, <1>14, Zenon DEF MngTimesOut
<1>15. ASSUME MngRecv, sock = <<>> PROVE OnceInv'
  BY <1>4, <1>15, Zenon DEF MngRecv
<1>16. CASE UNCHANGED vars
  BY <1>4, <1>16, Zenon DEF vars
<1> QED
  BY <1>5, <1>6, <1>7, <1>9, <1>10, <1>11, <1>12, <1>13, <1>14, <1>15, <1>16, Zenon DEF Next, Manager

(* Answers of containers are to commands that have been received. *)
LEMMA InAsked ==
  ASSUME IInv
  PROVE  /\ \A e \in Range(mng) \cup Range(Sent) : e.trans \in DOMAIN asked
         /\ \A c \in Containers : (\A n \in Range(rx[c]) : n \in DOMAIN asked)
                                  /\ (\A e \in todo[c] : e.trans \in DOMAIN asked)
<1>1. ASSUME NEW e \in Range(mng) \cup Range(Sent) PROVE e.trans \in DOMAIN asked
  <2>1. e \in Events
    BY SentType, Ranges, Zenon DEF IInv, TypeOK
  <2>2. CASE e.status = 0
    BY <2>2, Zenon DEF IInv, OrderInv
  <2>3. CASE e.status # 0
    <3>1. From(e.inst, e) /\ e.inst \in Containers \cup {0}
      BY <2>1, <2>3, EventFields DEF From
    <3>2. SenderInv(e.inst)
      BY <3>1, Zenon DEF IInv
    <3> QED
      BY <3>1, <3>2, Zenon DEF SenderInv, Past
  <2> QED
    BY <2>2, <2>3, Zenon
<1>2. ASSUME NEW c \in Containers
      PROVE  (\A n \in Range(rx[c]) : n \in DOMAIN asked) /\ (\A e \in todo[c] : e.trans \in DOMAIN asked)
  <2>1. SenderInv(c)
    BY Zenon DEF IInv
  <2> QED
    BY <2>1, Zenon DEF SenderInv, Queue, Todo, Past
<1> QED
  BY <1>1, <1>2, Zenon

LEMMA TargetInst ==
  ASSUME NEW x, x.inst \in Nat, NEW c, c \in Targets(x)
  PROVE  x.inst \in {0, c}
<1>1. CASE x.inst > 0
  BY <1>1 DEF Targets
<1> QED
  BY <1>1

LEMMA NextAskedFor ==
  ASSUME IInv, [Next]_vars
  PROVE  AskedForInv'
<1>1. AskedForInv /\ TypeOK
  BY Zenon DEF IInv
<1>2. ASSUME NEW e, e.inst = 0 PROVE AskedFor(e)'
  BY <1>2 DEF AskedFor
<1>3. ASSUME UNCHANGED asked, NEW e, AskedFor(e) PROVE AskedFor(e)'
  BY <1>3, Zenon DEF AskedFor
<1>4. ASSUME UNCHANGED <<mng, asked, answers, rx, todo>> PROVE AskedForInv'
  BY <1>1, <1>3, <1>4, SentKept, Zenon DEF AskedForInv
<1>5. CASE Start
  <2>1. /\ Range(mng') = {} /\ Range(Sent') = {}
        /\ \A d \in Containers : Range(rx'[d]) = {} /\ todo'[d] = {}
    BY <1>5, StartStep, Zenon
  <2> QED
    BY <2>1, Zenon DEF AskedForInv
<1>6. ASSUME MngGet, Head(mng).status > 0 \/ asked[Head(mng).trans].kind = "sclist" PROVE AskedForInv'
  <2>1. /\ mng # <<>> /\ mng' = Tail(mng) /\ Range(Sent') = Range(Sent) \cup {Head(mng)}
        /\ UNCHANGED <<rx, todo, asked>>
    BY <1>6, ReplyStep, Zenon
  <2>2. Range(mng) = Range(mng') \cup {Head(mng)}
    BY <2>1, MngTail, Zenon
  <2>3. Range(mng') \cup Range(Sent') = Range(mng) \cup Range(Sent)
    BY <2>1, <2>2, Zenon
  <2> QED
    BY <1>1, <1>3, <2>1, <2>3, Zenon DEF AskedForInv
<1>7. ASSUME MngGet, ~(Head(mng).status > 0 \/ asked[Head(mng).trans].kind = "sclist") PROVE AskedForInv'
  <2>1. mng # <<>> /\ mng' = Tail(mng) /\ UNCHANGED <<rx, todo, asked, answers>>
    BY <1>7, ForwardStep, Zenon
  <2>2. Range(mng') \subseteq Range(mng) /\ Sent' = Sent
    BY <2>1, MngTail, SentKept, Zenon
  <2> QED
    BY <1>1, <1>3, <2>1, <2>2, Zenon DEF AskedForInv
<1>8. ASSUME MngRecv, sock # <<>> PROVE AskedForInv'
  <2>1. PICK r : r = Request(Len(asked) + 1)
    BY Zenon
  <2>2. /\ r.inst = 0 /\ Range(mng') = Range(mng) \cup {r}
        /\ \A n \in DOMAIN asked : asked'[n] = asked[n]
        /\ UNCHANGED <<rx, todo, answers>>
    BY <1>8, <2>1, RecvStep, Zenon
  <2>3. \A e : e.trans \in DOMAIN asked /\ AskedFor(e) => AskedFor(e)'
    BY <2>2, Zenon DEF AskedFor
  <2>4. Sent' = Sent
    BY <2>2, SentKept, Zenon
  <2>5. AskedFor(r)'
    BY <1>2, <2>2, Zenon
  <2>6. \A e \in Range(mng') \cup Range(Sent') : AskedFor(e)'
    BY <1>1, <2>2, <2>3, <2>4, <2>5, InAsked, Zenon DEF AskedForInv
  <2>7. \A c \in Containers : \A e \in todo'[c] : AskedFor(e)'
    BY <1>1, <2>2, <2>3, InAsked, Zenon DEF AskedForInv
  <2>8. \A c \in Containers : \A n \in Range(rx'[c]) : asked'[n].inst \in {0, c}
    BY <1>1, <2>2, InAsked, Zenon DEF AskedForInv
  <2> QED
    BY <2>6, <2>7, <2>8, Zenon DEF AskedForInv
<1>9. CASE Kernel
  <2>1. PICK n : n = Head(mFifo)
    BY Zenon
  <2>2. \A e \in Range(mng') \ Range(mng) : e.inst = 0
    BY <1>9, KernelMng, Zenon
  <2>3. UNCHANGED <<todo, asked, answers>> /\ Sent' = Sent
    BY <1>9, SentKept, Zenon DEF Kernel
  <2>4. \A c \in Containers : \/ rx'[c] = rx[c]
                              \/ Range(rx'[c]) = Range(rx[c]) \cup {n} /\ c \in Targets(asked[n])
    BY <1>9, <2>1, KernelRx, Zenon
  <2>5. n \in DOMAIN asked /\ asked[n].inst \in Nat
    BY <1>1, <1>9, <2>1, KernelHead, AskedKinds, Zenon
  <2>6. ASSUME NEW c \in Containers, c \in Targets(asked[n]) PROVE asked[n].inst \in {0, c}
    BY <2>5, <2>6, TargetInst, Zenon
  <2>7. \A c \in Containers : \A p \in Range(rx'[c]) : asked'[p].inst \in {0, c}
    BY <1>1, <2>3, <2>4, <2>6 DEF AskedForInv
  <2>8. \A e \in Range(mng') \cup Range(Sent') : AskedFor(e)'
    BY <1>1, <1>2, <1>3, <2>2, <2>3, Zenon DEF AskedForInv
  <2> QED
    BY <1>1, <1>3, <2>3, <2>7, <2>8, Zenon DEF AskedForInv
<1>10. ASSUME NEW c \in Containers, Take(c) PROVE AskedForInv'
  <2>1. PICK n : n = Head(rx[c])
    OBVIOUS
  <2>2. /\ n \in Nat /\ n \in Range(rx[c]) /\ UNCHANGED <<mng, answers, asked>>
        /\ Range(rx'[c]) \subseteq Range(rx[c])
        /\ \A d \in Containers \ {c} : rx'[d] = rx[d] /\ todo'[d] = todo[d]
    BY <1>10, <2>1, TakeStep, Zenon
  <2>3. n \in DOMAIN asked /\ asked[n].inst \in {0, c} /\ asked[n].task \in Nat
    BY <1>1, <2>2, InAsked, AskedKinds, Zenon DEF AskedForInv
  <2>4. ASSUME NEW t \in Answering(c, asked[n]) PROVE AskedFor(Answer(n, t, c, 1))'
    <3> DEFINE x == asked[n]
    <3>1. x.inst \in {0, c} /\ x.task \in Nat /\ t \in Answering(c, x)
      BY <2>3, Zenon
    <3> HIDE DEF x
    <3>2. IF x.kind = "set" THEN x.inst \in {0, c} ELSE Asks(x, t, c)
      BY <3>1 DEF Answering, Asks, HostedBy
    <3>3. t \in Nat \ {0}
      BY AnsweringType, Zenon
    <3>4. PICK e : e = Answer(n, t, c, 1)
      BY Zenon
    <3>5. e.trans = n /\ e.task = t /\ e.inst = c
      BY <2>2, <3>3, <3>4, EventTypes
    <3>6. asked'[n] = x
      BY <2>2, Zenon DEF x
    <3> QED
      BY <3>2, <3>4, <3>5, <3>6, Zenon DEF AskedFor
  <2>5. Sent' = Sent
    BY <2>2, SentKept, Zenon
  <2>6. \A d \in Containers : \A e \in todo'[d] : AskedFor(e)'
    <3> SUFFICES ASSUME NEW d \in Containers, NEW e \in todo'[d] PROVE AskedFor(e)'
      BY Zenon
    <3>1. CASE d = c
      <4>1. PICK t \in Answering(c, asked[n]) : e = Answer(n, t, c, 1)
        BY <1>10, <2>1, <3>1, TakeTodo, Zenon
      <4> QED
        BY <2>4, <4>1, Zenon
    <3>2. CASE d # c
      BY <1>1, <1>3, <2>2, <3>2, Zenon DEF AskedForInv
    <3> QED
      BY <3>1, <3>2, Zenon
  <2>7. \A d \in Containers : \A p \in Range(rx'[d]) : asked'[p].inst \in {0, d}
    BY <1>1, <2>2, Zenon DEF AskedForInv
  <2> QED
    BY <1>1, <1>3, <2>2, <2>5, <2>6, <2>7, Zenon DEF AskedForInv
<1>11. ASSUME NEW c \in Containers, Post(c) PROVE AskedForInv'
  <2>1. PICK e \in todo[c] :
          /\ Range(mng') = Range(mng) \cup {e}
          /\ todo'[c] = todo[c] \ {e}
          /\ \A d \in Containers \ {c} : todo'[d] = todo[d]
          /\ UNCHANGED <<rx, asked, answers>>
    BY <1>11, PostStep, Zenon
  <2>2. Sent' = Sent /\ \A d \in Containers : todo'[d] \subseteq todo[d]
    BY <2>1, SentKept, Zenon
  <2> QED
    BY <1>1, <1>3, <2>1, <2>2, Zenon DEF AskedForInv
<1>12. ASSUME NEW k \in Clients, NEW x \in Commands, Ask(k, x) PROVE AskedForInv'
  BY <1>4, <1>12, Zenon DEF Ask
<1>13. CASE MngTimesOut
  BY <1>4, <1>13, Zenon DEF MngTimesOut
<1>14. ASSUME MngRecv, sock = <<>> PROVE AskedForInv'
  BY <1>4, <1>14, Zenon DEF MngRecv
<1>15. CASE UNCHANGED vars
  BY <1>4, <1>15, Zenon DEF vars
<1> QED
  BY <1>5, <1>6, <1>7, <1>8, <1>9, <1>10, <1>11, <1>12, <1>13, <1>14, <1>15, SMTT(60) DEF Next, Manager

-----------------------------------------------------------------------------
(* Nothing that was asked for is lost. *)

LEMMA SaidMore ==
  ASSUME NEW S, NEW T, S \subseteq T, NEW n, NEW task, NEW inst, Said(S, n, task, inst)
  PROVE  Said(T, n, task, inst)
BY Zenon DEF Said

(* The containers that a command asks get it. *)
LEMMA AskedIsTarget ==
  ASSUME NEW x, x.inst \in Nat, x.task \in Nat, NEW t \in Tasks, NEW c \in Range(Hosts[t]), Asks(x, t, c)
  PROVE  Forwarded(x) /\ c \in Targets(x) /\ c \in Containers
<1>1. t \in Nat /\ t > TASKCONTAINER /\ Hosts[t] \in Seq(Containers) /\ 0 \notin Tasks
  BY EventsAssumption DEF TASKCONTAINER
<1>2. c \in Containers
  BY <1>1, Ranges, Zenon
<1>3. Forwarded(x)
  BY <1>1 DEF Forwarded, Asks, TASKCONTAINER, TASKSELECTOR
<1>4. CASE x.inst > 0
  BY <1>2, <1>3, <1>4 DEF Targets, Asks
<1>5. CASE x.inst = 0 /\ x.task = t
  <2>1. Targets(x) = Range(Hosts[t])
    BY <1>5 DEF Targets
  <2> QED
    BY <1>2, <1>3, <2>1, Zenon
<1>6. CASE x.inst = 0 /\ x.task = 0
  <2>1. Targets(x) = Containers
    BY <1>1, <1>6 DEF Targets
  <2> QED
    BY <1>2, <1>3, <2>1, Zenon
<1> QED
  BY <1>4, <1>5, <1>6 DEF Asks

(* And the tasks answer there. *)
LEMMA AskedAnswers ==
  ASSUME NEW x, x.task \in Nat, NEW t \in Tasks, NEW c \in Range(Hosts[t]), Asks(x, t, c)
  PROVE  (IF x.kind = "set" THEN TASKCONTAINER ELSE t) \in Answering(c, x)
<1>1. t \in HostedBy(c)
  BY Zenon DEF HostedBy
<1>2. CASE x.kind = "set"
  BY <1>2, Zenon DEF Answering
<1>3. CASE x.kind # "set" /\ x.task > 0
  <2>1. x.task = t
    BY <1>3 DEF Asks
  <2> QED
    BY <1>1, <1>3, <2>1, Zenon DEF Answering
<1>4. CASE x.kind # "set" /\ x.task = 0
  BY <1>1, <1>4 DEF Answering
<1> QED
  BY <1>2, <1>3, <1>4

(* What has passed the kernel stays accounted for while the queues only grow or
   hand over. *)
LEMMA PassedKept ==
  ASSUME NEW n, Passed(n), asked'[n] = asked[n],
         Range(Sent) \subseteq Range(Sent'),
         Range(mng) \cup Range(Sent) \subseteq Range(mng') \cup Range(Sent'),
         \A t \in Tasks : \A c \in Range(Hosts[t]) : \A task :
           /\ Asks(asked[n], t, c)
           /\ task = IF asked[n].kind = "set" THEN TASKCONTAINER ELSE t
           /\ \/ n \in Range(rx[c])
              \/ Said(todo[c] \cup Range(mng) \cup Range(Sent), n, task, c)
           => \/ n \in Range(rx'[c])
              \/ Said(todo'[c] \cup Range(mng') \cup Range(Sent'), n, task, c)
  PROVE  Passed(n)'
<1> DEFINE x == asked[n]
<1>1. CASE x.kind = "sclist"
  BY <1>1, SaidMore, Zenon DEF Passed
<1>2. CASE x.kind # "sclist"
  <2>1. Local(x) => Said(Range(mng') \cup Range(Sent'), n, FRAMECONTROL, 0)
    BY <1>2, SaidMore, Zenon DEF Passed
  <2>2. ASSUME NEW t \in Tasks, NEW c \in Range(Hosts[t]), Asks(x, t, c)
        PROVE  \/ n \in Range(rx'[c])
               \/ Said(todo'[c] \cup Range(mng') \cup Range(Sent'), n,
                       IF x.kind = "set" THEN TASKCONTAINER ELSE t, c)
    BY <1>2, <2>2, Zenon DEF Passed
  <2> QED
    BY <1>2, <2>1, <2>2, Zenon DEF Passed
<1> QED
  BY <1>1, <1>2, Zenon

LEMMA CompleteKept ==
  ASSUME IInv, NEW n \in DOMAIN asked, Passed(n), asked'[n] = asked[n],
         Range(Sent) \subseteq Range(Sent'),
         Range(mng) \cup Range(Sent) \subseteq Range(mng') \cup Range(Sent'),
         \A c \in Containers : /\ n \in Range(rx[c]) => n \in Range(rx'[c])
                               /\ todo[c] \subseteq todo'[c] \cup Range(mng')
  PROVE  Passed(n)'
<1>1. \A t \in Tasks : Range(Hosts[t]) \subseteq Containers
  BY EventsAssumption, Ranges, Zenon
<1>2. ASSUME NEW t \in Tasks, NEW c \in Range(Hosts[t]), NEW task,
             n \in Range(rx[c]) \/ Said(todo[c] \cup Range(mng) \cup Range(Sent), n, task, c)
      PROVE  n \in Range(rx'[c]) \/ Said(todo'[c] \cup Range(mng') \cup Range(Sent'), n, task, c)
  <2>1. c \in Containers
    BY <1>1, Zenon
  <2>2. todo[c] \cup Range(mng) \cup Range(Sent) \subseteq todo'[c] \cup Range(mng') \cup Range(Sent')
    BY <2>1, Zenon
  <2>3. CASE n \in Range(rx[c])
    BY <2>1, <2>3, Zenon
  <2>4. CASE Said(todo[c] \cup Range(mng) \cup Range(Sent), n, task, c)
    BY <2>2, <2>4, SaidMore
  <2> QED
    BY <1>2, <2>3, <2>4, Zenon
<1> QED
  BY <1>2, PassedKept, Zenon

LEMMA KernelPasses ==
  ASSUME IInv, Kernel, NEW n, n = Head(mFifo)
  PROVE  Passed(n)'
<1>1. n \in DOMAIN asked /\ n \in Range(mFifo)
  BY KernelHead, Zenon
<1>2. asked' = asked /\ asked[n].kind # "sclist"
  BY <1>1, Zenon DEF Kernel, IInv, CompleteInv
<1>3. asked[n].task \in Nat /\ asked[n].inst \in Nat
  BY <1>1, AskedKinds, Zenon DEF IInv
<1>4. Local(asked[n]) => Said(Range(mng'), n, FRAMECONTROL, 0)
  BY KernelMng, Zenon
<1>5. Local(asked[n]) => Said(Range(mng') \cup Range(Sent'), n, FRAMECONTROL, 0)
  BY <1>4, SaidMore, Zenon
<1>6. ASSUME NEW t \in Tasks, NEW c \in Range(Hosts[t]), Asks(asked[n], t, c)
      PROVE  n \in Range(rx'[c])
  <2>1. Forwarded(asked[n]) /\ c \in Targets(asked[n]) /\ c \in Containers
    BY <1>3, <1>6, AskedIsTarget, Zenon
  <2> QED
    BY <2>1, KernelRx, Zenon
<1> QED
  BY <1>2, <1>5, <1>6, Zenon DEF Passed

LEMMA TakePasses ==
  ASSUME IInv, NEW d \in Containers, Take(d), NEW n \in DOMAIN asked, Passed(n)
  PROVE  Passed(n)'
<1>1. PICK h : h = Head(rx[d])
  BY Zenon
<1>2. /\ h \in Nat /\ Range(rx[d]) = Range(rx'[d]) \cup {h} /\ todo[d] = {}
      /\ \A c \in Containers \ {d} : rx'[c] = rx[c] /\ todo'[c] = todo[c]
      /\ UNCHANGED <<mng, asked, answers>>
  BY <1>1, TakeStep, Zenon
<1>3. Sent' = Sent
  BY <1>2, SentKept, Zenon
<1>4. asked[n].task \in Nat
  BY AskedKinds, Zenon DEF IInv
<1>5. ASSUME NEW t \in Tasks, NEW c \in Range(Hosts[t]), NEW task,
             Asks(asked[n], t, c), task = IF asked[n].kind = "set" THEN TASKCONTAINER ELSE t,
             n \in Range(rx[c]) \/ Said(todo[c] \cup Range(mng) \cup Range(Sent), n, task, c)
      PROVE  n \in Range(rx'[c]) \/ Said(todo'[c] \cup Range(mng') \cup Range(Sent'), n, task, c)
  <2>1. c \in Containers
    BY EventsAssumption, Ranges, Zenon
  <2>2. CASE n \in Range(rx[c]) /\ c = d /\ n = h
    <3>1. task \in Answering(c, asked[n])
      BY <1>4, <1>5, AskedAnswers, Zenon
    <3>2. Answer(n, task, c, 1) \in todo'[c]
      BY <1>1, <2>2, <3>1, TakeTodo, Zenon
    <3>3. /\ Answer(n, task, c, 1).trans = n /\ Answer(n, task, c, 1).task = task
          /\ Answer(n, task, c, 1).inst = c
      BY Zenon DEF Answer
    <3> QED
      BY <3>2, <3>3, Zenon DEF Said
  <2>3. CASE n \in Range(rx[c]) /\ ~(c = d /\ n = h)
    BY <1>2, <2>1, <2>3, Zenon
  <2>4. CASE Said(todo[c] \cup Range(mng) \cup Range(Sent), n, task, c)
    <3>1. todo[c] \subseteq todo'[c]
      BY <1>2, <2>1, Zenon
    <3>2. todo[c] \cup Range(mng) \cup Range(Sent) \subseteq todo'[c] \cup Range(mng') \cup Range(Sent')
      BY <1>2, <1>3, <3>1, ZenonT(60)
    <3> QED
      BY <2>4, <3>2, SaidMore
  <2> QED
    BY <1>5, <2>2, <2>3, <2>4, Zenon
<1> QED
  BY <1>2, <1>3, <1>5, PassedKept, Zenon

LEMMA NextComplete ==
  ASSUME IInv, [Next]_vars
  PROVE  CompleteInv'
<1>1. TypeOK /\ OrderInv /\ CompleteInv
  BY Zenon DEF IInv
<1>2. ASSUME UNCHANGED <<mng, mFifo, rx, todo, asked, answers>> PROVE CompleteInv'
  <2>1. Sent' = Sent
    BY <1>2, SentKept, Zenon
  <2>2. \A n \in DOMAIN asked : Passed(n) => Passed(n)'
    BY <1>2, <2>1, CompleteKept, Zenon
  <2> QED
    BY <1>1, <1>2, <2>2, Zenon DEF CompleteInv, Located
<1>3. CASE Start
  <2>1. asked' = <<INIT>> /\ DOMAIN asked' = {1} /\ Range(mFifo') = {1}
    BY <1>3, StartStep, Zenon
  <2>2. asked'[1].kind # "sclist"
    BY <2>1, Zenon DEF INIT
  <2> QED
    BY <2>1, <2>2, Zenon DEF CompleteInv, Located
<1>4. ASSUME MngGet, Head(mng).status > 0 \/ asked[Head(mng).trans].kind = "sclist" PROVE CompleteInv'
  <2>1. PICK e : e = Head(mng)
    OBVIOUS
  <2>2. /\ mng # <<>> /\ mng' = Tail(mng) /\ Range(Sent') = Range(Sent) \cup {e}
        /\ UNCHANGED <<mFifo, rx, todo, asked>>
    BY <1>4, <2>1, ReplyStep, Zenon
  <2>3. Range(mng) = Range(mng') \cup {e} /\ e \in Events
    BY <2>1, <2>2, MngTail, MngHead, Zenon
  <2>4. Range(mng') \cup Range(Sent') = Range(mng) \cup Range(Sent)
    BY <2>2, <2>3, Zenon
  <2>5. ASSUME NEW n \in DOMAIN asked, Passed(n) PROVE Passed(n)'
    <3>1. Range(Sent) \subseteq Range(Sent') /\ asked'[n] = asked[n]
      BY <2>2, Zenon
    <3>2. ASSUME NEW t \in Tasks, NEW c \in Range(Hosts[t]), NEW task,
                 n \in Range(rx[c]) \/ Said(todo[c] \cup Range(mng) \cup Range(Sent), n, task, c)
          PROVE  n \in Range(rx'[c]) \/ Said(todo'[c] \cup Range(mng') \cup Range(Sent'), n, task, c)
      <4>1. todo[c] \cup Range(mng) \cup Range(Sent) \subseteq todo'[c] \cup Range(mng') \cup Range(Sent')
        BY <2>2, <2>4, Zenon
      <4> QED
        BY <2>2, <3>2, <4>1, SaidMore
    <3> QED
      BY <2>4, <2>5, <3>1, <3>2, PassedKept, Zenon
  <2>6. ASSUME e.status = 0 PROVE Passed(e.trans)'
    <3>1. asked[e.trans].kind = "sclist" /\ e.task = 0 /\ e.inst = 0
      BY <1>4, <2>1, <2>3, <2>6, EventFields
    <3> QED
      BY <2>2, <3>1, Zenon DEF Passed, Said
  <2>7. \A n \in DOMAIN asked' : Located(n)'
    BY <1>1, <2>2, <2>3, <2>5, <2>6, Zenon DEF CompleteInv, Located
  <2> QED
    BY <1>1, <2>2, <2>7, Zenon DEF CompleteInv
<1>5. ASSUME MngGet, ~(Head(mng).status > 0 \/ asked[Head(mng).trans].kind = "sclist") PROVE CompleteInv'
  <2>1. PICK e : e = Head(mng)
    OBVIOUS
  <2>2. /\ mng # <<>> /\ mng' = Tail(mng) /\ e.status = 0 /\ e.inst = 0 /\ asked[e.trans].kind # "sclist"
        /\ Range(mFifo') = Range(mFifo) \cup {e.trans}
        /\ UNCHANGED <<rx, todo, asked, answers>>
    BY <1>5, <2>1, ForwardStep, Zenon
  <2>3. Range(mng) = Range(mng') \cup {e} /\ e \in Events
    BY <2>1, <2>2, MngTail, MngHead, Zenon
  <2>4. Sent' = Sent /\ e.task = 0
    BY <2>2, <2>3, SentKept, EventFields, Zenon
  <2>5. ASSUME NEW n \in DOMAIN asked, Passed(n), n # e.trans PROVE Passed(n)'
    <3>1. \A S, task, inst : Said(S \cup Range(mng) \cup Range(Sent), n, task, inst)
                                => Said(S \cup Range(mng') \cup Range(Sent'), n, task, inst)
      BY <2>3, <2>4, <2>5, Zenon DEF Said
    <3>2. \A task, inst : Said(Range(mng) \cup Range(Sent), n, task, inst)
                             => Said(Range(mng') \cup Range(Sent'), n, task, inst)
      BY <2>3, <2>4, <2>5, Zenon DEF Said
    <3> QED
      BY <2>2, <2>4, <2>5, <3>1, <3>2, Zenon DEF Passed
  <2>6. \A n \in DOMAIN asked' : Located(n)'
    BY <1>1, <2>2, <2>3, <2>5, Zenon DEF CompleteInv, Located
  <2> QED
    BY <1>1, <2>2, <2>6, Zenon DEF CompleteInv
<1>6. ASSUME MngRecv, sock # <<>> PROVE CompleteInv'
  <2>1. PICK e : e = Request(Len(asked) + 1)
    OBVIOUS
  <2>2. /\ Len(asked) \in Nat /\ DOMAIN asked = 1..Len(asked) /\ DOMAIN asked' = 1..Len(asked) + 1
        /\ \A n \in DOMAIN asked : asked'[n] = asked[n]
        /\ e.status = 0 /\ e.trans = Len(asked) + 1 /\ Range(mng') = Range(mng) \cup {e}
        /\ UNCHANGED <<mFifo, rx, todo, answers>>
    BY <1>6, <2>1, RecvStep, Zenon
  <2>3. Sent' = Sent
    BY <2>2, SentKept, Zenon
  <2>4. \A n \in DOMAIN asked : Passed(n) => Passed(n)'
    BY <2>2, <2>3, CompleteKept, Zenon
  <2>5. \A n \in DOMAIN asked : Located(n)'
    BY <1>1, <2>2, <2>4, Zenon DEF CompleteInv, Located
  <2>6. \A n \in DOMAIN asked' : n \in DOMAIN asked \/ n = e.trans
    BY <2>2
  <2>7. Located(e.trans)'
    BY <2>2, Zenon DEF Located
  <2>8. \A n \in Range(mFifo') : asked'[n].kind # "sclist"
    BY <1>1, <2>2, Zenon DEF CompleteInv, OrderInv
  <2> QED
    BY <2>5, <2>6, <2>7, <2>8, Zenon DEF CompleteInv
<1>7. CASE Kernel
  <2>1. PICK h : h = Head(mFifo)
    OBVIOUS
  <2>2. Range(mFifo) = Range(mFifo') \cup {h}
    BY <1>7, <2>1, KernelHead, Zenon
  <2>3. Range(mng) \subseteq Range(mng')
    BY <1>7, KernelMng, Zenon
  <2>4. UNCHANGED <<todo, asked, answers>> /\ Sent' = Sent
    BY <1>7, SentKept DEF Kernel
  <2>5. \A c \in Containers : Range(rx[c]) \subseteq Range(rx'[c])
    BY <1>7, KernelRx, Zenon
  <2>6. \A n \in DOMAIN asked : Passed(n) => Passed(n)'
    BY <2>3, <2>4, <2>5, CompleteKept, Zenon
  <2>7. Passed(h)'
    BY <1>7, <2>1, KernelPasses, Zenon
  <2>8. \A n \in DOMAIN asked' : Located(n)'
    BY <1>1, <2>2, <2>3, <2>4, <2>6, <2>7, Zenon DEF CompleteInv, Located
  <2> QED
    BY <1>1, <2>2, <2>4, <2>8, Zenon DEF CompleteInv
<1>8. ASSUME NEW c \in Containers, Take(c) PROVE CompleteInv'
  <2>1. UNCHANGED <<mng, mFifo, asked, answers>>
    BY <1>8, Zenon DEF Take
  <2>2. \A n \in DOMAIN asked : Passed(n) => Passed(n)'
    BY <1>8, TakePasses, Zenon
  <2> QED
    BY <1>1, <2>1, <2>2, Zenon DEF CompleteInv, Located
<1>9. ASSUME NEW c \in Containers, Post(c) PROVE CompleteInv'
  <2>1. PICK e \in todo[c] :
          /\ Range(mng') = Range(mng) \cup {e} /\ todo'[c] = todo[c] \ {e}
          /\ \A d \in Containers \ {c} : todo'[d] = todo[d]
          /\ UNCHANGED <<mFifo, rx, asked, answers>>
    BY <1>9, PostStep, Zenon
  <2>2. Sent' = Sent
    BY <2>1, SentKept, Zenon
  <2>3. \A d \in Containers : todo[d] \subseteq todo'[d] \cup Range(mng')
    BY <2>1, Zenon
  <2>4. \A n \in DOMAIN asked : Passed(n) => Passed(n)'
    BY <2>1, <2>2, <2>3, CompleteKept, Zenon
  <2> QED
    BY <1>1, <2>1, <2>4, Zenon DEF CompleteInv, Located
<1>10. ASSUME NEW k \in Clients, NEW x \in Commands, Ask(k, x) PROVE CompleteInv'
  BY <1>2, <1>10, Zenon DEF Ask
<1>11. CASE MngTimesOut
  BY <1>2, <1>11, Zenon DEF MngTimesOut
<1>12. ASSUME MngRecv, sock = <<>> PROVE CompleteInv'
  BY <1>2, <1>12, Zenon DEF MngRecv
<1>13. CASE UNCHANGED vars
  BY <1>2, <1>13, Zenon DEF vars
<1> QED
  BY <1>3, <1>4, <1>5, <1>6, <1>7, <1>8, <1>9, <1>10, <1>11, <1>12, <1>13 DEF Next, Manager

-----------------------------------------------------------------------------
(* The client an answer goes to *)

LEMMA ClientKept ==
  ASSUME IInv, UNCHANGED answers,
         \A n \in DOMAIN asked : asked'[n] = asked[n],
         DOMAIN asked = 1..Len(asked), Len(asked) \in Nat, Len(asked') \in Nat, Len(asked) <= Len(asked')
  PROVE  AnswerNotToEarlierClient'
<1> SUFFICES ASSUME NEW i \in DOMAIN answers, asked'[answers[i].event.trans].kind # "init"
             PROVE  \E n \in answers[i].event.trans..Len(asked') : answers[i].to = asked'[n].client
  BY Zenon DEF AnswerNotToEarlierClient
<1> DEFINE m == answers[i].event.trans
<1>1. m \in DOMAIN asked
  <2>1. answers[i].event \in Range(Sent)
    BY Zenon DEF Sent, Range
  <2> QED
    BY <2>1, InAsked, Zenon
<1>2. PICK n \in m..Len(asked) : answers[i].to = asked[n].client
  BY <1>1, Zenon DEF IInv, AnswerNotToEarlierClient
<1> HIDE DEF m
<1>3. n \in DOMAIN asked /\ n \in m..Len(asked')
  BY <1>1, <1>2
<1>4. answers[i].to = asked'[n].client
  BY <1>2, <1>3, Zenon
<1> QED
  BY <1>3, <1>4, Zenon DEF m

LEMMA NextClient ==
  ASSUME IInv, [Next]_vars
  PROVE  AnswerNotToEarlierClient'
<1>1. TypeOK /\ AskedInv /\ AnswerNotToEarlierClient
  BY Zenon DEF IInv
<1>2. DOMAIN asked = 1..Len(asked) /\ Len(asked) \in Nat
  BY <1>1 DEF TypeOK
<1>3. ASSUME UNCHANGED <<asked, answers>> PROVE AnswerNotToEarlierClient'
  BY <1>1, <1>3, Zenon DEF AnswerNotToEarlierClient
<1>4. CASE Start
  <2>1. answers' = <<>>
    BY <1>4, StartStep, Zenon
  <2> QED
    BY <2>1 DEF AnswerNotToEarlierClient
<1>5. ASSUME MngGet, Head(mng).status > 0 \/ asked[Head(mng).trans].kind = "sclist"
      PROVE  AnswerNotToEarlierClient'
  <2>1. PICK e : e = Head(mng)
    OBVIOUS
  <2>2. PICK p : p = IF asked[e.trans].kind = "init" THEN None ELSE peer
    BY Zenon
  <2>3. PICK x : x = [event |-> e, to |-> p]
    BY Zenon
  <2>4. answers' = Append(answers, x) /\ mng # <<>> /\ UNCHANGED asked
    BY <1>5, <2>1, <2>2, <2>3, Zenon DEF MngGet, Reply
  <2>5. e \in Events /\ e.trans \in DOMAIN asked /\ pc # "start"
    BY <2>1, <2>4, MngHead, Zenon
  <2>6. x \in [event : Events, to : Clients \cup {None}] /\ x.event = e /\ x.to = p
    BY <1>1, <2>2, <2>3, <2>5, Zenon DEF TypeOK
  <2>7. /\ \A i \in DOMAIN answers' : i \in DOMAIN answers \/ i = Len(answers) + 1
        /\ \A i \in DOMAIN answers : answers'[i] = answers[i]
        /\ answers'[Len(answers) + 1] = x
    <3> DEFINE S == [event : Events, to : Clients \cup {None}]
    <3>1. answers \in Seq(S) /\ x \in S
      BY <1>1, <2>6, Zenon DEF TypeOK
    <3> HIDE DEF S
    <3>2. /\ DOMAIN answers' = 1..Len(answers) + 1 /\ DOMAIN answers = 1..Len(answers) /\ Len(answers) \in Nat
          /\ \A i \in DOMAIN answers : answers'[i] = answers[i]
          /\ answers'[Len(answers) + 1] = x
      BY <2>4, <3>1, Appended
    <3> QED
      BY <3>2
  <2>8. asked[e.trans].kind # "init" => \E n \in e.trans..Len(asked) : p = asked[n].client
    <3>1. Len(asked) \in e.trans..Len(asked)
      BY <1>2, <2>5
    <3>2. peer = asked[Len(asked)].client
      BY <1>1, <2>5, Zenon DEF AskedInv
    <3> QED
      BY <2>2, <3>1, <3>2, Zenon
  <2> SUFFICES ASSUME NEW i \in DOMAIN answers', asked'[answers'[i].event.trans].kind # "init"
               PROVE  \E n \in answers'[i].event.trans..Len(asked') : answers'[i].to = asked'[n].client
    BY Zenon DEF AnswerNotToEarlierClient
  <2>9. CASE i \in DOMAIN answers
    BY <1>1, <2>4, <2>7, <2>9 DEF AnswerNotToEarlierClient
  <2>10. CASE i = Len(answers) + 1
    BY <2>4, <2>6, <2>7, <2>8, <2>10, Zenon
  <2> QED
    BY <2>7, <2>9, <2>10, Zenon
<1>6. ASSUME MngGet, ~(Head(mng).status > 0 \/ asked[Head(mng).trans].kind = "sclist")
      PROVE  AnswerNotToEarlierClient'
  BY <1>3, <1>6, ForwardStep, Zenon
<1>7. ASSUME MngRecv, sock # <<>> PROVE AnswerNotToEarlierClient'
  <2>1. /\ \A n \in DOMAIN asked : asked'[n] = asked[n]
        /\ Len(asked') = Len(asked) + 1 /\ UNCHANGED answers
    BY <1>7, RecvStep, Zenon
  <2> QED
    BY <1>2, <2>1, ClientKept
<1>8. CASE Kernel
  BY <1>3, <1>8, Zenon DEF Kernel
<1>9. ASSUME NEW c \in Containers, Take(c) \/ Post(c) PROVE AnswerNotToEarlierClient'
  BY <1>3, <1>9, Zenon DEF Take, Post
<1>10. ASSUME NEW k \in Clients, NEW x \in Commands, Ask(k, x) PROVE AnswerNotToEarlierClient'
  BY <1>3, <1>10, Zenon DEF Ask
<1>11. CASE MngTimesOut
  BY <1>3, <1>11, Zenon DEF MngTimesOut
<1>12. ASSUME MngRecv, sock = <<>> PROVE AnswerNotToEarlierClient'
  BY <1>3, <1>12, Zenon DEF MngRecv
<1>13. CASE UNCHANGED vars
  BY <1>3, <1>13, Zenon DEF vars
<1> QED
  BY <1>4, <1>5, <1>6, <1>7, <1>8, <1>9, <1>10, <1>11, <1>12, <1>13, Zenon DEF Next, Manager

-----------------------------------------------------------------------------
(* The theorems *)

LEMMA InitInv == Init => IInv
<1> SUFFICES ASSUME Init PROVE IInv
  BY Zenon
<1>1. /\ pc = "start" /\ sock = <<>> /\ peer = None /\ mng = <<>> /\ mFifo = <<>> /\ asked = <<>> /\ answers = <<>>
      /\ \A c \in Containers : rx[c] = <<>> /\ todo[c] = {}
  BY Zenon DEF Init
<1>2. Sent = <<>>
  <2>1. DOMAIN answers = {}
    BY <1>1
  <2> QED
    BY <2>1 DEF Sent
<1>3. /\ Range(mng) = {} /\ Range(mFifo) = {} /\ Range(Sent) = {}
      /\ \A c \in Containers : Range(rx[c]) = {}
  BY <1>1, <1>2, Empty, Zenon
<1>4. TypeOK
  BY <1>1 DEF Init, TypeOK
<1>5. AskedInv
  BY <1>1, Zenon DEF AskedInv
<1>6. OrderInv
  BY <1>1, <1>2, <1>3, EmptyOrder, Zenon DEF OrderInv
<1>7. ASSUME NEW c \in Containers \cup {0} PROVE SenderInv(c)
  <2>1. Queue(c) = {} /\ Todo(c) = {}
    BY <1>1, <1>3, Zenon DEF Queue, Todo
  <2> QED
    BY <1>1, <1>2, <1>3, <2>1, EmptyOrder, Zenon DEF SenderInv
<1>8. OnceInv
  BY <1>1, <1>2, <1>3, EmptyOrder, Zenon DEF OnceInv
<1>9. AskedForInv
  BY <1>1, <1>3, Zenon DEF AskedForInv
<1>10. CompleteInv
  BY <1>1, <1>3 DEF CompleteInv
<1>11. AnswerNotToEarlierClient
  BY <1>1 DEF AnswerNotToEarlierClient
<1> QED
  BY <1>4, <1>5, <1>6, <1>7, <1>8, <1>9, <1>10, <1>11, Zenon DEF IInv

LEMMA NextInv == IInv /\ [Next]_vars => IInv'
<1> SUFFICES ASSUME IInv, [Next]_vars PROVE IInv'
  BY Zenon
<1>1. \A c \in Containers \cup {0} : SenderInv(c)'
  BY NextSender, Zenon
<1>2. (\A c \in Containers \cup {0} : SenderInv(c))'
  BY <1>1, Zenon
<1> QED
  BY <1>2, NextType, NextAsked, NextOrder, NextOnce, NextAskedFor, NextComplete, NextClient, ZenonT(60) DEF IInv

(* The invariant of the manager, the kernel and the containers. *)
THEOREM Invariance == Spec => []IInv
BY InitInv, NextInv, PTL DEF Spec

(* The answers of one sender leave TFRAMEManager::Run in the order of the
   commands: each queue between the manager, the kernel and a container is first
   in first out, and a container finishes one event before the next. *)
THEOREM InOrder == Spec => []AnswersInOrder
<1>1. IInv => AnswersInOrder
  <2> SUFFICES ASSUME IInv, NEW i \in DOMAIN answers, NEW j \in DOMAIN answers, i < j,
                      answers[i].event.task = answers[j].event.task,
                      answers[i].event.inst = answers[j].event.inst
               PROVE  answers[i].event.trans <= answers[j].event.trans
    BY Zenon DEF AnswersInOrder
  <2>1. PICK e, f : e = answers[i].event /\ f = answers[j].event
    BY Zenon
  <2>2. Sent \in Seq(Events) /\ DOMAIN Sent = DOMAIN answers
    BY SentType, Zenon DEF IInv
  <2>3. e = Sent[i] /\ f = Sent[j] /\ e \in Events /\ f \in Events
    BY <2>1, <2>2 DEF Sent
  <2>4. e.trans \in Nat /\ f.trans \in Nat /\ e.inst \in Containers \cup {0}
    BY <2>3, EventFields, Zenon
  <2>5. CASE e.status = 0
    <3>1. f.status = 0 /\ AsksRise(Sent)
      BY <2>1, <2>3, <2>5, EventFields, Zenon DEF IInv, OrderInv
    <3>2. e.trans < f.trans
      BY <2>2, <2>3, <2>5, <3>1, Zenon DEF AsksRise
    <3> QED
      BY <2>1, <2>4, <3>2
  <2>6. CASE e.status # 0
    <3>1. From(e.inst, e) /\ From(e.inst, f)
      BY <2>1, <2>3, <2>6, EventFields, SMTT(60) DEF From
    <3>2. AnswersRise(e.inst, Sent)
      BY <2>4, Zenon DEF IInv, SenderInv
    <3> QED
      BY <2>1, <2>2, <2>3, <3>1, <3>2, Zenon DEF AnswersRise
  <2> QED
    BY <2>5, <2>6, Zenon
<1> QED
  BY <1>1, Invariance, PTL

(* No container answers a command twice for a task, and none answers that was
   not asked, though TTaskSelector::addEvent clones an event for several containers and
   TTaskContainer::process fans it out again. *)
THEOREM AskedForOnce == Spec => []AnswersAreAskedFor
<1>1. IInv => AnswersAreAskedFor
  <2> SUFFICES ASSUME IInv, NEW i \in DOMAIN answers, answers[i].event.inst > 0
               PROVE  LET e == answers[i].event
                          x == asked[e.trans]
                      IN /\ \A j \in DOMAIN answers \ {i} :
                              LET f == answers[j].event
                              IN <<f.trans, f.task, f.inst>> # <<e.trans, e.task, e.inst>>
                         /\ IF x.kind = "set" THEN x.inst \in {0, e.inst} ELSE Asks(x, e.task, e.inst)
    BY Zenon DEF AnswersAreAskedFor
  <2>1. PICK e : e = answers[i].event
    BY Zenon
  <2>2. Sent \in Seq(Events) /\ DOMAIN Sent = DOMAIN answers
    BY SentType, Zenon DEF IInv
  <2>3. e = Sent[i] /\ e \in Events /\ e \in Range(Sent) /\ e.inst > 0
    BY <2>1, <2>2 DEF Sent, Range
  <2>4. AskedFor(e) /\ Single(Sent)
    BY <2>3, Zenon DEF IInv, AskedForInv, OnceInv
  <2>5. LET x == asked[e.trans]
        IN IF x.kind = "set" THEN x.inst \in {0, e.inst} ELSE Asks(x, e.task, e.inst)
    BY <2>3, <2>4, Zenon DEF AskedFor
  <2>6. ASSUME NEW j \in DOMAIN answers \ {i}, NEW f, f = answers[j].event
        PROVE  <<f.trans, f.task, f.inst>> # <<e.trans, e.task, e.inst>>
    <3>1. f = Sent[j] /\ f \in Events
      BY <2>2, <2>6 DEF Sent
    <3>2. e # f
      BY <2>2, <2>3, <2>4, <3>1, Zenon DEF Single
    <3>3. ~(f.trans = e.trans /\ f.task = e.task /\ f.inst = e.inst)
      BY <2>3, <3>1, <3>2, SameEvent, Zenon
    <3> QED
      BY <3>3, Zenon
  <2> QED
    BY <2>1, <2>5, <2>6, Zenon
<1> QED
  BY <1>1, Invariance, PTL

(* When no thread has work left, every task and the kernel have answered
   whatever asked them. *)
THEOREM QuietIsAnswered == Spec => []QuietMeansAnswered
<1>1. IInv => QuietMeansAnswered
  <2> SUFFICES ASSUME IInv, Quiet, NEW n \in DOMAIN asked PROVE AllAnswered(n)
    BY Zenon DEF QuietMeansAnswered
  <2>1. /\ Range(mng) = {} /\ Range(mFifo) = {}
        /\ \A c \in Containers : Range(rx[c]) = {} /\ todo[c] = {}
    BY Empty, Zenon DEF Quiet
  <2>2. Passed(n)
    BY <2>1, Zenon DEF IInv, CompleteInv, Located
  <2>3. \A task, inst : Said(Range(Sent), n, task, inst) => Answered(n, task, inst)
    BY Zenon DEF Said, Answered, Sent, Range
  <2> DEFINE x == asked[n]
  <2>4. CASE x.kind = "sclist"
    BY <2>2, <2>3, <2>4, Zenon DEF Passed, AllAnswered
  <2>5. CASE x.kind # "sclist"
    <3>1. Local(x) => Answered(n, FRAMECONTROL, 0)
      BY <2>1, <2>2, <2>3, <2>5, Zenon DEF Passed
    <3>2. ASSUME NEW t \in Tasks, NEW c \in Range(Hosts[t]), Asks(x, t, c)
          PROVE  Answered(n, IF x.kind = "set" THEN TASKCONTAINER ELSE t, c)
      <4>1. c \in Containers
        BY EventsAssumption, Ranges, Zenon
      <4>2. \/ n \in Range(rx[c])
            \/ Said(todo[c] \cup Range(mng) \cup Range(Sent), n, IF x.kind = "set" THEN TASKCONTAINER ELSE t, c)
        BY <2>2, <2>5, <3>2, Zenon DEF Passed
      <4>3. todo[c] \cup Range(mng) \cup Range(Sent) = Range(Sent)
        BY <2>1, <4>1, Zenon
      <4> QED
        BY <2>1, <2>3, <4>1, <4>2, <4>3, Zenon
    <3> QED
      BY <2>5, <3>1, <3>2, Zenon DEF AllAnswered
  <2> QED
    BY <2>4, <2>5, Zenon
<1> QED
  BY <1>1, Invariance, PTL

(* TFRAMEManager sends to the address it received from last; that is the client
   that asked or a later one. *)
THEOREM NotToEarlierClient == Spec => []AnswerNotToEarlierClient
<1>1. IInv => AnswerNotToEarlierClient
  BY Zenon DEF IInv
<1> QED
  BY <1>1, Invariance, PTL

=============================================================================
