---------------------------- MODULE RscWireProof -----------------------------
(***************************************************************************)
(* For any nodes, binds, messages, batch sizes and number of faults: what  *)
(* the tasks of a node send over a bind leaves it in their order and       *)
(* complete, and no message reaches a default task twice.                  *)
(*                                                                         *)
(* The first part is about Kept: by induction on its argument, what it     *)
(* keeps of a sequence joined with another, and of what it kept.           *)
(***************************************************************************)
EXTENDS RscWire, SequenceTheorems, WellFoundedInduction, TLAPS

(* Induction over the naturals, for a set of them. *)
LEMMA SetInduction ==
  ASSUME NEW S, 0 \in S, \A n \in Nat : n \in S => n + 1 \in S
  PROVE  \A n \in Nat : n \in S
<1> SUFFICES ASSUME NEW m \in Nat, m \notin S PROVE FALSE
  BY Zenon
<1> DEFINE R == OpToRel(<, Nat)
           T == Nat \ S
<1>1. IsWellFoundedOn(R, Nat)
  BY NatLessThanWellFounded, Zenon
<1>2. \A x, y \in Nat : x < y => <<x, y>> \in R
  BY Zenon DEF OpToRel
<1>3. T \subseteq Nat /\ T # {}
  BY Zenon
<1> HIDE DEF R, T
<1>4. PICK x \in T : \A y \in T : ~(<<y, x>> \in R)
  BY <1>1, <1>3, WFMin, Zenon
<1> USE DEF T
<1>5. x \in Nat /\ x \notin S /\ x # 0
  BY Zenon
<1>6. x - 1 \in Nat /\ x - 1 \in T
  BY <1>5
<1>7. <<x - 1, x>> \in R
  <2>1. x - 1 < x
    BY <1>5
  <2> QED
    BY <1>2, <1>5, <1>6, <2>1, Zenon
<1> QED
  BY <1>4, <1>6, <1>7, Zenon

(* Induction on the length of a sequence. *)
LEMMA SeqInduction ==
  ASSUME NEW T, NEW P, <<>> \in P, \A u \in Seq(T), x \in T : u \in P => Append(u, x) \in P
  PROVE  \A s \in Seq(T) : s \in P
<1> DEFINE N == {n \in Nat : \A s \in Seq(T) : Len(s) = n => s \in P}
<1>1. 0 \in N
  OBVIOUS
<1>2. ASSUME NEW n \in Nat, n \in N PROVE n + 1 \in N
  <2> SUFFICES ASSUME NEW s \in Seq(T), Len(s) = n + 1 PROVE s \in P
    OBVIOUS
  <2> DEFINE u == SubSeq(s, 1, n)
             x == s[n + 1]
  <2>1. u \in Seq(T) /\ Len(u) = n /\ x \in T
    OBVIOUS
  <2>2. s = Append(u, x)
    OBVIOUS
  <2>3. u \in P
    BY <1>2, <2>1, Zenon
  <2> HIDE DEF u, x
  <2> QED
    BY <2>1, <2>2, <2>3, Zenon
<1> HIDE DEF N
<1>3. \A n \in Nat : n \in N
  BY <1>1, <1>2, SetInduction, Zenon
<1> QED
  <2> SUFFICES ASSUME NEW s \in Seq(T) PROVE s \in P
    BY Zenon
  <2>1. Len(s) \in Nat
    OBVIOUS
  <2> QED
    BY <1>3, <2>1, Zenon DEF N

(* A table of the values of the recursion in Kept, *)
IsTable(f, s, keep, n) ==
  /\ f = [i \in 0..n |-> f[i]]
  /\ f[0] = <<>>
  /\ \A i \in 1..n : f[i] = IF s[i] \in keep THEN Append(f[i - 1], s[i]) ELSE f[i - 1]

(* The recursion of Kept has a solution... *)
LEMMA TableExists ==
  ASSUME NEW s, NEW keep, NEW n \in Nat
  PROVE  \E f : IsTable(f, s, keep, n)
<1> DEFINE S == {k \in Nat : \E f : IsTable(f, s, keep, k)}
<1>1. 0 \in S
  <2>1. IsTable([i \in 0..0 |-> <<>>], s, keep, 0)
    BY DEF IsTable
  <2> QED
    BY <2>1, Zenon
<1>2. ASSUME NEW k \in Nat, k \in S PROVE k + 1 \in S
  <2>1. PICK f : IsTable(f, s, keep, k)
    BY <1>2, Zenon
  <2> DEFINE x == IF s[k + 1] \in keep THEN Append(f[k], s[k + 1]) ELSE f[k]
             g == [i \in 0..k + 1 |-> IF i = k + 1 THEN x ELSE f[i]]
  <2>2. f[0] = <<>> /\ \A i \in 1..k : f[i] = IF s[i] \in keep THEN Append(f[i - 1], s[i]) ELSE f[i - 1]
    BY <2>1, Zenon DEF IsTable
  <2>3. g[0] = <<>>
    BY <2>2
  <2>4. ASSUME NEW i \in 1..k + 1
        PROVE  g[i] = IF s[i] \in keep THEN Append(g[i - 1], s[i]) ELSE g[i - 1]
    <3>1. CASE i = k + 1
      BY <3>1
    <3>2. CASE i # k + 1
      BY <2>2, <3>2
    <3> QED
      BY <3>1, <3>2, Zenon
  <2>5. g = [i \in 0..k + 1 |-> g[i]]
    BY Zenon
  <2> HIDE DEF g
  <2>6. IsTable(g, s, keep, k + 1)
    BY <2>3, <2>4, <2>5, Zenon DEF IsTable
  <2> QED
    BY <2>6
<1> HIDE DEF S
<1>3. \A k \in Nat : k \in S
  BY <1>1, <1>2, SetInduction, Zenon
<1> QED
  BY <1>3, Zenon DEF S

(* two sequences that agree on their first n members, *)
Agree(s, t, n) == \A i \in 1..n : s[i] = t[i]

(* ...and on a common prefix only one, *)
LEMMA TableUnique ==
  ASSUME NEW s, NEW t, NEW keep, NEW n \in Nat, NEW m \in Nat, n <= m,
         Agree(s, t, n),
         NEW f, IsTable(f, s, keep, n), NEW g, IsTable(g, t, keep, m)
  PROVE  \A i \in 0..n : f[i] = g[i]
<1> DEFINE S == {k \in Nat : k <= n => f[k] = g[k]}
<1>1. 0 \in S
  BY Zenon DEF IsTable
<1>2. ASSUME NEW k \in Nat, k \in S PROVE k + 1 \in S
  <2> SUFFICES ASSUME k + 1 <= n PROVE f[k + 1] = g[k + 1]
    OBVIOUS
  <2>1. f[k] = g[k] /\ s[k + 1] = t[k + 1] /\ k + 1 \in 1..n /\ k + 1 \in 1..m /\ (k + 1) - 1 = k
    BY <1>2 DEF Agree
  <2>2. f[k + 1] = IF s[k + 1] \in keep THEN Append(f[k], s[k + 1]) ELSE f[k]
    BY <2>1, Zenon DEF IsTable
  <2>3. g[k + 1] = IF t[k + 1] \in keep THEN Append(g[k], t[k + 1]) ELSE g[k]
    BY <2>1, Zenon DEF IsTable
  <2> QED
    BY <2>1, <2>2, <2>3
<1> HIDE DEF S
<1>3. \A k \in Nat : k \in S
  BY <1>1, <1>2, SetInduction, Zenon
<1> QED
  BY <1>3 DEF S

(* ...so Kept is its last value. *)
LEMMA KeptTable ==
  ASSUME NEW s, NEW keep, Len(s) \in Nat
  PROVE  \E f : IsTable(f, s, keep, Len(s)) /\ Kept(s, keep) = f[Len(s)]
<1> DEFINE F(f) == [i \in 0..Len(s) |-> IF i = 0 THEN <<>>
                            ELSE IF s[i] \in keep THEN Append(f[i - 1], s[i]) ELSE f[i - 1]]
<1>1. PICK g : IsTable(g, s, keep, Len(s))
  BY TableExists, Zenon
<1>2. g = F(g)
  <2>1. ASSUME NEW i \in 0..Len(s) PROVE g[i] = F(g)[i]
    <3>1. CASE i = 0
      BY <1>1, <3>1, Zenon DEF IsTable
    <3>2. CASE i \in 1..Len(s)
      BY <1>1, <3>2, Zenon DEF IsTable
    <3> QED
      BY <3>1, <3>2
  <2>2. g = [i \in 0..Len(s) |-> g[i]]
    BY <1>1, Zenon DEF IsTable
  <2> QED
    BY <2>1, <2>2, Zenon
<1>3. PICK f : f = F(f) /\ Kept(s, keep) = f[Len(s)]
  <2> DEFINE h == CHOOSE f : f = F(f)
  <2>1. h = F(h)
    BY <1>2, Zenon
  <2>2. Kept(s, keep) = h[Len(s)]
    BY Zenon DEF Kept
  <2> HIDE DEF h
  <2> QED
    BY <2>1, <2>2, Zenon
<1>4. f = [i \in 0..Len(s) |-> f[i]]
  BY <1>3, Zenon
<1>5. f[0] = <<>>
  BY <1>3
<1>6. ASSUME NEW i \in 1..Len(s) PROVE f[i] = IF s[i] \in keep THEN Append(f[i - 1], s[i]) ELSE f[i - 1]
  <2>1. i \in 0..Len(s) /\ i # 0
    OBVIOUS
  <2> QED
    BY <1>3, <2>1, Zenon
<1>7. IsTable(f, s, keep, Len(s))
  BY <1>4, <1>5, <1>6, Zenon DEF IsTable
<1> QED
  BY <1>3, <1>7, Zenon

(* Nothing is kept of nothing. *)
LEMMA KeptEmpty == \A keep : Kept(<<>>, keep) = <<>>
<1> SUFFICES ASSUME NEW keep PROVE Kept(<<>>, keep) = <<>>
  BY Zenon
<1>1. Len(<<>>) = 0
  BY Zenon
<1>2. PICK f : IsTable(f, <<>>, keep, 0) /\ Kept(<<>>, keep) = f[0]
  BY <1>1, KeptTable, Zenon
<1> QED
  BY <1>2, Zenon DEF IsTable

(* A member at the end is kept or not. *)
LEMMA KeptAppend ==
  ASSUME NEW T, NEW s \in Seq(T), NEW x \in T, NEW keep
  PROVE  Kept(Append(s, x), keep) = IF x \in keep THEN Append(Kept(s, keep), x) ELSE Kept(s, keep)
<1> DEFINE n == Len(s)
           t == Append(s, x)
<1>1. n \in Nat /\ Len(t) = n + 1 /\ t[n + 1] = x /\ \A i \in 1..n : s[i] = t[i]
  OBVIOUS
<1>2. PICK f : IsTable(f, s, keep, n) /\ Kept(s, keep) = f[n]
  BY <1>1, KeptTable, Zenon
<1> HIDE DEF n, t
<1>3. PICK g : IsTable(g, t, keep, n + 1) /\ Kept(t, keep) = g[n + 1]
  <2>1. Len(t) \in Nat
    BY <1>1
  <2> QED
    BY <1>1, <2>1, KeptTable, Zenon
<1>4. f[n] = g[n]
  <2>1. n + 1 \in Nat /\ n <= n + 1 /\ n \in 0..n
    BY <1>1
  <2>2. PICK m \in Nat : m = n + 1
    BY <2>1, Zenon
  <2>3. n <= m /\ IsTable(g, t, keep, m)
    BY <1>3, <2>1, <2>2, Zenon
  <2>4. n \in Nat /\ Agree(s, t, n)
    BY <1>1, Zenon DEF Agree
  <2>5. \A i \in 0..n : f[i] = g[i]
    BY <1>2, <2>3, <2>4, TableUnique
  <2> QED
    BY <2>1, <2>5, Zenon
<1>5. g[n + 1] = IF x \in keep THEN Append(g[n], x) ELSE g[n]
  <2>1. n + 1 \in 1..n + 1 /\ (n + 1) - 1 = n
    BY <1>1
  <2> QED
    BY <1>1, <1>3, <2>1, Zenon DEF IsTable
<1> QED
  BY <1>2, <1>3, <1>4, <1>5, Zenon DEF t

(* a member appended to two sequences after, and before, they are joined. *)
Later(v, w, y) == Append(v \o w, y)
Sooner(v, w, y) == v \o Append(w, y)

LEMMA AppendJoined ==
  ASSUME NEW W, NEW v \in Seq(W), NEW w \in Seq(W), NEW y \in W
  PROVE  Later(v, w, y) = Sooner(v, w, y)
BY DEF Later, Sooner

(* What is kept is in the set. *)
LEMMA KeptType ==
  ASSUME NEW T, NEW s \in Seq(T), NEW keep
  PROVE  Kept(s, keep) \in Seq(T \cap keep)
<1> DEFINE W == T \cap keep
           P == {u \in Seq(T) : Kept(u, keep) \in Seq(W)}
<1> HIDE DEF W
<1>1. <<>> \in P
  <2>1. <<>> \in Seq(T) /\ <<>> \in Seq(W)
    OBVIOUS
  <2> QED
    BY <2>1, KeptEmpty, Zenon
<1>2. ASSUME NEW u \in Seq(T), NEW x \in T, u \in P PROVE Append(u, x) \in P
  <2>1. Kept(u, keep) \in Seq(W) /\ Append(u, x) \in Seq(T)
    BY <1>2
  <2>2. CASE x \in keep
    <3>1. x \in W
      BY <2>2, Zenon DEF W
    <3>2. Append(Kept(u, keep), x) \in Seq(W)
      BY <2>1, <3>1
    <3> QED
      BY <2>1, <2>2, <3>2, KeptAppend, Zenon
  <2>3. CASE x \notin keep
    BY <2>1, <2>3, KeptAppend, Zenon
  <2> QED
    BY <2>2, <2>3, Zenon
<1> HIDE DEF P
<1>3. \A u \in Seq(T) : u \in P
  BY <1>1, <1>2, SeqInduction, Zenon
<1> QED
  BY <1>3, Zenon DEF P, W

(* What is kept has the type of what it is kept of. *)
LEMMA KeptSeq ==
  ASSUME NEW T, NEW s \in Seq(T), NEW keep
  PROVE  Kept(s, keep) \in Seq(T)
<1>1. Kept(s, keep) \in Seq(T \cap keep) /\ T \cap keep \subseteq T
  BY KeptType, Zenon
<1> QED
  BY <1>1, SeqMonotonic, Zenon

(* Of two sequences, each is kept on its own. *)
LEMMA KeptConcat ==
  ASSUME NEW T, NEW s \in Seq(T), NEW t \in Seq(T), NEW keep
  PROVE  Kept(s \o t, keep) = Kept(s, keep) \o Kept(t, keep)
<1> DEFINE P == {u \in Seq(T) : Kept(s \o u, keep) = Kept(s, keep) \o Kept(u, keep)}
<1>0. \A u \in Seq(T) : Kept(u, keep) \in Seq(T \cap keep)
  BY KeptType, Zenon
<1>1. <<>> \in P
  <2>1. <<>> \in Seq(T) /\ s \o <<>> = s
    OBVIOUS
  <2>2. Kept(s, keep) \o <<>> = Kept(s, keep)
    BY <1>0
  <2> QED
    BY <2>1, <2>2, KeptEmpty, Zenon
<1>2. ASSUME NEW u \in Seq(T), NEW x \in T, u \in P PROVE Append(u, x) \in P
  <2>1. Kept(s \o u, keep) = Kept(s, keep) \o Kept(u, keep)
    BY <1>2, Zenon
  <2>2. s \o Append(u, x) = Append(s \o u, x) /\ s \o u \in Seq(T)
    OBVIOUS
  <2>3. /\ Kept(Append(s \o u, x), keep)
             = IF x \in keep THEN Append(Kept(s \o u, keep), x) ELSE Kept(s \o u, keep)
        /\ Kept(Append(u, x), keep) = IF x \in keep THEN Append(Kept(u, keep), x) ELSE Kept(u, keep)
    BY <2>2, KeptAppend, Zenon
  <2>4. x \in keep => Append(Kept(s, keep) \o Kept(u, keep), x) = Kept(s, keep) \o Append(Kept(u, keep), x)
    <3> SUFFICES ASSUME x \in keep PROVE Append(Kept(s, keep) \o Kept(u, keep), x) = Kept(s, keep) \o Append(Kept(u, keep), x)
      BY Zenon
    <3>1. x \in T \cap keep
      BY Zenon
    <3> QED
      <4> HIDE DEF P
      <4>1. PICK W : W = T \cap keep
        BY Zenon
      <4>2. PICK a \in Seq(W) : a = Kept(s, keep)
        BY <1>0, <4>1, Zenon
      <4>3. PICK b \in Seq(W) : b = Kept(u, keep)
        BY <1>0, <4>1, Zenon
      <4>4. Append(a \o b, x) = a \o Append(b, x)
        <5>1. x \in W
          BY <3>1, <4>1, Zenon
        <5>2. Later(a, b, x) = Sooner(a, b, x)
          BY <5>1, AppendJoined, Zenon
        <5> QED
          BY <5>2, Zenon DEF Later, Sooner
      <4> QED
        BY <4>2, <4>3, <4>4, Zenon
  <2>5. Kept(s \o Append(u, x), keep) = Kept(s, keep) \o Kept(Append(u, x), keep)
    BY <2>1, <2>2, <2>3, <2>4, Zenon
  <2> QED
    BY <2>5
<1> HIDE DEF P
<1>3. \A u \in Seq(T) : u \in P
  BY <1>1, <1>2, SeqInduction, Zenon
<1> QED
  BY <1>3, Zenon DEF P

(* Keeping what is kept. *)
LEMMA KeptTwice ==
  ASSUME NEW T, NEW s \in Seq(T), NEW K, NEW L
  PROVE  Kept(Kept(s, K), L) = Kept(s, K \cap L)
<1> DEFINE P == {u \in Seq(T) : Kept(Kept(u, K), L) = Kept(u, K \cap L)}
<1>1. <<>> \in P
  BY KeptEmpty
<1>2. ASSUME NEW u \in Seq(T), NEW x \in T, u \in P PROVE Append(u, x) \in P
  <2>1. Kept(Kept(u, K), L) = Kept(u, K \cap L)
    BY <1>2, Zenon
  <2>2. Kept(u, K) \in Seq(T)
    BY KeptSeq, Zenon
  <2>3. Kept(Append(u, x), K \cap L)
          = IF x \in K \cap L THEN Append(Kept(u, K \cap L), x) ELSE Kept(u, K \cap L)
    BY KeptAppend, Zenon
  <2>4. Kept(Append(u, x), K) = IF x \in K THEN Append(Kept(u, K), x) ELSE Kept(u, K)
    BY KeptAppend, Zenon
  <2>5. Kept(Append(Kept(u, K), x), L)
          = IF x \in L THEN Append(Kept(Kept(u, K), L), x) ELSE Kept(Kept(u, K), L)
    BY <2>2, KeptAppend
  <2>6. Kept(Kept(Append(u, x), K), L) = Kept(Append(u, x), K \cap L)
    <3>1. CASE x \in K /\ x \in L
      BY <2>1, <2>3, <2>4, <2>5, <3>1, Zenon
    <3>3. CASE x \in K /\ x \notin L
      BY <2>1, <2>3, <2>4, <2>5, <3>3, Zenon
    <3>2. CASE x \notin K
      BY <2>1, <2>3, <2>4, <3>2, Zenon
    <3> QED
      BY <3>1, <3>2, <3>3, Zenon
  <2> QED
    BY <2>6
<1> HIDE DEF P
<1>3. \A u \in Seq(T) : u \in P
  BY <1>1, <1>2, SeqInduction
<1> QED
  BY <1>3, Zenon DEF P

-----------------------------------------------------------------------------
(* What was delivered on a node is known there by its transid. *)
Known ==
  /\ DOMAIN seen = Nodes
  /\ delivered \in [Nodes -> [Msgs -> Nat]]
  /\ \A n \in Nodes, m \in Msgs :
       delivered[n][m] <= 1 /\ (delivered[n][m] > 0 => m.tid \in seen[n])

(* Initially nothing was delivered. *)
LEMMA InitKnown == Init => Known
BY DEF Init, Known

(* Only FromWire delivers, and only what it does not know yet. *)
LEMMA NextKnown == Known /\ [Next]_vars => Known'
<1> SUFFICES ASSUME Known, [Next]_vars PROVE Known'
  BY Zenon
<1>1. ASSUME NEW n \in Nodes, FromWire(n) PROVE Known'
  <2> DEFINE m == Head(queue[n]).msg
  <2>1. /\ seen' = [seen EXCEPT ![n] = @ \cup {m.tid}]
        /\ delivered' = IF m.tid \in seen[n] THEN delivered ELSE [delivered EXCEPT ![n][m] = @ + 1]
    BY <1>1, Zenon DEF FromWire
  <2> HIDE DEF m
  <2>2. DOMAIN seen' = Nodes /\ \A k \in Nodes : seen[k] \subseteq seen'[k] /\ m.tid \in seen'[n]
    BY <2>1, Zenon DEF Known
  <2>3. delivered' \in [Nodes -> [Msgs -> Nat]]
    <3> DEFINE f == [delivered[n] EXCEPT ![m] = @ + 1]
    <3>1. delivered \in [Nodes -> [Msgs -> Nat]] /\ delivered[n] \in [Msgs -> Nat]
      BY Zenon DEF Known
    <3>2. f \in [Msgs -> Nat]
      <4> DEFINE g == delivered[n]
      <4>1. g \in [Msgs -> Nat] /\ f = [g EXCEPT ![m] = g[m] + 1]
        BY <3>1, Zenon
      <4> HIDE DEF f, g
      <4>2. CASE m \in Msgs
        BY <4>1, <4>2
      <4>3. CASE m \notin Msgs
        BY <4>1, <4>3, Zenon
      <4> QED
        BY <4>2, <4>3, Zenon
    <3>3. delivered' = delivered \/ delivered' = [delivered EXCEPT ![n] = f]
      BY <2>1, Zenon
    <3> HIDE DEF f
    <3> QED
      BY <3>1, <3>2, <3>3, SMTT(60)
  <2>4. ASSUME NEW k \in Nodes, NEW p \in Msgs
        PROVE  delivered'[k][p] <= 1 /\ (delivered'[k][p] > 0 => p.tid \in seen'[k])
    <3>1. CASE k = n /\ p = m /\ m.tid \notin seen[n]
      <4>1. delivered[n][m] = 0
        BY <3>1 DEF Known
      <4>2. delivered'[k][p] = 1
        BY <2>1, <3>1, <4>1, SMTT(60) DEF Known
      <4> QED
        BY <2>2, <3>1, <4>2, SMTT(60)
    <3>2. CASE ~(k = n /\ p = m /\ m.tid \notin seen[n])
      <4>1. delivered'[k][p] = delivered[k][p]
        BY <2>1, <3>2, Zenon DEF Known
      <4> QED
        BY <2>2, <4>1, Zenon DEF Known
    <3> QED
      BY <3>1, <3>2, Zenon
  <2> QED
    BY <2>2, <2>3, <2>4, SMTT(60) DEF Known
<1>2. ASSUME UNCHANGED <<seen, delivered>> PROVE Known'
  BY <1>2, Zenon DEF Known
<1>3. ASSUME NEW m, Submit(m) \/ Arrives(m) \/ Lose(m) PROVE UNCHANGED <<seen, delivered>>
  BY <1>3, Zenon DEF Submit, Arrives, Arrive, Lose, taskVars
<1>4. ASSUME NEW n, FromTask(n) \/ Thread(n) PROVE UNCHANGED <<seen, delivered>>
  BY <1>4, Zenon DEF FromTask, Thread, Drain, Poll, taskVars
<1>5. UNCHANGED vars => UNCHANGED <<seen, delivered>>
  BY Zenon DEF vars, taskVars
<1> QED
  BY <1>1, <1>2, <1>3, <1>4, <1>5, SMTT(60) DEF Next

(* A message reaches the default task of a node at most once, however often   *)
(* the network repeats its datagram (processTM looks the transid up before    *)
(* TPsaRscTask forwards the message).                                         *)
THEOREM DeliveredOnce == Spec => []AtMostOnce
<1>1. Known => AtMostOnce
  BY Zenon DEF Known, AtMostOnce
<1> QED
  BY <1>1, InitKnown, NextKnown, PTL DEF Spec
-----------------------------------------------------------------------------
(* The order of what a bind sends. *)
Entries == [from : {"task", "wire"}, msg : Msgs, bind : Int]
Datagrams == [msg : Msgs, whole : BOOLEAN]

(* The shape of the queues, *)
Shapes ==
  /\ queue \in [Nodes -> Seq(Entries)] /\ fifo \in [Nodes -> Seq(Carriers)]
  /\ DOMAIN buffer = Nodes /\ DOMAIN sent = Nodes /\ DOMAIN socket = Nodes
  /\ \A n \in Nodes :
       /\ buffer[n] \in [Binds(n) -> Seq(Carriers)]
       /\ sent[n] \in [Binds(n) -> Seq(Msgs)]
       /\ socket[n] \in [Binds(n) -> Seq(Datagrams)]
  /\ submitted \in [Nodes -> Seq(Msgs)]
  /\ net \subseteq Msgs

(* and what of each of them is still to leave a bind. *)
InBuffer(s) == Messages(Kept(s, Whole))
InFifo(s, n, b) == Messages(Kept(s, Whole \cap Over(n, b)))
InQueue(s, n, b) == Kept(Messages(Kept(s, FromTasks)), For(n, b))
Asked(s, n, b) == Kept(s, For(n, b))

Cat(s, t) == s \o t

(* What was sent, waits in the buffer, in mFifo and in the queue is what was asked for. *)
Ordered(s, w, f, q, a, n, b) ==
  Cat(Cat(Cat(s, InBuffer(w)), InFifo(f, n, b)), InQueue(q, n, b)) = Asked(a, n, b)

InOrder(n, b) == Ordered(sent[n][b], buffer[n][b], fifo[n], queue[n], submitted[n], n, b)

(* Laws of concatenation. *)
LEMMA CatLaws ==
  ASSUME NEW S
  PROVE  /\ \A u \in Seq(S) : Cat(u, <<>>) = u /\ Cat(<<>>, u) = u
         /\ \A u, v \in Seq(S) : Cat(u, v) \in Seq(S)
         /\ \A u, v, w \in Seq(S) : Cat(Cat(u, v), w) = Cat(u, Cat(v, w))
<1>1. ASSUME NEW u \in Seq(S) PROVE Cat(u, <<>>) = u /\ Cat(<<>>, u) = u
  BY DEF Cat
<1>2. ASSUME NEW u \in Seq(S), NEW v \in Seq(S) PROVE Cat(u, v) \in Seq(S)
  BY DEF Cat
<1>3. ASSUME NEW u \in Seq(S), NEW v \in Seq(S), NEW w \in Seq(S)
      PROVE  Cat(Cat(u, v), w) = Cat(u, Cat(v, w))
  BY ConcatAssociative, SMTT(30) DEF Cat
<1> QED
  BY <1>1, <1>2, <1>3, Zenon

(* A member at the end of two sequences. *)
LEMMA CatAppend ==
  ASSUME NEW S, NEW u \in Seq(S), NEW v \in Seq(S), NEW x \in S
  PROVE  Cat(u, Append(v, x)) = Append(Cat(u, v), x)
BY DEF Cat

(* The messages of records, one by one and joined. *)
LEMMA MessagesLaws ==
  ASSUME NEW R, \A r \in R : r.msg \in Msgs
  PROVE  /\ Messages(<<>>) = <<>>
         /\ \A s \in Seq(R) : Messages(s) \in Seq(Msgs)
         /\ \A r \in R : Messages(<<r>>) = <<r.msg>>
         /\ \A s, t \in Seq(R) : Messages(Cat(s, t)) = Cat(Messages(s), Messages(t))
<1>1. Messages(<<>>) = <<>>
  BY DEF Messages
<1>2. ASSUME NEW s \in Seq(R) PROVE Messages(s) \in Seq(Msgs) /\ Len(Messages(s)) = Len(s)
                                    /\ \A i \in 1..Len(s) : Messages(s)[i] = s[i].msg
  <2>1. DOMAIN s = 1..Len(s) /\ Len(s) \in Nat /\ \A i \in 1..Len(s) : s[i] \in R
    OBVIOUS
  <2>2. \A i \in 1..Len(s) : s[i].msg \in Msgs
    BY <2>1, Zenon
  <2> QED
    BY <2>1, <2>2 DEF Messages
<1>3. ASSUME NEW r \in R PROVE Messages(<<r>>) = <<r.msg>>
  BY DEF Messages
<1>4. ASSUME NEW s \in Seq(R), NEW r \in R
      PROVE  Append(s, r) \in Seq(R) /\ Messages(Append(s, r)) = Append(Messages(s), r.msg)
  BY DEF Messages
<1>5. ASSUME NEW s \in Seq(R), NEW t \in Seq(R)
      PROVE  Messages(Cat(s, t)) = Cat(Messages(s), Messages(t))
  <2> DEFINE P == {u \in Seq(R) : Messages(Cat(s, u)) = Cat(Messages(s), Messages(u))}
  <2>1. <<>> \in P
    <3>1. <<>> \in Seq(R)
      OBVIOUS
    <3>2. Cat(s, <<>>) = s /\ Cat(Messages(s), <<>>) = Messages(s)
      BY <1>2, CatLaws, Zenon
    <3> QED
      BY <1>1, <3>1, <3>2, Zenon
  <2>2. ASSUME NEW u \in Seq(R), NEW r \in R, u \in P PROVE Append(u, r) \in P
    <3>1. Cat(s, Append(u, r)) = Append(Cat(s, u), r) /\ Cat(s, u) \in Seq(R)
      BY CatAppend, CatLaws
    <3>2. Messages(Cat(s, Append(u, r))) = Append(Messages(Cat(s, u)), r.msg)
      BY <1>4, <3>1, Zenon
    <3>3. /\ Messages(s) \in Seq(Msgs) /\ Messages(u) \in Seq(Msgs) /\ r.msg \in Msgs
          /\ Messages(Cat(s, u)) = Cat(Messages(s), Messages(u))
      BY <1>2, <2>2, Zenon
    <3>4. Cat(Messages(s), Append(Messages(u), r.msg)) = Append(Cat(Messages(s), Messages(u)), r.msg)
      <4>1. PICK v \in Seq(Msgs), w \in Seq(Msgs), x \in Msgs : v = Messages(s) /\ w = Messages(u) /\ x = r.msg
        BY <3>3, Zenon
      <4>2. Cat(v, Append(w, x)) = Append(Cat(v, w), x)
        BY CatAppend
      <4> QED
        BY <4>1, <4>2, Zenon
    <3> QED
      BY <1>4, <3>2, <3>3, <3>4, Zenon
  <2> HIDE DEF P
  <2>3. \A u \in Seq(R) : u \in P
    BY <2>1, <2>2, SeqInduction, Zenon
  <2> QED
    BY <2>3, Zenon DEF P
<1> QED
  BY <1>1, <1>2, <1>3, <1>5, Zenon

(* What is kept of two sequences, *)
LEMMA KeptCat ==
  ASSUME NEW T, NEW s \in Seq(T), NEW t \in Seq(T), NEW keep
  PROVE  Kept(Cat(s, t), keep) = Cat(Kept(s, keep), Kept(t, keep))
BY KeptConcat DEF Cat

(* and of one member. *)
LEMMA KeptOne ==
  ASSUME NEW T, NEW x \in T, NEW keep
  PROVE  /\ x \in keep => Kept(<<x>>, keep) = <<x>>
         /\ x \notin keep => Kept(<<x>>, keep) = <<>>
<1>1. <<>> \in Seq(T) /\ Append(<<>>, x) = <<x>>
  OBVIOUS
<1>2. Kept(Append(<<>>, x), keep) = IF x \in keep THEN Append(Kept(<<>>, keep), x) ELSE Kept(<<>>, keep)
  BY <1>1, KeptAppend, Zenon
<1> QED
  BY <1>1, <1>2, KeptEmpty, Zenon

(* What was asked of a bind. *)
LEMMA AskedLaws ==
  ASSUME NEW n, NEW b
  PROVE  /\ Asked(<<>>, n, b) = <<>>
         /\ \A s \in Seq(Msgs) : Asked(s, n, b) \in Seq(Msgs)
         /\ \A s, t \in Seq(Msgs) : Asked(Cat(s, t), n, b) = Cat(Asked(s, n, b), Asked(t, n, b))
         /\ \A m \in Msgs : Asked(<<m>>, n, b) = IF m \in For(n, b) THEN <<m>> ELSE <<>>
<1>1. \A s \in Seq(Msgs) : Asked(s, n, b) \in Seq(Msgs)
  BY KeptSeq, Zenon DEF Asked
<1>2. \A s, t \in Seq(Msgs) : Asked(Cat(s, t), n, b) = Cat(Asked(s, n, b), Asked(t, n, b))
  BY KeptCat DEF Asked
<1>3. \A m \in Msgs : Asked(<<m>>, n, b) = IF m \in For(n, b) THEN <<m>> ELSE <<>>
  BY KeptOne, Zenon DEF Asked
<1> QED
  BY <1>1, <1>2, <1>3, KeptEmpty, Zenon DEF Asked

(* What the adaptor's queue holds for a bind. *)
LEMMA QueueLaws ==
  ASSUME NEW n, NEW b
  PROVE  /\ InQueue(<<>>, n, b) = <<>>
         /\ \A s \in Seq(Entries) : InQueue(s, n, b) \in Seq(Msgs)
         /\ \A s, t \in Seq(Entries) : InQueue(Cat(s, t), n, b) = Cat(InQueue(s, n, b), InQueue(t, n, b))
         /\ \A e \in Entries : InQueue(<<e>>, n, b) = IF e.from = "task" THEN Asked(<<e.msg>>, n, b) ELSE <<>>
<1>0. \A e \in Entries : e.msg \in Msgs /\ (e \in FromTasks <=> e.from = "task")
  BY Zenon DEF Entries, FromTasks
<1>1. Kept(<<>>, FromTasks) = <<>> /\ Messages(<<>>) = <<>> /\ Asked(<<>>, n, b) = <<>>
  BY <1>0, KeptEmpty, MessagesLaws, AskedLaws, Zenon
<1>2. \A s : InQueue(s, n, b) = Asked(Messages(Kept(s, FromTasks)), n, b)
  BY Zenon DEF InQueue, Asked
<1>3. \A s \in Seq(Entries) : Kept(s, FromTasks) \in Seq(Entries) /\ Messages(Kept(s, FromTasks)) \in Seq(Msgs)
  <2>1. \A s \in Seq(Entries) : Kept(s, FromTasks) \in Seq(Entries)
    BY KeptSeq, Zenon
  <2> QED
    BY <1>0, <2>1, MessagesLaws, Zenon
<1>4. ASSUME NEW s \in Seq(Entries), NEW t \in Seq(Entries)
      PROVE  InQueue(Cat(s, t), n, b) = Cat(InQueue(s, n, b), InQueue(t, n, b))
  <2>1. Kept(Cat(s, t), FromTasks) = Cat(Kept(s, FromTasks), Kept(t, FromTasks))
    BY KeptCat
  <2>2. Messages(Cat(Kept(s, FromTasks), Kept(t, FromTasks)))
          = Cat(Messages(Kept(s, FromTasks)), Messages(Kept(t, FromTasks)))
    BY <1>0, <1>3, MessagesLaws, Zenon
  <2>3. PICK v \in Seq(Msgs), w \in Seq(Msgs) :
          v = Messages(Kept(s, FromTasks)) /\ w = Messages(Kept(t, FromTasks))
    BY <1>3, Zenon
  <2>4. Asked(Cat(v, w), n, b) = Cat(Asked(v, n, b), Asked(w, n, b))
    BY AskedLaws, Zenon
  <2> QED
    BY <1>2, <2>1, <2>2, <2>3, <2>4, SMTT(30)
<1>5. ASSUME NEW e \in Entries
      PROVE  InQueue(<<e>>, n, b) = IF e.from = "task" THEN Asked(<<e.msg>>, n, b) ELSE <<>>
  <2>1. Kept(<<e>>, FromTasks) = IF e.from = "task" THEN <<e>> ELSE <<>>
    BY <1>0, KeptOne, Zenon
  <2>2. Messages(<<e>>) = <<e.msg>>
    BY <1>0, MessagesLaws, Zenon
  <2> QED
    BY <1>1, <1>2, <2>1, <2>2, Zenon
<1>6. \A s \in Seq(Entries) : InQueue(s, n, b) \in Seq(Msgs)
  <2>1. \A s \in Seq(Msgs) : Asked(s, n, b) \in Seq(Msgs)
    BY AskedLaws, Zenon
  <2> QED
    BY <1>2, <1>3, <2>1, Zenon
<1> QED
  BY <1>1, <1>2, <1>4, <1>5, <1>6, Zenon

(* What mFifo holds for a bind. *)
LEMMA FifoLaws ==
  ASSUME NEW n, NEW b
  PROVE  /\ InFifo(<<>>, n, b) = <<>>
         /\ \A s \in Seq(Carriers) : InFifo(s, n, b) \in Seq(Msgs)
         /\ \A s, t \in Seq(Carriers) : InFifo(Cat(s, t), n, b) = Cat(InFifo(s, n, b), InFifo(t, n, b))
         /\ \A c \in Carriers : InFifo(<<c>>, n, b) = IF c.body /\ BindOf(n, c) = b THEN <<c.msg>> ELSE <<>>
<1> DEFINE K == Whole \cap Over(n, b)
<1>0. \A c \in Carriers : c.msg \in Msgs /\ (c \in K <=> c.body /\ BindOf(n, c) = b)
  BY Zenon DEF Carriers, Whole, Over
<1> HIDE DEF K
<1>1. Kept(<<>>, K) = <<>> /\ Messages(<<>>) = <<>>
  BY <1>0, KeptEmpty, MessagesLaws, Zenon
<1>2. \A s : InFifo(s, n, b) = Messages(Kept(s, K))
  BY Zenon DEF InFifo, K
<1>3. \A s \in Seq(Carriers) : Kept(s, K) \in Seq(Carriers)
  BY KeptSeq, Zenon
<1>4. ASSUME NEW s \in Seq(Carriers), NEW t \in Seq(Carriers)
      PROVE  InFifo(Cat(s, t), n, b) = Cat(InFifo(s, n, b), InFifo(t, n, b))
  <2>1. Kept(Cat(s, t), K) = Cat(Kept(s, K), Kept(t, K))
    BY KeptCat
  <2>2. Messages(Cat(Kept(s, K), Kept(t, K))) = Cat(Messages(Kept(s, K)), Messages(Kept(t, K)))
    BY <1>0, <1>3, MessagesLaws, Zenon
  <2> QED
    BY <1>2, <2>1, <2>2
<1>5. ASSUME NEW c \in Carriers
      PROVE  InFifo(<<c>>, n, b) = IF c.body /\ BindOf(n, c) = b THEN <<c.msg>> ELSE <<>>
  <2>1. Kept(<<c>>, K) = IF c.body /\ BindOf(n, c) = b THEN <<c>> ELSE <<>>
    BY <1>0, KeptOne, Zenon
  <2>2. Messages(<<c>>) = <<c.msg>>
    BY <1>0, MessagesLaws, Zenon
  <2> QED
    BY <1>1, <1>2, <2>1, <2>2, Zenon
<1>6. \A s \in Seq(Carriers) : InFifo(s, n, b) \in Seq(Msgs)
  BY <1>0, <1>2, <1>3, MessagesLaws, Zenon
<1> QED
  BY <1>1, <1>2, <1>4, <1>5, <1>6, Zenon

LEMMA FifoCat ==
  ASSUME NEW n, NEW b, NEW s \in Seq(Carriers), NEW t \in Seq(Carriers)
  PROVE  InFifo(Cat(s, t), n, b) = Cat(InFifo(s, n, b), InFifo(t, n, b))
BY FifoLaws

(* What mSendBuffer holds; the part of mFifo for a bind is what Drain puts there. *)
LEMMA BufferLaws ==
  /\ InBuffer(<<>>) = <<>>
  /\ \A s \in Seq(Carriers) : InBuffer(s) \in Seq(Msgs)
  /\ \A s, t \in Seq(Carriers) : InBuffer(Cat(s, t)) = Cat(InBuffer(s), InBuffer(t))
  /\ \A n, b : \A s \in Seq(Carriers) : InBuffer(Kept(s, Over(n, b))) = InFifo(s, n, b)
<1>0. \A c \in Carriers : c.msg \in Msgs
  BY Zenon DEF Carriers
<1>1. InBuffer(<<>>) = <<>>
  BY <1>0, KeptEmpty, MessagesLaws, Zenon DEF InBuffer
<1>2. \A s \in Seq(Carriers) : Kept(s, Whole) \in Seq(Carriers)
  BY KeptSeq, Zenon
<1>3. \A s \in Seq(Carriers) : InBuffer(s) \in Seq(Msgs)
  BY <1>0, <1>2, MessagesLaws, Zenon DEF InBuffer
<1>4. ASSUME NEW s \in Seq(Carriers), NEW t \in Seq(Carriers)
      PROVE  InBuffer(Cat(s, t)) = Cat(InBuffer(s), InBuffer(t))
  <2>1. Kept(Cat(s, t), Whole) = Cat(Kept(s, Whole), Kept(t, Whole))
    BY KeptCat
  <2>2. Messages(Cat(Kept(s, Whole), Kept(t, Whole))) = Cat(Messages(Kept(s, Whole)), Messages(Kept(t, Whole)))
    BY <1>0, <1>2, MessagesLaws, Zenon
  <2> QED
    BY <2>1, <2>2, Zenon DEF InBuffer
<1>5. ASSUME NEW n, NEW b, NEW s \in Seq(Carriers)
      PROVE  InBuffer(Kept(s, Over(n, b))) = InFifo(s, n, b)
  <2>1. Kept(Kept(s, Over(n, b)), Whole) = Kept(s, Over(n, b) \cap Whole)
    BY KeptTwice
  <2>2. Over(n, b) \cap Whole = Whole \cap Over(n, b)
    BY Zenon
  <2> QED
    BY <2>1, <2>2, Zenon DEF InBuffer, InFifo
<1> QED
  BY <1>1, <1>3, <1>4, <1>5, Zenon

(* A set of naturals has a least member, so Min is in the set. *)
LEMMA MinIn ==
  ASSUME NEW S, S \subseteq Nat, S # {}
  PROVE  Min(S) \in S /\ \A y \in S : Min(S) <= y
<1> DEFINE R == OpToRel(<, Nat)
<1>1. IsWellFoundedOn(R, Nat)
  BY NatLessThanWellFounded, Zenon
<1>2. \A x, y \in Nat : x < y => <<x, y>> \in R
  BY Zenon DEF OpToRel
<1> HIDE DEF R
<1>3. PICK x \in S : \A y \in S : ~(<<y, x>> \in R)
  BY <1>1, WFMin, Zenon
<1>4. \A y \in S : x <= y
  <2> SUFFICES ASSUME NEW y \in S PROVE x <= y
    BY Zenon
  <2>1. x \in Nat /\ y \in Nat
    BY <1>3, Zenon
  <2>2. ~(y < x)
    BY <1>2, <1>3, <2>1, Zenon
  <2> QED
    BY <2>1, <2>2
<1> QED
  BY <1>3, <1>4, Zenon DEF Min

(* A message of a task goes to a bind, by its number. *)
LEMMA FacilityType == \A m \in Msgs : Facility(m) \in Int
<1> SUFFICES ASSUME NEW m \in Msgs, m.link = NoLink PROVE TransExist(m.from, m.net) \in Int
  BY MsgsAssumption, Zenon DEF Facility
<1> DEFINE L == BindList[m.from]
           near == {i \in 1..Len(L) : m.net # NoNet /\ IsPrefix(m.net, L[i].octet)}
<1>1. Len(L) \in Nat \ {0} /\ \A i \in 1..Len(L) : L[i].id \in Nat \ {0}
  BY MsgsAssumption, BindListAssumption, Zenon
<1>2. CASE near # {}
  <2>1. near \subseteq Nat /\ near \subseteq 1..Len(L)
    BY <1>1
  <2> HIDE DEF near, L
  <2>2. Min(near) \in near
    BY <1>2, <2>1, MinIn, Zenon
  <2>3. Min(near) \in 1..Len(L)
    BY <2>1, <2>2, Zenon
  <2>4. L[Min(near)].id \in Nat
    BY <1>1, <2>3, Zenon
  <2>5. L[Min(near)].id \in Int
    BY <2>4
  <2> QED
    BY <1>2, <2>5, Zenon DEF TransExist, near, L
<1>3. CASE near = {}
  <2>1. 1 \in 1..Len(L)
    BY <1>1
  <2>2. L[1].id \in Int
    BY <1>1, <2>1
  <2> QED
    BY <1>3, <2>2, Zenon DEF TransExist, FirstBind
<1> QED
  BY <1>2, <1>3, Zenon

(* Recv takes some of the datagrams. *)
LEMMA RecvCountType == \A s \in Seq(Datagrams) : RecvCount(s) \in 0..Len(s)
<1> SUFFICES ASSUME NEW s \in Seq(Datagrams) PROVE RecvCount(s) \in 0..Len(s)
  BY Zenon
<1> DEFINE full == {i \in DOMAIN s : Cardinality({j \in 1..i : s[j].whole}) = RecvBatch}
<1>1. DOMAIN s = 1..Len(s) /\ Len(s) \in Nat
  OBVIOUS
<1>2. full \subseteq 1..Len(s) /\ full \subseteq Nat
  BY <1>1
<1>3. RecvCount(s) = IF full = {} THEN Len(s) ELSE Min(full)
  BY Zenon DEF RecvCount
<1> HIDE DEF full
<1>4. full # {} => Min(full) \in full
  BY <1>2, MinIn, Zenon
<1>5. CASE full = {}
  BY <1>1, <1>3, <1>5
<1>6. CASE full # {}
  <2>1. RecvCount(s) \in 1..Len(s)
    BY <1>2, <1>3, <1>4, <1>6, Zenon
  <2> QED
    BY <1>1, <2>1
<1> QED
  BY <1>5, <1>6, Zenon

(* What Recv gives the adaptor comes from the wire, *)
LEMMA ReceivedType ==
  ASSUME Shapes, NEW n \in Nodes, NEW b \in Binds(n), b \in Int
  PROVE  Received(n, b) \in Seq([from : {"wire"}, msg : Msgs, bind : Int])
<1> DEFINE s == socket[n][b]
           r == SubSeq(s, 1, RecvCount(s))
           good == Kept(r, [msg : Msgs, whole : {TRUE}])
<1>1. s \in Seq(Datagrams)
  BY Zenon DEF Shapes
<1>2. RecvCount(s) \in 0..Len(s)
  BY <1>1, RecvCountType, Zenon
<1>3. Received(n, b) = [i \in DOMAIN good |-> [from |-> "wire", msg |-> good[i].msg, bind |-> b]]
  BY Zenon DEF Received
<1>4. r \in Seq(Datagrams)
  <2> HIDE DEF s
  <2> QED
    BY <1>1, <1>2
<1> HIDE DEF s, r
<1>5. good \in Seq(Datagrams)
  BY <1>4, KeptSeq, Zenon
<1> HIDE DEF good
<1>6. \A i \in DOMAIN good : good[i].msg \in Msgs
  <2>1. \A d \in Datagrams : d.msg \in Msgs
    BY Zenon DEF Datagrams
  <2>2. \A i \in DOMAIN good : good[i] \in Datagrams
    BY <1>5
  <2> QED
    BY <2>1, <2>2, Zenon
<1>7. PICK k \in Nat : DOMAIN good = 1..k
  BY <1>5
<1> DEFINE W == [from : {"wire"}, msg : Msgs, bind : Int]
           e == [i \in 1..k |-> [from |-> "wire", msg |-> good[i].msg, bind |-> b]]
<1>8. \A i \in 1..k : e[i] \in W
  BY <1>6, <1>7, Zenon
<1>9. e = [i \in 1..k |-> e[i]]
  BY Zenon
<1> HIDE DEF W
<1>10. Received(n, b) = e
  BY <1>3, <1>7, Zenon
<1> HIDE DEF e
<1>11. e \in Seq(W)
  BY <1>8, <1>9
<1> QED
  BY <1>10, <1>11, Zenon DEF W

(* and holds nothing for a bind. *)
LEMMA FromWireOnly ==
  ASSUME NEW s \in Seq([from : {"wire"}, msg : Msgs, bind : Int]), NEW n, NEW b
  PROVE  s \in Seq(Entries) /\ InQueue(s, n, b) = <<>>
<1> DEFINE W == [from : {"wire"}, msg : Msgs, bind : Int]
           P == {u \in Seq(W) : InQueue(u, n, b) = <<>>}
<1>1. W \subseteq Entries /\ \A e \in W : e.from # "task"
  BY Zenon DEF Entries
<1> HIDE DEF W
<1>2. Seq(W) \subseteq Seq(Entries)
  BY <1>1, SeqMonotonic, Zenon
<1>3. <<>> \in P
  <2>1. <<>> \in Seq(W)
    OBVIOUS
  <2> QED
    BY <2>1, QueueLaws, Zenon
<1>4. ASSUME NEW u \in Seq(W), NEW e \in W, u \in P PROVE Append(u, e) \in P
  <2>1. Append(u, e) \in Seq(W) /\ Append(u, e) = Cat(u, <<e>>) /\ <<e>> \in Seq(W)
    BY DEF Cat
  <2>2. InQueue(<<e>>, n, b) = <<>>
    BY <1>1, QueueLaws, Zenon
  <2>3. InQueue(Cat(u, <<e>>), n, b) = Cat(InQueue(u, n, b), InQueue(<<e>>, n, b))
    <3>1. u \in Seq(Entries) /\ <<e>> \in Seq(Entries)
      BY <1>2, <2>1, Zenon
    <3> QED
      BY <3>1, QueueLaws, Zenon
  <2>4. Cat(<<>>, <<>>) = <<>>
    BY DEF Cat
  <2>5. InQueue(u, n, b) = <<>>
    BY <1>4, Zenon
  <2> QED
    BY <2>1, <2>2, <2>3, <2>4, <2>5, Zenon
<1> HIDE DEF P
<1>5. \A u \in Seq(W) : u \in P
  BY <1>3, <1>4, SeqInduction
<1> QED
  BY <1>2, <1>5, Zenon DEF P, W

(* The recursion of Gathered, over the sequences a function gives, *)
IsGathering(f, q, r, k) ==
  /\ f = [i \in 0..k |-> f[i]]
  /\ f[0] = q
  /\ \A i \in 1..k : f[i] = Cat(f[i - 1], r[i])

(* has a solution, *)
LEMMA GatheringExists ==
  ASSUME NEW q, NEW r, NEW k \in Nat
  PROVE  \E f : IsGathering(f, q, r, k)
<1> DEFINE S == {j \in Nat : \E f : IsGathering(f, q, r, j)}
<1>1. 0 \in S
  <2>1. IsGathering([i \in 0..0 |-> q], q, r, 0)
    BY DEF IsGathering
  <2> QED
    BY <2>1, Zenon
<1>2. ASSUME NEW j \in Nat, j \in S PROVE j + 1 \in S
  <2>1. PICK f : IsGathering(f, q, r, j)
    BY <1>2
  <2> DEFINE x == Cat(f[j], r[j + 1])
             g == [i \in 0..j + 1 |-> IF i = j + 1 THEN x ELSE f[i]]
  <2>2. f[0] = q /\ \A i \in 1..j : f[i] = Cat(f[i - 1], r[i])
    BY <2>1, Zenon DEF IsGathering
  <2>3. g[0] = q
    BY <2>2
  <2>4. ASSUME NEW i \in 1..j + 1 PROVE g[i] = Cat(g[i - 1], r[i])
    <3>1. CASE i = j + 1
      BY <3>1
    <3>2. CASE i # j + 1
      BY <2>2, <3>2
    <3> QED
      BY <3>1, <3>2, Zenon
  <2>5. g = [i \in 0..j + 1 |-> g[i]]
    BY Zenon
  <2> HIDE DEF g
  <2>6. IsGathering(g, q, r, j + 1)
    BY <2>3, <2>4, <2>5, Zenon DEF IsGathering
  <2> QED
    BY <2>6
<1> HIDE DEF S
<1>3. \A j \in Nat : j \in S
  BY <1>1, <1>2, SetInduction
<1> QED
  BY <1>3 DEF S

(* whose last value is Gathered. *)
LEMMA GatheredLast ==
  ASSUME NEW n, NEW k \in Nat, k = Len(BindList[n]),
         NEW r, \A i \in 1..k : r[i] = Received(n, BindList[n][i].id)
  PROVE  \E f : IsGathering(f, queue[n], r, k) /\ Gathered(n) = f[k]
<1> DEFINE F(f) == [i \in 0..k |-> IF i = 0 THEN queue[n] ELSE f[i - 1] \o Received(n, BindList[n][i].id)]
<1>1. PICK g : IsGathering(g, queue[n], r, k)
  BY GatheringExists, Zenon
<1>2. g = F(g)
  <2>1. ASSUME NEW i \in 0..k PROVE g[i] = F(g)[i]
    <3>1. CASE i = 0
      BY <1>1, <3>1, Zenon DEF IsGathering
    <3>2. CASE i \in 1..k
      BY <1>1, <3>2, Zenon DEF IsGathering, Cat
    <3> QED
      BY <3>1, <3>2
  <2>2. g = [i \in 0..k |-> g[i]]
    BY <1>1, Zenon DEF IsGathering
  <2> QED
    BY <2>1, <2>2, Zenon
<1>3. PICK f : f = F(f) /\ Gathered(n) = f[k]
  <2> DEFINE h == CHOOSE f : f = F(f)
  <2>1. h = F(h)
    BY <1>2, Zenon
  <2>2. Gathered(n) = h[k]
    BY Zenon DEF Gathered
  <2> HIDE DEF h
  <2> QED
    BY <2>1, <2>2, Zenon
<1>4. f = [i \in 0..k |-> f[i]]
  BY <1>3, Zenon
<1>5. f[0] = queue[n]
  BY <1>3
<1>6. ASSUME NEW i \in 1..k PROVE f[i] = Cat(f[i - 1], r[i])
  <2>1. i \in 0..k /\ i # 0
    OBVIOUS
  <2> QED
    BY <1>3, <2>1, Zenon DEF Cat
<1>7. IsGathering(f, queue[n], r, k)
  BY <1>4, <1>5, <1>6, Zenon DEF IsGathering
<1> QED
  BY <1>3, <1>7, Zenon

(* Recv of all binds adds nothing that is to leave one. *)
LEMMA GatheredKeeps ==
  ASSUME Shapes, NEW n \in Nodes
  PROVE  Gathered(n) \in Seq(Entries) /\ \A b : InQueue(Gathered(n), n, b) = InQueue(queue[n], n, b)
<1>1. PICK k \in Nat : k = Len(BindList[n])
  BY BindListAssumption, Zenon
<1>2. PICK r : \A i \in 1..k : r[i] = Received(n, BindList[n][i].id)
  <2>1. \A i \in 1..k : [j \in 1..k |-> Received(n, BindList[n][j].id)][i] = Received(n, BindList[n][i].id)
    BY Zenon
  <2> QED
    BY <2>1, Zenon
<1>3. ASSUME NEW i \in 1..k PROVE r[i] \in Seq(Entries) /\ \A b : InQueue(r[i], n, b) = <<>>
  <2> DEFINE id == BindList[n][i].id
  <2>1. id \in Int /\ id \in Binds(n)
    BY <1>1, BindListAssumption DEF Binds
  <2> HIDE DEF id
  <2>2. Received(n, id) \in Seq([from : {"wire"}, msg : Msgs, bind : Int])
    BY <2>1, ReceivedType, Zenon
  <2>3. r[i] = Received(n, id)
    BY <1>2, Zenon DEF id
  <2> QED
    BY <2>2, <2>3, FromWireOnly, Zenon
<1>4. PICK f : IsGathering(f, queue[n], r, k) /\ Gathered(n) = f[k]
  BY <1>1, <1>2, GatheredLast, Zenon
<1> DEFINE S == {j \in Nat : j <= k => /\ f[j] \in Seq(Entries)
                                       /\ \A b : InQueue(f[j], n, b) = InQueue(queue[n], n, b)}
<1>5. 0 \in S
  BY <1>4, Zenon DEF IsGathering, Shapes
<1>6. ASSUME NEW j \in Nat, j \in S PROVE j + 1 \in S
  <2> SUFFICES ASSUME j + 1 <= k
               PROVE  /\ f[j + 1] \in Seq(Entries)
                      /\ \A b : InQueue(f[j + 1], n, b) = InQueue(queue[n], n, b)
    OBVIOUS
  <2>1. j + 1 \in 1..k /\ (j + 1) - 1 = j
    OBVIOUS
  <2>2. f[j] \in Seq(Entries) /\ \A b : InQueue(f[j], n, b) = InQueue(queue[n], n, b)
    BY <1>6
  <2>3. f[j + 1] = Cat(f[j], r[j + 1])
    BY <1>4, <2>1, Zenon DEF IsGathering
  <2>4. r[j + 1] \in Seq(Entries) /\ \A b : InQueue(r[j + 1], n, b) = <<>>
    BY <1>3, <2>1, Zenon
  <2>5. PICK u \in Seq(Entries), v \in Seq(Entries) : u = f[j] /\ v = r[j + 1]
    BY <2>2, <2>4, Zenon
  <2>6. Cat(u, v) \in Seq(Entries)
    BY CatLaws, Zenon
  <2>7. ASSUME NEW b PROVE InQueue(Cat(u, v), n, b) = InQueue(u, n, b)
    <3>1. InQueue(Cat(u, v), n, b) = Cat(InQueue(u, n, b), InQueue(v, n, b))
      BY QueueLaws, Zenon
    <3>2. InQueue(v, n, b) = <<>> /\ InQueue(u, n, b) \in Seq(Msgs)
      BY <2>4, <2>5, QueueLaws, Zenon
    <3> QED
      BY <3>1, <3>2, CatLaws, Zenon
  <2> QED
    BY <2>2, <2>3, <2>5, <2>6, <2>7, Zenon
<1> HIDE DEF S
<1>7. \A j \in Nat : j \in S
  BY <1>5, <1>6, SetInduction, Zenon
<1> QED
  BY <1>4, <1>7 DEF S

(* A part moves from the front of one place to the end of the place before it. *)
LEMMA CatMove ==
  ASSUME NEW S, NEW y \in Seq(S), NEW c \in Seq(S), NEW w \in Seq(S), NEW d \in Seq(S)
  PROVE  Cat(Cat(y, Cat(c, w)), d) = Cat(Cat(y, c), Cat(w, d))
<1>1. Cat(y, Cat(c, w)) = Cat(Cat(y, c), w) /\ Cat(y, c) \in Seq(S)
  BY CatLaws
<1>2. PICK z \in Seq(S) : z = Cat(y, c)
  BY <1>1, Zenon
<1>3. Cat(Cat(z, w), d) = Cat(z, Cat(w, d))
  BY CatLaws
<1> QED
  BY <1>1, <1>2, <1>3, Zenon

(* The head of a sequence, and the rest. *)
LEMMA HeadTail ==
  ASSUME NEW S, NEW s \in Seq(S), s # <<>>
  PROVE  Head(s) \in S /\ Tail(s) \in Seq(S) /\ <<Head(s)>> \in Seq(S) /\ s = Cat(<<Head(s)>>, Tail(s))
BY DEF Cat

(* A member appended, as a sequence joined. *)
LEMMA AppendCat ==
  ASSUME NEW S, NEW s \in Seq(S), NEW x \in S
  PROVE  Append(s, x) \in Seq(S) /\ <<x>> \in Seq(S) /\ Append(s, x) = Cat(s, <<x>>)
BY DEF Cat

(* The first members of a sequence, and the others. *)
LEMMA Parted ==
  ASSUME NEW S, NEW s \in Seq(S), NEW k \in 0..Len(s)
  PROVE  /\ SubSeq(s, 1, k) \in Seq(S) /\ SubSeq(s, k + 1, Len(s)) \in Seq(S)
         /\ s = Cat(SubSeq(s, 1, k), SubSeq(s, k + 1, Len(s)))
<1>1. SubSeq(s, 1, k) \in Seq(S) /\ SubSeq(s, k + 1, Len(s)) \in Seq(S)
  OBVIOUS
<1>2. 1 \in 1..Len(s) + 1 /\ k \in (1 - 1)..Len(s) /\ Len(s) \in k..Len(s)
  OBVIOUS
<1>3. SubSeq(s, 1, k) \o SubSeq(s, k + 1, Len(s)) = SubSeq(s, 1, Len(s))
  BY <1>2, ConcatAdjacentSubSeq, Zenon
<1>4. SubSeq(s, 1, Len(s)) = s
  BY SubSeqFull, Zenon
<1> QED
  BY <1>1, <1>3, <1>4, Zenon DEF Cat

(* Submit *)
LEMMA OrderedSubmit ==
  ASSUME NEW n, NEW b, NEW s \in Seq(Msgs), NEW w \in Seq(Carriers), NEW f \in Seq(Carriers),
         NEW q \in Seq(Entries), NEW a \in Seq(Msgs), Ordered(s, w, f, q, a, n, b), NEW m \in Msgs
  PROVE  Ordered(s, w, f, Append(q, [from |-> "task", msg |-> m, bind |-> 0]), Append(a, m), n, b)
<1> DEFINE e == [from |-> "task", msg |-> m, bind |-> 0]
<1>1. e \in Entries /\ e.from = "task" /\ e.msg = m
  BY DEF Entries
<1> HIDE DEF e
<1>2. InQueue(<<e>>, n, b) = Asked(<<m>>, n, b)
  BY <1>1, QueueLaws, Zenon
<1>3. <<e>> \in Seq(Entries) /\ Append(q, e) = Cat(q, <<e>>)
  BY <1>1, AppendCat, Zenon
<1>4. <<m>> \in Seq(Msgs) /\ Append(a, m) = Cat(a, <<m>>)
  BY AppendCat, Zenon
<1>5. InQueue(Cat(q, <<e>>), n, b) = Cat(InQueue(q, n, b), InQueue(<<e>>, n, b))
  BY <1>3, QueueLaws, Zenon
<1>6. Asked(Cat(a, <<m>>), n, b) = Cat(Asked(a, n, b), Asked(<<m>>, n, b))
  <2>1. PICK t \in Seq(Msgs) : t = <<m>>
    BY <1>4, Zenon
  <2>2. Asked(Cat(a, t), n, b) = Cat(Asked(a, n, b), Asked(t, n, b))
    BY AskedLaws, Zenon
  <2> QED
    BY <2>1, <2>2, Zenon
<1>7. PICK x \in Seq(Msgs), y \in Seq(Msgs), z \in Seq(Msgs) :
        /\ x = Cat(Cat(s, InBuffer(w)), InFifo(f, n, b))
        /\ y = InQueue(q, n, b) /\ z = Asked(<<m>>, n, b)
  <2>1. InBuffer(w) \in Seq(Msgs) /\ InFifo(f, n, b) \in Seq(Msgs) /\ InQueue(q, n, b) \in Seq(Msgs) /\ Asked(<<m>>, n, b) \in Seq(Msgs)
    BY <1>4, BufferLaws, FifoLaws, QueueLaws, AskedLaws, Zenon
  <2>2. Cat(s, InBuffer(w)) \in Seq(Msgs)
    BY <2>1, CatLaws, Zenon
  <2>3. Cat(Cat(s, InBuffer(w)), InFifo(f, n, b)) \in Seq(Msgs)
    BY <2>1, <2>2, CatLaws, Zenon
  <2> QED
    BY <2>1, <2>3, Zenon
<1>8. Cat(Cat(x, y), z) = Cat(x, Cat(y, z))
  BY CatLaws
<1>9. Cat(x, y) = Asked(a, n, b)
  BY <1>7, Zenon DEF Ordered
<1>10. Ordered(s, w, f, Append(q, e), Append(a, m), n, b)
  BY <1>2, <1>3, <1>4, <1>5, <1>6, <1>7, <1>8, <1>9, Zenon DEF Ordered
<1> QED
  BY <1>10, Zenon DEF e

(* FromTask and FromWire: what leaves the queue for a bind is what enters mFifo for it. *)
LEMMA OrderedForward ==
  ASSUME NEW n, NEW b, NEW s \in Seq(Msgs), NEW w \in Seq(Carriers), NEW f \in Seq(Carriers),
         NEW q \in Seq(Entries), q # <<>>, NEW a, Ordered(s, w, f, q, a, n, b), NEW g \in Seq(Carriers),
         InFifo(g, n, b) = InQueue(<<Head(q)>>, n, b)
  PROVE  Ordered(s, w, Cat(f, g), Tail(q), a, n, b)
<1>1. Tail(q) \in Seq(Entries) /\ <<Head(q)>> \in Seq(Entries) /\ q = Cat(<<Head(q)>>, Tail(q))
  BY HeadTail, Zenon
<1>2. PICK h \in Seq(Entries), t \in Seq(Entries) : h = <<Head(q)>> /\ t = Tail(q)
  BY <1>1, Zenon
<1>3. InQueue(Cat(h, t), n, b) = Cat(InQueue(h, n, b), InQueue(t, n, b))
  BY QueueLaws, ZenonT(60)
<1>4. InFifo(Cat(f, g), n, b) = Cat(InFifo(f, n, b), InFifo(g, n, b))
  BY FifoCat
<1>5. PICK y \in Seq(Msgs), c \in Seq(Msgs), v \in Seq(Msgs), d \in Seq(Msgs) :
        /\ y = Cat(s, InBuffer(w)) /\ c = InFifo(f, n, b)
        /\ v = InFifo(g, n, b) /\ d = InQueue(t, n, b)
  <2>1. InBuffer(w) \in Seq(Msgs) /\ InFifo(f, n, b) \in Seq(Msgs) /\ InFifo(g, n, b) \in Seq(Msgs) /\ InQueue(t, n, b) \in Seq(Msgs)
    BY BufferLaws, FifoLaws, QueueLaws, Zenon
  <2>2. Cat(s, InBuffer(w)) \in Seq(Msgs)
    BY <2>1, CatLaws, Zenon
  <2> QED
    BY <2>1, <2>2, Zenon
<1>6. Cat(Cat(y, Cat(c, v)), d) = Cat(Cat(y, c), Cat(v, d))
  BY CatMove
<1> QED
  BY <1>1, <1>2, <1>3, <1>4, <1>5, <1>6, SMTT(30) DEF Ordered

(* Send *)
LEMMA OrderedSend ==
  ASSUME NEW n, NEW b, NEW s \in Seq(Msgs), NEW w \in Seq(Carriers), NEW f, NEW q, NEW a,
         Ordered(s, w, f, q, a, n, b)
  PROVE  Ordered(Cat(s, InBuffer(w)), <<>>, f, q, a, n, b)
<1>1. InBuffer(w) \in Seq(Msgs) /\ InBuffer(<<>>) = <<>>
  BY BufferLaws, Zenon
<1>2. Cat(s, InBuffer(w)) \in Seq(Msgs)
  BY <1>1, CatLaws, Zenon
<1>3. Cat(Cat(s, InBuffer(w)), <<>>) = Cat(s, InBuffer(w))
  BY <1>2, CatLaws, Zenon
<1> QED
  BY <1>1, <1>3, Zenon DEF Ordered

(* Drain *)
LEMMA OrderedDrain ==
  ASSUME NEW n, NEW b, NEW s \in Seq(Msgs), NEW w \in Seq(Carriers), NEW f \in Seq(Carriers), NEW q, NEW a,
         Ordered(s, w, f, q, a, n, b), NEW k \in 0..Len(f)
  PROVE  Ordered(s, Cat(w, Kept(SubSeq(f, 1, k), Over(n, b))), SubSeq(f, k + 1, Len(f)), q, a, n, b)
<1>1. PICK g \in Seq(Carriers), h \in Seq(Carriers) :
        g = SubSeq(f, 1, k) /\ h = SubSeq(f, k + 1, Len(f)) /\ f = Cat(g, h)
  <2>1. /\ SubSeq(f, 1, k) \in Seq(Carriers) /\ SubSeq(f, k + 1, Len(f)) \in Seq(Carriers)
        /\ f = Cat(SubSeq(f, 1, k), SubSeq(f, k + 1, Len(f)))
    BY Parted, Zenon
  <2> QED
    BY <2>1, Zenon
<1>2. Kept(g, Over(n, b)) \in Seq(Carriers) /\ InBuffer(Kept(g, Over(n, b))) = InFifo(g, n, b)
  BY KeptSeq, BufferLaws, Zenon
<1>3. InBuffer(Cat(w, Kept(g, Over(n, b)))) = Cat(InBuffer(w), InFifo(g, n, b))
  BY <1>2, BufferLaws
<1>4. InFifo(Cat(g, h), n, b) = Cat(InFifo(g, n, b), InFifo(h, n, b))
  BY FifoCat
<1>5. PICK c \in Seq(Msgs), v \in Seq(Msgs), d \in Seq(Msgs) :
        c = InBuffer(w) /\ v = InFifo(g, n, b) /\ d = InFifo(h, n, b)
  <2>1. InBuffer(w) \in Seq(Msgs) /\ InFifo(g, n, b) \in Seq(Msgs) /\ InFifo(h, n, b) \in Seq(Msgs)
    BY BufferLaws, FifoLaws, Zenon
  <2> QED
    BY <2>1, Zenon
<1>6. Cat(Cat(s, Cat(c, v)), d) = Cat(Cat(s, c), Cat(v, d))
  BY CatMove
<1>7. Ordered(s, Cat(w, Kept(g, Over(n, b))), h, q, a, n, b)
  BY <1>1, <1>3, <1>4, <1>5, <1>6, Zenon DEF Ordered
<1> QED
  BY <1>1, <1>7, Zenon

Orders == \A n \in Nodes : \A b \in Binds(n) : InOrder(n, b)

(* The types of the parts of InOrder. *)
LEMMA Parts ==
  ASSUME Shapes, NEW n \in Nodes, NEW b \in Binds(n)
  PROVE  /\ sent[n][b] \in Seq(Msgs) /\ buffer[n][b] \in Seq(Carriers)
         /\ fifo[n] \in Seq(Carriers) /\ queue[n] \in Seq(Entries) /\ submitted[n] \in Seq(Msgs)
BY Zenon DEF Shapes

(* A task sends: what is asked for and what waits in the queue grow together. *)
LEMMA SubmitOrders ==
  ASSUME Shapes, Orders, NEW m \in Msgs, Submit(m)
  PROVE  Shapes' /\ Orders'
<1> DEFINE e == [from |-> "task", msg |-> m, bind |-> 0]
           h == m.from
<1>1. h \in Nodes /\ e \in Entries
  BY MsgsAssumption DEF Entries
<1>2. /\ submitted' = [submitted EXCEPT ![h] = Append(@, m)]
      /\ queue' = [queue EXCEPT ![h] = Append(@, e)]
      /\ UNCHANGED <<fifo, buffer, sent, socket, net>>
  BY Zenon DEF Submit, threadVars, netVars
<1> HIDE DEF e, h
<1>3. /\ queue[h] \in Seq(Entries) /\ submitted[h] \in Seq(Msgs)
      /\ Append(queue[h], e) \in Seq(Entries) /\ Append(submitted[h], m) \in Seq(Msgs)
  BY <1>1 DEF Shapes
<1>4. /\ queue' \in [Nodes -> Seq(Entries)] /\ submitted' \in [Nodes -> Seq(Msgs)]
      /\ queue'[h] = Append(queue[h], e) /\ submitted'[h] = Append(submitted[h], m)
      /\ \A k \in Nodes : k # h => queue'[k] = queue[k] /\ submitted'[k] = submitted[k]
  BY <1>1, <1>2, <1>3, Zenon DEF Shapes
<1>5. Shapes'
  BY <1>2, <1>4, Zenon DEF Shapes
<1>6. ASSUME NEW k \in Nodes, NEW b \in Binds(k) PROVE InOrder(k, b)'
  <2>1. Ordered(sent[k][b], buffer[k][b], fifo[k], queue[k], submitted[k], k, b)
    BY Zenon DEF Orders, InOrder
  <2>2. CASE k = h
    <3>1. Ordered(sent[k][b], buffer[k][b], fifo[k], Append(queue[k], e), Append(submitted[k], m), k, b)
      BY <2>1, Parts, OrderedSubmit, Zenon DEF e
    <3> QED
      BY <1>2, <1>4, <2>2, <3>1, Zenon DEF InOrder
  <2>3. CASE k # h
    BY <1>2, <1>4, <2>1, <2>3, Zenon DEF InOrder
  <2> QED
    BY <2>2, <2>3, Zenon
<1> QED
  BY <1>5, <1>6, Zenon DEF Orders

(* What happens when the head of a queue goes on as g. *)
LEMMA ForwardOrders ==
  ASSUME Shapes, Orders, NEW h \in Nodes, queue[h] # <<>>,
         queue' = [queue EXCEPT ![h] = Tail(@)], NEW g \in Seq(Carriers),
         fifo' = [fifo EXCEPT ![h] = Cat(@, g)],
         \A b : InFifo(g, h, b) = InQueue(<<Head(queue[h])>>, h, b),
         UNCHANGED <<submitted, buffer, sent, socket, net>>
  PROVE  Shapes' /\ Orders'
<1>1. /\ queue[h] \in Seq(Entries) /\ fifo[h] \in Seq(Carriers)
      /\ Tail(queue[h]) \in Seq(Entries) /\ Cat(fifo[h], g) \in Seq(Carriers)
  <2>1. queue[h] \in Seq(Entries) /\ fifo[h] \in Seq(Carriers)
    BY Zenon DEF Shapes
  <2> QED
    BY <2>1, HeadTail, CatLaws, Zenon
<1>2. /\ queue' \in [Nodes -> Seq(Entries)] /\ fifo' \in [Nodes -> Seq(Carriers)]
      /\ queue'[h] = Tail(queue[h]) /\ fifo'[h] = Cat(fifo[h], g)
      /\ \A k \in Nodes : k # h => queue'[k] = queue[k] /\ fifo'[k] = fifo[k]
  BY <1>1, Zenon DEF Shapes
<1>3. Shapes'
  BY <1>2, Zenon DEF Shapes
<1>4. ASSUME NEW k \in Nodes, NEW b \in Binds(k) PROVE InOrder(k, b)'
  <2>1. Ordered(sent[k][b], buffer[k][b], fifo[k], queue[k], submitted[k], k, b)
    BY Zenon DEF Orders, InOrder
  <2>2. CASE k = h
    <3>1. Ordered(sent[k][b], buffer[k][b], Cat(fifo[k], g), Tail(queue[k]), submitted[k], k, b)
      BY <2>1, <2>2, Parts, OrderedForward, Zenon
    <3> QED
      BY <1>2, <2>2, <3>1, Zenon DEF InOrder
  <2>3. CASE k # h
    BY <1>2, <2>1, <2>3, Zenon DEF InOrder
  <2> QED
    BY <2>2, <2>3, Zenon
<1> QED
  BY <1>3, <1>4, Zenon DEF Orders

(* A task's message goes on to mFifo, or nowhere. *)
LEMMA FromTaskOrders ==
  ASSUME Shapes, Orders, NEW h \in Nodes, FromTask(h)
  PROVE  Shapes' /\ Orders'
<1> DEFINE e == Head(queue[h])
           m == e.msg
           c == Carrier(m, Facility(m))
           g == IF Routed(m) THEN <<c>> ELSE <<>>
<1>1. /\ queue[h] # <<>> /\ e.from = "task"
      /\ fifo' = [fifo EXCEPT ![h] = IF m.link = NoLink /\ m.net = NoDest THEN @ ELSE Append(@, c)]
      /\ queue' = [queue EXCEPT ![h] = Tail(@)]
      /\ UNCHANGED <<submitted, buffer, sent, socket, net>>
  BY Zenon DEF FromTask, threadVars, netVars
<1>2. queue[h] \in Seq(Entries) /\ fifo[h] \in Seq(Carriers)
  BY Zenon DEF Shapes
<1>3. e \in Entries
  BY <1>1, <1>2, HeadTail, Zenon
<1>4. m \in Msgs
  BY <1>3, Zenon DEF Entries
<1> HIDE DEF e, m
<1>5. c \in Carriers /\ c.body /\ c.msg = m /\ <<c>> \in Seq(Carriers)
  BY <1>4, FacilityType DEF Carrier, Carriers
<1>6. Routed(m) <=> ~(m.link = NoLink /\ m.net = NoDest)
  BY Zenon DEF Routed
<1>7. \A b : m \in For(h, b) <=> Routed(m) /\ BindOf(h, c) = b
  BY <1>4, Zenon DEF For
<1> HIDE DEF c
<1>8. g \in Seq(Carriers)
  BY <1>5
<1>9. fifo' = [fifo EXCEPT ![h] = Cat(@, g)]
  <2>1. CASE Routed(m)
    <3>1. Append(fifo[h], c) = Cat(fifo[h], g)
      BY <1>2, <1>5, <2>1, AppendCat, SMTT(30)
    <3> QED
      BY <1>1, <1>6, <2>1, <3>1, Zenon
  <2>2. CASE ~Routed(m)
    <3>1. fifo[h] = Cat(fifo[h], g)
      BY <1>2, <2>2, CatLaws, Zenon
    <3> QED
      BY <1>1, <1>6, <2>2, <3>1, Zenon
  <2> QED
    BY <2>1, <2>2, Zenon
<1>10. ASSUME NEW b PROVE InFifo(g, h, b) = InQueue(<<e>>, h, b)
  <2>1. InQueue(<<e>>, h, b) = Asked(<<m>>, h, b)
    BY <1>1, <1>3, QueueLaws, Zenon DEF m
  <2>2. Asked(<<m>>, h, b) = IF m \in For(h, b) THEN <<m>> ELSE <<>>
    BY <1>4, AskedLaws, Zenon
  <2>3. InFifo(<<c>>, h, b) = IF BindOf(h, c) = b THEN <<m>> ELSE <<>>
    BY <1>5, FifoLaws, Zenon
  <2>4. InFifo(<<>>, h, b) = <<>>
    BY FifoLaws, Zenon
  <2> QED
    BY <1>7, <2>1, <2>2, <2>3, <2>4, SMTT(30)
<1> HIDE DEF g
<1> QED
  BY <1>1, <1>8, <1>9, <1>10, ForwardOrders, Zenon DEF e

(* A message of the wire leaves the queue for the default task; what enters    *)
(* mFifo is the provisional response, which Send deletes.                      *)
LEMMA FromWireOrders ==
  ASSUME Shapes, Orders, NEW h \in Nodes, FromWire(h)
  PROVE  Shapes' /\ Orders'
<1> DEFINE e == Head(queue[h])
           c == Tmp(e.msg, e.bind)
           g == <<c>>
<1>1. /\ queue[h] # <<>> /\ e.from = "wire"
      /\ fifo' = [fifo EXCEPT ![h] = Append(@, c)]
      /\ queue' = [queue EXCEPT ![h] = Tail(@)]
      /\ UNCHANGED <<submitted, buffer, sent, socket, net>>
  BY Zenon DEF FromWire, threadVars, netVars
<1>2. queue[h] \in Seq(Entries) /\ fifo[h] \in Seq(Carriers)
  BY DEF Shapes
<1>3. e \in Entries
  BY <1>1, <1>2, HeadTail, Zenon
<1>4. e.msg \in Msgs /\ e.bind \in Int
  BY <1>3, Zenon DEF Entries
<1> HIDE DEF e
<1>5. c \in Carriers /\ ~c.body
  BY <1>4, Zenon DEF Tmp, Carriers
<1> HIDE DEF c
<1>6. g \in Seq(Carriers) /\ fifo' = [fifo EXCEPT ![h] = Cat(@, g)]
  <2>1. g \in Seq(Carriers) /\ Append(fifo[h], c) = Cat(fifo[h], g)
    BY <1>2, <1>5, AppendCat, Zenon
  <2> QED
    BY <1>1, <2>1, Zenon
<1>7. ASSUME NEW b PROVE InFifo(g, h, b) = InQueue(<<e>>, h, b)
  <2>1. InQueue(<<e>>, h, b) = <<>>
    <3>1. e.from # "task"
      BY <1>1, Zenon
    <3> QED
      BY <1>3, <3>1, QueueLaws, Zenon
  <2>2. InFifo(<<c>>, h, b) = <<>>
    BY <1>5, FifoLaws, Zenon
  <2> QED
    BY <2>1, <2>2, Zenon
<1> HIDE DEF g
<1> QED
  BY <1>1, <1>6, <1>7, ForwardOrders, Zenon DEF e

(* A poll: what a writable bind's buffer holds is sent, in its order, and what *)
(* the sockets hold only adds messages of the wire to the queue.               *)
LEMMA PollOrders ==
  ASSUME Shapes, Orders, NEW h \in Nodes, NEW writable \in SUBSET Binds(h), Poll(h, writable)
  PROVE  Shapes' /\ Orders'
<1> DEFINE rest(b) == SubSeq(socket[h][b], RecvCount(socket[h][b]) + 1, Len(socket[h][b]))
           buf(b) == IF b \in writable THEN <<>> ELSE buffer[h][b]
           out(b) == IF b \in writable THEN sent[h][b] \o Send(h, b) ELSE sent[h][b]
           R == [b \in Binds(h) |-> rest(b)]
           B == [b \in Binds(h) |-> buf(b)]
           O == [b \in Binds(h) |-> out(b)]
<1>1. /\ queue' = [queue EXCEPT ![h] = Gathered(h)]
      /\ socket' = [socket EXCEPT ![h] = R]
      /\ buffer' = [buffer EXCEPT ![h] = B]
      /\ sent' = [sent EXCEPT ![h] = O]
      /\ net' = net \cup UNION {ToSet(Send(h, b)) : b \in writable}
      /\ UNCHANGED <<submitted, fifo>>
  BY Zenon DEF Poll
<1>2. ASSUME NEW b \in Binds(h)
      PROVE  /\ rest(b) \in Seq(Datagrams)
             /\ buffer[h][b] \in Seq(Carriers) /\ sent[h][b] \in Seq(Msgs)
             /\ Send(h, b) = InBuffer(buffer[h][b]) /\ Send(h, b) \in Seq(Msgs)
             /\ buf(b) \in Seq(Carriers) /\ out(b) \in Seq(Msgs)
  <2>1. PICK s \in Seq(Datagrams) : s = socket[h][b]
    BY Zenon DEF Shapes
  <2>2. RecvCount(s) \in 0..Len(s)
    BY RecvCountType, Zenon
  <2>3. SubSeq(s, RecvCount(s) + 1, Len(s)) \in Seq(Datagrams)
    BY <2>2
  <2>4. rest(b) \in Seq(Datagrams)
    BY <2>1, <2>3, Zenon
  <2>5. buffer[h][b] \in Seq(Carriers) /\ sent[h][b] \in Seq(Msgs)
    BY Parts, Zenon
  <2>6. Send(h, b) = InBuffer(buffer[h][b])
    BY Zenon DEF Send, InBuffer
  <2>7. Send(h, b) \in Seq(Msgs)
    BY <2>5, <2>6, BufferLaws, Zenon
  <2>8. sent[h][b] \o Send(h, b) \in Seq(Msgs)
    BY <2>5, <2>7
  <2>9. <<>> \in Seq(Carriers)
    OBVIOUS
  <2> QED
    BY <2>4, <2>5, <2>6, <2>7, <2>8, <2>9, Zenon
<1> HIDE DEF rest, buf, out
<1>3. R \in [Binds(h) -> Seq(Datagrams)] /\ B \in [Binds(h) -> Seq(Carriers)] /\ O \in [Binds(h) -> Seq(Msgs)]
  BY <1>2, Zenon
<1>4. \A b \in Binds(h) : B[b] = buf(b) /\ O[b] = out(b)
  BY Zenon
<1> HIDE DEF R, B, O
<1>5. Gathered(h) \in Seq(Entries) /\ \A b : InQueue(Gathered(h), h, b) = InQueue(queue[h], h, b)
  BY GatheredKeeps, Zenon
<1>6. /\ DOMAIN queue = Nodes /\ DOMAIN socket = Nodes /\ DOMAIN buffer = Nodes /\ DOMAIN sent = Nodes
  BY Zenon DEF Shapes
<1>7. /\ DOMAIN socket' = Nodes /\ DOMAIN buffer' = Nodes /\ DOMAIN sent' = Nodes
      /\ queue'[h] = Gathered(h) /\ socket'[h] = R /\ buffer'[h] = B /\ sent'[h] = O
      /\ \A k \in Nodes : k # h => /\ queue'[k] = queue[k] /\ socket'[k] = socket[k]
                                   /\ buffer'[k] = buffer[k] /\ sent'[k] = sent[k]
  BY <1>1, <1>6, Zenon
<1>8. queue' \in [Nodes -> Seq(Entries)]
  BY <1>1, <1>5, Zenon DEF Shapes
<1>9. net' \subseteq Msgs
  <2>1. ASSUME NEW b \in writable PROVE ToSet(Send(h, b)) \subseteq Msgs
    <3>1. PICK s \in Seq(Msgs) : s = Send(h, b)
      BY <1>2, Zenon
    <3>2. ToSet(s) \subseteq Msgs
      BY DEF ToSet
    <3> QED
      BY <3>1, <3>2, Zenon
  <2>2. net \subseteq Msgs
    BY Zenon DEF Shapes
  <2> QED
    BY <1>1, <2>1, <2>2, Zenon
<1>10. ASSUME NEW k \in Nodes
       PROVE  /\ buffer'[k] \in [Binds(k) -> Seq(Carriers)]
              /\ sent'[k] \in [Binds(k) -> Seq(Msgs)]
              /\ socket'[k] \in [Binds(k) -> Seq(Datagrams)]
  <2>1. /\ buffer[k] \in [Binds(k) -> Seq(Carriers)]
        /\ sent[k] \in [Binds(k) -> Seq(Msgs)]
        /\ socket[k] \in [Binds(k) -> Seq(Datagrams)]
    BY Zenon DEF Shapes
  <2>2. CASE k = h
    BY <1>3, <1>7, <2>2, Zenon
  <2>3. CASE k # h
    BY <1>7, <2>1, <2>3, Zenon
  <2> QED
    BY <2>2, <2>3, Zenon
<1>11. Shapes'
  BY <1>1, <1>7, <1>8, <1>9, <1>10, Zenon DEF Shapes
<1>12. ASSUME NEW k \in Nodes, NEW b \in Binds(k) PROVE InOrder(k, b)'
  <2>1. Ordered(sent[k][b], buffer[k][b], fifo[k], queue[k], submitted[k], k, b)
    BY Zenon DEF Orders, InOrder
  <2>2. CASE k = h
    <3>1. Ordered(sent[k][b], buffer[k][b], fifo[k], Gathered(k), submitted[k], k, b)
      BY <1>5, <2>1, <2>2, Zenon DEF Ordered
    <3>2. Ordered(out(b), buf(b), fifo[k], Gathered(k), submitted[k], k, b)
      <4>1. CASE b \in writable
        <5>1. Ordered(Cat(sent[k][b], InBuffer(buffer[k][b])), <<>>, fifo[k], Gathered(k), submitted[k], k, b)
          BY <3>1, Parts, OrderedSend, Zenon
        <5>2. out(b) = Cat(sent[k][b], InBuffer(buffer[k][b])) /\ buf(b) = <<>>
          BY <1>2, <2>2, <4>1, Zenon DEF out, buf, Cat
        <5> QED
          BY <5>1, <5>2, Zenon
      <4>2. CASE b \notin writable
        BY <2>2, <3>1, <4>2, Zenon DEF out, buf
      <4> QED
        BY <4>1, <4>2, Zenon
    <3> QED
      BY <1>1, <1>4, <1>7, <2>2, <3>2, Zenon DEF InOrder
  <2>3. CASE k # h
    BY <1>1, <1>7, <2>1, <2>3, Zenon DEF InOrder
  <2> QED
    BY <2>2, <2>3, Zenon
<1> QED
  BY <1>11, <1>12, Zenon DEF Orders

(* A batch of mFifo goes to the buffers of its binds. *)
LEMMA DrainOrders ==
  ASSUME Shapes, Orders, NEW h \in Nodes, Drain(h)
  PROVE  Shapes' /\ Orders'
<1> DEFINE k0 == Min({FifoBatch, Len(fifo[h])})
           g(k) == SubSeq(fifo[h], 1, k)
           buf(k, b) == Cat(buffer[h][b], Kept(g(k), Over(h, b)))
           B(k) == [b \in Binds(h) |-> buf(k, b)]
<1>1. fifo[h] \in Seq(Carriers)
  BY Zenon DEF Shapes
<1>2. PICK k \in 0..Len(fifo[h]) : k = k0
  <2>1. PICK l \in Nat : l = Len(fifo[h])
    BY <1>1
  <2>2. {FifoBatch, l} \subseteq Nat /\ {FifoBatch, l} # {}
    BY BatchAssumption, Zenon
  <2>3. Min({FifoBatch, l}) \in {FifoBatch, l} /\ Min({FifoBatch, l}) <= l
    BY <2>2, MinIn, Zenon
  <2>4. Min({FifoBatch, l}) \in 0..l
    BY <2>2, <2>3
  <2> QED
    BY <2>1, <2>4, Zenon
<1>3. /\ buffer' = [buffer EXCEPT ![h] = B(k)]
      /\ fifo' = [fifo EXCEPT ![h] = SubSeq(fifo[h], k + 1, Len(fifo[h]))]
      /\ UNCHANGED <<queue, submitted, sent, socket, net>>
  BY <1>2, Zenon DEF Drain, taskVars, netVars, Cat
<1>4. g(k) \in Seq(Carriers) /\ SubSeq(fifo[h], k + 1, Len(fifo[h])) \in Seq(Carriers)
  BY <1>1, Parted, Zenon
<1>5. ASSUME NEW b \in Binds(h) PROVE buf(k, b) \in Seq(Carriers)
  <2>1. buffer[h][b] \in Seq(Carriers)
    BY Parts, Zenon
  <2>2. Kept(g(k), Over(h, b)) \in Seq(Carriers)
    BY <1>4, KeptSeq, Zenon
  <2> QED
    BY <2>1, <2>2, CatLaws, Zenon
<1> HIDE DEF buf
<1>6. B(k) \in [Binds(h) -> Seq(Carriers)] /\ \A b \in Binds(h) : B(k)[b] = buf(k, b)
  BY <1>5, Zenon
<1> HIDE DEF B, k0
<1>7. DOMAIN fifo = Nodes /\ DOMAIN buffer = Nodes
  BY Zenon DEF Shapes
<1>8. /\ DOMAIN buffer' = Nodes /\ buffer'[h] = B(k) /\ fifo'[h] = SubSeq(fifo[h], k + 1, Len(fifo[h]))
      /\ \A j \in Nodes : j # h => buffer'[j] = buffer[j] /\ fifo'[j] = fifo[j]
  BY <1>3, <1>7, Zenon
<1>9. fifo' \in [Nodes -> Seq(Carriers)]
  BY <1>3, <1>4, Zenon DEF Shapes
<1>10. ASSUME NEW j \in Nodes PROVE buffer'[j] \in [Binds(j) -> Seq(Carriers)]
  <2>1. buffer[j] \in [Binds(j) -> Seq(Carriers)]
    BY Zenon DEF Shapes
  <2>2. CASE j = h
    BY <1>6, <1>8, <2>2, Zenon
  <2>3. CASE j # h
    BY <1>8, <2>1, <2>3, Zenon
  <2> QED
    BY <2>2, <2>3, Zenon
<1>11. Shapes'
  BY <1>3, <1>8, <1>9, <1>10, Zenon DEF Shapes
<1>12. ASSUME NEW j \in Nodes, NEW b \in Binds(j) PROVE InOrder(j, b)'
  <2>1. Ordered(sent[j][b], buffer[j][b], fifo[j], queue[j], submitted[j], j, b)
    BY Zenon DEF Orders, InOrder
  <2>2. CASE j = h
    <3>1. Ordered(sent[h][b], buf(k, b), SubSeq(fifo[h], k + 1, Len(fifo[h])), queue[h], submitted[h], h, b)
      BY <2>1, <2>2, Parts, OrderedDrain, SMTT(30) DEF buf
    <3> QED
      BY <1>3, <1>6, <1>8, <2>2, <3>1, Zenon DEF InOrder
  <2>3. CASE j # h
    BY <1>3, <1>8, <2>1, <2>3, Zenon DEF InOrder
  <2> QED
    BY <2>2, <2>3, Zenon
<1> QED
  BY <1>11, <1>12, Zenon DEF Orders

(* The network touches no queue of a node. *)
LEMMA NetworkOrders ==
  ASSUME Shapes, Orders, NEW m \in Msgs, Arrives(m) \/ Lose(m)
  PROVE  Shapes' /\ Orders'
<1>1. UNCHANGED <<queue, submitted, fifo, buffer, sent>>
  BY Zenon DEF Arrives, Arrive, Lose, taskVars, threadVars
<1>2. net' \subseteq net
  BY Zenon DEF Arrives, Arrive, Lose
<1>3. DOMAIN socket' = Nodes /\ \A n \in Nodes : socket'[n] \in [Binds(n) -> Seq(Datagrams)]
  <2>1. CASE Lose(m)
    BY <2>1, Zenon DEF Lose, Shapes
  <2>2. ASSUME NEW whole \in BOOLEAN, NEW kept \in BOOLEAN, Arrive(m, whole, kept)
        PROVE  DOMAIN socket' = Nodes /\ \A n \in Nodes : socket'[n] \in [Binds(n) -> Seq(Datagrams)]
    <3> DEFINE d == [msg |-> m, whole |-> whole]
               F == [socket[m.to] EXCEPT ![m.at] = Append(@, d)]
    <3>1. m.to \in Nodes /\ m.at \in Binds(m.to) /\ d \in Datagrams
      BY MsgsAssumption, Zenon DEF Datagrams
    <3>2. socket' = [socket EXCEPT ![m.to] = F]
      BY <2>2, Zenon DEF Arrive
    <3>3. DOMAIN socket = Nodes /\ \A n \in Nodes : socket[n] \in [Binds(n) -> Seq(Datagrams)]
      BY Zenon DEF Shapes
    <3> HIDE DEF d
    <3>4. F \in [Binds(m.to) -> Seq(Datagrams)]
      <4>1. PICK S, t : t \in [Binds(m.to) -> S] /\ S = Seq(Datagrams) /\ t = socket[m.to]
        BY <3>1, <3>3, Zenon
      <4>2. Append(t[m.at], d) \in S
        BY <3>1, <4>1
      <4>3. [t EXCEPT ![m.at] = Append(@, d)] \in [Binds(m.to) -> S]
        BY <4>1, <4>2, Zenon
      <4> QED
        BY <4>1, <4>3, Zenon
    <3> HIDE DEF F
    <3> QED
      BY <3>1, <3>2, <3>3, <3>4, SMTT(30)
  <2> QED
    BY <2>1, <2>2, Zenon DEF Arrives
<1>4. Shapes'
  BY <1>1, <1>2, <1>3, Zenon DEF Shapes
<1>5. Orders'
  BY <1>1, Zenon DEF Orders, InOrder
<1> QED
  BY <1>4, <1>5, Zenon

(* Initially everything is empty. *)
LEMMA InitOrders == Init => Shapes /\ Orders
<1> SUFFICES ASSUME Init PROVE Shapes /\ Orders
  BY Zenon
<1>1. \A S : <<>> \in Seq(S)
  OBVIOUS
<1>2. /\ queue = [n \in Nodes |-> <<>>] /\ fifo = [n \in Nodes |-> <<>>]
      /\ buffer = [n \in Nodes |-> [b \in Binds(n) |-> <<>>]]
      /\ socket = [n \in Nodes |-> [b \in Binds(n) |-> <<>>]]
      /\ sent = [n \in Nodes |-> [b \in Binds(n) |-> <<>>]]
      /\ net = {} /\ submitted = [n \in Nodes |-> <<>>]
  BY Zenon DEF Init
<1>3. Shapes
  BY <1>1, <1>2, Zenon DEF Shapes
<1>4. ASSUME NEW n \in Nodes, NEW b \in Binds(n) PROVE InOrder(n, b)
  <2>1. sent[n][b] = <<>> /\ buffer[n][b] = <<>> /\ fifo[n] = <<>> /\ queue[n] = <<>> /\ submitted[n] = <<>>
    BY <1>2, Zenon
  <2>2. InBuffer(<<>>) = <<>> /\ InFifo(<<>>, n, b) = <<>> /\ InQueue(<<>>, n, b) = <<>> /\ Asked(<<>>, n, b) = <<>>
    BY BufferLaws, FifoLaws, QueueLaws, AskedLaws, Zenon
  <2>3. Cat(<<>>, <<>>) = <<>>
    BY DEF Cat
  <2>4. Ordered(<<>>, <<>>, <<>>, <<>>, <<>>, n, b)
    BY <2>2, <2>3, Zenon DEF Ordered
  <2> QED
    BY <2>1, <2>4, Zenon DEF InOrder
<1> QED
  BY <1>3, <1>4, Zenon DEF Orders

(* Every step keeps the order. *)
LEMMA NextOrders == Shapes /\ Orders /\ [Next]_vars => Shapes' /\ Orders'
<1> SUFFICES ASSUME Shapes, Orders, [Next]_vars PROVE Shapes' /\ Orders'
  BY Zenon
<1>1. ASSUME NEW m \in Msgs, Submit(m) \/ Arrives(m) \/ Lose(m) PROVE Shapes' /\ Orders'
  BY <1>1, SubmitOrders, NetworkOrders, Zenon
<1>2. ASSUME NEW n \in Nodes, FromTask(n) \/ FromWire(n) \/ Thread(n) PROVE Shapes' /\ Orders'
  BY <1>2, FromTaskOrders, FromWireOrders, DrainOrders, PollOrders, Zenon DEF Thread
<1>3. CASE UNCHANGED vars
  <2>1. UNCHANGED <<queue, fifo, buffer, sent, socket, submitted, net>>
    BY <1>3, Zenon DEF vars, taskVars, threadVars, netVars
  <2> QED
    BY <2>1, Zenon DEF Shapes, Orders, InOrder
<1> QED
  BY <1>1, <1>2, <1>3, Zenon DEF Next

(* What the tasks of a node send over one of its binds leaves it in their      *)
(* order, each message once and none forgotten, for any binds, messages, batch *)
(* sizes and interleaving of the adaptor's task and the transport's thread     *)
(* (procMsg, TTransport::process, TUDPTrasnport::Send).                        *)
THEOREM SentInOrder == Spec => []InOrderOverOneBind
<1>1. Orders => InOrderOverOneBind
  BY Zenon DEF Orders, InOrder, Ordered, Cat, InBuffer, InFifo, InQueue, Asked, InOrderOverOneBind
<1> QED
  BY <1>1, InitOrders, NextOrders, PTL DEF Spec
=============================================================================
