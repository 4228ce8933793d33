-------------------------- MODULE SipAdaptorProof ---------------------------
(***************************************************************************)
(* Proofs about SipAdaptor, for every set of dialogs, tasks, messages and  *)
(* database contents and every living time: the dialog tables stay in      *)
(* order, a dialog opened afresh is found by both its names and leads to   *)
(* its last speaker, and what no dialog knows is passed on with a hop less *)
(* and away from this host.                                                *)
(***************************************************************************)
EXTENDS SipAdaptor, SequenceTheorems, TLAPS

(* What the two kinds of table entries have in common. *)
Entries(T) ==
  \A e \in T :
    /\ e.age \in 0..MaxAge
    /\ \A a \in 0..MaxAge : LET f == [e EXCEPT !.age = a] IN f \in T /\ f.age = a /\ f.id = e.id

(* Records and pointers are such entries, and a change of age changes nothing else. *)
LEMMA EntryTypes ==
  /\ Entries(Records) /\ Entries(Pointers)
  /\ \A e \in Records, a \in 0..MaxAge : LET f == [e EXCEPT !.age = a] IN f.back = e.back /\ f.addr = e.addr
  /\ \A e \in Pointers, a \in 0..MaxAge : [e EXCEPT !.age = a].forward = e.forward
BY Zenon DEF Entries, Records, Pointers

(* Ages stay in range and in order. *)
LEMMA OlderOK ==
  /\ \A a \in 0..MaxAge, s \in Seconds : Older(a, s) \in 0..MaxAge /\ Older(a, s) >= s /\ Older(a, s) >= a
  /\ \A a, b \in 0..MaxAge, s \in Seconds : a <= b => Older(a, s) <= Older(b, s)
  /\ \A s \in Seconds : s \in 0..MaxAge
BY TimesAssumption DEF Older, Seconds

(* Get finds the entry of its name, and the only one. *)
LEMMA GetOK ==
  ASSUME NEW T, NEW map \in Seq(T), Unique(map)
  PROVE  /\ \A d : Has(map, d) => At(map, d) \in DOMAIN map /\ Get(map, d) \in T /\ Get(map, d).id = d
         /\ \A i \in DOMAIN map : Has(map, map[i].id) /\ At(map, map[i].id) = i /\ Get(map, map[i].id) = map[i]
<1>1. ASSUME NEW d, Has(map, d)
      PROVE  At(map, d) \in DOMAIN map /\ map[At(map, d)].id = d
  BY <1>1, Zenon DEF Has, At
<1>2. ASSUME NEW i \in DOMAIN map PROVE Has(map, map[i].id) /\ At(map, map[i].id) = i
  <2>1. Has(map, map[i].id)
    BY Zenon DEF Has
  <2> QED
    BY <1>1, <2>1, Zenon DEF Unique
<1> QED
  BY <1>1, <1>2 DEF Get

(* Ageing keeps names, order and all but the age. *)
LEMMA AgedOK ==
  ASSUME NEW T, Entries(T), NEW map \in Seq(T), Unique(map), NEW s \in Seconds
  PROVE  /\ Aged(map, s) \in Seq(T) /\ Unique(Aged(map, s))
         /\ Sorted(map) => Sorted(Aged(map, s))
         /\ \A i \in DOMAIN Aged(map, s) : Aged(map, s)[i].age >= s
         /\ \A d : Has(Aged(map, s), d) <=> Has(map, d)
         /\ \A d : Has(map, d) => Get(Aged(map, s), d) = [Get(map, d) EXCEPT !.age = Older(Get(map, d).age, s)]
<1> DEFINE q == Aged(map, s)
<1>1. /\ q \in Seq(T) /\ DOMAIN q = DOMAIN map
      /\ \A i \in DOMAIN map : q[i].id = map[i].id /\ q[i].age = Older(map[i].age, s)
                                /\ q[i] = [map[i] EXCEPT !.age = Older(map[i].age, s)]
  <2>1. DOMAIN map = 1..Len(map) /\ Len(map) \in Nat /\ \A i \in DOMAIN map : map[i] \in T
    OBVIOUS
  <2>2. \A i \in DOMAIN map : Older(map[i].age, s) \in 0..MaxAge
    BY <2>1, OlderOK, Zenon DEF Entries
  <2>3. q = [i \in DOMAIN map |-> [map[i] EXCEPT !.age = Older(map[i].age, s)]]
    BY Zenon DEF Aged
  <2> HIDE DEF q
  <2>4. \A i \in DOMAIN map : q[i] = [map[i] EXCEPT !.age = Older(map[i].age, s)]
    BY <2>3, Zenon
  <2>5. \A i \in DOMAIN map : q[i] \in T /\ q[i].id = map[i].id /\ q[i].age = Older(map[i].age, s)
    <3>1. SUFFICES ASSUME NEW i \in DOMAIN map
                   PROVE  q[i] \in T /\ q[i].id = map[i].id /\ q[i].age = Older(map[i].age, s)
      BY Zenon
    <3> DEFINE e == map[i]
               a == Older(map[i].age, s)
    <3>2. e \in T /\ a \in 0..MaxAge /\ q[i] = [e EXCEPT !.age = a]
      BY <2>1, <2>2, <2>4, Zenon
    <3> HIDE DEF e, a
    <3>3. q[i] \in T /\ q[i].id = e.id /\ q[i].age = a
      BY <3>2 DEF Entries
    <3> QED
      BY <3>3, Zenon DEF e, a
  <2>6. q \in [1..Len(map) -> T]
    BY <2>1, <2>3, <2>5, Zenon
  <2>7. q \in Seq(T)
    BY <2>1, <2>6
  <2> QED
    BY <2>3, <2>4, <2>5, <2>7, Zenon
<1>2. Unique(q)
  BY <1>1, Zenon DEF Unique
<1>3. Sorted(map) => Sorted(q)
  BY <1>1, OlderOK, SMTT(60) DEF Sorted, Entries
<1>4. \A i \in DOMAIN q : q[i].age >= s
  BY <1>1, OlderOK DEF Entries
<1>5. \A d : Has(q, d) <=> Has(map, d)
  BY <1>1, Zenon DEF Has
<1>6. ASSUME NEW d, Has(map, d) PROVE Get(q, d) = [Get(map, d) EXCEPT !.age = Older(Get(map, d).age, s)]
  <2>1. PICK i \in DOMAIN map : map[i].id = d
    BY <1>6, Zenon DEF Has
  <2>2. Get(map, d) = map[i] /\ Get(q, d) = q[i]
    BY <1>1, <1>2, <2>1, GetOK
  <2> QED
    BY <1>1, <2>2, Zenon
<1> QED
  BY <1>1, <1>2, <1>3, <1>4, <1>5, <1>6, Zenon

(* A push adds the entry unless its name is there. *)
LEMMA PushOK ==
  ASSUME NEW T, Entries(T), NEW map \in Seq(T), Unique(map), NEW e \in T
  PROVE  /\ Push(map, e) \in Seq(T) /\ Unique(Push(map, e))
         /\ Sorted(map) /\ (\A i \in DOMAIN map : map[i].age >= e.age) => Sorted(Push(map, e))
         /\ \A d : Has(Push(map, e), d) <=> Has(map, d) \/ d = e.id
         /\ \A d : Has(map, d) => Get(Push(map, e), d) = Get(map, d)
         /\ ~Has(map, e.id) => Get(Push(map, e), e.id) = e
<1>1. CASE Has(map, e.id)
  BY <1>1, Zenon DEF Push
<1>2. CASE ~Has(map, e.id)
  <2> DEFINE q == Append(map, e)
  <2>1. Push(map, e) = q
    BY <1>2, Zenon DEF Push
  <2>2. /\ q \in Seq(T) /\ Len(q) = Len(map) + 1 /\ DOMAIN q = 1..Len(q) /\ DOMAIN map = 1..Len(map)
        /\ q[Len(q)] = e /\ \A i \in DOMAIN map : q[i] = map[i]
    OBVIOUS
  <2> HIDE DEF q
  <2>3. \A i \in DOMAIN map : map[i].id # e.id
    BY <1>2, Zenon DEF Has
  <2>4. Unique(q)
    BY <2>2, <2>3 DEF Unique
  <2>5. ASSUME Sorted(map), \A i \in DOMAIN map : map[i].age >= e.age PROVE Sorted(q)
    BY <2>2, <2>5 DEF Sorted, Entries
  <2>6. \A d : Has(q, d) <=> Has(map, d) \/ d = e.id
    BY <2>2 DEF Has
  <2>7. ASSUME NEW d, Has(map, d) PROVE Get(q, d) = Get(map, d)
    <3>1. PICK i \in DOMAIN map : map[i].id = d
      BY <2>7, Zenon DEF Has
    <3>2. i \in DOMAIN q /\ q[i] = map[i]
      BY <2>2
    <3>3. Get(map, d) = map[i]
      BY <3>1, GetOK, Zenon
    <3>4. Get(q, q[i].id) = q[i]
      BY <2>2, <2>4, <3>2, GetOK, Zenon
    <3> QED
      BY <3>1, <3>2, <3>3, <3>4, Zenon
  <2>8. Get(q, e.id) = e
    <3>1. Len(q) \in DOMAIN q
      BY <2>2
    <3> QED
      BY <2>2, <2>4, <3>1, GetOK, Zenon
  <2> QED
    BY <2>1, <2>2, <2>4, <2>5, <2>6, <2>7, <2>8, Zenon
<1> QED
  BY <1>1, <1>2, Zenon

(* An update moves one entry to the young end and keeps the others in order. *)
LEMMA UpdateOK ==
  ASSUME NEW T, Entries(T), NEW map \in Seq(T), Unique(map), NEW d, NEW a \in 0..MaxAge
  PROVE  /\ Update(map, d, a) \in Seq(T) /\ Unique(Update(map, d, a))
         /\ Sorted(map) /\ (\A i \in DOMAIN map : map[i].age >= a) => Sorted(Update(map, d, a))
         /\ \A x : Has(Update(map, d, a), x) <=> Has(map, x)
         /\ \A x : Has(map, x) => Get(Update(map, d, a), x) =
                                     IF x = d THEN [Get(map, x) EXCEPT !.age = a] ELSE Get(map, x)
<1>1. CASE ~Has(map, d)
  BY <1>1, Zenon DEF Update
<1>2. CASE Has(map, d)
  <2> DEFINE k == At(map, d)
             n == Len(map)
             e == [map[k] EXCEPT !.age = a]
             rest == SubSeq(map, 1, k - 1) \o SubSeq(map, k + 1, Len(map))
             q == Append(rest, e)
  <2>1. /\ n \in Nat /\ DOMAIN map = 1..n /\ k \in 1..n
        /\ Get(map, d) = map[k] /\ map[k].id = d /\ map[k] \in T
    BY <1>2, GetOK DEF Get
  <2>2. Update(map, d, a) = q
    BY <1>2, Zenon DEF Update, Get
  <2>3. e \in T /\ e.id = d /\ e.age = a
    BY <2>1, Zenon DEF Entries
  <2> HIDE DEF k, n, e
  <2>4. /\ rest \in Seq(T) /\ Len(rest) = n - 1
        /\ \A i \in 1..(n - 1) : rest[i] = IF i < k THEN map[i] ELSE map[i + 1]
    <3> DEFINE p1 == SubSeq(map, 1, k - 1)
               p2 == SubSeq(map, k + 1, n)
    <3>1. p1 \in Seq(T) /\ Len(p1) = k - 1 /\ \A i \in 1..(k - 1) : p1[i] = map[i]
      BY <2>1 DEF n
    <3>2. p2 \in Seq(T) /\ Len(p2) = n - k /\ \A i \in 1..(n - k) : p2[i] = map[k + i]
      <4>1. /\ p2 \in Seq(T) /\ Len(p2) = IF k + 1 <= n THEN n - (k + 1) + 1 ELSE 0
            /\ \A i \in 1..(n - (k + 1) + 1) : p2[i] = map[k + 1 + i - 1]
        BY <2>1, SubSeqProperties DEF n
      <4> HIDE DEF p2
      <4> QED
        BY <2>1, <4>1
    <3>3. rest = p1 \o p2
      BY Zenon DEF n
    <3> HIDE DEF p1, p2, rest
    <3>4. rest \in Seq(T) /\ Len(rest) = n - 1
      <4>1. rest \in Seq(T) /\ Len(rest) = Len(p1) + Len(p2)
        BY <3>1, <3>2, <3>3, ConcatProperties, Zenon
      <4> QED
        BY <2>1, <3>1, <3>2, <4>1
    <3>5. ASSUME NEW i \in 1..(n - 1) PROVE rest[i] = IF i < k THEN map[i] ELSE map[i + 1]
      <4>1. CASE i < k
        BY <2>1, <3>1, <3>2, <3>3, <4>1
      <4>2. CASE i >= k
        <5>1. rest[i] = p2[i - (k - 1)] /\ i - (k - 1) \in 1..(n - k)
          BY <2>1, <3>1, <3>2, <3>3, <4>2, SMTT(60)
        <5>2. p2[i - (k - 1)] = map[k + (i - (k - 1))] /\ k + (i - (k - 1)) = i + 1
          BY <2>1, <3>2, <5>1
        <5> QED
          BY <2>1, <4>2, <5>1, <5>2
      <4> QED
        BY <2>1, <4>1, <4>2
    <3> QED
      BY <3>4, <3>5, Zenon
  <2> HIDE DEF rest
  <2>5. /\ q \in Seq(T) /\ DOMAIN q = 1..n /\ q[n] = e
        /\ \A i \in 1..(n - 1) : q[i] = IF i < k THEN map[i] ELSE map[i + 1]
    BY <2>1, <2>3, <2>4
  <2> HIDE DEF q
  <2>6. \A i \in 1..n : i # k => map[i].id # d
    BY <2>1, Zenon DEF Unique
  <2>7. Unique(q)
    <3>1. \A i \in 1..(n - 1) : \E j \in 1..n : j # k /\ q[i] = map[j] /\ j = IF i < k THEN i ELSE i + 1
      BY <2>1, <2>5
    <3>2. \A i \in 1..(n - 1) : q[i].id # q[n].id
      BY <2>1, <2>3, <2>5, <2>6, <3>1, Zenon
    <3>3. ASSUME NEW i \in 1..(n - 1), NEW j \in 1..(n - 1), q[i].id = q[j].id PROVE i = j
      <4>1. PICK x \in 1..n : q[i] = map[x] /\ x = IF i < k THEN i ELSE i + 1
        BY <3>1, Zenon
      <4>2. PICK y \in 1..n : q[j] = map[y] /\ y = IF j < k THEN j ELSE j + 1
        BY <3>1, Zenon
      <4>3. x = y
        BY <2>1, <3>3, <4>1, <4>2, Zenon DEF Unique
      <4> QED
        BY <2>1, <4>1, <4>2, <4>3
    <3>4. \A i \in 1..n : i = n \/ i \in 1..(n - 1)
      BY <2>1
    <3> QED
      BY <2>5, <3>2, <3>3, <3>4, Zenon DEF Unique
  <2>8. ASSUME Sorted(map), \A i \in DOMAIN map : map[i].age >= a PROVE Sorted(q)
    <3>1. \A i \in 1..n : map[i].age \in Int /\ map[i].age >= a
      BY <2>1, <2>8 DEF Entries
    <3>2. SUFFICES ASSUME NEW i \in 1..n, NEW j \in 1..n, i < j PROVE q[i].age >= q[j].age
      BY <2>5, Zenon DEF Sorted
    <3>3. CASE j = n
      BY <2>1, <2>3, <2>5, <3>1, <3>2, <3>3
    <3>4. CASE j # n
      <4>1. PICK u \in 1..n, v \in 1..n : u < v /\ q[i] = map[u] /\ q[j] = map[v]
        <5> DEFINE u == IF i < k THEN i ELSE i + 1
                   v == IF j < k THEN j ELSE j + 1
        <5>1. u \in 1..n /\ v \in 1..n /\ u < v
          BY <2>1, <3>2, <3>4
        <5>2. q[i] = map[u] /\ q[j] = map[v]
          BY <2>1, <2>5, <3>2, <3>4
        <5> QED
          BY <5>1, <5>2, Zenon
      <4> QED
        BY <2>1, <2>8, <4>1, Zenon DEF Sorted
    <3> QED
      BY <3>3, <3>4, Zenon
  <2>9. ASSUME NEW i \in 1..n, i # k PROVE \E j \in DOMAIN q : q[j] = map[i]
    <3>1. CASE i < k
      BY <2>1, <2>5, <3>1
    <3>2. CASE i > k
      <4>1. i - 1 \in 1..(n - 1) /\ ~(i - 1 < k) /\ (i - 1) + 1 = i
        BY <2>1, <3>2
      <4>2. q[i - 1] = map[(i - 1) + 1] /\ i - 1 \in DOMAIN q
        BY <2>1, <2>5, <4>1
      <4> QED
        BY <4>1, <4>2, Zenon
    <3> QED
      BY <2>1, <2>9, <3>1, <3>2
  <2>10. \A j \in DOMAIN q : q[j] = e \/ \E i \in 1..n : q[j] = map[i]
    BY <2>1, <2>5
  <2>11. \A x : Has(q, x) <=> Has(map, x)
    <3>1. ASSUME NEW x, Has(map, x) PROVE Has(q, x)
      <4>1. PICK i \in 1..n : map[i].id = x
        BY <2>1, <3>1, Zenon DEF Has
      <4>2. CASE i = k
        BY <2>1, <2>3, <2>5, <4>1, <4>2 DEF Has
      <4>3. CASE i # k
        BY <2>9, <4>1, <4>3, Zenon DEF Has
      <4> QED
        BY <4>2, <4>3, Zenon
    <3>2. ASSUME NEW x, Has(q, x) PROVE Has(map, x)
      BY <1>2, <2>1, <2>3, <2>10, <3>2, Zenon DEF Has
    <3> QED
      BY <3>1, <3>2, Zenon
  <2>12. Get(q, d) = e
    BY <2>1, <2>3, <2>5, <2>7, GetOK
  <2>13. ASSUME NEW x, Has(map, x), x # d PROVE Get(q, x) = Get(map, x)
    <3>1. PICK i \in 1..n : map[i].id = x
      BY <2>1, <2>13, Zenon DEF Has
    <3>2. PICK j \in DOMAIN q : q[j] = map[i]
      BY <2>1, <2>9, <2>13, <3>1, Zenon
    <3>3. Get(map, map[i].id) = map[i]
      BY <2>1, GetOK, Zenon
    <3>4. Get(q, q[j].id) = q[j]
      BY <2>5, <2>7, GetOK, Zenon
    <3> QED
      BY <3>1, <3>2, <3>3, <3>4, Zenon
  <2> QED
    BY <2>1, <2>2, <2>5, <2>7, <2>8, <2>11, <2>12, <2>13, Zenon DEF e
<1> QED
  BY <1>1, <1>2, Zenon

(* What pop_old leaves: a part of the table, with all that has not expired,   *)
(* and nothing that has if the table was in order.                            *)
LEMMA PopOldOK ==
  ASSUME NEW T, Entries(T), NEW map \in Seq(T), Unique(map), NEW q \in PopOld(map), living \in Nat
  PROVE  /\ q \in Seq(T) /\ Unique(q)
         /\ Sorted(map) => Sorted(q) /\ \A i \in DOMAIN q : q[i].age <= living
         /\ \A d : Has(q, d) => Has(map, d) /\ Get(q, d) = Get(map, d)
         /\ \A d : Has(map, d) /\ ~Expired(Get(map, d)) => Has(q, d)
<1> DEFINE n == Len(map)
<1>1. PICK k \in 0..n : /\ q = SubSeq(map, k + 1, n)
                        /\ \A i \in 1..k : Expired(map[i])
                        /\ k < n => ~Expired(map[k + 1])
  BY Zenon DEF PopOld
<1>2. n \in Nat /\ DOMAIN map = 1..n
  OBVIOUS
<1> HIDE DEF n
<1>3. /\ q \in Seq(T) /\ DOMAIN q = 1..(n - k)
      /\ \A i \in 1..(n - k) : q[i] = map[i + k] /\ i + k \in DOMAIN map
  BY <1>1, <1>2, SMTT(60)
<1>4. Unique(q)
  <2>1. SUFFICES ASSUME NEW i \in 1..(n - k), NEW j \in 1..(n - k), q[i].id = q[j].id PROVE i = j
    BY <1>3, Zenon DEF Unique
  <2>2. map[i + k].id = map[j + k].id /\ i + k \in DOMAIN map /\ j + k \in DOMAIN map
    BY <1>3, <2>1, Zenon
  <2>3. i + k = j + k
    BY <2>2, Zenon DEF Unique
  <2> QED
    BY <1>1, <1>2, <2>3
<1>5. ASSUME Sorted(map) PROVE Sorted(q)
  <2>1. SUFFICES ASSUME NEW i \in 1..(n - k), NEW j \in 1..(n - k), i < j PROVE q[i].age >= q[j].age
    BY <1>3, Zenon DEF Sorted
  <2>2. i + k \in DOMAIN map /\ j + k \in DOMAIN map /\ i + k < j + k
    BY <1>1, <1>2, <1>3, <2>1
  <2>3. map[i + k].age >= map[j + k].age
    BY <1>5, <2>2, Zenon DEF Sorted
  <2> QED
    BY <1>3, <2>3, Zenon
<1>6. ASSUME Sorted(map), NEW i \in DOMAIN q PROVE q[i].age <= living
  <2>1. k < n /\ k + 1 \in DOMAIN map /\ i + k \in DOMAIN map /\ i + k >= k + 1
    BY <1>1, <1>2, <1>3, <1>6
  <2>2. map[k + 1].age \in Nat /\ map[i + k].age \in Nat /\ q[i] = map[i + k]
    BY <1>3, <1>6, <2>1, TimesAssumption, SMTT(60) DEF Entries
  <2>3. map[k + 1].age <= living
    BY <1>1, <2>1, <2>2 DEF Expired
  <2>4. map[k + 1].age >= map[i + k].age
    <3>1. CASE i = 1
      BY <2>2, <3>1
    <3>2. CASE i # 1
      <4>1. k + 1 < i + k
        BY <1>1, <1>2, <1>3, <1>6, <3>2
      <4> QED
        BY <1>6, <2>1, <4>1, Zenon DEF Sorted
    <3> QED
      BY <3>1, <3>2, Zenon
  <2> QED
    BY <2>2, <2>3, <2>4
<1>7. ASSUME NEW d, Has(q, d) PROVE Has(map, d) /\ Get(q, d) = Get(map, d)
  <2>1. PICK i \in DOMAIN q : q[i].id = d
    BY <1>7, Zenon DEF Has
  <2>2. i + k \in DOMAIN map /\ q[i] = map[i + k]
    BY <1>3, <2>1, Zenon
  <2>3. Get(q, q[i].id) = q[i]
    BY <1>3, <1>4, GetOK, Zenon
  <2>4. Has(map, map[i + k].id) /\ Get(map, map[i + k].id) = map[i + k]
    BY <2>2, GetOK, Zenon
  <2> QED
    BY <2>1, <2>2, <2>3, <2>4, Zenon
<1>8. ASSUME NEW d, Has(map, d), ~Expired(Get(map, d)) PROVE Has(q, d)
  <2>1. PICK i \in DOMAIN map : map[i].id = d
    BY <1>8, Zenon DEF Has
  <2>2. Get(map, d) = map[i]
    BY <2>1, GetOK, Zenon
  <2>3. i > k
    BY <1>1, <1>2, <1>8, <2>2
  <2>4. i - k \in DOMAIN q /\ q[i - k] = map[i]
    BY <1>1, <1>2, <1>3, <2>3, SMTT(60)
  <2> QED
    BY <2>1, <2>4, Zenon DEF Has
<1> QED
  BY <1>3, <1>4, <1>5, <1>6, <1>7, <1>8, Zenon

(* The address of one record is set, nothing else. *)
SetAddr(map, did, a) ==
  [i \in DOMAIN map |-> IF map[i].id = did THEN [map[i] EXCEPT !.addr = a] ELSE map[i]]

(* Setting an address keeps names, order, ages and the other records. *)
LEMMA SetAddrOK ==
  ASSUME NEW map \in Seq(Records), Unique(map), NEW did, NEW a \in Addrs \cup {NoAddr}
  PROVE  /\ SetAddr(map, did, a) \in Seq(Records) /\ Unique(SetAddr(map, did, a))
         /\ Sorted(map) => Sorted(SetAddr(map, did, a))
         /\ \A x : Has(SetAddr(map, did, a), x) <=> Has(map, x)
         /\ \A x : Has(map, x) => /\ Get(SetAddr(map, did, a), x).back = Get(map, x).back
                                 /\ Get(SetAddr(map, did, a), x).age = Get(map, x).age
                                 /\ Get(SetAddr(map, did, a), x).addr = IF x = did THEN a ELSE Get(map, x).addr
<1> DEFINE q == SetAddr(map, did, a)
<1>1. /\ DOMAIN map = 1..Len(map) /\ Len(map) \in Nat /\ \A i \in DOMAIN map : map[i] \in Records
  OBVIOUS
<1>2. /\ q = [i \in DOMAIN map |-> IF map[i].id = did THEN [map[i] EXCEPT !.addr = a] ELSE map[i]]
  BY Zenon DEF SetAddr
<1> HIDE DEF q
<1>3. \A i \in DOMAIN map :
        /\ q[i] \in Records /\ q[i].id = map[i].id /\ q[i].back = map[i].back /\ q[i].age = map[i].age
        /\ q[i].addr = IF map[i].id = did THEN a ELSE map[i].addr
  BY <1>1, <1>2, Zenon DEF Records
<1>4. q \in [1..Len(map) -> Records]
  BY <1>1, <1>2, <1>3, Zenon
<1>5. q \in Seq(Records) /\ DOMAIN q = DOMAIN map
  BY <1>1, <1>4
<1>6. Unique(q)
  BY <1>3, <1>5, Zenon DEF Unique
<1>7. ASSUME NEW x, Has(map, x)
      PROVE  \E i \in DOMAIN map : map[i].id = x /\ Get(map, x) = map[i] /\ Get(q, x) = q[i]
  <2>1. PICK i \in DOMAIN map : map[i].id = x
    BY <1>7, Zenon DEF Has
  <2>2. Get(map, map[i].id) = map[i]
    BY GetOK, Zenon
  <2>3. Get(q, q[i].id) = q[i]
    BY <1>5, <1>6, GetOK, Zenon
  <2> QED
    BY <1>3, <2>1, <2>2, <2>3, Zenon
<1>8. \A x : Has(map, x) => /\ Get(q, x).back = Get(map, x).back /\ Get(q, x).age = Get(map, x).age
                           /\ Get(q, x).addr = IF x = did THEN a ELSE Get(map, x).addr
  BY <1>3, <1>7
<1>9. /\ Sorted(map) => Sorted(q)
      /\ \A x : Has(q, x) <=> Has(map, x)
  BY <1>3, <1>5, Zenon DEF Sorted, Has
<1> QED
  BY <1>5, <1>6, <1>8, <1>9, Zenon DEF q

-----------------------------------------------------------------------------
(* The dialog tables. *)

(* The other name of a dialog in a pair is in the pair. *)
LEMMA PairOK ==
  ASSUME NEW d \in Ids
  PROVE  Pair(d) \subseteq Ids /\ \A x \in Ids : x \in Pair(d) <=> d \in Pair(x)
BY PeerAssumption, Zenon DEF Pair

(* What the invariant says of a fresh dialog, in the terms of a query. *)
LEMMA FoundOK == IInv => FoundByBothNames
<1> SUFFICES ASSUME IInv, NEW x \in fresh, NEW d \in Pair(x) PROVE QueryDialogTab(d) = {Get(mapF, x)}
  BY Zenon DEF FoundByBothNames
<1>1. Linked(x)
  BY Zenon DEF IInv
<1>2. CASE d = Peer(x)
  BY <1>1, <1>2, Zenon DEF Linked, QueryDialogTab
<1>3. CASE d = x /\ Peer(x) # x
  BY <1>1, <1>3, Zenon DEF Linked, QueryDialogTab
<1> QED
  BY <1>2, <1>3, Zenon DEF Pair

(* The tables, as the lemmas about them want them. *)
LEMMA TablesOK ==
  ASSUME IInv
  PROVE  /\ mapF \in Seq(Records) /\ Unique(mapF) /\ Sorted(mapF) /\ Entries(Records)
         /\ mapB \in Seq(Pointers) /\ Unique(mapB) /\ Sorted(mapB) /\ Entries(Pointers)
         /\ living \in Nat /\ fresh \subseteq Ids
         /\ \A x \in Ids : Has(mapF, x) => Get(mapF, x) \in Records /\ Get(mapF, x).id = x
         /\ \A x \in Ids : Has(mapB, x) => Get(mapB, x) \in Pointers /\ Get(mapB, x).id = x
<1>1. /\ mapF \in Seq(Records) /\ Unique(mapF) /\ Sorted(mapF)
      /\ mapB \in Seq(Pointers) /\ Unique(mapB) /\ Sorted(mapB)
      /\ living \in Nat /\ fresh \subseteq Ids
  BY Zenon DEF IInv, TypeOK, OldestFirst
<1>2. Entries(Records) /\ Entries(Pointers)
  BY EntryTypes, Zenon
<1>3. \A x \in Ids : Has(mapF, x) => Get(mapF, x) \in Records /\ Get(mapF, x).id = x
  BY <1>1, GetOK
<1>4. \A x \in Ids : Has(mapB, x) => Get(mapB, x) \in Pointers /\ Get(mapB, x).id = x
  BY <1>1, GetOK
<1> QED
  BY <1>1, <1>2, <1>3, <1>4, Zenon

(* Time passing for both tables, as every handler that ages them uses it. *)
LEMMA AgedTables ==
  ASSUME IInv, NEW s \in Seconds
  PROVE  LET F1 == Aged(mapF, s)
             B1 == Aged(mapB, s)
         IN /\ F1 \in Seq(Records) /\ Unique(F1) /\ Sorted(F1)
            /\ B1 \in Seq(Pointers) /\ Unique(B1) /\ Sorted(B1)
            /\ \A i \in DOMAIN F1 : F1[i].age >= s
            /\ \A i \in DOMAIN B1 : B1[i].age >= s
            /\ \A x : Has(F1, x) <=> Has(mapF, x)
            /\ \A x : Has(B1, x) <=> Has(mapB, x)
            /\ \A x \in Ids : Has(mapF, x) =>
                 /\ Get(F1, x).back = Get(mapF, x).back /\ Get(F1, x).addr = Get(mapF, x).addr
                 /\ Get(F1, x).age = Older(Get(mapF, x).age, s) /\ Get(F1, x) \in Records
            /\ \A x \in Ids : Has(mapB, x) =>
                 /\ Get(B1, x).forward = Get(mapB, x).forward /\ Get(B1, x) \in Pointers
                 /\ Get(B1, x).age = Older(Get(mapB, x).age, s)
            /\ \A x \in fresh : Get(B1, Peer(x)).age <= Get(F1, x).age
<1> DEFINE F1 == Aged(mapF, s)
           B1 == Aged(mapB, s)
<1>1. /\ F1 \in Seq(Records) /\ Unique(F1) /\ Sorted(F1)
      /\ \A i \in DOMAIN F1 : F1[i].age >= s
      /\ \A x : Has(F1, x) <=> Has(mapF, x)
      /\ \A x : Has(mapF, x) => Get(F1, x) = [Get(mapF, x) EXCEPT !.age = Older(Get(mapF, x).age, s)]
  BY TablesOK, AgedOK
<1>2. /\ B1 \in Seq(Pointers) /\ Unique(B1) /\ Sorted(B1)
      /\ \A i \in DOMAIN B1 : B1[i].age >= s
      /\ \A x : Has(B1, x) <=> Has(mapB, x)
      /\ \A x : Has(mapB, x) => Get(B1, x) = [Get(mapB, x) EXCEPT !.age = Older(Get(mapB, x).age, s)]
  BY TablesOK, AgedOK
<1> HIDE DEF F1, B1
<1>3. ASSUME NEW x \in Ids, Has(mapF, x)
      PROVE  /\ Get(F1, x).back = Get(mapF, x).back /\ Get(F1, x).addr = Get(mapF, x).addr
             /\ Get(F1, x).age = Older(Get(mapF, x).age, s) /\ Get(F1, x) \in Records
  <2> DEFINE e == Get(mapF, x)
             a == Older(e.age, s)
  <2>1. e \in Records /\ a \in 0..MaxAge /\ Get(F1, x) = [e EXCEPT !.age = a]
    BY <1>1, <1>3, TablesOK, OlderOK, Zenon DEF Records
  <2> HIDE DEF a
  <2> QED
    BY <2>1, Zenon DEF Records, a
<1>4. ASSUME NEW x \in Ids, Has(mapB, x)
      PROVE  /\ Get(B1, x).forward = Get(mapB, x).forward /\ Get(B1, x) \in Pointers
             /\ Get(B1, x).age = Older(Get(mapB, x).age, s)
  <2> DEFINE e == Get(mapB, x)
             a == Older(e.age, s)
  <2>1. e \in Pointers /\ a \in 0..MaxAge /\ Get(B1, x) = [e EXCEPT !.age = a]
    BY <1>2, <1>4, TablesOK, OlderOK, Zenon DEF Pointers
  <2> HIDE DEF a
  <2> QED
    BY <2>1, Zenon DEF Pointers, a
<1>5. ASSUME NEW x \in fresh PROVE Get(B1, Peer(x)).age <= Get(F1, x).age
  <2>1. x \in Ids /\ Peer(x) \in Ids /\ Linked(x)
    BY TablesOK, PeerAssumption, Zenon DEF IInv
  <2>2. Get(mapF, x).age \in 0..MaxAge /\ Get(mapB, Peer(x)).age \in 0..MaxAge
    BY <2>1, TablesOK, Zenon DEF Linked, Records, Pointers
  <2> QED
    BY <1>3, <1>4, <2>1, <2>2, OlderOK, Zenon DEF Linked
<1> QED
  BY <1>1, <1>2, <1>3, <1>4, <1>5, Zenon DEF F1, B1

(* What must be shown of a step for the invariant to survive it. *)
LEMMA IInvIntro ==
  ASSUME (mapF \in Seq(Records) /\ Unique(mapF) /\ Sorted(mapF))',
         (mapB \in Seq(Pointers) /\ Unique(mapB) /\ Sorted(mapB))',
         (living \in Nat /\ fresh \subseteq Ids /\ spoke \in [Ids -> Addrs \cup {NoAddr}])',
         \A d \in Ids : (Has(mapB, d) => Get(mapB, d).forward \in Pair(d))',
         \A x \in fresh' : Linked(x)'
  PROVE  IInv'
BY Zenon DEF IInv, TypeOK, OldestFirst

(* History of a message in the dialog of d. *)
LEMMA SpeaksOK ==
  ASSUME IInv, NEW d \in Ids, NEW a \in Addrs \cup {NoAddr}, Speaks(d, a)
  PROVE  /\ spoke' \in [Ids -> Addrs \cup {NoAddr}]
         /\ \A x \in Ids : spoke'[x] = IF x \in Pair(d) THEN a ELSE spoke[x]
BY Zenon DEF Speaks, IInv, TypeOK

(* A dialog is opened. *)
LEMMA InsertOK ==
  ASSUME IInv, NEW d \in Ids, NEW b \in Pair(d), NEW a \in Addrs \cup {NoAddr}, NEW s \in Seconds,
         QueryDialogTab(d) = {}, InsertDialogTab(d, b, a, s), living' = living
  PROVE  IInv'
<1> DEFINE F1 == Aged(mapF, s)
           B1 == Aged(mapB, s)
           e == [id |-> d, back |-> b, addr |-> a, age |-> s]
           p == [id |-> b, forward |-> d, age |-> 0]
<1>1. b \in Ids /\ d \in Pair(b) /\ e \in Records /\ p \in Pointers
  BY PairOK, OlderOK, TimesAssumption DEF Records, Pointers
<1>2. mapF' = Push(F1, e) /\ mapB' = Push(B1, p)
  BY Zenon DEF InsertDialogTab
<1>3. \A x \in fresh : x \in Ids /\ d \notin Pair(x) /\ x \notin Pair(d) /\ b \notin Pair(x)
  <2>1. \A x \in fresh : x \in Ids /\ d \notin Pair(x)
    <3>1. ASSUME NEW x \in fresh, d \in Pair(x) PROVE FALSE
      <4>1. QueryDialogTab(d) = {Get(mapF, x)}
        BY <3>1, FoundOK, Zenon DEF FoundByBothNames
      <4> QED
        BY <4>1, Zenon
    <3> QED
      BY <3>1, TablesOK, Zenon
  <2> QED
    BY <2>1, PairOK, PeerAssumption, Zenon DEF Pair
<1>4. /\ e.id = d /\ e.back = b /\ e.addr = a /\ e.age = s
      /\ p.id = b /\ p.forward = d /\ p.age = 0
  BY Zenon
<1> HIDE DEF F1, B1, e, p
<1>5. /\ F1 \in Seq(Records) /\ Unique(F1) /\ Sorted(F1) /\ \A i \in DOMAIN F1 : F1[i].age >= s
      /\ \A x : Has(F1, x) <=> Has(mapF, x)
      /\ \A x \in Ids : Has(mapF, x) => Get(F1, x).back = Get(mapF, x).back /\ Get(F1, x).addr = Get(mapF, x).addr
  BY AgedTables, Zenon DEF F1
<1>6. /\ B1 \in Seq(Pointers) /\ Unique(B1) /\ Sorted(B1) /\ \A i \in DOMAIN B1 : B1[i].age >= 0
      /\ \A x : Has(B1, x) <=> Has(mapB, x)
      /\ \A x \in Ids : Has(mapB, x) => Get(B1, x).forward = Get(mapB, x).forward
  <2>1. \A i \in DOMAIN B1 : B1[i].age \in 0..MaxAge
    BY AgedTables, EntryTypes DEF B1, Entries
  <2>2. \A i \in DOMAIN B1 : B1[i].age >= 0
    BY <2>1, TimesAssumption
  <2>3. /\ B1 \in Seq(Pointers) /\ Unique(B1) /\ Sorted(B1)
        /\ \A x : Has(B1, x) <=> Has(mapB, x)
    BY AgedTables, Zenon DEF B1
  <2>4. \A x \in Ids : Has(mapB, x) => Get(B1, x).forward = Get(mapB, x).forward
    BY AgedTables, Zenon DEF B1
  <2> QED
    BY <2>2, <2>3, <2>4, Zenon
<1>7. \A x \in fresh : Get(B1, Peer(x)).age <= Get(F1, x).age
  BY AgedTables, Zenon DEF B1, F1
<1>8. /\ mapF' \in Seq(Records) /\ Unique(mapF') /\ Sorted(mapF')
      /\ \A x : Has(mapF', x) <=> Has(mapF, x) \/ x = d
      /\ \A x : Has(mapF, x) => Get(mapF', x) = Get(F1, x)
      /\ ~Has(mapF, d) => Get(mapF', d) = e
  <2>1. /\ Push(F1, e) \in Seq(Records) /\ Unique(Push(F1, e))
        /\ Sorted(F1) /\ (\A i \in DOMAIN F1 : F1[i].age >= e.age) => Sorted(Push(F1, e))
        /\ \A x : Has(Push(F1, e), x) <=> Has(F1, x) \/ x = e.id
        /\ \A x : Has(F1, x) => Get(Push(F1, e), x) = Get(F1, x)
        /\ ~Has(F1, e.id) => Get(Push(F1, e), e.id) = e
    BY <1>1, <1>5, PushOK, EntryTypes, Zenon
  <2>2. \A i \in DOMAIN F1 : F1[i].age >= e.age
    BY <1>4, <1>5, Zenon
  <2> QED
    BY <1>2, <1>4, <1>5, <2>1, <2>2, Zenon
<1>9. /\ mapB' \in Seq(Pointers) /\ Unique(mapB') /\ Sorted(mapB')
      /\ \A x : Has(mapB', x) <=> Has(mapB, x) \/ x = b
      /\ \A x : Has(mapB, x) => Get(mapB', x) = Get(B1, x)
      /\ ~Has(mapB, b) => Get(mapB', b) = p
  <2>1. /\ Push(B1, p) \in Seq(Pointers) /\ Unique(Push(B1, p))
        /\ Sorted(B1) /\ (\A i \in DOMAIN B1 : B1[i].age >= p.age) => Sorted(Push(B1, p))
        /\ \A x : Has(Push(B1, p), x) <=> Has(B1, x) \/ x = p.id
        /\ \A x : Has(B1, x) => Get(Push(B1, p), x) = Get(B1, x)
        /\ ~Has(B1, p.id) => Get(Push(B1, p), p.id) = p
    BY <1>1, <1>6, PushOK, EntryTypes, Zenon
  <2>2. \A i \in DOMAIN B1 : B1[i].age >= p.age
    BY <1>4, <1>6, Zenon
  <2> QED
    BY <1>2, <1>4, <1>6, <2>1, <2>2, Zenon
<1>10. /\ spoke' \in [Ids -> Addrs \cup {NoAddr}]
       /\ \A x \in Ids : spoke'[x] = IF x \in Pair(d) THEN a ELSE spoke[x]
  BY SpeaksOK, Zenon DEF InsertDialogTab
<1>11. \A x \in Ids : Has(mapB', x) => Get(mapB', x).forward \in Pair(x)
  BY <1>1, <1>4, <1>6, <1>9, Zenon DEF IInv
<1>12. ASSUME NEW x \in fresh PROVE Linked(x)'
  <2>1. Linked(x) /\ x \in Ids /\ Peer(x) \in Ids
    BY <1>3, PeerAssumption, Zenon DEF IInv
  <2>2. Has(mapF', x) /\ Get(mapF', x).back = Peer(x) /\ Get(mapF', x).addr = spoke'[x]
    BY <1>3, <1>5, <1>8, <1>10, <2>1, Zenon DEF Linked
  <2>3. /\ Has(mapB', Peer(x)) /\ Get(mapB', Peer(x)).forward = x
        /\ Get(mapB', Peer(x)).age <= Get(mapF', x).age
    BY <1>6, <1>7, <1>8, <1>9, <2>1, Zenon DEF Linked
  <2>4. Peer(x) # x => ~Has(mapF', Peer(x)) /\ ~Has(mapB', x)
    BY <1>3, <1>8, <1>9, <2>1, Zenon DEF Linked, Pair
  <2> QED
    BY <2>2, <2>3, <2>4, Zenon DEF Linked
<1>13. ASSUME b = Peer(d), Pair(d) \cap (Names(mapF) \cup Names(mapB)) = {} PROVE Linked(d)'
  <2>1. \A y \in Pair(d) : ~Has(mapF, y) /\ ~Has(mapB, y)
    BY <1>13, Zenon DEF Has, Names
  <2>2. d \in Pair(d) /\ Peer(d) \in Pair(d)
    BY Zenon DEF Pair
  <2>3. Has(mapF', d) /\ Get(mapF', d) = e /\ Has(mapB', b) /\ Get(mapB', b) = p
    BY <1>8, <1>9, <1>13, <2>1, <2>2, Zenon
  <2>4. spoke'[d] = a
    BY <1>10, <2>2, Zenon
  <2>5. Peer(d) # d => ~Has(mapF', Peer(d)) /\ ~Has(mapB', d)
    BY <1>8, <1>9, <1>13, <2>1, <2>2, Zenon
  <2> QED
    BY <1>4, <1>13, <2>3, <2>4, <2>5 DEF Linked, Seconds
<1>14. \A x \in fresh' : Linked(x)'
  BY <1>12, <1>13, Zenon DEF InsertDialogTab
<1>15. fresh' \subseteq Ids /\ living' \in Nat
  BY TablesOK, Zenon DEF InsertDialogTab
<1> QED
  BY <1>8, <1>9, <1>10, <1>11, <1>14, <1>15, IInvIntro, Zenon

(* A dialog is heard of, its record and the way back to it made young. *)
LEMMA RefreshOK ==
  ASSUME IInv, NEW d \in Ids, NEW r \in QueryDialogTab(d), NEW s \in Seconds,
         UpdateDialogExpire(r, s), UNCHANGED <<living, history>>
  PROVE  IInv'
<1> DEFINE F1 == Aged(mapF, s)
           B1 == Aged(mapB, s)
<1>1. mapF' = Update(F1, r.id, s) /\ mapB' = Update(B1, r.back, s) /\ s \in 0..MaxAge
  BY OlderOK, Zenon DEF UpdateDialogExpire
<1>2. r = Get(mapF, r.id)
  <2>1. PICK y : Has(mapF, y) /\ r = Get(mapF, y)
    BY Zenon DEF QueryDialogTab
  <2>2. mapF \in Seq(Records) /\ Unique(mapF)
    BY TablesOK, Zenon
  <2>3. Get(mapF, y).id = y
    BY <2>1, <2>2, GetOK
  <2> QED
    BY <2>1, <2>3, Zenon
<1>3. /\ F1 \in Seq(Records) /\ Unique(F1) /\ Sorted(F1) /\ \A i \in DOMAIN F1 : F1[i].age >= s
      /\ \A x : Has(F1, x) <=> Has(mapF, x)
      /\ \A x \in Ids : Has(mapF, x) => /\ Get(F1, x).back = Get(mapF, x).back
                                        /\ Get(F1, x).addr = Get(mapF, x).addr
                                        /\ Get(F1, x).age = Older(Get(mapF, x).age, s)
                                        /\ Get(F1, x) \in Records
  BY AgedTables, Zenon
<1>4. /\ B1 \in Seq(Pointers) /\ Unique(B1) /\ Sorted(B1) /\ \A i \in DOMAIN B1 : B1[i].age >= s
      /\ \A x : Has(B1, x) <=> Has(mapB, x)
      /\ \A x \in Ids : Has(mapB, x) => /\ Get(B1, x).forward = Get(mapB, x).forward
                                        /\ Get(B1, x) \in Pointers
  BY AgedTables, Zenon
<1>5. \A x \in fresh : Get(B1, Peer(x)).age <= Get(F1, x).age
  BY AgedTables, Zenon
<1> HIDE DEF F1, B1
<1>6. /\ mapF' \in Seq(Records) /\ Unique(mapF') /\ Sorted(mapF')
      /\ \A x : Has(mapF', x) <=> Has(mapF, x)
      /\ \A x : Has(mapF, x) => Get(mapF', x) = IF x = r.id THEN [Get(F1, x) EXCEPT !.age = s] ELSE Get(F1, x)
  BY <1>1, <1>3, UpdateOK, EntryTypes
<1>7. /\ mapB' \in Seq(Pointers) /\ Unique(mapB') /\ Sorted(mapB')
      /\ \A x : Has(mapB', x) <=> Has(mapB, x)
      /\ \A x : Has(mapB, x) => Get(mapB', x) = IF x = r.back THEN [Get(B1, x) EXCEPT !.age = s] ELSE Get(B1, x)
  BY <1>1, <1>4, UpdateOK, EntryTypes
<1>8. \A x \in Ids : Has(mapF, x) =>
        /\ Get(mapF', x).back = Get(mapF, x).back /\ Get(mapF', x).addr = Get(mapF, x).addr
        /\ Get(mapF', x).age = IF x = r.id THEN s ELSE Get(F1, x).age
  BY <1>1, <1>3, <1>6, ZenonT(60) DEF Records
<1>9. \A x \in Ids : Has(mapB, x) =>
        /\ Get(mapB', x).forward = Get(mapB, x).forward
        /\ Get(mapB', x).age = IF x = r.back THEN s ELSE Get(B1, x).age
  BY <1>1, <1>4, <1>7, Zenon DEF Pointers
<1>10. ASSUME NEW x \in fresh PROVE Linked(x)'
  <2>1. Linked(x) /\ x \in Ids /\ Peer(x) \in Ids
    BY TablesOK, PeerAssumption, Zenon DEF IInv
  <2>2. Has(mapF, x) /\ Has(mapB, Peer(x)) /\ (x = r.id => Peer(x) = r.back)
    BY <1>2, <2>1, Zenon DEF Linked
  <2>3. Get(F1, x).age >= s
    <3>1. Get(mapF, x).age \in 0..MaxAge
      <4>1. Get(mapF, x) \in Records
        BY <2>1, <2>2, TablesOK, Zenon
      <4> QED
        BY <4>1, Zenon DEF Records
    <3>2. Get(F1, x).age = Older(Get(mapF, x).age, s)
      BY <1>3, <2>1, <2>2, Zenon
    <3> QED
      BY <3>1, <3>2, OlderOK, Zenon
  <2>4. Get(mapB', Peer(x)).age <= Get(mapF', x).age
    <3>1. CASE x = r.id
      BY <1>8, <1>9, <2>1, <2>2, <3>1 DEF Seconds
    <3>2. CASE x # r.id /\ Peer(x) = r.back
      BY <1>8, <1>9, <2>1, <2>2, <2>3, <3>2, Zenon
    <3>3. CASE x # r.id /\ Peer(x) # r.back
      BY <1>5, <1>8, <1>9, <2>1, <2>2, <3>3, Zenon
    <3> QED
      BY <3>1, <3>2, <3>3, Zenon
  <2> QED
    BY <1>6, <1>7, <1>8, <1>9, <2>1, <2>2, <2>4, Zenon DEF Linked, history
<1>11. \A x \in Ids : Has(mapB', x) => Get(mapB', x).forward \in Pair(x)
  BY <1>7, <1>9, Zenon DEF IInv
<1>12. (living \in Nat /\ fresh \subseteq Ids /\ spoke \in [Ids -> Addrs \cup {NoAddr}])'
  BY Zenon DEF IInv, TypeOK, history
<1>13. \A x \in fresh' : Linked(x)'
  BY <1>10, Zenon DEF history
<1> QED
  BY <1>6, <1>7, <1>11, <1>12, <1>13, IInvIntro, Zenon

(* A task speaks in a dialog. *)
LEMMA SpeakOK ==
  ASSUME IInv, NEW d \in Ids, NEW m, NEW a \in Addrs, TaskInDialog(d, m, a)
  PROVE  IInv'
<1> DEFINE did == IF Has(mapF, d) THEN d ELSE Get(mapB, d).forward
<1>1. PICK r \in QueryDialogTab(d) : IF r.addr # a THEN UpdateDialogAddr(d, a) ELSE UNCHANGED mapF
  BY Zenon DEF TaskInDialog
<1>2. mapF' = SetAddr(mapF, did, a) \/ (r.addr = a /\ mapF' = mapF)
  BY <1>1, Zenon DEF UpdateDialogAddr, SetAddr
<1>3. did \in Pair(d)
  BY <1>1, Zenon DEF QueryDialogTab, IInv, Pair
<1>4. /\ spoke' \in [Ids -> Addrs \cup {NoAddr}]
      /\ \A x \in Ids : spoke'[x] = IF x \in Pair(d) THEN a ELSE spoke[x]
  BY SpeaksOK, Zenon DEF TaskInDialog
<1>5. mapB' = mapB /\ living' = living /\ fresh' = fresh
  BY Zenon DEF TaskInDialog
<1>6. ASSUME NEW x \in fresh, d \in Pair(x) PROVE did = x /\ r = Get(mapF, x)
  <2>1. Linked(x) /\ QueryDialogTab(d) = {Get(mapF, x)}
    BY <1>6, FoundOK, Zenon DEF IInv, FoundByBothNames
  <2>2. did = x
    BY <1>6, <2>1, Zenon DEF Linked, Pair
  <2> QED
    BY <1>1, <2>1, <2>2, Zenon
<1>7. ASSUME NEW x \in fresh, d \notin Pair(x) PROVE did # x /\ x \notin Pair(d)
  BY <1>3, <1>7, PairOK, TablesOK, Zenon
<1> HIDE DEF did
<1>t. mapF \in Seq(Records) /\ Unique(mapF) /\ Sorted(mapF)
  BY TablesOK, Zenon
<1>u. /\ SetAddr(mapF, did, a) \in Seq(Records) /\ Unique(SetAddr(mapF, did, a)) /\ Sorted(SetAddr(mapF, did, a))
      /\ \A x : Has(SetAddr(mapF, did, a), x) <=> Has(mapF, x)
      /\ \A x : Has(mapF, x) => /\ Get(SetAddr(mapF, did, a), x).back = Get(mapF, x).back
                              /\ Get(SetAddr(mapF, did, a), x).age = Get(mapF, x).age
                              /\ Get(SetAddr(mapF, did, a), x).addr = IF x = did THEN a ELSE Get(mapF, x).addr
  BY <1>t, SetAddrOK, Zenon
<1>8. /\ mapF' \in Seq(Records) /\ Unique(mapF') /\ Sorted(mapF')
      /\ \A x : Has(mapF', x) <=> Has(mapF, x)
      /\ \A x : Has(mapF, x) => Get(mapF', x).back = Get(mapF, x).back /\ Get(mapF', x).age = Get(mapF, x).age
  <2>1. CASE mapF' = SetAddr(mapF, did, a)
    BY <1>u, <2>1, Zenon
  <2>2. CASE mapF' = mapF
    BY <1>t, <2>2, Zenon
  <2> QED
    BY <1>2, <2>1, <2>2, Zenon
<1>9. ASSUME NEW x \in fresh PROVE Get(mapF', x).addr = spoke'[x]
  <2>1. Linked(x) /\ x \in Ids
    BY TablesOK, Zenon DEF IInv
  <2>2. CASE mapF' = SetAddr(mapF, did, a)
    <3>1. Get(mapF', x).addr = IF x = did THEN a ELSE Get(mapF, x).addr
      BY <1>u, <2>1, <2>2, Zenon DEF Linked
    <3> QED
      BY <1>4, <1>6, <1>7, <2>1, <3>1, PairOK, Zenon DEF Linked
  <2>3. CASE r.addr = a /\ mapF' = mapF
    BY <1>4, <1>6, <1>7, <2>1, <2>3, PairOK, Zenon DEF Linked
  <2> QED
    BY <1>2, <2>2, <2>3, Zenon
<1>10. ASSUME NEW x \in fresh PROVE Linked(x)'
  BY <1>5, <1>8, <1>9, Zenon DEF IInv, Linked
<1>11. \A x \in Ids : (Has(mapB, x) => Get(mapB, x).forward \in Pair(x))'
  BY <1>5, Zenon DEF IInv
<1>12. (mapB \in Seq(Pointers) /\ Unique(mapB) /\ Sorted(mapB))' /\ living' \in Nat /\ fresh' \subseteq Ids
  BY <1>5, TablesOK, Zenon
<1> QED
  BY <1>4, <1>5, <1>8, <1>10, <1>11, <1>12, IInvIntro, Zenon

(* The tables are cleaned: the way back first, then the records, which the    *)
(* way back outlives because it is never older.                               *)
LEMMA RecycleOK ==
  ASSUME IInv, NEW s \in Seconds, Recycle(s)
  PROVE  /\ IInv'
         /\ \A k \in DOMAIN mapF' : mapF'[k].age <= living'
         /\ \A k \in DOMAIN mapB' : mapB'[k].age <= living' + s
<1> DEFINE F1 == Aged(mapF, s)
<1>1. PICK q \in PopOld(mapB) : mapB' = Aged(q, s)
  BY Zenon DEF Recycle
<1>2. mapF' \in PopOld(F1) /\ living' = living /\ fresh' = fresh \cap Names(mapF')
  BY Zenon DEF Recycle, Forgets
<1>3. /\ F1 \in Seq(Records) /\ Unique(F1) /\ Sorted(F1)
      /\ \A x : Has(F1, x) <=> Has(mapF, x)
      /\ \A x \in Ids : Has(mapF, x) => /\ Get(F1, x).back = Get(mapF, x).back
                                        /\ Get(F1, x).addr = Get(mapF, x).addr
                                        /\ Get(F1, x).age = Older(Get(mapF, x).age, s)
  BY AgedTables, Zenon
<1> HIDE DEF F1
<1>4. /\ mapF' \in Seq(Records) /\ Unique(mapF') /\ Sorted(mapF')
      /\ \A k \in DOMAIN mapF' : mapF'[k].age <= living
      /\ \A x : Has(mapF', x) => Has(F1, x) /\ Get(mapF', x) = Get(F1, x)
  BY <1>2, <1>3, TablesOK, PopOldOK, Zenon
<1>5. /\ q \in Seq(Pointers) /\ Unique(q) /\ Sorted(q) /\ \A i \in DOMAIN q : q[i].age <= living
      /\ \A x : Has(q, x) => Has(mapB, x) /\ Get(q, x) = Get(mapB, x)
      /\ \A x : Has(mapB, x) /\ ~Expired(Get(mapB, x)) => Has(q, x)
  BY <1>1, TablesOK, PopOldOK, Zenon
<1>6. /\ mapB' \in Seq(Pointers) /\ Unique(mapB') /\ Sorted(mapB')
      /\ \A x : Has(mapB', x) <=> Has(q, x)
      /\ \A x : Has(q, x) => Get(mapB', x) = [Get(q, x) EXCEPT !.age = Older(Get(q, x).age, s)]
  BY <1>1, <1>5, EntryTypes, AgedOK
<1>7. \A x \in Ids : Has(mapB', x) =>
        /\ Has(mapB, x) /\ Get(mapB', x).forward = Get(mapB, x).forward
        /\ Get(mapB', x).age = Older(Get(mapB, x).age, s)
  <2> SUFFICES ASSUME NEW x \in Ids, Has(mapB', x)
               PROVE  /\ Has(mapB, x) /\ Get(mapB', x).forward = Get(mapB, x).forward
                      /\ Get(mapB', x).age = Older(Get(mapB, x).age, s)
    BY Zenon
  <2> DEFINE e == Get(mapB, x)
             a == Older(e.age, s)
  <2>1. Has(mapB, x) /\ e \in Pointers /\ Get(mapB', x) = [e EXCEPT !.age = a]
    BY <1>5, <1>6, TablesOK, Zenon
  <2> HIDE DEF a
  <2> QED
    BY <2>1, Zenon DEF Pointers, a
<1>8. ASSUME NEW x \in fresh' PROVE Linked(x)'
  <2>1. x \in fresh /\ Linked(x) /\ x \in Ids /\ Peer(x) \in Ids /\ Has(mapF', x)
    BY <1>2, <1>8, TablesOK, PeerAssumption, Zenon DEF IInv, Names, Has
  <2> DEFINE fa == Get(mapF, x).age
             ba == Get(mapB, Peer(x)).age
  <2>2. fa \in 0..MaxAge /\ ba \in 0..MaxAge /\ ba <= fa
    BY <2>1, TablesOK, Zenon DEF Linked, Records, Pointers
  <2>3. Get(mapF', x) = Get(F1, x) /\ Get(mapF', x).age = Older(fa, s)
    BY <1>3, <1>4, <2>1, Zenon
  <2>4. Get(mapF', x).age <= living
    <3>1. PICK k \in DOMAIN mapF' : mapF'[k].id = x
      BY <2>1, Zenon DEF Has
    <3>2. Get(mapF', mapF'[k].id) = mapF'[k]
      BY <1>4, GetOK, Zenon
    <3> QED
      BY <1>4, <3>1, <3>2, Zenon
  <2>5. ~Expired(Get(mapB, Peer(x)))
    <3>1. Older(fa, s) >= fa
      BY <2>2, OlderOK, Zenon
    <3> QED
      BY <2>2, <2>3, <2>4, <3>1, OlderOK, TablesOK, SMTT(60) DEF Expired
  <2>6. Has(mapB', Peer(x)) /\ Get(mapB', Peer(x)).forward = x /\ Get(mapB', Peer(x)).age = Older(ba, s)
    BY <1>5, <1>6, <1>7, <2>1, <2>5, Zenon DEF Linked
  <2>7. Get(mapB', Peer(x)).age <= Get(mapF', x).age
    BY <2>2, <2>3, <2>6, OlderOK, Zenon
  <2>8. spoke'[x] = spoke[x]
    <3>1. x \in Names(mapF') /\ x \in Pair(x)
      BY <2>1, Zenon DEF Has, Names, Pair
    <3> QED
      BY <2>1, <3>1, Zenon DEF Recycle, Forgets
  <2>9. Get(mapF', x).back = Peer(x) /\ Get(mapF', x).addr = spoke'[x]
    BY <1>3, <2>1, <2>3, <2>8, Zenon DEF Linked
  <2>10. Peer(x) # x => ~Has(mapF', Peer(x)) /\ ~Has(mapB', x)
    BY <1>3, <1>4, <1>5, <1>6, <2>1, Zenon DEF Linked
  <2> QED
    BY <2>1, <2>6, <2>7, <2>9, <2>10, Zenon DEF Linked
<1>9. \A x \in Ids : Has(mapB', x) => Get(mapB', x).forward \in Pair(x)
  BY <1>7, Zenon DEF IInv
<1>10. living' \in Nat /\ fresh' \subseteq Ids /\ spoke' \in [Ids -> Addrs \cup {NoAddr}]
  BY <1>2, TablesOK, Zenon DEF Recycle, Forgets, IInv, TypeOK
<1>11. ASSUME NEW k \in DOMAIN mapB' PROVE mapB'[k].age <= living + s
  <2>1. k \in DOMAIN q /\ mapB'[k] = [q[k] EXCEPT !.age = Older(q[k].age, s)]
    BY <1>1, <1>5, Zenon DEF Aged
  <2> DEFINE e == q[k]
             a == Older(e.age, s)
  <2>2. e \in Pointers /\ e.age \in 0..MaxAge /\ e.age <= living /\ a <= e.age + s
    <3>1. e \in Pointers
      BY <1>5, <2>1, ElementOfSeq
    <3>2. e.age \in 0..MaxAge
      BY <3>1, Zenon DEF Pointers
    <3>3. e.age <= living
      BY <1>5, <2>1, Zenon
    <3> HIDE DEF e
    <3> QED
      BY <3>1, <3>2, <3>3, TimesAssumption DEF Older, Seconds
  <2>3. a \in 0..MaxAge /\ mapB'[k] = [e EXCEPT !.age = a]
    BY <2>1, <2>2, OlderOK, Zenon
  <2> HIDE DEF e, a
  <2>4. mapB'[k].age = a
    BY <2>2, <2>3, Zenon DEF Pointers
  <2> QED
    BY <2>2, <2>3, <2>4, TablesOK DEF Seconds
<1>12. IInv'
  BY <1>4, <1>6, <1>8, <1>9, <1>10, IInvIntro, Zenon
<1> QED
  BY <1>2, <1>4, <1>11, <1>12, Zenon

(* A second passes. *)
LEMMA TickOK == IInv /\ Tick => IInv'
<1> SUFFICES ASSUME IInv, Tick PROVE IInv'
  BY Zenon
<1>1. 1 \in Seconds /\ mapF' = Aged(mapF, 1) /\ mapB' = Aged(mapB, 1) /\ UNCHANGED <<living, fresh, spoke>>
  BY Zenon DEF Seconds, Tick, history
<1>2. /\ (mapF \in Seq(Records) /\ Unique(mapF) /\ Sorted(mapF))'
      /\ (mapB \in Seq(Pointers) /\ Unique(mapB) /\ Sorted(mapB))'
  BY <1>1, AgedTables, Zenon
<1>3. \A x \in Ids : (Has(mapB, x) => Get(mapB, x).forward \in Pair(x))'
  BY <1>1, AgedTables, Zenon DEF IInv
<1>4. ASSUME NEW x \in fresh PROVE Linked(x)'
  <2>1. Linked(x) /\ x \in Ids /\ Peer(x) \in Ids
    BY TablesOK, PeerAssumption, Zenon DEF IInv
  <2> QED
    BY <1>1, <2>1, AgedTables, Zenon DEF Linked
<1>5. (living \in Nat /\ fresh \subseteq Ids /\ spoke \in [Ids -> Addrs \cup {NoAddr}])'
  BY <1>1, Zenon DEF IInv, TypeOK
<1> QED
  BY <1>1, <1>2, <1>3, <1>4, <1>5, IInvIntro, Zenon

(* The living time is always a number of seconds. *)
LEMMA LivingTimeOK ==
  ASSUME NEW rows \in DbRows, NEW reg \in Nat
  PROVE  LivingTime(reg, ConfiguredCall, rows) \in Nat
<1> DEFINE Row(name) == IF \E r \in rows : r.name = name
                          THEN (CHOOSE r \in rows : r.name = name).value ELSE DLG_LIVING_TIME
<1>1. \A name : Row(name) \in Nat
  BY TimesAssumption, Zenon
<1> HIDE DEF Row
<1>2. \A i, j \in Nat : Max2(i, j) \in Nat
  BY Zenon DEF Max2
<1>3. LivingTime(reg, ConfiguredCall, rows) =
        IF rows = {} THEN Max2(reg, ConfiguredCall)
        ELSE Max2(Max2(reg, Row("reg")), Max2(ConfiguredCall, Row("call")))
  BY Zenon DEF LivingTime, Row
<1>4. ConfiguredCall \in Nat
  BY TimesAssumption, Zenon
<1>5. Max2(reg, Row("reg")) \in Nat /\ Max2(ConfiguredCall, Row("call")) \in Nat
  BY <1>1, <1>2, <1>4, Zenon
<1> QED
  BY <1>2, <1>3, <1>4, <1>5, Zenon

(* Steps that leave tables and history alone. *)
LEMMA QuietOK == IInv /\ UNCHANGED <<tables, history>> /\ living' \in Nat => IInv'
<1> SUFFICES ASSUME IInv, UNCHANGED <<tables, history>>, living' \in Nat PROVE IInv'
  BY Zenon
<1>1. mapF' = mapF /\ mapB' = mapB /\ fresh' = fresh /\ spoke' = spoke
  BY Zenon DEF tables, history
<1>2. TypeOK' /\ OldestFirst'
  BY <1>1, Zenon DEF IInv, TypeOK, OldestFirst
<1>3. \A d \in Ids : Has(mapB', d) => Get(mapB', d).forward \in Pair(d)
  BY <1>1, Zenon DEF IInv
<1>4. \A x \in fresh' : Linked(x)'
  BY <1>1, Zenon DEF IInv, Linked
<1> QED
  BY <1>2, <1>3, <1>4, Zenon DEF IInv

(* The inductive step. *)
LEMMA NextIInv == IInv /\ [Next]_vars => IInv'
<1> SUFFICES ASSUME IInv, [Next]_vars PROVE IInv'
  BY Zenon
<1>0. living \in Nat
  BY TablesOK, Zenon
<1>1. ASSUME NEW m \in WireMsgs, NEW d \in Ids, NEW s \in Seconds, WireInDialog(d, m, s) PROVE IInv'
  BY <1>1, RefreshOK, Zenon DEF WireInDialog
<1>2. ASSUME NEW m \in WireMsgs, NEW d \in Ids, NEW s \in Seconds, WireBegin(d, m, s) PROVE IInv'
  BY <1>2, InsertOK, Zenon DEF WireBegin, Pair
<1>3. ASSUME NEW m \in AppMsgs, NEW d \in Ids, NEW a \in Addrs, TaskInDialog(d, m, a) PROVE IInv'
  BY <1>3, SpeakOK, Zenon
<1>4. ASSUME NEW m \in AppMsgs, NEW d \in Ids, NEW a \in Addrs, NEW b \in Pair(d), NEW s \in Seconds,
             TaskBegin(d, b, m, a, s)
      PROVE  IInv'
  BY <1>4, InsertOK, Zenon DEF TaskBegin
<1>5. ASSUME NEW s \in Seconds, Recycle(s) PROVE IInv'
  BY <1>5, RecycleOK, Zenon
<1>6. ASSUME NEW rows \in DbRows, Reload(rows) PROVE IInv'
  BY <1>6, QuietOK, LivingTimeOK, TimesAssumption, Zenon DEF Reload
<1>7. ASSUME NEW m, NEW d, WireStray(d, m) \/ WireRefused(m) \/ WireEvent \/ TaskStray(d, m) PROVE IInv'
  BY <1>0, <1>7, QuietOK, Zenon DEF WireStray, WireRefused, WireEvent, TaskStray
<1>8. ASSUME UNCHANGED vars PROVE IInv'
  BY <1>0, <1>8, QuietOK, Zenon DEF vars, tables, history
<1> QED
  BY <1>1, <1>2, <1>3, <1>4, <1>5, <1>6, <1>7, <1>8, TickOK, Zenon DEF Next, Wire, Task, Recycling, Reloading

(* Initially there are no dialogs. *)
LEMMA InitIInv == Init => IInv
<1> SUFFICES ASSUME Init PROVE IInv
  BY Zenon
<1>1. living \in Nat
  BY LivingTimeOK, TimesAssumption, Zenon DEF Init
<1>2. mapF = <<>> /\ mapB = <<>> /\ fresh = {} /\ spoke = [x \in Ids |-> NoAddr]
  BY Zenon DEF Init
<1> QED
  BY <1>1, <1>2 DEF IInv, TypeOK, OldestFirst, Unique, Sorted, Has

(* The invariant holds in every reachable state. *)
THEOREM Invariance == Spec => []IInv
BY InitIInv, NextIInv, PTL DEF Spec

(* The tables keep their types and hold each name once (CExpireBuffer::push). *)
THEOREM TypeCorrect == Spec => []TypeOK
BY Invariance, PTL DEF IInv

(* Both tables stay in order of age, so pop_old may stop at the first entry   *)
(* that has not expired.                                                      *)
THEOREM TablesInOrder == Spec => []OldestFirst
BY Invariance, PTL DEF IInv

(* A dialog opened afresh is found by both its names as long as its record    *)
(* lives (InsertDialogTab, UpdateDialogExpire, CleanExpireDialog).            *)
THEOREM BothNamesLead == Spec => []FoundByBothNames
BY Invariance, FoundOK, PTL

(* The record of such a dialog names its last speaker (UpdateDialogAddr).     *)
THEOREM SpeakerIsFollowed == Spec => []WireFollowsTheSpeaker
<1>1. IInv => WireFollowsTheSpeaker
  BY Zenon DEF IInv, Linked, WireFollowsTheSpeaker
<1> QED
  BY <1>1, Invariance, PTL

-----------------------------------------------------------------------------
(* Concatenation, index by index. *)
LEMMA Either ==
  ASSUME NEW S, NEW T, NEW s \in Seq(S), NEW t \in Seq(T), NEW i \in DOMAIN (s \o t)
  PROVE  \/ i \in DOMAIN s /\ (s \o t)[i] = s[i]
         \/ \E j \in DOMAIN t : (s \o t)[i] = t[j]
<1>1. s \in Seq(S \cup T) /\ t \in Seq(S \cup T)
  OBVIOUS
<1>2. /\ Len(s \o t) = Len(s) + Len(t) /\ s \o t \in Seq(S \cup T)
      /\ \A k \in 1..(Len(s) + Len(t)) : (s \o t)[k] = IF k <= Len(s) THEN s[k] ELSE t[k - Len(s)]
  BY <1>1, ConcatProperties, Zenon
<1>3. i \in 1..(Len(s) + Len(t)) /\ Len(s) \in Nat /\ Len(t) \in Nat
  BY <1>2
<1>4. CASE i <= Len(s)
  BY <1>2, <1>3, <1>4
<1>5. CASE ~(i <= Len(s))
  <2>1. i - Len(s) \in DOMAIN t /\ (s \o t)[i] = t[i - Len(s)]
    BY <1>2, <1>3, <1>5
  <2> QED
    BY <2>1, Zenon
<1> QED
  BY <1>4, <1>5, Zenon

(* What a step sends is a list, and its entries say what they are. *)
LEMMA Lists == \A m : \E S : Answers(m) \in Seq(S) /\ Passed(m) \in Seq(S)
<1> SUFFICES ASSUME NEW m PROVE \E S : Answers(m) \in Seq(S) /\ Passed(m) \in Seq(S)
  BY Zenon
<1>1. DOMAIN << >> = 1..0 /\ \A c : DOMAIN <<c>> = 1..1
  OBVIOUS
<1>2. \E n \in Nat : DOMAIN Replies(m) = 1..n
  <2>1. Replies(m) = <<>> \/ \E c : Replies(m) = <<c>>
    BY DEF Replies
  <2> QED
    BY <1>1, <2>1, Zenon
<1>3. \E n \in Nat : DOMAIN SendSipMessage(Checked(m)) = 1..n
  <2>1. SendSipMessage(Checked(m)) = <<>> \/ \E c : SendSipMessage(Checked(m)) = <<c>>
    BY Zenon DEF SendSipMessage
  <2> QED
    BY <1>1, <2>1, Zenon
<1> DEFINE S == {Answers(m)[i] : i \in DOMAIN Answers(m)} \cup {Passed(m)[i] : i \in DOMAIN Passed(m)}
<1>4. Answers(m) \in Seq(S)
  <2>1. PICK n \in Nat : DOMAIN Answers(m) = 1..n
    BY <1>2, Zenon DEF Answers
  <2>2. Answers(m) = [i \in 1..n |-> Answers(m)[i]]
    BY <2>1, Zenon DEF Answers
  <2> QED
    BY <2>1, <2>2
<1>5. Passed(m) \in Seq(S)
  <2>1. PICK n \in Nat : DOMAIN Passed(m) = 1..n
    BY <1>3, Zenon DEF Passed
  <2>2. Passed(m) = [i \in 1..n |-> Passed(m)[i]]
    BY <2>1, Zenon DEF Passed
  <2> QED
    BY <2>1, <2>2
<1> HIDE DEF S
<1> QED
  BY <1>4, <1>5, Zenon

LEMMA Replied == \A m : \A i \in DOMAIN Answers(m) : Answers(m)[i].what = "reply"
BY Zenon DEF Answers

LEMMA Sent == \A m : \A i \in DOMAIN ToStack(m) : ToStack(m)[i].what = "sent"
BY Zenon DEF ToStack

LEMMA PassedOn ==
  \A m : \A i \in DOMAIN Passed(m) : /\ i \in DOMAIN SendSipMessage(Checked(m))
                                    /\ Passed(m)[i].what = "passed" /\ Passed(m)[i].came = m
                                    /\ Passed(m)[i].msg = SendSipMessage(Checked(m))[i]
BY Zenon DEF Passed

(* Only WireStray passes messages on, those that came from the wire and were  *)
(* accepted; only Recycle reports a recycle.                                  *)
PassedOK ==
  \A i \in DOMAIN out : out[i].what = "passed" =>
    \E m \in WireMsgs : /\ CheckSipMessage(m) /\ out[i].came = m
                        /\ \E j \in DOMAIN SendSipMessage(Checked(m)) :
                             out[i].msg = SendSipMessage(Checked(m))[j]

Quiet == \A i \in DOMAIN out : out[i].what \notin {"passed", "recycled"}

LEMMA OutStep ==
  ASSUME Next
  PROVE  \/ Quiet'
         \/ PassedOK' /\ \A i \in DOMAIN out' : out'[i].what # "recycled"
         \/ \E s \in Seconds : Recycle(s)
<1> DEFINE Tells(type, d, a) == [what |-> "task", type |-> type, id |-> d, addr |-> a]
<1>1. ASSUME NEW m \in WireMsgs, NEW d \in Ids, NEW s \in Seconds, WireInDialog(d, m, s) PROVE Quiet'
  <2>1. PICK a, id : out' = Answers(m) \o <<Tells("CONTINUE", id, a)>>
    BY <1>1, Zenon DEF WireInDialog, ToTask
  <2> DEFINE t == <<Tells("CONTINUE", id, a)>>
  <2>2. t \in Seq({Tells("CONTINUE", id, a)}) /\ \A j \in DOMAIN t : t[j].what = "task"
    OBVIOUS
  <2>3. PICK S : Answers(m) \in Seq(S)
    BY Lists, Zenon
  <2> HIDE DEF t
  <2>4. out' = Answers(m) \o t
    BY <2>1, Zenon DEF t
  <2>5. ASSUME NEW i \in DOMAIN out' PROVE out'[i].what = "reply" \/ out'[i].what = "task"
    <3>1. \/ i \in DOMAIN Answers(m) /\ out'[i] = Answers(m)[i]
          \/ \E j \in DOMAIN t : out'[i] = t[j]
      BY <2>2, <2>3, <2>4, Either
    <3> QED
      BY <2>2, <3>1, Replied, Zenon
  <2> QED
    BY <2>5, Zenon DEF Quiet
<1>2. ASSUME NEW m \in WireMsgs, NEW d \in Ids, WireStray(d, m)
      PROVE  PassedOK' /\ \A i \in DOMAIN out' : out'[i].what # "recycled"
  <2> SUFFICES ASSUME NEW i \in DOMAIN out'
               PROVE  /\ out'[i].what # "recycled"
                      /\ out'[i].what = "passed" =>
                           /\ out'[i].came = m
                           /\ \E j \in DOMAIN SendSipMessage(Checked(m)) :
                                out'[i].msg = SendSipMessage(Checked(m))[j]
    BY <1>2, Zenon DEF PassedOK, WireStray
  <2>1. out' = Answers(m) \o Passed(m)
    BY <1>2, Zenon DEF WireStray
  <2>2. \/ i \in DOMAIN Answers(m) /\ out'[i] = Answers(m)[i]
        \/ \E j \in DOMAIN Passed(m) : out'[i] = Passed(m)[j]
    <3>1. PICK S : Answers(m) \in Seq(S) /\ Passed(m) \in Seq(S)
      BY Lists, Zenon
    <3> DEFINE s == Answers(m)
               t == Passed(m)
    <3>2. s \in Seq(S) /\ t \in Seq(S) /\ i \in DOMAIN (s \o t)
      BY <2>1, <3>1, Zenon
    <3> HIDE DEF s, t
    <3>3. \/ i \in DOMAIN s /\ (s \o t)[i] = s[i]
          \/ \E j \in DOMAIN t : (s \o t)[i] = t[j]
      BY <3>2, Either
    <3> QED
      BY <2>1, <3>3, Zenon DEF s, t
  <2>3. CASE i \in DOMAIN Answers(m) /\ out'[i] = Answers(m)[i]
    <3>1. out'[i].what = "reply"
      BY <2>3, Replied, Zenon
    <3> QED
      BY <3>1, Zenon
  <2>4. ASSUME NEW j \in DOMAIN Passed(m), out'[i] = Passed(m)[j]
        PROVE  /\ out'[i].what = "passed" /\ out'[i].came = m
               /\ j \in DOMAIN SendSipMessage(Checked(m)) /\ out'[i].msg = SendSipMessage(Checked(m))[j]
    BY <2>4, PassedOn
  <2> QED
    BY <2>2, <2>3, <2>4, Zenon
<1>3. ASSUME NEW m, NEW d, NEW a, NEW b, NEW s,
             TaskInDialog(d, m, a) \/ TaskBegin(d, b, m, a, s) \/ TaskStray(d, m)
      PROVE  Quiet'
  <2>1. out' = ToStack(m)
    BY <1>3, Zenon DEF TaskInDialog, TaskBegin, TaskStray
  <2> QED
    BY <2>1, Sent, Zenon DEF Quiet
<1>4. ASSUME NEW m, WireRefused(m) PROVE Quiet'
  BY <1>4, Replied, Zenon DEF WireRefused, Quiet
<1>5. ASSUME NEW m, NEW d, NEW s, WireBegin(d, m, s) PROVE Quiet'
  BY <1>5 DEF WireBegin, ToTask, Quiet
<1>6. ASSUME WireEvent PROVE Quiet'
  BY <1>6 DEF WireEvent, ToTask, Quiet
<1>7. ASSUME NEW rows, Reload(rows) \/ Tick PROVE Quiet'
  BY <1>7 DEF Reload, Tick, Quiet
<1> QED
  BY <1>1, <1>2, <1>3, <1>4, <1>5, <1>6, <1>7, Zenon DEF Next, Wire, Task, Recycling, Reloading

(* A recycle removes every expired entry of both tables (CleanExpireDialog).  *)
THEOREM RecycleIsComplete == Spec => []RecycleReachesAll
<1>1. Init => RecycleReachesAll
  BY DEF Init, RecycleReachesAll
<1>2. ASSUME IInv, RecycleReachesAll, [Next]_vars PROVE RecycleReachesAll'
  <2>1. CASE UNCHANGED vars
    BY <1>2, <2>1, Zenon DEF vars, RecycleReachesAll
  <2>2. CASE Quiet'
    BY <2>2, Zenon DEF Quiet, RecycleReachesAll
  <2>3. CASE \A i \in DOMAIN out' : out'[i].what # "recycled"
    BY <2>3, Zenon DEF RecycleReachesAll
  <2>4. ASSUME NEW s \in Seconds, Recycle(s) PROVE RecycleReachesAll'
    <3>1. /\ \A k \in DOMAIN mapF' : mapF'[k].age <= living'
          /\ \A k \in DOMAIN mapB' : mapB'[k].age <= living' + s
      BY <1>2, <2>4, RecycleOK, Zenon
    <3>2. out' = <<[what |-> "recycled", second |-> s]>>
      BY <2>4, Zenon DEF Recycle
    <3>3. \A i \in DOMAIN out' : out'[i].second = s
      BY <3>2
    <3> QED
      BY <3>1, <3>3, Zenon DEF RecycleReachesAll
  <2> QED
    BY <1>2, <2>1, <2>2, <2>3, <2>4, OutStep, Zenon
<1> QED
  BY <1>1, <1>2, Invariance, PTL DEF Spec

(* Whatever is passed on came from the wire and was accepted. *)
LEMMA PassedInv == Spec => []PassedOK
<1>1. Init => PassedOK
  BY DEF Init, PassedOK
<1>2. ASSUME PassedOK, [Next]_vars PROVE PassedOK'
  <2>1. CASE UNCHANGED vars
    BY <1>2, <2>1, Zenon DEF vars, PassedOK
  <2>2. CASE Quiet'
    BY <2>2, Zenon DEF Quiet, PassedOK
  <2>3. ASSUME NEW s \in Seconds, Recycle(s) PROVE PassedOK'
    BY <2>3 DEF Recycle, PassedOK
  <2> QED
    BY <1>2, <2>1, <2>2, <2>3, OutStep, Zenon
<1> QED
  BY <1>1, <1>2, PTL DEF Spec

-----------------------------------------------------------------------------
(* The steps of sendSipMessage, one by one: what each does to the headers the *)
(* theorems below are about.                                                  *)
Foreign(h) == h \notin Mine /\ (h \in DOMAIN DNSCache => DNSCache[h] \notin Mine)
Abroad(m) ==
  /\ Foreign(m.uri) /\ (m.target # NoTarget => Foreign(m.target))
  /\ \A i \in DOMAIN m.routes : Foreign(m.routes[i].host)

(* ...also over the transport of a URI. *)
Away(h, u) == Foreign(h) /\ Foreign(Rehosted[h][u])
AllAway(m) == \A i \in DOMAIN m.routes : Away(m.routes[i].host, m.uri)

Routes == [host : Hosts, lr : BOOLEAN]

LEMMA HeadOfRoutes ==
  ASSUME NEW r \in Seq(Routes), r # <<>>
  PROVE  /\ 1 \in DOMAIN r /\ Head(r) = r[1] /\ Head(r) \in Routes
         /\ Tail(r) \in Seq(Routes) /\ Len(Tail(r)) = Len(r) - 1 /\ Len(r) \in Nat
         /\ \A i \in DOMAIN Tail(r) : i \in Nat /\ i + 1 \in DOMAIN r /\ Tail(r)[i] = r[i + 1]
<1>1. /\ Head(r) \in Routes /\ Tail(r) \in Seq(Routes) /\ Len(Tail(r)) = Len(r) - 1
      /\ \A i \in 1..Len(Tail(r)) : Tail(r)[i] = r[i + 1]
  BY HeadTailProperties, Zenon
<1>2. Len(r) \in Nat /\ Len(r) > 0 /\ DOMAIN r = 1..Len(r) /\ Head(r) = r[1] /\ DOMAIN Tail(r) = 1..Len(Tail(r))
  BY <1>1
<1> QED
  BY <1>1, <1>2

LEMMA RoutesDropped ==
  ASSUME NEW r \in Seq(Routes), NEW u
  PROVE  /\ OwnRoutesDropped(r) \in Seq(Routes)
         /\ \A k \in {0, 1, 2} :
              (\A i \in DOMAIN r : IF i <= k THEN r[i].host \in Mine ELSE Away(r[i].host, u))
              => \A i \in DOMAIN OwnRoutesDropped(r) : Away(OwnRoutesDropped(r)[i].host, u)
<1> DEFINE M(i) == i <= Len(r) /\ r[i].host \in Mine
<1>1. OwnRoutesDropped(r) = IF M(1) THEN IF M(2) THEN Tail(Tail(r)) ELSE Tail(r) ELSE r
  BY Zenon DEF OwnRoutesDropped, TransExist
<1>2. M(1) => /\ Tail(r) \in Seq(Routes) /\ Len(Tail(r)) = Len(r) - 1
              /\ \A i \in DOMAIN Tail(r) : Tail(r)[i] = r[i + 1]
  OBVIOUS
<1>3. M(1) /\ M(2) => /\ Tail(Tail(r)) \in Seq(Routes) /\ Len(Tail(Tail(r))) = Len(r) - 2
                      /\ \A i \in DOMAIN Tail(Tail(r)) : Tail(Tail(r))[i] = r[i + 2]
  <2> SUFFICES ASSUME M(1), M(2)
               PROVE  /\ Tail(Tail(r)) \in Seq(Routes) /\ Len(Tail(Tail(r))) = Len(r) - 2
                      /\ \A i \in DOMAIN Tail(Tail(r)) : Tail(Tail(r))[i] = r[i + 2]
    BY Zenon
  <2> DEFINE t == Tail(r)
  <2>1. /\ r # <<>> /\ t \in Seq(Routes) /\ Len(t) = Len(r) - 1 /\ Len(r) \in Nat /\ Len(r) >= 2
        /\ \A i \in DOMAIN t : t[i] = r[i + 1]
    BY <1>2
  <2> HIDE DEF t
  <2>2. /\ Tail(t) \in Seq(Routes) /\ Len(Tail(t)) = Len(t) - 1
        /\ \A i \in DOMAIN Tail(t) : i \in Nat /\ i + 1 \in DOMAIN t /\ Tail(t)[i] = t[i + 1]
    <3>1. t # <<>>
      BY <2>1
    <3> QED
      BY <2>1, <3>1, HeadOfRoutes, Zenon
  <2>3. ASSUME NEW i \in DOMAIN Tail(t) PROVE Tail(t)[i] = r[i + 2]
    <3>1. Tail(t)[i] = r[(i + 1) + 1] /\ i \in Nat
      BY <2>1, <2>2, Zenon
    <3>2. (i + 1) + 1 = i + 2
      BY <3>1
    <3> QED
      BY <3>1, <3>2, Zenon
  <2> QED
    BY <2>1, <2>2, <2>3 DEF t
<1>4. OwnRoutesDropped(r) \in Seq(Routes)
  BY <1>1, <1>2, <1>3, Zenon
<1>5. ASSUME NEW k \in {0, 1, 2},
             \A i \in DOMAIN r : IF i <= k THEN r[i].host \in Mine ELSE Away(r[i].host, u),
             NEW i \in DOMAIN OwnRoutesDropped(r)
      PROVE  Away(OwnRoutesDropped(r)[i].host, u)
  <2>1. DOMAIN r = 1..Len(r) /\ Len(r) \in Nat
    OBVIOUS
  <2>2. \A j \in 1..Len(r) : ~(j <= k) <=> ~M(j)
    BY <1>5, <2>1 DEF Away, Foreign
  <2>3. CASE ~M(1)
    <3>1. i \in 1..Len(r) /\ OwnRoutesDropped(r)[i] = r[i]
      BY <1>1, <2>1, <2>3, Zenon
    <3>2. k = 0
      BY <2>1, <2>2, <2>3, <3>1
    <3> QED
      BY <1>5, <2>1, <3>1, <3>2
  <2>4. CASE M(1) /\ ~M(2)
    <3>1. i \in Nat \ {0} /\ i + 1 \in 1..Len(r) /\ OwnRoutesDropped(r)[i] = r[i + 1]
      BY <1>1, <1>2, <2>1, <2>4
    <3>2. k <= 1
      BY <2>1, <2>2, <2>4, <3>1
    <3> QED
      BY <1>5, <2>1, <3>1, <3>2
  <2>5. CASE M(1) /\ M(2)
    <3>1. i \in Nat \ {0} /\ i + 2 \in 1..Len(r) /\ OwnRoutesDropped(r)[i] = r[i + 2]
      BY <1>1, <1>3, <2>1, <2>5, SMTT(60)
    <3> QED
      BY <1>5, <2>1, <3>1
  <2> QED
    BY <2>3, <2>4, <2>5, Zenon
<1> QED
  BY <1>4, <1>5, Zenon

LEMMA DroppedOK ==
  ASSUME NEW m \in SipMessages
  PROVE  LET n == [m EXCEPT !.routes = OwnRoutesDropped(@)]
         IN /\ n \in SipMessages /\ n.hops = m.hops /\ n.hasHops = m.hasHops
            /\ LeadsElsewhere(m) => Abroad(n) /\ AllAway(n)
<1> DEFINE r == OwnRoutesDropped(m.routes)
           n == [m EXCEPT !.routes = r]
<1>1. m.routes \in Seq(Routes)
  BY Zenon DEF SipMessages, Routes
<1>2. /\ r \in Seq(Routes)
      /\ \A k \in {0, 1, 2} :
           (\A i \in DOMAIN m.routes : IF i <= k THEN m.routes[i].host \in Mine ELSE Away(m.routes[i].host, m.uri))
           => \A i \in DOMAIN r : Away(r[i].host, m.uri)
  BY <1>1, RoutesDropped, Zenon
<1> HIDE DEF r
<1>3. n \in SipMessages /\ n.hops = m.hops /\ n.hasHops = m.hasHops /\ n.uri = m.uri /\ n.target = m.target /\ n.routes = r
  BY <1>2, Zenon DEF SipMessages, Routes
<1>4. LeadsElsewhere(m) => Abroad(n) /\ AllAway(n)
  <2> SUFFICES ASSUME LeadsElsewhere(m) PROVE Abroad(n) /\ AllAway(n)
    BY Zenon
  <2>1. /\ Foreign(m.uri) /\ (m.target # NoTarget => Foreign(m.target))
        /\ \E k \in {0, 1, 2} : \A i \in DOMAIN m.routes :
             IF i <= k THEN m.routes[i].host \in Mine ELSE Away(m.routes[i].host, m.uri)
    BY Zenon DEF LeadsElsewhere, Foreign, Away
  <2>2. \A i \in DOMAIN r : Away(r[i].host, m.uri)
    BY <1>2, <2>1, Zenon
  <2> HIDE DEF n
  <2> QED
    BY <1>3, <2>1, <2>2, Zenon DEF Abroad, AllAway, Away
<1> QED
  BY <1>3, <1>4, Zenon DEF r

LEMMA StrictOK ==
  ASSUME NEW m \in SipMessages
  PROVE  /\ StrictRouted(m) \in SipMessages
         /\ StrictRouted(m).hops = m.hops /\ StrictRouted(m).hasHops = m.hasHops
         /\ Abroad(m) /\ AllAway(m) => Abroad(StrictRouted(m))
<1>1. CASE m.routes # <<>> /\ ~Head(m.routes).lr
  <2> DEFINE h == Head(m.routes).host
             r == Tail(m.routes)
  <2>1. /\ h \in Hosts /\ r \in Seq(Routes) /\ 1 \in DOMAIN m.routes /\ h = m.routes[1].host
        /\ \A i \in DOMAIN r : i + 1 \in DOMAIN m.routes /\ r[i] = m.routes[i + 1]
    <3>1. m.routes \in Seq(Routes)
      BY DEF SipMessages, Routes
    <3>2. Head(m.routes) \in Routes => h \in Hosts
      BY Zenon DEF Routes
    <3> QED
      BY <1>1, <3>1, <3>2, HeadOfRoutes, Zenon
  <2> DEFINE g == Rehosted[h][m.uri]
  <2>2. StrictRouted(m) = [m EXCEPT !.uri = g, !.routes = r]
    BY <1>1, Zenon DEF StrictRouted
  <2> HIDE DEF h, r
  <2>3. g \in Hosts
    <3>1. m.uri \in Hosts
      BY Zenon DEF SipMessages
    <3>2. Rehosted \in [Hosts -> [Hosts -> Hosts]]
      BY HostsAssumption, Zenon
    <3> QED
      BY <2>1, <3>1, <3>2
  <2>4. Abroad(m) /\ AllAway(m) =>
          /\ Foreign(g) /\ (m.target # NoTarget => Foreign(m.target))
          /\ \A i \in DOMAIN r : Foreign(r[i].host)
    BY <2>1, Zenon DEF Abroad, AllAway, Away
  <2> HIDE DEF g
  <2>5. /\ StrictRouted(m) \in SipMessages
        /\ StrictRouted(m).hops = m.hops /\ StrictRouted(m).hasHops = m.hasHops
        /\ StrictRouted(m).uri = g /\ StrictRouted(m).routes = r /\ StrictRouted(m).target = m.target
    BY <2>1, <2>2, <2>3, Zenon DEF SipMessages, Routes
  <2> QED
    BY <2>4, <2>5, Zenon DEF Abroad
<1>2. CASE ~(m.routes # <<>> /\ ~Head(m.routes).lr)
  BY <1>2, Zenon DEF StrictRouted
<1> QED
  BY <1>1, <1>2, Zenon

LEMMA TargetOK ==
  ASSUME NEW m \in SipMessages
  PROVE  /\ Targeted(m) \in SipMessages
         /\ Targeted(m).hops = m.hops /\ Targeted(m).hasHops = m.hasHops
         /\ Abroad(m) => Foreign(Targeted(m).target)
<1>1. CASE m.target # NoTarget
  BY <1>1, Zenon DEF Targeted, Abroad
<1>2. CASE m.target = NoTarget /\ m.routes = <<>>
  <2>1. Targeted(m) = [m EXCEPT !.target = m.uri] /\ m.uri \in Hosts
    BY <1>2, Zenon DEF Targeted, SipMessages
  <2> QED
    BY <2>1, Zenon DEF SipMessages, Abroad
<1>3. CASE m.target = NoTarget /\ m.routes # <<>>
  <2> DEFINE h == Head(m.routes).host
             r == IF m.method = "CANCEL" THEN <<>> ELSE m.routes
  <2>1. h \in Hosts /\ r \in Seq(Routes) /\ 1 \in DOMAIN m.routes /\ h = m.routes[1].host
    <3>1. m.routes \in Seq(Routes)
      BY DEF SipMessages, Routes
    <3>2. Head(m.routes) \in Routes => h \in Hosts
      BY DEF Routes
    <3> QED
      BY <1>3, <3>1, <3>2, HeadOfRoutes
  <2>2. Targeted(m) = [m EXCEPT !.target = h, !.routes = r]
    BY <1>3, Zenon DEF Targeted
  <2> HIDE DEF h, r
  <2>3. /\ Targeted(m) \in SipMessages /\ Targeted(m).target = h
        /\ Targeted(m).hops = m.hops /\ Targeted(m).hasHops = m.hasHops
    BY <2>1, <2>2, Zenon DEF SipMessages, Routes
  <2> QED
    BY <2>1, <2>3, Zenon DEF Abroad
<1> QED
  BY <1>1, <1>2, <1>3, Zenon

LEMMA ResolvedOK ==
  ASSUME NEW m \in SipMessages
  PROVE  /\ Resolved(m) \in SipMessages
         /\ Resolved(m).hops = m.hops /\ Resolved(m).hasHops = m.hasHops
         /\ Foreign(m.target) => Resolved(m).target \notin Mine
<1>1. CASE m.target \in DOMAIN DNSCache
  <2> DEFINE h == DNSCache[m.target]
  <2>1. h \in Hosts /\ (Foreign(m.target) => h \notin Mine)
    BY <1>1, HostsAssumption, Zenon DEF Foreign
  <2>2. Resolved(m) = [m EXCEPT !.target = h]
    BY <1>1, Zenon DEF Resolved
  <2> HIDE DEF h
  <2> QED
    BY <2>1, <2>2, Zenon DEF SipMessages
<1>2. CASE m.target \notin DOMAIN DNSCache
  BY <1>2, Zenon DEF Resolved, Foreign
<1> QED
  BY <1>1, <1>2, Zenon

(* A request that was accepted leaves with a hop less, and not for this host. *)
LEMMA SendOK ==
  ASSUME NEW m \in WireMsgs, CheckSipMessage(m), m.request,
         NEW j \in DOMAIN SendSipMessage(Checked(m))
  PROVE  LET n == SendSipMessage(Checked(m))[j]
         IN /\ n.hops \in 1..(MaxForwards - 1) /\ (m.hasHops => n.hops < m.hops)
            /\ LeadsElsewhere(m) => n.target \notin Mine
<1> DEFINE c == Checked(m)
           d == [c EXCEPT !.routes = OwnRoutesDropped(@)]
           t == Resolved(Targeted(StrictRouted(d)))
<1>1. /\ m \in SipMessages /\ HopsChecked(m) \in 2..MaxForwards
      /\ m.hasHops => HopsChecked(m) <= m.hops
  <2>1. m \in SipMessages
    BY MessagesAssumption, Zenon
  <2>2. m.hops \in Nat /\ HopsChecked(m) > 1
    BY <2>1, Zenon DEF SipMessages, CheckSipMessage
  <2> QED
    BY <2>1, <2>2 DEF HopsChecked, MaxForwards
<1>2. /\ c \in SipMessages /\ c.hops = HopsChecked(m) /\ c.hasHops /\ c.request
      /\ c.uri = m.uri /\ c.target = m.target /\ c.routes = m.routes
  <2> DEFINE k == HopsChecked(m)
  <2>1. c = [m EXCEPT !.hops = k, !.hasHops = TRUE] /\ k \in Nat
    BY <1>1 DEF Checked, MaxForwards
  <2> HIDE DEF k
  <2>2. /\ c \in SipMessages /\ c.hops = k /\ c.hasHops /\ c.request
        /\ c.uri = m.uri /\ c.target = m.target /\ c.routes = m.routes
    BY <1>1, <2>1, Zenon DEF SipMessages
  <2> QED
    BY <2>2, Zenon DEF k
<1>3. LeadsElsewhere(m) => LeadsElsewhere(c)
  BY <1>2, Zenon DEF LeadsElsewhere
<1>4. SendSipMessage(c)[j] = HopTaken(t)
  BY <1>2 DEF SendSipMessage, SendRequest
<1> HIDE DEF c
<1>5. d \in SipMessages /\ d.hops = c.hops /\ d.hasHops = c.hasHops /\ (LeadsElsewhere(c) => Abroad(d) /\ AllAway(d))
  BY <1>2, DroppedOK, Zenon
<1> HIDE DEF d
<1>6. t \in SipMessages /\ t.hops = c.hops /\ t.hasHops = c.hasHops /\ (Abroad(d) /\ AllAway(d) => t.target \notin Mine)
  <2> DEFINE u == StrictRouted(d)
             v == Targeted(u)
  <2>1. u \in SipMessages /\ u.hops = d.hops /\ u.hasHops = d.hasHops /\ (Abroad(d) /\ AllAway(d) => Abroad(u))
    BY <1>5, StrictOK, Zenon
  <2>2. t = Resolved(v)
    BY Zenon
  <2> HIDE DEF u
  <2>3. v \in SipMessages /\ v.hops = u.hops /\ v.hasHops = u.hasHops /\ (Abroad(u) => Foreign(v.target))
    BY <2>1, TargetOK, Zenon
  <2> HIDE DEF v, t
  <2>4. t \in SipMessages /\ t.hops = v.hops /\ t.hasHops = v.hasHops /\ (Foreign(v.target) => t.target \notin Mine)
    BY <2>2, <2>3, ResolvedOK, Zenon
  <2> QED
    BY <1>5, <2>1, <2>3, <2>4, Zenon
<1> HIDE DEF t
<1>7. /\ HopTaken(t).target = t.target
      /\ HopTaken(t).hops = t.hops - 1
  <2>1. t.hasHops /\ t.hops \in Nat /\ t.hops > 0
    BY <1>1, <1>2, <1>6 DEF MaxForwards
  <2> DEFINE k == t.hops - 1
  <2>2. HopTaken(t) = [t EXCEPT !.hasHops = TRUE, !.hops = k]
    BY <2>1, Zenon DEF HopTaken
  <2> HIDE DEF k
  <2>3. HopTaken(t).target = t.target /\ HopTaken(t).hops = k
    BY <1>6, <2>2, Zenon DEF SipMessages
  <2> QED
    BY <2>3, Zenon DEF k
<1>8. HopTaken(t).hops \in 1..(MaxForwards - 1) /\ (m.hasHops => HopTaken(t).hops < m.hops)
  <2>1. m.hops \in Nat /\ t.hops = HopsChecked(m)
    BY <1>1, <1>2, <1>6, Zenon DEF SipMessages
  <2> QED
    BY <1>1, <1>7, <2>1 DEF MaxForwards
<1> QED
  BY <1>3, <1>4, <1>5, <1>6, <1>7, <1>8, Zenon DEF c

(* A request no dialog knows is passed on with fewer hops left than it came   *)
(* with, and never with none (checkSipMessage, sendSipMessage).               *)
THEOREM StraysDieOut == Spec => []StraysLoseAHop
<1>1. PassedOK => StraysLoseAHop
  BY SendOK, SMTT(60) DEF PassedOK, StraysLoseAHop
<1> QED
  BY <1>1, PassedInv, PTL

(* Nor is it sent back to this host, when the routes it carries lead          *)
(* elsewhere after this host's own (sendSipMessage).                          *)
THEOREM StraysMoveOn == Spec => []NotAimedAtItself
<1>1. PassedOK => NotAimedAtItself
  BY SendOK DEF PassedOK, NotAimedAtItself
<1> QED
  BY <1>1, PassedInv, PTL
=============================================================================
