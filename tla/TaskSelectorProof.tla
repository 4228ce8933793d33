-------------------------- MODULE TaskSelectorProof --------------------------
(***************************************************************************)
(* The safety properties of TaskSelector, for any containers, tasks,       *)
(* sessions and messages.                                                  *)
(***************************************************************************)
EXTENDS TaskSelector, SequenceTheorems, TLAPS

-----------------------------------------------------------------------------
(* The inductive invariant *)

(* TTaskSelector::TaskKey with the session and the time of its entry. *)
Bindings == [sess : Sessions, tcid : Nat, tiid : {0, 1}, at : Nat]

TypeOK ==
  /\ now \in Nat /\ mCurrentTime \in Nat /\ pc \in {"top", "get"} /\ shutdown \in BOOLEAN
  /\ shape \in Seq(Shapes) /\ mFifo \in Seq(Nat) /\ Len(shape) <= MaxMsgs
  /\ instpos \in [Tasks -> Nat] /\ count \in [Tasks -> Nat] /\ blocked \subseteq Tasks
  /\ weight = [t \in Tasks |-> weight[t]] /\ load = [t \in Tasks |-> load[t]]
  /\ \A t \in Tasks : /\ instpos[t] < Len(Hosts[t])
                      /\ weight[t] \in [Insts(t) -> {0, 1}] /\ load[t] \in [Insts(t) -> Nat]
  /\ mDialog \in Seq(Bindings) /\ lastUse \in [Sessions -> Nat]
  /\ rx \in [Containers -> Seq(Nat)]
  /\ got \in [Ids -> [Containers -> Nat]] /\ freed \in [Ids -> Nat]

(* Messages wait in the order they were sent, each once. *)
Rising(q) == \A i, j \in DOMAIN q : i < j => q[i] < q[j]
QueueInv ==
  /\ Rising(mFifo) /\ \A m \in Range(mFifo) : m \in 1..Len(shape)
  /\ \A m \in DOMAIN shape : shape[m] \in Inputs

(* The instances chosen since the first one was are one ahead of the others. *)
EvenInv ==
  \A t \in Tasks \ blocked :
    /\ \A k \in Insts(t) : weight[t][k] = 0
    /\ \E b \in Nat : \A k \in Insts(t) :
         load[t][k] = IF k > 1 /\ k <= instpos[t] + 1 THEN b + 1 ELSE b

(* A table of sessions is in the order of expiry, though its times are of two
   clocks: a binding is never newer than the time the kernel will refresh one with. *)
ClockInv == now \in {mCurrentTime, mCurrentTime + 1}
Sorted(d) == \A i, j \in DOMAIN d : i < j => d[i].at <= d[j].at
Unique(d) == \A i, j \in DOMAIN d : d[i].sess = d[j].sess => i = j
UpTo(d, time) == \A i \in DOMAIN d : d[i].at <= time
Used(d, use) == \A i \in DOMAIN d : d[i].tiid > 0 => use[d[i].sess] <= d[i].at + 1
DialogInv ==
  /\ Sorted(mDialog) /\ Unique(mDialog) /\ UpTo(mDialog, IF pc = "get" THEN mCurrentTime ELSE now)
  /\ Used(mDialog, lastUse)

IInv == TypeOK /\ QueueInv /\ EvenInv /\ ClockInv /\ DialogInv

-----------------------------------------------------------------------------
(* Queues *)

LEMMA Appended ==
  ASSUME NEW S, NEW q \in Seq(S), NEW x \in S
  PROVE  /\ Append(q, x) \in Seq(S) /\ DOMAIN Append(q, x) = 1..Len(q) + 1 /\ DOMAIN q = 1..Len(q)
         /\ Len(q) \in Nat /\ Len(Append(q, x)) = Len(q) + 1
         /\ \A i \in DOMAIN q : Append(q, x)[i] = q[i]
         /\ Append(q, x)[Len(q) + 1] = x
         /\ Range(Append(q, x)) = Range(q) \cup {x}
<1>1. /\ Append(q, x) \in Seq(S) /\ DOMAIN Append(q, x) = 1..Len(q) + 1 /\ DOMAIN q = 1..Len(q)
      /\ Len(q) \in Nat /\ Len(Append(q, x)) = Len(q) + 1
      /\ \A i \in DOMAIN q : Append(q, x)[i] = q[i]
      /\ Append(q, x)[Len(q) + 1] = x
  OBVIOUS
<1>2. Range(Append(q, x)) = Range(q) \cup {x}
  BY <1>1 DEF Range
<1> QED
  BY <1>1, <1>2, Zenon

(* The first message of a queue in order leaves later ones. *)
LEMMA RisingQueue ==
  ASSUME NEW q \in Seq(Nat), Rising(q)
  PROVE  /\ \A x \in Nat : (\A n \in Range(q) : n < x) => Rising(Append(q, x))
         /\ q # <<>> => /\ Rising(Tail(q)) /\ Tail(q) \in Seq(Nat) /\ Head(q) \in Nat
                        /\ Range(q) = Range(Tail(q)) \cup {Head(q)} /\ Head(q) \notin Range(Tail(q))
<1>1. ASSUME NEW x \in Nat, \A n \in Range(q) : n < x PROVE Rising(Append(q, x))
  BY <1>1, Appended DEF Rising, Range
<1>2. ASSUME q # <<>>
      PROVE  /\ Rising(Tail(q)) /\ Tail(q) \in Seq(Nat) /\ Head(q) \in Nat
             /\ Range(q) = Range(Tail(q)) \cup {Head(q)} /\ Head(q) \notin Range(Tail(q))
  <2> DEFINE r == Tail(q)
             h == Head(q)
  <2>1. /\ h = q[1] /\ 1 \in DOMAIN q /\ DOMAIN q = 1..Len(q) /\ DOMAIN r = 1..Len(q) - 1
        /\ \A i \in DOMAIN r : r[i] = q[i + 1] /\ i + 1 \in DOMAIN q
        /\ Len(q) \in Nat /\ r \in Seq(Nat) /\ h \in Nat
    BY <1>2
  <2> HIDE DEF r, h
  <2>2. Rising(r)
    BY <2>1 DEF Rising
  <2>3. ASSUME NEW x \in Range(q) PROVE x \in Range(r) \cup {h}
    <3>1. PICK i \in DOMAIN q : x = q[i]
      BY Zenon DEF Range
    <3>2. CASE i = 1
      BY <2>1, <3>1, <3>2, Zenon
    <3>3. CASE i # 1
      <4>1. i - 1 \in DOMAIN r /\ r[i - 1] = q[i]
        BY <2>1, <3>3, SMTT(60)
      <4> QED
        BY <3>1, <4>1, Zenon DEF Range
    <3> QED
      BY <3>2, <3>3, Zenon
  <2>4. ASSUME NEW x \in Range(r) PROVE x \in Range(q) /\ x # h
    <3>1. PICK i \in DOMAIN r : x = r[i]
      BY Zenon DEF Range
    <3>2. i + 1 \in DOMAIN q /\ x = q[i + 1] /\ 1 < i + 1
      BY <2>1, <3>1
    <3>3. q[1] < q[i + 1]
      BY <2>1, <3>2, Zenon DEF Rising
    <3>4. q[1] \in Nat /\ q[i + 1] \in Nat
      BY <2>1, <3>2, SMTT(60)
    <3>5. x # h
      BY <2>1, <3>2, <3>3, <3>4
    <3> QED
      BY <3>2, <3>5, Zenon DEF Range
  <2>5. h \in Range(q)
    BY <2>1, Zenon DEF Range
  <2> QED
    BY <2>1, <2>2, <2>3, <2>4, <2>5, Zenon DEF r, h
<1> QED
  BY <1>1, <1>2, Zenon

-----------------------------------------------------------------------------
(* The table of sessions *)

(* What CExpireBuffer::update does to the list: entry k goes to the end as e. *)
MoveToEnd(d, k, e) == Append(SubSeq(d, 1, k - 1) \o SubSeq(d, k + 1, Len(d)), e)

MovedTo(q, d, k, e) ==
  /\ DOMAIN q = 1..Len(d) /\ q[Len(d)] = e
  /\ \A i \in 1..Len(d) - 1 : q[i] = IF i < k THEN d[i] ELSE d[i + 1]

LEMMA Moved ==
  ASSUME NEW S, NEW d \in Seq(S), NEW k \in DOMAIN d, NEW e \in S
  PROVE  MoveToEnd(d, k, e) \in Seq(S) /\ MovedTo(MoveToEnd(d, k, e), d, k, e)
<1> DEFINE n == Len(d)
           p1 == SubSeq(d, 1, k - 1)
           p2 == SubSeq(d, k + 1, n)
           rest == p1 \o p2
<1>1. n \in Nat /\ DOMAIN d = 1..n /\ k \in 1..n
  OBVIOUS
<1>2. p1 \in Seq(S) /\ Len(p1) = k - 1 /\ \A i \in 1..(k - 1) : p1[i] = d[i]
  BY <1>1
<1>3. p2 \in Seq(S) /\ Len(p2) = n - k /\ \A i \in 1..(n - k) : p2[i] = d[k + i]
  <2>1. /\ p2 \in Seq(S) /\ Len(p2) = IF k + 1 <= n THEN n - (k + 1) + 1 ELSE 0
        /\ \A i \in 1..(n - (k + 1) + 1) : p2[i] = d[k + 1 + i - 1]
    BY <1>1, SubSeqProperties, SMTT(60)
  <2> HIDE DEF n, p2
  <2>2. Len(p2) = n - k
    BY <1>1, <2>1
  <2>3. ASSUME NEW i \in 1..(n - k) PROVE p2[i] = d[k + i]
    <3>1. i \in 1..(n - (k + 1) + 1) /\ k + 1 + i - 1 = k + i
      BY <1>1
    <3> QED
      BY <2>1, <3>1, Zenon
  <2> QED
    BY <2>1, <2>2, <2>3, Zenon
<1> HIDE DEF n, p1, p2
<1>4. /\ rest \in Seq(S) /\ Len(rest) = n - 1
      /\ \A i \in 1..(n - 1) : rest[i] = IF i <= k - 1 THEN p1[i] ELSE p2[i - (k - 1)]
  <2>1. /\ rest \in Seq(S) /\ Len(rest) = Len(p1) + Len(p2)
        /\ \A i \in 1..Len(p1) + Len(p2) : rest[i] = IF i <= Len(p1) THEN p1[i] ELSE p2[i - Len(p1)]
    BY <1>2, <1>3, ConcatProperties, Zenon
  <2> HIDE DEF rest
  <2> QED
    BY <1>1, <1>2, <1>3, <2>1, SMTT(60)
<1> HIDE DEF rest
<1>5. ASSUME NEW i \in 1..(n - 1) PROVE rest[i] = IF i < k THEN d[i] ELSE d[i + 1]
  <2>1. CASE i < k
    BY <1>1, <1>2, <1>4, <2>1
  <2>2. CASE i >= k
    <3>1. rest[i] = p2[i - (k - 1)] /\ i - (k - 1) \in 1..(n - k) /\ k + (i - (k - 1)) = i + 1
      BY <1>1, <1>4, <2>2
    <3> QED
      BY <1>1, <1>3, <2>2, <3>1, SMTT(60)
  <2> QED
    BY <1>1, <2>1, <2>2
<1> DEFINE q == Append(rest, e)
<1>6. /\ q \in Seq(S) /\ DOMAIN q = 1..n /\ q[n] = e
      /\ \A i \in 1..(n - 1) : q[i] = rest[i]
  BY <1>1, <1>4
<1> HIDE DEF q
<1>7. \A i \in 1..(n - 1) : q[i] = IF i < k THEN d[i] ELSE d[i + 1]
  BY <1>5, <1>6, Zenon
<1> QED
  BY <1>1, <1>6, <1>7, Zenon DEF q, rest, p1, p2, n, MoveToEnd, MovedTo

LEMMA BindingFields ==
  ASSUME NEW b \in Bindings
  PROVE  b.sess \in Sessions /\ b.tcid \in Nat /\ b.tiid \in {0, 1} /\ b.at \in Nat
BY Zenon DEF Bindings

(* Looking session s up: its binding, if it is of use, is the newest. *)
LEMMA RefreshedOK ==
  ASSUME TypeOK, DialogInv, ClockInv, pc = "get", NEW s \in Sessions
  PROVE  LET d == Refreshed(s)
             use == IF Found(s) THEN [lastUse EXCEPT ![s] = now] ELSE lastUse
         IN /\ d \in Seq(Bindings) /\ Sorted(d) /\ Unique(d) /\ UpTo(d, mCurrentTime)
            /\ use \in [Sessions -> Nat] /\ Used(d, use)
            /\ \A j \in DOMAIN mDialog : \E i \in DOMAIN d :
                 /\ d[i].sess = mDialog[j].sess /\ d[i].tiid = mDialog[j].tiid
                 /\ d[i].at = mCurrentTime \/ d[i] = mDialog[j]
<1> DEFINE d == Refreshed(s)
           use == IF Found(s) THEN [lastUse EXCEPT ![s] = now] ELSE lastUse
           n == Len(mDialog)
<1>1. /\ mDialog \in Seq(Bindings) /\ Sorted(mDialog) /\ Unique(mDialog) /\ UpTo(mDialog, mCurrentTime)
      /\ Used(mDialog, lastUse) /\ lastUse \in [Sessions -> Nat]
      /\ now \in Nat /\ mCurrentTime \in Nat /\ now <= mCurrentTime + 1
  BY DEF TypeOK, DialogInv, ClockInv
<1>2. n \in Nat /\ DOMAIN mDialog = 1..n /\ \A i \in DOMAIN mDialog : mDialog[i] \in Bindings
  BY <1>1
<1>3. CASE ~Found(s)
  <2>1. d = mDialog /\ use = lastUse
    BY <1>3, Zenon DEF Refreshed
  <2> HIDE DEF d, use
  <2>2. \A j \in DOMAIN mDialog : \E i \in DOMAIN d :
          /\ d[i].sess = mDialog[j].sess /\ d[i].tiid = mDialog[j].tiid
          /\ d[i].at = mCurrentTime \/ d[i] = mDialog[j]
    BY <2>1, Zenon
  <2> QED
    BY <1>1, <2>1, <2>2, Zenon DEF d, use
<1>4. CASE Found(s)
  <2> DEFINE k == At(s)
             entry == [mDialog[k] EXCEPT !.at = mCurrentTime]
  <2>1. k \in DOMAIN mDialog /\ mDialog[k].sess = s
    BY <1>4, Zenon DEF Found, At
  <2>2. mDialog[k] \in Bindings
    BY <1>2, <2>1, Zenon
  <2>3. mDialog[k].tiid > 0
    BY <1>1, <1>4, <2>1, Zenon DEF Found, Unique
  <2>4. entry \in Bindings /\ entry.at = mCurrentTime /\ entry.sess = s /\ entry.tiid = mDialog[k].tiid
    BY <1>1, <2>1, <2>2, Zenon DEF Bindings
  <2>5. d = MoveToEnd(mDialog, k, entry)
    BY <1>4, Zenon DEF Refreshed, MoveToEnd
  <2>6. use = [lastUse EXCEPT ![s] = now]
    BY <1>4, Zenon
  <2> HIDE DEF k, entry, d, use
  <2>7. /\ d \in Seq(Bindings) /\ DOMAIN d = 1..n /\ d[n] = entry
        /\ \A i \in 1..n - 1 : d[i] = IF i < k THEN mDialog[i] ELSE mDialog[i + 1]
    <3>1. mDialog \in Seq(Bindings) /\ k \in DOMAIN mDialog /\ entry \in Bindings
      BY <1>1, <2>1, <2>4, Zenon
    <3>2. d \in Seq(Bindings) /\ MovedTo(d, mDialog, k, entry)
      BY <2>5, <3>1, Moved, Zenon
    <3> QED
      BY <1>2, <3>2, Zenon DEF MovedTo
  <2> HIDE DEF n
  <2>8. ASSUME NEW i \in 1..n - 1
        PROVE  \E j \in DOMAIN mDialog : j # k /\ d[i] = mDialog[j] /\ (IF i < k THEN j = i ELSE j = i + 1)
    <3>1. CASE i < k
      BY <1>2, <2>1, <2>7, <3>1
    <3>2. CASE ~(i < k)
      BY <1>2, <2>1, <2>7, <3>2
    <3> QED
      BY <3>1, <3>2, Zenon
  <2>9. UpTo(d, mCurrentTime)
    <3> SUFFICES ASSUME NEW i \in DOMAIN d PROVE d[i].at <= mCurrentTime
      BY Zenon DEF UpTo
    <3>1. CASE i = n
      BY <1>1, <2>4, <2>7, <3>1
    <3>2. CASE i # n
      BY <1>1, <1>2, <2>7, <2>8, <3>2 DEF UpTo
    <3> QED
      BY <3>1, <3>2, Zenon
  <2>10. Sorted(d)
    <3> SUFFICES ASSUME NEW i \in DOMAIN d, NEW j \in DOMAIN d, i < j PROVE d[i].at <= d[j].at
      BY Zenon DEF Sorted
    <3>1. CASE j = n
      BY <2>4, <2>7, <2>9, <3>1, Zenon DEF UpTo
    <3>2. CASE j # n
      <4>1. i \in 1..n - 1 /\ j \in 1..n - 1
        BY <1>2, <2>7, <3>2
      <4>2. PICK i2 \in DOMAIN mDialog : d[i] = mDialog[i2] /\ (IF i < k THEN i2 = i ELSE i2 = i + 1)
        BY <2>8, <4>1, Zenon
      <4>3. PICK j2 \in DOMAIN mDialog : d[j] = mDialog[j2] /\ (IF j < k THEN j2 = j ELSE j2 = j + 1)
        BY <2>8, <4>1, Zenon
      <4>4. i2 < j2
        BY <1>2, <2>1, <4>1, <4>2, <4>3
      <4> QED
        BY <1>1, <4>2, <4>3, <4>4, Zenon DEF Sorted
    <3> QED
      BY <3>1, <3>2, Zenon
  <2>11. Unique(d)
    <3> SUFFICES ASSUME NEW i \in DOMAIN d, NEW j \in DOMAIN d, d[i].sess = d[j].sess PROVE i = j
      BY Zenon DEF Unique
    <3>1. \A l \in 1..n - 1 : d[l].sess # s
      BY <1>1, <2>1, <2>8, Zenon DEF Unique
    <3>2. CASE i = n \/ j = n
      BY <1>2, <2>4, <2>7, <3>1, <3>2
    <3>3. CASE i # n /\ j # n
      <4>1. i \in 1..n - 1 /\ j \in 1..n - 1
        BY <1>2, <2>7, <3>3
      <4>2. PICK i2 \in DOMAIN mDialog : d[i] = mDialog[i2] /\ (IF i < k THEN i2 = i ELSE i2 = i + 1)
        BY <2>8, <4>1, Zenon
      <4>3. PICK j2 \in DOMAIN mDialog : d[j] = mDialog[j2] /\ (IF j < k THEN j2 = j ELSE j2 = j + 1)
        BY <2>8, <4>1, Zenon
      <4>4. i2 = j2 /\ i2 # k
        <5>1. i2 = j2
          BY <1>1, <4>2, <4>3, Zenon DEF Unique
        <5>2. d[i].sess # s
          BY <3>1, <4>1, Zenon
        <5> QED
          BY <2>1, <4>2, <5>1, <5>2, Zenon
      <4> QED
        BY <1>2, <2>1, <4>1, <4>2, <4>3, <4>4
    <3> QED
      BY <3>2, <3>3, Zenon
  <2>12. use \in [Sessions -> Nat] /\ use[s] = now /\ \A x \in Sessions \ {s} : use[x] = lastUse[x]
    BY <1>1, <2>6, Zenon
  <2>13. Used(d, use)
    <3> SUFFICES ASSUME NEW i \in DOMAIN d, d[i].tiid > 0 PROVE use[d[i].sess] <= d[i].at + 1
      BY Zenon DEF Used
    <3>1. CASE i = n
      BY <1>1, <2>4, <2>7, <2>12, <3>1, Zenon
    <3>2. CASE i # n
      <4>1. PICK j \in DOMAIN mDialog : j # k /\ d[i] = mDialog[j]
        BY <1>2, <2>7, <2>8, <3>2
      <4>2. mDialog[j].sess \in Sessions /\ mDialog[j].sess # s
        BY <1>1, <1>2, <2>1, <4>1, BindingFields, Zenon DEF Unique
      <4> QED
        BY <1>1, <2>12, <4>1, <4>2, Zenon DEF Used
    <3> QED
      BY <3>1, <3>2, Zenon
  <2>14. ASSUME NEW j \in DOMAIN mDialog
         PROVE  \E i \in DOMAIN d :
                  /\ d[i].sess = mDialog[j].sess /\ d[i].tiid = mDialog[j].tiid
                  /\ d[i].at = mCurrentTime \/ d[i] = mDialog[j]
    <3>1. CASE j = k
      <4>1. n \in DOMAIN d
        BY <1>2, <2>7, <3>1
      <4> QED
        BY <2>1, <2>4, <2>7, <3>1, <4>1, Zenon
    <3>2. CASE j < k
      <4>1. j \in 1..n - 1 /\ j \in DOMAIN d /\ d[j] = mDialog[j]
        BY <1>2, <2>1, <2>7, <3>2
      <4> QED
        BY <4>1, Zenon
    <3>3. CASE j > k
      <4>1. j - 1 \in 1..n - 1 /\ j - 1 \in DOMAIN d /\ ~(j - 1 < k) /\ (j - 1) + 1 = j
        BY <1>2, <2>1, <2>7, <3>3
      <4>2. d[j - 1] = mDialog[j]
        BY <2>7, <4>1, Zenon
      <4> QED
        BY <4>1, <4>2, Zenon
    <3> QED
      BY <1>2, <2>1, <3>1, <3>2, <3>3
  <2> QED
    BY <2>7, <2>9, <2>10, <2>11, <2>12, <2>13, <2>14, Zenon DEF d, use
<1> QED
  BY <1>3, <1>4, Zenon

(* pop_old leaves a table in order with nothing expired in it, and drops nothing else. *)
LEMMA PopOldOK ==
  ASSUME NEW d \in Seq(Bindings), Sorted(d), Unique(d), PopOld(d), mCurrentTime \in Nat,
         UpTo(d, mCurrentTime), NEW use \in [Sessions -> Nat], Used(d, use)
  PROVE  /\ mDialog' \in Seq(Bindings) /\ Sorted(mDialog') /\ Unique(mDialog')
         /\ UpTo(mDialog', mCurrentTime) /\ Used(mDialog', use)
         /\ \A i \in DOMAIN mDialog' : ~Expired(mDialog'[i])
         /\ \A i \in DOMAIN d : Expired(d[i]) \/ \E j \in DOMAIN mDialog' : mDialog'[j] = d[i]
<1> DEFINE n == Len(d)
<1>1. n \in Nat /\ DOMAIN d = 1..n /\ \A i \in DOMAIN d : d[i] \in Bindings
  OBVIOUS
<1>2. PICK k \in 1..n + 1 : /\ \A i \in 1..k - 1 : Expired(d[i])
                            /\ k <= n => ~Expired(d[k])
                            /\ mDialog' = SubSeq(d, k, n)
  BY Zenon DEF PopOld
<1>3. PICK q : q = mDialog'
  BY Zenon
<1>4. q \in Seq(Bindings) /\ Len(q) = n + 1 - k /\ \A i \in 1..(n + 1 - k) : q[i] = d[k + i - 1]
  <2>1. /\ q \in Seq(Bindings) /\ Len(q) = IF k <= n THEN n - k + 1 ELSE 0
        /\ \A i \in 1..(n - k + 1) : q[i] = d[k + i - 1]
    <3>1. k \in 1..Len(d) + 1 /\ Len(d) \in Nat
      BY <1>1, <1>2, Zenon
    <3> QED
      BY <1>2, <1>3, <3>1, SubSeqProperties
  <2> HIDE DEF n
  <2>2. Len(q) = n + 1 - k
    BY <1>1, <1>2, <2>1
  <2>3. n - k + 1 = n + 1 - k
    BY <1>1, <1>2
  <2> QED
    BY <2>1, <2>2, <2>3, Zenon
<1> HIDE DEF n
<1>5. ASSUME NEW i \in DOMAIN q
      PROVE  i \in Nat /\ i + (k - 1) \in DOMAIN d /\ q[i] = d[i + (k - 1)] /\ i + (k - 1) >= k
  <2>1. i \in 1..(n + 1 - k) /\ k + i - 1 = i + (k - 1)
    BY <1>1, <1>2, <1>4
  <2>2. i \in Nat /\ i + (k - 1) \in DOMAIN d /\ i + (k - 1) >= k
    BY <1>1, <1>2, <2>1
  <2> QED
    BY <1>4, <2>1, <2>2, Zenon
<1>6. Sorted(q) /\ Unique(q)
  <2>1. ASSUME NEW i \in DOMAIN q, NEW j \in DOMAIN q, i < j PROVE q[i].at <= q[j].at
    <3>1. i + (k - 1) < j + (k - 1)
      BY <1>2, <1>5, <2>1
    <3> QED
      BY <1>5, <3>1, Zenon DEF Sorted
  <2>2. ASSUME NEW i \in DOMAIN q, NEW j \in DOMAIN q, q[i].sess = q[j].sess PROVE i = j
    <3>1. i + (k - 1) = j + (k - 1)
      BY <1>5, <2>2 DEF Unique
    <3> QED
      BY <1>2, <1>5, <3>1
  <2> QED
    BY <2>1, <2>2, Zenon DEF Sorted, Unique
<1>7. UpTo(q, mCurrentTime) /\ Used(q, use)
  BY <1>5, Zenon DEF UpTo, Used
<1>8. ASSUME NEW i \in DOMAIN q PROVE ~Expired(q[i])
  <2> DEFINE p == i + (k - 1)
  <2>1. p \in DOMAIN d /\ q[i] = d[p] /\ p >= k
    BY <1>5, Zenon
  <2> HIDE DEF p
  <2>2. k \in DOMAIN d /\ ~Expired(d[k]) /\ p \in Nat
    BY <1>1, <1>2, <2>1
  <2>3. d[k].at <= d[p].at
    <3>1. CASE p = k
      BY <2>1, <2>2, <3>1, <1>1, BindingFields
    <3>2. CASE p > k
      BY <2>1, <2>2, <3>2, Zenon DEF Sorted
    <3> QED
      BY <1>2, <2>1, <2>2, <3>1, <3>2
  <2>4. d[k].at \in Nat /\ d[p].at \in Nat
    BY <1>1, <2>1, <2>2, BindingFields, Zenon
  <2> QED
    BY <2>1, <2>2, <2>3, <2>4, SelectorAssumption, SMTT(60) DEF Expired
<1>9. ASSUME NEW i \in DOMAIN d PROVE Expired(d[i]) \/ \E j \in DOMAIN q : q[j] = d[i]
  <2>1. CASE i < k
    BY <1>1, <1>2, <2>1
  <2>2. CASE i >= k
    <3>1. i - (k - 1) \in 1..(n + 1 - k) /\ i - (k - 1) \in DOMAIN q /\ k + (i - (k - 1)) - 1 = i
      <4>1. DOMAIN q = 1..(n + 1 - k) /\ n \in Nat /\ i \in 1..n /\ k \in 1..n + 1
        BY <1>1, <1>2, <1>4
      <4> QED
        BY <2>2, <4>1, SMTT(60)
    <3>2. q[i - (k - 1)] = d[i]
      BY <1>4, <3>1, Zenon
    <3> QED
      BY <3>1, <3>2, Zenon
  <2> QED
    BY <1>1, <1>2, <2>1, <2>2
<1> QED
  BY <1>3, <1>4, <1>6, <1>7, <1>8, <1>9, Zenon

(* The tables after a message for a task that is registered. *)
LEMMA DialogStepOK ==
  ASSUME TypeOK, DialogInv, ClockInv, pc = "get", pc' = "top", now' = now,
         NEW x \in Shapes, NEW c \in Nat, DialogStep(x, c)
  PROVE  /\ mDialog' \in Seq(Bindings) /\ lastUse' \in [Sessions -> Nat] /\ DialogInv'
         /\ LooksUp(x) => \A i \in DOMAIN mDialog' : ~Expired(mDialog'[i])
         /\ \A s \in Sessions : Found(s) => Found(s)' \/ now - lastUse[s] >= LivingTime
<1>1. /\ mDialog \in Seq(Bindings) /\ Sorted(mDialog) /\ Unique(mDialog) /\ UpTo(mDialog, mCurrentTime)
      /\ Used(mDialog, lastUse) /\ lastUse \in [Sessions -> Nat]
      /\ now \in Nat /\ mCurrentTime \in Nat /\ now <= mCurrentTime + 1 /\ mCurrentTime <= now
  BY DEF TypeOK, DialogInv, ClockInv
<1>2. \A i \in DOMAIN mDialog : mDialog[i] \in Bindings
  BY <1>1
<1>3. x.sess \in Sessions \cup {None} /\ x.task \in Tasks \cup {0}
  BY Zenon DEF Shapes
<1>4. DialogInv' <=> /\ Sorted(mDialog') /\ Unique(mDialog') /\ UpTo(mDialog', now)
                     /\ Used(mDialog', lastUse')
  BY Zenon DEF DialogInv
<1>5. CASE LooksUp(x)
  <2>1. PICK s \in Sessions : s = x.sess
    BY <1>3, <1>5, Zenon DEF LooksUp
  <2>2. PICK d : d = Refreshed(s)
    BY Zenon
  <2>3. PICK use : use = IF Found(s) THEN [lastUse EXCEPT ![s] = now] ELSE lastUse
    BY Zenon
  <2>4. PopOld(d) /\ lastUse' = use
    <3>1. /\ PopOld(Refreshed(x.sess))
          /\ lastUse' = IF Found(x.sess) THEN [lastUse EXCEPT ![x.sess] = now] ELSE lastUse
      <4>1. ~Binds(x)
        BY <1>5, Zenon DEF LooksUp, Binds
      <4> QED
        BY <1>5, <4>1, Zenon DEF DialogStep
    <3>2. Refreshed(x.sess) = d
      BY <2>1, <2>2, Zenon
    <3>3. PopOld(d)
      BY <3>1, <3>2, Zenon DEF PopOld
    <3> QED
      BY <2>1, <2>3, <3>1, <3>3, Zenon
  <2>5. /\ d \in Seq(Bindings) /\ Sorted(d) /\ Unique(d) /\ UpTo(d, mCurrentTime)
        /\ use \in [Sessions -> Nat] /\ Used(d, use)
        /\ \A j \in DOMAIN mDialog : \E i \in DOMAIN d :
             /\ d[i].sess = mDialog[j].sess /\ d[i].tiid = mDialog[j].tiid
             /\ d[i].at = mCurrentTime \/ d[i] = mDialog[j]
    BY <2>2, <2>3, RefreshedOK, Zenon
  <2>6. /\ mDialog' \in Seq(Bindings) /\ Sorted(mDialog') /\ Unique(mDialog')
        /\ UpTo(mDialog', mCurrentTime) /\ Used(mDialog', use)
        /\ \A i \in DOMAIN mDialog' : ~Expired(mDialog'[i])
        /\ \A i \in DOMAIN d : Expired(d[i]) \/ \E j \in DOMAIN mDialog' : mDialog'[j] = d[i]
    BY <1>1, <2>4, <2>5, PopOldOK, Zenon
  <2>7. UpTo(mDialog', now)
    <3> SUFFICES ASSUME NEW i \in DOMAIN mDialog' PROVE mDialog'[i].at <= now
      BY Zenon DEF UpTo
    <3>1. mDialog'[i].at \in Nat /\ mDialog'[i].at <= mCurrentTime
      BY <2>6, BindingFields DEF UpTo
    <3> QED
      BY <1>1, <3>1
  <2>8. ASSUME NEW t \in Sessions, Found(t), ~Found(t)' PROVE now - lastUse[t] >= LivingTime
    <3>1. PICK j \in DOMAIN mDialog : mDialog[j].sess = t /\ mDialog[j].tiid > 0
      BY <2>8, Zenon DEF Found
    <3>2. PICK i \in DOMAIN d : /\ d[i].sess = t /\ d[i].tiid > 0
                                /\ d[i].at = mCurrentTime \/ d[i] = mDialog[j]
      BY <2>5, <3>1, Zenon
    <3>3. Expired(d[i])
      BY <2>6, <2>8, <3>2, Zenon DEF Found
    <3>4. mDialog[j].at \in Nat /\ LivingTime \in Nat /\ lastUse[t] \in Nat
      BY <1>1, <1>2, BindingFields, SelectorAssumption, Zenon
    <3>5. mCurrentTime - mDialog[j].at > LivingTime
      <4>1. d[i].at # mCurrentTime
        BY <1>1, <3>3, <3>4 DEF Expired
      <4> QED
        BY <3>2, <3>3, <4>1, Zenon DEF Expired
    <3>6. lastUse[t] <= mDialog[j].at + 1
      BY <1>1, <3>1, Zenon DEF Used
    <3> QED
      BY <1>1, <3>4, <3>5, <3>6, SMTT(60)
  <2> QED
    BY <1>4, <2>4, <2>5, <2>6, <2>7, <2>8, Zenon
<1>6. CASE ~LooksUp(x) /\ Binds(x) /\ c # 0
  <2>1. PICK s \in Sessions : s = x.sess
    BY <1>3, <1>6, Zenon DEF Binds
  <2>2. PICK b : b = Binding(x, c)
    BY Zenon
  <2>3. mDialog' = Append(mDialog, b) /\ lastUse' = [lastUse EXCEPT ![s] = now]
    BY <1>6, <2>1, <2>2, Zenon DEF DialogStep
  <2>4. b \in Bindings /\ b.sess = s /\ b.at = now
    BY <1>1, <2>1, <2>2, Zenon DEF Binding, Bindings
  <2>5. PICK q : q = mDialog'
    BY Zenon
  <2>6. PICK n : n = Len(mDialog)
    BY Zenon
  <2>7. /\ q \in Seq(Bindings) /\ n \in Nat /\ DOMAIN q = 1..n + 1 /\ DOMAIN mDialog = 1..n
        /\ q[n + 1] = b /\ \A i \in DOMAIN mDialog : q[i] = mDialog[i]
    BY <1>1, <2>3, <2>4, <2>5, <2>6, Appended
  <2>8. \A i \in DOMAIN mDialog : mDialog[i].sess # s
    BY <1>6, <2>1, Zenon DEF Binds, Bound
  <2>9. \A i \in DOMAIN q : i # n + 1 => i \in DOMAIN mDialog /\ i < n + 1
    BY <2>7
  <2>10. ASSUME NEW i \in DOMAIN mDialog PROVE mDialog[i].at \in Nat /\ mDialog[i].at <= now
    <3>1. mDialog[i].at \in Nat /\ mDialog[i].at <= mCurrentTime
      BY <1>1, <1>2, BindingFields, Zenon DEF UpTo
    <3> QED
      BY <1>1, <3>1
  <2>11. Sorted(q)
    <3> SUFFICES ASSUME NEW i \in DOMAIN q, NEW j \in DOMAIN q, i < j PROVE q[i].at <= q[j].at
      BY Zenon DEF Sorted
    <3>1. i \in DOMAIN mDialog /\ i # n + 1
      BY <2>7
    <3>2. CASE j = n + 1
      BY <2>4, <2>7, <2>10, <3>1, <3>2, Zenon
    <3>3. CASE j # n + 1
      BY <1>1, <2>7, <2>9, <3>1, <3>3, Zenon DEF Sorted
    <3> QED
      BY <3>2, <3>3, Zenon
  <2>12. Unique(q)
    <3> SUFFICES ASSUME NEW i \in DOMAIN q, NEW j \in DOMAIN q, q[i].sess = q[j].sess PROVE i = j
      BY Zenon DEF Unique
    <3>1. CASE i = n + 1 \/ j = n + 1
      BY <2>4, <2>7, <2>8, <2>9, <3>1, Zenon
    <3>2. CASE i # n + 1 /\ j # n + 1
      BY <1>1, <2>7, <2>9, <3>2, Zenon DEF Unique
    <3> QED
      BY <3>1, <3>2, Zenon
  <2>13. UpTo(q, now)
    <3> SUFFICES ASSUME NEW i \in DOMAIN q PROVE q[i].at <= now
      BY Zenon DEF UpTo
    <3>1. CASE i = n + 1
      BY <1>1, <2>4, <2>7, <3>1
    <3>2. CASE i # n + 1
      BY <2>7, <2>9, <2>10, <3>2, Zenon
    <3> QED
      BY <3>1, <3>2, Zenon
  <2>14. lastUse' \in [Sessions -> Nat] /\ lastUse'[s] = now
         /\ \A t \in Sessions \ {s} : lastUse'[t] = lastUse[t]
    BY <1>1, <2>3, Zenon
  <2>15. Used(q, lastUse')
    <3> SUFFICES ASSUME NEW i \in DOMAIN q, q[i].tiid > 0 PROVE lastUse'[q[i].sess] <= q[i].at + 1
      BY Zenon DEF Used
    <3>1. CASE i = n + 1
      BY <1>1, <2>4, <2>7, <2>14, <3>1
    <3>2. CASE i # n + 1
      <4>1. i \in DOMAIN mDialog /\ q[i] = mDialog[i] /\ mDialog[i].sess \in Sessions \ {s}
        BY <1>2, <2>7, <2>8, <2>9, <3>2, BindingFields, Zenon
      <4> QED
        BY <1>1, <2>14, <4>1, Zenon DEF Used
    <3> QED
      BY <3>1, <3>2, Zenon
  <2>16. ASSUME NEW t \in Sessions, Found(t) PROVE Found(t)'
    <3>1. PICK j \in DOMAIN mDialog : mDialog[j].sess = t /\ mDialog[j].tiid > 0
      BY <2>16, Zenon DEF Found
    <3>2. j \in DOMAIN q /\ q[j] = mDialog[j]
      BY <2>7
    <3> QED
      BY <2>5, <3>1, <3>2, Zenon DEF Found
  <2> QED
    BY <1>4, <1>6, <2>5, <2>7, <2>11, <2>12, <2>13, <2>14, <2>15, <2>16, Zenon
<1>7. CASE ~LooksUp(x) /\ ~(Binds(x) /\ c # 0)
  <2>1. mDialog' = mDialog /\ lastUse' = lastUse
    BY <1>7, Zenon DEF DialogStep, dialogVars
  <2>2. UpTo(mDialog, now)
    <3> SUFFICES ASSUME NEW i \in DOMAIN mDialog PROVE mDialog[i].at <= now
      BY Zenon DEF UpTo
    <3>1. mDialog[i].at \in Nat /\ mDialog[i].at <= mCurrentTime
      BY <1>1, <1>2, BindingFields, Zenon DEF UpTo
    <3> QED
      BY <1>1, <3>1
  <2>3. \A s \in Sessions : Found(s)' <=> Found(s)
    BY <2>1, Zenon DEF Found
  <2> QED
    BY <1>1, <1>4, <1>7, <2>1, <2>2, <2>3, Zenon
<1> QED
  BY <1>5, <1>6, <1>7, Zenon

-----------------------------------------------------------------------------
(* What a pass of the kernel does, by the variables it changes *)

DeliveryStep(m, x) ==
  \/ Free(m) /\ UNCHANGED <<rx, got>>
  \/ x.type = "other" /\ UNCHANGED freed /\ \E c \in Containers : Give(m, {c})
  \/ x.type = "multicast" /\ x.task \in Tasks /\ Free(m) /\ Give(m, Hosted(x.task))
  \/ x.type = "broadcast" /\ Free(m) /\ Give(m, Containers)
  \/ x.type = "multicast" /\ x.task \notin Tasks /\ freed' = [freed EXCEPT ![m] = @ + 2] /\ UNCHANGED <<rx, got>>

DialogsStep(x) ==
  \/ (x.type = "other" => shutdown \/ x.task \notin Tasks) /\ UNCHANGED dialogVars
  \/ \E c \in Nat : DialogStep(x, c)

BalanceStep(x) ==
  \/ UNCHANGED balanceVars
  \/ /\ x.task \in Tasks /\ load' = [load EXCEPT ![x.task] = [k \in DOMAIN @ |-> @[k] + 1]]
     /\ UNCHANGED <<instpos, count, weight, blocked>>
  \/ /\ x.task \in Tasks
     /\ \E j \in Open(x.task) : (\A i \in Open(x.task) : j <= i) /\ Choose(x.task, j)

LEMMA TaskFacts ==
  ASSUME NEW t \in Tasks
  PROVE  /\ Hosts[t] \in Seq(Containers) /\ Len(Hosts[t]) \in Nat \ {0}
         /\ \A k \in Insts(t) : Hosts[t][k] \in Containers
         /\ Hosted(t) \subseteq Containers /\ Containers \subseteq Nat \ {0} /\ 0 \notin Tasks
<1>1. /\ Hosts[t] \in Seq(Containers) /\ Hosts[t] # <<>> /\ Containers \subseteq Nat \ {0}
      /\ 0 \notin Tasks
  BY SelectorAssumption, Zenon
<1>2. Len(Hosts[t]) \in Nat \ {0} /\ DOMAIN Hosts[t] = 1..Len(Hosts[t])
  BY <1>1
<1>3. \A k \in 1..Len(Hosts[t]) : Hosts[t][k] \in Containers
  BY <1>1, <1>2
<1> QED
  BY <1>1, <1>2, <1>3, Zenon DEF Insts, Hosted, Range

LEMMA Wraps ==
  ASSUME NEW L \in Nat, NEW p \in 0..L - 1, NEW j \in 1..L,
         NEW a, a = IF p + j >= L THEN p + j - L ELSE p + j
  PROVE  a \in Nat /\ a < L /\ a + 1 \in 1..L
OBVIOUS

LEMMA AfterType ==
  ASSUME TypeOK, NEW t \in Tasks, NEW j \in Insts(t)
  PROVE  After(t, j) \in Nat /\ After(t, j) < Len(Hosts[t]) /\ After(t, j) + 1 \in Insts(t)
<1>1. instpos[t] \in Nat /\ instpos[t] < Len(Hosts[t]) /\ Len(Hosts[t]) \in Nat
  BY TaskFacts, Zenon DEF TypeOK
<1>2. j \in 1..Len(Hosts[t])
  BY Zenon DEF Insts
<1>3. After(t, j) = IF instpos[t] + j >= Len(Hosts[t]) THEN instpos[t] + j - Len(Hosts[t]) ELSE instpos[t] + j
  BY <1>1, <1>2 DEF After
<1>4. After(t, j) \in Nat /\ After(t, j) < Len(Hosts[t])
  BY <1>1, <1>2, <1>3, Wraps, SMTT(60)
<1> QED
  BY <1>1, <1>4 DEF Insts

LEMMA Routes ==
  ASSUME TypeOK, QueueInv, Route
  PROVE  \E m \in Ids : \E x \in Inputs :
           /\ m \in 1..Len(shape) /\ x = shape[m] /\ x \in Shapes
           /\ NotStarted(m) \/ Add(m, x)
           /\ m \in Nat /\ Range(mFifo) = Range(mFifo') \cup {m} /\ m \notin Range(mFifo')
           /\ Rising(mFifo') /\ mFifo' \in Seq(Nat)
           /\ pc = "get" /\ pc' = "top" /\ now' = now /\ mCurrentTime' = mCurrentTime
           /\ shutdown' = shutdown /\ shape' = shape
<1>1. /\ mFifo \in Seq(Nat) /\ mFifo # <<>> /\ mFifo' = Tail(mFifo) /\ pc = "get" /\ pc' = "top"
      /\ now' = now /\ mCurrentTime' = mCurrentTime /\ shutdown' = shutdown /\ shape' = shape
  BY Zenon DEF Route, Take, TypeOK
<1>2. PICK m \in {Head(mFifo)} : NotStarted(m) \/ \E x \in {shape[m]} : Add(m, x)
  BY Zenon DEF Route
<1>3. /\ Rising(mFifo') /\ mFifo' \in Seq(Nat) /\ m \in Nat
      /\ Range(mFifo) = Range(mFifo') \cup {m} /\ m \notin Range(mFifo')
  BY <1>1, RisingQueue DEF QueueInv
<1>4. m \in 1..Len(shape) /\ Len(shape) \in Nat /\ Len(shape) <= MaxMsgs /\ DOMAIN shape = 1..Len(shape)
  BY <1>3 DEF QueueInv, TypeOK
<1>5. PICK x : x = shape[m]
  BY Zenon
<1>6. x \in Inputs /\ x \in Shapes
  BY <1>4, <1>5, SelectorAssumption, Zenon DEF QueueInv
<1>7. NotStarted(m) \/ Add(m, x)
  <2>1. CASE NotStarted(m)
    BY <2>1, Zenon
  <2>2. CASE \E y \in {shape[m]} : Add(m, y)
    <3>1. PICK y \in {shape[m]} : Add(m, y)
      BY <2>2, Zenon
    <3> QED
      BY <1>5, <3>1, Zenon
  <2> QED
    BY <1>2, <2>1, <2>2, Zenon
<1>8. m \in Ids
  BY <1>4, SelectorAssumption DEF Ids
<1> QED
  BY <1>1, <1>3, <1>4, <1>5, <1>6, <1>7, <1>8, Zenon

LEMMA PassSteps ==
  ASSUME TypeOK, NEW m \in Ids, NEW x \in Shapes, NotStarted(m) \/ Add(m, x)
  PROVE  DeliveryStep(m, x) /\ DialogsStep(x) /\ BalanceStep(x)
<1>1. CASE NotStarted(m)
  BY <1>1, Zenon DEF NotStarted, DeliveryStep, DialogsStep, BalanceStep
<1>2. CASE Add(m, x) /\ x.type = "broadcast"
  <2>1. BroadcastMsgToTask(m)
    BY <1>2, Zenon DEF Add
  <2> QED
    BY <1>2, <2>1, Zenon DEF BroadcastMsgToTask, DeliveryStep, DialogsStep, BalanceStep
<1>3. CASE Add(m, x) /\ x.type = "multicast"
  <2>1. MulticastMsgToTask(m, x)
    BY <1>3, Zenon DEF Add
  <2>2. DialogsStep(x)
    BY <1>3, <2>1, Zenon DEF MulticastMsgToTask, DialogsStep, dialogVars
  <2>3. CASE x.task \in Tasks
    BY <1>3, <2>1, <2>2, <2>3, Zenon DEF MulticastMsgToTask, DeliveryStep, BalanceStep
  <2>4. CASE x.task \notin Tasks
    <3>1. /\ freed' = [freed EXCEPT ![m] = @ + 2] /\ UNCHANGED <<load, rx, got>>
          /\ UNCHANGED <<instpos, count, weight, blocked>>
      BY <2>1, <2>4, Zenon DEF MulticastMsgToTask
    <3>2. DeliveryStep(m, x)
      BY <1>3, <2>4, <3>1, Zenon DEF DeliveryStep
    <3>3. BalanceStep(x)
      BY <3>1, Zenon DEF BalanceStep, balanceVars
    <3> QED
      BY <2>2, <3>2, <3>3, Zenon
  <2> QED
    BY <2>3, <2>4, Zenon
<1>4. CASE Add(m, x) /\ x.type # "broadcast" /\ x.type # "multicast"
  <2>1. SendMsgToTask(m, x) /\ x.type = "other" /\ x.to \in Nat
    BY <1>4, Zenon DEF Add, Shapes, MsgTypes
  <2>2. CASE x.task \notin Tasks
    BY <2>1, <2>2, Zenon DEF SendMsgToTask, DeliveryStep, DialogsStep, BalanceStep
  <2>3. CASE x.task \in Tasks /\ ToNamed(m, x)
    <3>1. BalanceStep(x)
      BY <2>3, Zenon DEF ToNamed, BalanceStep
    <3>2. DialogsStep(x)
      BY <2>1, <2>3, Zenon DEF ToNamed, DialogsStep
    <3>3. DeliveryStep(m, x)
      BY <2>1, <2>3, Zenon DEF ToNamed, DeliveryStep
    <3> QED
      BY <3>1, <3>2, <3>3, Zenon
  <2>4. CASE x.task \in Tasks /\ ToOnlyInst(m, x)
    <3>1. PICK c : c = Hosts[x.task][1]
      BY Zenon
    <3>2. c \in Containers /\ c \in Nat
      BY <2>4, <3>1, TaskFacts DEF Insts, ToOnlyInst
    <3>3. Give(m, {c}) /\ DialogStep(x, c) /\ UNCHANGED <<balanceVars, freed>>
      BY <2>4, <3>1, Zenon DEF ToOnlyInst
    <3> QED
      BY <2>1, <3>2, <3>3, Zenon DEF DeliveryStep, DialogsStep, BalanceStep
  <2>5. CASE x.task \in Tasks /\ ToNextInst(m, x)
    <3>1. CASE Open(x.task) = {} /\ Free(m) /\ DialogStep(x, 0) /\ UNCHANGED <<balanceVars, rx, got>>
      BY <3>1, Zenon DEF DeliveryStep, DialogsStep, BalanceStep
    <3>2. CASE \E j \in Open(x.task) :
                 LET c == Hosts[x.task][After(x.task, j) + 1]
                 IN /\ \A i \in Open(x.task) : j <= i
                    /\ Choose(x.task, j) /\ Give(m, {c}) /\ DialogStep(x, c) /\ UNCHANGED freed
      <4>1. PICK j \in Open(x.task) :
                 LET c == Hosts[x.task][After(x.task, j) + 1]
                 IN /\ \A i \in Open(x.task) : j <= i
                    /\ Choose(x.task, j) /\ Give(m, {c}) /\ DialogStep(x, c) /\ UNCHANGED freed
        BY <3>2, Zenon
      <4>2. PICK c : c = Hosts[x.task][After(x.task, j) + 1]
        BY Zenon
      <4>3. j \in Insts(x.task)
        BY Zenon DEF Open
      <4>4. c \in Containers /\ c \in Nat
        BY <2>5, <4>2, <4>3, AfterType, TaskFacts, Zenon
      <4>5. /\ \A i \in Open(x.task) : j <= i
            /\ Choose(x.task, j) /\ UNCHANGED freed
        BY <4>1, Zenon
      <4>6. Give(m, {c})
        BY <4>1, <4>2, Zenon DEF Give
      <4>7. DialogStep(x, c)
        BY <4>1, <4>2, Zenon DEF DialogStep, Binding
      <4>8. DeliveryStep(m, x) /\ DialogsStep(x)
        BY <2>1, <4>4, <4>5, <4>6, <4>7, Zenon DEF DeliveryStep, DialogsStep
      <4>9. BalanceStep(x)
        BY <2>5, <4>5, Zenon DEF BalanceStep
      <4> QED
        BY <4>8, <4>9, Zenon
    <3> QED
      BY <2>5, <3>1, <3>2, Zenon DEF ToNextInst
  <2> QED
    BY <2>1, <2>2, <2>3, <2>4, <2>5, Zenon DEF SendMsgToTask
<1> QED
  BY <1>1, <1>2, <1>3, <1>4, Zenon

-----------------------------------------------------------------------------
(* What a pass preserves *)

LEMMA DeliveryType ==
  ASSUME TypeOK, NEW m \in Ids, NEW x, DeliveryStep(m, x)
  PROVE  rx' \in [Containers -> Seq(Nat)] /\ got' \in [Ids -> [Containers -> Nat]] /\ freed' \in [Ids -> Nat]
<1>1. /\ rx \in [Containers -> Seq(Nat)] /\ got \in [Ids -> [Containers -> Nat]] /\ freed \in [Ids -> Nat]
      /\ m \in Nat
  BY DEF TypeOK, Ids
<1>2. ASSUME NEW C, Give(m, C)
      PROVE  rx' \in [Containers -> Seq(Nat)] /\ got' \in [Ids -> [Containers -> Nat]]
  BY <1>1, <1>2 DEF Give
<1>3. Free(m) => freed' \in [Ids -> Nat]
  BY <1>1 DEF Free
<1>4. CASE Free(m) /\ UNCHANGED <<rx, got>>
  BY <1>1, <1>3, <1>4, Zenon
<1>5. CASE UNCHANGED freed /\ \E c \in Containers : Give(m, {c})
  BY <1>1, <1>2, <1>5, Zenon
<1>6. CASE Free(m) /\ Give(m, Hosted(x.task))
  BY <1>2, <1>3, <1>6, Zenon
<1>7. CASE Free(m) /\ Give(m, Containers)
  BY <1>2, <1>3, <1>7, Zenon
<1>8. CASE freed' = [freed EXCEPT ![m] = @ + 2] /\ UNCHANGED <<rx, got>>
  BY <1>1, <1>8
<1> QED
  BY <1>4, <1>5, <1>6, <1>7, <1>8, Zenon DEF DeliveryStep

(* The functions of tasks that getTask, the multicast and balanceCheck change. *)
BalanceType ==
  /\ instpos \in [Tasks -> Nat] /\ count \in [Tasks -> Nat] /\ blocked \subseteq Tasks
  /\ weight = [t \in Tasks |-> weight[t]] /\ load = [t \in Tasks |-> load[t]]
  /\ \A t \in Tasks : /\ instpos[t] < Len(Hosts[t])
                      /\ weight[t] \in [Insts(t) -> {0, 1}] /\ load[t] \in [Insts(t) -> Nat]

(* Round robin gives the instance after the last one the next message. *)
LEMMA ChooseOK ==
  ASSUME TypeOK, EvenInv, NEW t \in Tasks, NEW j \in Open(t), \A i \in Open(t) : j <= i, Choose(t, j)
  PROVE  BalanceType' /\ EvenInv'
<1>1. BalanceType
  BY Zenon DEF TypeOK, BalanceType
<1>2. PICK a : a = After(t, j)
  BY Zenon
<1>3. j \in Insts(t) /\ a \in Nat /\ a < Len(Hosts[t]) /\ a + 1 \in Insts(t)
  BY <1>2, AfterType, Zenon DEF Open
<1>4. /\ instpos' = [instpos EXCEPT ![t] = a] /\ load' = [load EXCEPT ![t][a + 1] = @ + 1]
      /\ blocked' = blocked \cup {u \in Tasks : \E k \in Insts(u) : weight'[u][k] = 1}
  BY <1>2, Zenon DEF Choose
<1>5. \/ BalanceCheck(t) /\ count' = [count EXCEPT ![t] = 0]
      \/ UNCHANGED weight /\ count' = [count EXCEPT ![t] = @ + 1]
  BY Zenon DEF Choose
<1>6. count' \in [Tasks -> Nat]
  <2>1. count \in [Tasks -> Nat]
    BY <1>1, Zenon DEF BalanceType
  <2>2. count' = [count EXCEPT ![t] = 0] \/ count' = [count EXCEPT ![t] = @ + 1]
    BY <1>5, Zenon
  <2> QED
    BY <2>1, <2>2
<1>7. weight' = [u \in Tasks |-> weight'[u]] /\ \A u \in Tasks : weight'[u] \in [Insts(u) -> {0, 1}]
  <2>1. CASE UNCHANGED weight
    BY <1>1, <2>1, Zenon DEF BalanceType
  <2>2. CASE BalanceCheck(t)
    <3>1. PICK w : w \in [Insts(t) -> {0, 1}] /\ weight' = [weight EXCEPT ![t] = w]
      BY <2>2, Zenon DEF BalanceCheck
    <3> QED
      BY <1>1, <3>1, Zenon DEF BalanceType
  <2> QED
    BY <1>5, <2>1, <2>2, Zenon
<1>8. instpos' \in [Tasks -> Nat] /\ instpos'[t] = a /\ \A u \in Tasks \ {t} : instpos'[u] = instpos[u]
  BY <1>1, <1>3, <1>4, Zenon DEF BalanceType
<1>9. /\ load' = [u \in Tasks |-> load'[u]] /\ load'[t] = [load[t] EXCEPT ![a + 1] = @ + 1]
      /\ \A u \in Tasks \ {t} : load'[u] = load[u]
  BY <1>1, <1>4, Zenon DEF BalanceType
<1>10. load'[t] \in [Insts(t) -> Nat] /\ load'[t][a + 1] = load[t][a + 1] + 1
       /\ \A k \in Insts(t) \ {a + 1} : load'[t][k] = load[t][k]
  BY <1>1, <1>3, <1>9 DEF BalanceType
<1>11. blocked' \subseteq Tasks
  BY <1>1, <1>4, Zenon DEF BalanceType
<1>12. BalanceType'
  <2>1. ASSUME NEW u \in Tasks
        PROVE  /\ instpos'[u] < Len(Hosts[u])
               /\ weight'[u] \in [Insts(u) -> {0, 1}] /\ load'[u] \in [Insts(u) -> Nat]
    BY <1>1, <1>3, <1>7, <1>8, <1>9, <1>10, Zenon DEF BalanceType
  <2> QED
    BY <1>6, <1>7, <1>8, <1>9, <1>11, <2>1, Zenon DEF BalanceType, Insts
<1>13. ASSUME NEW u \in Tasks, u \notin blocked' PROVE \A k \in Insts(u) : weight'[u][k] = 0
  BY <1>4, <1>7, <1>13, Zenon
<1>14. \A u \in Tasks : u \notin blocked' => u \notin blocked
  BY <1>4, Zenon
<1>15. ASSUME NEW u \in Tasks, u # t, u \notin blocked
       PROVE  \E b \in Nat : \A k \in Insts(u) :
                load'[u][k] = IF k > 1 /\ k <= instpos'[u] + 1 THEN b + 1 ELSE b
  <2>1. load'[u] = load[u] /\ instpos'[u] = instpos[u]
    BY <1>8, <1>9, <1>15, Zenon
  <2> QED
    <3>1. PICK b \in Nat : \A k \in Insts(u) :
                load[u][k] = IF k > 1 /\ k <= instpos[u] + 1 THEN b + 1 ELSE b
      BY <1>15, Zenon DEF EvenInv
    <3> QED
      BY <2>1, <3>1, Zenon
<1>16. ASSUME t \notin blocked
       PROVE  \E b \in Nat : \A k \in Insts(t) :
                load'[t][k] = IF k > 1 /\ k <= instpos'[t] + 1 THEN b + 1 ELSE b
  <2>1. \A k \in Insts(t) : weight[t][k] = 0
    BY <1>16, Zenon DEF EvenInv
  <2>2. PICK b \in Nat : \A k \in Insts(t) :
                load[t][k] = IF k > 1 /\ k <= instpos[t] + 1 THEN b + 1 ELSE b
    BY <1>16, Zenon DEF EvenInv
  <2>3. PICK L \in Nat : L = Len(Hosts[t])
    BY TaskFacts, Zenon
  <2>4. PICK p \in Nat : p = instpos[t] /\ p < L
    BY <1>1, <2>3, Zenon DEF BalanceType
  <2>5. Insts(t) = 1..L
    BY <2>3, Zenon DEF Insts
  <2>6. j = 1
    <3>1. 1 \in Insts(t)
      BY <2>4, <2>5
    <3>2. 1 \in Open(t)
      BY <2>1, <3>1, AfterType, Zenon DEF Open
    <3> QED
      BY <1>3, <2>5, <3>2
  <2>7. a = IF p + 1 >= L THEN p + 1 - L ELSE p + 1
    BY <1>2, <2>3, <2>4, <2>6, SMTT(60) DEF After
  <2>8. CASE p + 1 < L
    <3>1. a = p + 1 /\ instpos'[t] = p + 1
      BY <1>8, <2>4, <2>7, <2>8
    <3>2. ASSUME NEW k \in Insts(t)
          PROVE  load'[t][k] = IF k > 1 /\ k <= instpos'[t] + 1 THEN b + 1 ELSE b
      <4>1. k \in Nat /\ load[t][k] = IF k > 1 /\ k <= p + 1 THEN b + 1 ELSE b
        BY <2>2, <2>4, <2>5
      <4>2. CASE k = p + 2
        <5>1. load[t][k] = b /\ k = a + 1
          BY <2>4, <3>1, <4>1, <4>2
        <5>2. load'[t][k] = b + 1
          BY <1>10, <5>1, Zenon
        <5> QED
          BY <2>4, <3>1, <4>2, <5>2
      <4>3. CASE k # p + 2
        <5>1. load'[t][k] = load[t][k]
          BY <1>10, <2>4, <3>1, <4>3
        <5>2. (k <= p + 1) <=> (k <= instpos'[t] + 1)
          BY <2>4, <3>1, <4>1, <4>3
        <5> QED
          BY <4>1, <5>1, <5>2, Zenon
      <4> QED
        BY <4>2, <4>3, Zenon
    <3> QED
      BY <3>2, Zenon
  <2>9. CASE p + 1 >= L
    <3>1. a = 0 /\ instpos'[t] = 0 /\ p + 1 = L
      BY <1>8, <2>4, <2>7, <2>9
    <3>2. ASSUME NEW k \in Insts(t)
          PROVE  load'[t][k] = IF k > 1 /\ k <= instpos'[t] + 1 THEN (b + 1) + 1 ELSE b + 1
      <4>1. k \in 1..L /\ load[t][k] = IF k > 1 /\ k <= p + 1 THEN b + 1 ELSE b
        BY <2>2, <2>4, <2>5, Zenon
      <4>2. ~(k > 1 /\ k <= instpos'[t] + 1)
        BY <3>1, <4>1
      <4>3. load'[t][k] = b + 1
        <5>1. CASE k = 1
          <6>1. load[t][k] = b /\ k = a + 1
            BY <3>1, <4>1, <5>1
          <6> QED
            BY <1>10, <6>1
        <5>2. CASE k # 1
          <6>1. load[t][k] = b + 1 /\ k # a + 1
            BY <3>1, <4>1, <5>2
          <6> QED
            BY <1>10, <6>1, Zenon
        <5> QED
          BY <5>1, <5>2, Zenon
      <4> QED
        BY <4>2, <4>3, Zenon
    <3>3. b + 1 \in Nat
      OBVIOUS
    <3> QED
      BY <3>2, <3>3, Zenon
  <2> QED
    BY <2>4, <2>8, <2>9
<1>17. EvenInv'
  <2>1. ASSUME NEW u \in Tasks \ blocked'
        PROVE  /\ \A k \in Insts(u) : weight'[u][k] = 0
               /\ \E b \in Nat : \A k \in Insts(u) :
                    load'[u][k] = IF k > 1 /\ k <= instpos'[u] + 1 THEN b + 1 ELSE b
    BY <1>13, <1>14, <1>15, <1>16, Zenon
  <2> QED
    BY <2>1, Zenon DEF EvenInv, Insts
<1> QED
  BY <1>12, <1>17, Zenon

(* A multicast counts once for every instance. *)
LEMMA MulticastEven ==
  ASSUME TypeOK, EvenInv, NEW t \in Tasks,
         load' = [load EXCEPT ![t] = [k \in DOMAIN @ |-> @[k] + 1]],
         UNCHANGED <<instpos, count, weight, blocked>>
  PROVE  BalanceType' /\ EvenInv'
<1>1. BalanceType
  BY Zenon DEF TypeOK, BalanceType
<1>2. /\ load' = [u \in Tasks |-> load'[u]]
      /\ load'[t] = [k \in Insts(t) |-> load[t][k] + 1]
      /\ \A u \in Tasks \ {t} : load'[u] = load[u]
  BY <1>1, Zenon DEF BalanceType
<1>3. load'[t] \in [Insts(t) -> Nat] /\ \A k \in Insts(t) : load'[t][k] = load[t][k] + 1
  BY <1>1, <1>2 DEF BalanceType
<1>4. ASSUME NEW u \in Tasks PROVE load'[u] \in [Insts(u) -> Nat]
  BY <1>1, <1>2, <1>3, Zenon DEF BalanceType
<1>5. BalanceType'
  BY <1>1, <1>2, <1>4, Zenon DEF BalanceType, Insts
<1>6. ASSUME NEW u \in Tasks \ blocked
      PROVE  /\ \A k \in Insts(u) : weight[u][k] = 0
             /\ \E b \in Nat : \A k \in Insts(u) :
                  load'[u][k] = IF k > 1 /\ k <= instpos[u] + 1 THEN b + 1 ELSE b
  <2>1. PICK b \in Nat : \A k \in Insts(u) :
                  load[u][k] = IF k > 1 /\ k <= instpos[u] + 1 THEN b + 1 ELSE b
    BY <1>6, Zenon DEF EvenInv
  <2>2. CASE u # t
    BY <1>2, <1>6, <2>1, <2>2, Zenon DEF EvenInv
  <2>3. CASE u = t
    <3>1. \A k \in Insts(t) : load'[t][k] = IF k > 1 /\ k <= instpos[t] + 1 THEN (b + 1) + 1 ELSE b + 1
      BY <1>3, <2>1, <2>3, Zenon
    <3>2. b + 1 \in Nat
      OBVIOUS
    <3> QED
      BY <1>6, <2>3, <3>1, <3>2 DEF EvenInv
  <2> QED
    BY <2>2, <2>3, Zenon
<1>7. EvenInv'
  <2> SUFFICES ASSUME NEW u \in Tasks \ blocked'
               PROVE  /\ \A k \in Insts(u) : weight'[u][k] = 0
                      /\ \E b \in Nat : \A k \in Insts(u) :
                           load'[u][k] = IF k > 1 /\ k <= instpos'[u] + 1 THEN b + 1 ELSE b
    BY Zenon DEF EvenInv, Insts
  <2>1. u \in Tasks \ blocked /\ weight' = weight /\ instpos' = instpos
    BY Zenon
  <2> QED
    BY <1>6, <2>1
<1> QED
  BY <1>5, <1>7, Zenon

LEMMA SameBalance ==
  ASSUME TypeOK, EvenInv, UNCHANGED balanceVars
  PROVE  BalanceType' /\ EvenInv'
<1>1. BalanceType
  BY Zenon DEF TypeOK, BalanceType
<1>2. BalanceType'
  BY <1>1, Zenon DEF BalanceType, balanceVars, Insts
<1>3. EvenInv'
  BY ZenonT(60) DEF EvenInv, balanceVars, Insts
<1> QED
  BY <1>2, <1>3, Zenon

LEMMA BalanceStepOK ==
  ASSUME TypeOK, EvenInv, NEW x, BalanceStep(x)
  PROVE  BalanceType' /\ EvenInv'
<1>1. CASE UNCHANGED balanceVars
  BY <1>1, SameBalance, Zenon
<1>2. CASE /\ x.task \in Tasks /\ load' = [load EXCEPT ![x.task] = [k \in DOMAIN @ |-> @[k] + 1]]
           /\ UNCHANGED <<instpos, count, weight, blocked>>
  BY <1>2, MulticastEven, Zenon
<1>3. CASE /\ x.task \in Tasks
           /\ \E j \in Open(x.task) : (\A i \in Open(x.task) : j <= i) /\ Choose(x.task, j)
  BY <1>3, ChooseOK, Zenon
<1> QED
  BY <1>1, <1>2, <1>3, Zenon DEF BalanceStep

(* A table nobody touched in this pass. *)
LEMMA SameDialogs ==
  ASSUME TypeOK, ClockInv, DialogInv, pc = "get", now' = now, pc' = "top", UNCHANGED dialogVars
  PROVE  DialogInv' /\ mDialog' \in Seq(Bindings) /\ lastUse' \in [Sessions -> Nat]
         /\ \A s \in Sessions : Found(s)' <=> Found(s)
<1>1. mDialog' = mDialog /\ lastUse' = lastUse /\ mDialog \in Seq(Bindings)
      /\ lastUse \in [Sessions -> Nat]
  BY Zenon DEF dialogVars, TypeOK
<1>2. UpTo(mDialog, now)
  <2> SUFFICES ASSUME NEW i \in DOMAIN mDialog PROVE mDialog[i].at <= now
    BY Zenon DEF UpTo
  <2>1. mDialog[i].at \in Nat /\ mDialog[i].at <= mCurrentTime
    <3>1. mDialog[i] \in Bindings
      BY <1>1
    <3> QED
      BY <3>1, BindingFields, Zenon DEF UpTo, DialogInv
  <2>2. mCurrentTime <= now /\ mCurrentTime \in Nat /\ now \in Nat
    BY DEF TypeOK, ClockInv
  <2> QED
    BY <2>1, <2>2
<1>3. DialogInv'
  BY <1>1, <1>2, Zenon DEF DialogInv
<1> QED
  BY <1>1, <1>3, Zenon DEF Found

LEMMA DialogsStepOK ==
  ASSUME TypeOK, ClockInv, DialogInv, pc = "get", now' = now, pc' = "top",
         NEW x \in Shapes, DialogsStep(x)
  PROVE  /\ mDialog' \in Seq(Bindings) /\ lastUse' \in [Sessions -> Nat] /\ DialogInv'
         /\ ~shutdown /\ x.task \in Tasks /\ x.type = "other" /\ LooksUp(x)
              => \A i \in DOMAIN mDialog' : ~Expired(mDialog'[i])
         /\ \A s \in Sessions : Found(s) => Found(s)' \/ now - lastUse[s] >= LivingTime
<1>1. CASE (x.type = "other" => shutdown \/ x.task \notin Tasks) /\ UNCHANGED dialogVars
  BY <1>1, SameDialogs, Zenon
<1>2. CASE \E c \in Nat : DialogStep(x, c)
  BY <1>2, DialogStepOK, Zenon
<1> QED
  BY <1>1, <1>2, Zenon DEF DialogsStep

(* The rest of the type invariant. *)
QueueType ==
  /\ now \in Nat /\ mCurrentTime \in Nat /\ pc \in {"top", "get"} /\ shutdown \in BOOLEAN
  /\ shape \in Seq(Shapes) /\ mFifo \in Seq(Nat) /\ Len(shape) <= MaxMsgs
  /\ rx \in [Containers -> Seq(Nat)]
  /\ got \in [Ids -> [Containers -> Nat]] /\ freed \in [Ids -> Nat]
DialogType == mDialog \in Seq(Bindings) /\ lastUse \in [Sessions -> Nat]

LEMMA TypeParts == TypeOK <=> QueueType /\ BalanceType /\ DialogType
BY Zenon DEF TypeOK, QueueType, BalanceType, DialogType

LEMMA RouteOK ==
  ASSUME IInv, Route
  PROVE  IInv' /\ \A s \in Sessions : Found(s) => Found(s)' \/ now - lastUse[s] >= LivingTime
<1>1. TypeOK /\ QueueInv /\ EvenInv /\ ClockInv /\ DialogInv
  BY Zenon DEF IInv
<1>2. PICK m \in Ids : \E x \in Inputs :
           /\ m \in 1..Len(shape) /\ x = shape[m] /\ x \in Shapes
           /\ NotStarted(m) \/ Add(m, x)
           /\ m \in Nat /\ Range(mFifo) = Range(mFifo') \cup {m} /\ m \notin Range(mFifo')
           /\ Rising(mFifo') /\ mFifo' \in Seq(Nat)
           /\ pc = "get" /\ pc' = "top" /\ now' = now /\ mCurrentTime' = mCurrentTime
           /\ shutdown' = shutdown /\ shape' = shape
  BY <1>1, Routes, Zenon
<1>3. PICK x \in Shapes : NotStarted(m) \/ Add(m, x)
  BY <1>2, Zenon
<1>4. DeliveryStep(m, x) /\ DialogsStep(x) /\ BalanceStep(x)
  BY <1>1, <1>3, PassSteps, Zenon
<1>5. BalanceType' /\ EvenInv'
  BY <1>1, <1>4, BalanceStepOK, Zenon
<1>6. /\ mDialog' \in Seq(Bindings) /\ lastUse' \in [Sessions -> Nat] /\ DialogInv'
      /\ \A s \in Sessions : Found(s) => Found(s)' \/ now - lastUse[s] >= LivingTime
  BY <1>1, <1>2, <1>4, DialogsStepOK, Zenon
<1>7. rx' \in [Containers -> Seq(Nat)] /\ got' \in [Ids -> [Containers -> Nat]] /\ freed' \in [Ids -> Nat]
  BY <1>1, <1>4, DeliveryType, Zenon
<1>8. QueueType'
  <2>1. QueueType
    BY <1>1, TypeParts, Zenon
  <2> QED
    BY <1>2, <1>7, <2>1, Zenon DEF QueueType, Ids
<1>9. TypeOK'
  <2>1. DialogType'
    BY <1>6, Zenon DEF DialogType
  <2>2. (QueueType /\ BalanceType /\ DialogType)' => TypeOK'
    BY Zenon DEF TypeOK, QueueType, BalanceType, DialogType
  <2> QED
    BY <1>5, <1>8, <2>1, <2>2, Zenon
<1>10. QueueInv'
  BY <1>1, <1>2, Zenon DEF QueueInv
<1>11. ClockInv'
  BY <1>1, <1>2, Zenon DEF ClockInv
<1> QED
  BY <1>5, <1>6, <1>9, <1>10, <1>11, Zenon DEF IInv

-----------------------------------------------------------------------------
(* The other steps *)

LEMMA TypePartsPrime ==
  ASSUME QueueType', BalanceType', DialogType'
  PROVE  TypeOK'
BY Zenon DEF TypeOK, QueueType, BalanceType, DialogType

LEMMA SendOK ==
  ASSUME IInv, NEW x \in Inputs, Send(x)
  PROVE  IInv'
<1>1. TypeOK /\ QueueInv /\ EvenInv /\ ClockInv /\ DialogInv
  BY Zenon DEF IInv
<1>2. QueueType /\ DialogType
  BY <1>1, TypeParts, Zenon
<1>3. /\ shape \in Seq(Shapes) /\ mFifo \in Seq(Nat) /\ x \in Shapes /\ Len(shape) \in Nat
      /\ DOMAIN shape = 1..Len(shape) /\ MaxMsgs \in Nat
  BY <1>2, SelectorAssumption DEF QueueType
<1>4. PICK n \in Nat : n = Len(shape) + 1
  BY <1>3
<1>5. /\ Len(shape) < MaxMsgs /\ shape' = Append(shape, x) /\ mFifo' = Append(mFifo, n)
      /\ UNCHANGED balanceVars /\ UNCHANGED dialogVars
      /\ UNCHANGED <<now, mCurrentTime, pc, shutdown, rx, got, freed>>
  BY <1>4, Zenon DEF Send, kernelVars
<1>6. /\ shape' \in Seq(Shapes) /\ DOMAIN shape' = 1..n /\ Len(shape') = n /\ shape'[n] = x
      /\ \A i \in 1..Len(shape) : shape'[i] = shape[i]
  BY <1>3, <1>4, <1>5, Appended
<1>7. mFifo' \in Seq(Nat) /\ Range(mFifo') = Range(mFifo) \cup {n}
  BY <1>3, <1>5, Appended, SMTT(60)
<1>8. \A m \in Range(mFifo) : m \in Nat /\ m < n
  BY <1>1, <1>3, <1>4 DEF QueueInv
<1>9. Rising(mFifo')
  BY <1>1, <1>3, <1>5, <1>8, RisingQueue, Zenon DEF QueueInv
<1>10. QueueInv'
  <2>1. \A m \in Range(mFifo') : m \in 1..Len(shape')
    BY <1>1, <1>3, <1>4, <1>6, <1>7 DEF QueueInv
  <2>2. ASSUME NEW i \in DOMAIN shape' PROVE shape'[i] \in Inputs
    <3>1. CASE i = n
      BY <1>6, <3>1, Zenon
    <3>2. CASE i # n
      <4>1. i \in 1..Len(shape)
        BY <1>3, <1>4, <1>6, <3>2
      <4> QED
        BY <1>1, <1>3, <1>6, <4>1, Zenon DEF QueueInv
    <3> QED
      BY <3>1, <3>2, Zenon
  <2> QED
    BY <1>9, <2>1, <2>2, Zenon DEF QueueInv
<1>11. QueueType'
  <2>1. Len(shape') <= MaxMsgs
    BY <1>3, <1>4, <1>5, <1>6
  <2> QED
    BY <1>2, <1>5, <1>6, <1>7, <2>1, Zenon DEF QueueType, Ids
<1>12. DialogType' /\ DialogInv' /\ ClockInv'
  BY <1>1, <1>2, <1>5, Zenon DEF DialogType, DialogInv, ClockInv, dialogVars
<1> QED
  BY <1>1, <1>5, <1>10, <1>11, <1>12, SameBalance, TypePartsPrime, Zenon DEF IInv

LEMMA HandleOK ==
  ASSUME IInv, NEW c \in Containers, Handle(c)
  PROVE  IInv'
<1>1. TypeOK /\ QueueInv /\ EvenInv /\ ClockInv /\ DialogInv
  BY DEF IInv
<1>2. QueueType /\ DialogType
  BY <1>1, TypeParts
<1>3. /\ rx[c] # <<>> /\ rx' = [rx EXCEPT ![c] = Tail(@)]
      /\ UNCHANGED balanceVars /\ UNCHANGED dialogVars
      /\ UNCHANGED <<now, mCurrentTime, pc, shutdown, mFifo, shape, got, freed>>
  BY Zenon DEF Handle, kernelVars
<1>4. rx' \in [Containers -> Seq(Nat)]
  <2>1. rx \in [Containers -> Seq(Nat)]
    BY <1>2, Zenon DEF QueueType
  <2>2. Tail(rx[c]) \in Seq(Nat)
    BY <1>3, <2>1
  <2> QED
    BY <1>3, <2>1, <2>2, Zenon
<1>5. QueueType'
  BY <1>2, <1>3, <1>4, Zenon DEF QueueType, Ids
<1>6. DialogType' /\ DialogInv' /\ ClockInv' /\ QueueInv'
  BY <1>1, <1>2, <1>3, Zenon DEF DialogType, DialogInv, ClockInv, QueueInv, dialogVars
<1> QED
  BY <1>1, <1>3, <1>5, <1>6, SameBalance, TypePartsPrime, Zenon DEF IInv

(* The steps that change the clock, the kernel's copy of it or its place only. *)
LEMMA ClockStepsOK ==
  ASSUME IInv, Tick \/ LoopTop \/ GetTimesOut \/ OnInit
  PROVE  IInv'
<1>1. TypeOK /\ QueueInv /\ EvenInv /\ ClockInv /\ DialogInv
  BY Zenon DEF IInv
<1>2. QueueType /\ DialogType
  BY <1>1, TypeParts, Zenon
<1>3. UNCHANGED balanceVars /\ UNCHANGED dialogVars /\ UNCHANGED <<mFifo, shape, rx, got, freed>>
  BY Zenon DEF Tick, LoopTop, GetTimesOut, OnInit
<1>4. BalanceType' /\ EvenInv' /\ QueueInv' /\ DialogType'
  BY <1>1, <1>2, <1>3, SameBalance, Zenon DEF QueueInv, DialogType, dialogVars
<1>5. now \in Nat /\ mCurrentTime \in Nat /\ pc \in {"top", "get"} /\ shutdown \in BOOLEAN
  BY <1>2, Zenon DEF QueueType
<1>6. CASE Tick
  <2>1. now' = now + 1 /\ now = mCurrentTime /\ mCurrentTime' = mCurrentTime /\ pc' = pc /\ shutdown' = shutdown
    BY <1>6, Zenon DEF Tick, kernelVars
  <2>2. QueueType' /\ ClockInv'
    BY <1>2, <1>3, <1>5, <2>1 DEF QueueType, ClockInv, Ids
  <2>3. DialogInv'
    <3>1. CASE pc = "get"
      BY <1>1, <1>3, <2>1, <3>1, Zenon DEF DialogInv, dialogVars
    <3>2. CASE pc # "get"
      <4>1. UpTo(mDialog, now + 1)
        <5> SUFFICES ASSUME NEW i \in DOMAIN mDialog PROVE mDialog[i].at <= now + 1
          BY Zenon DEF UpTo
        <5>1. mDialog[i] \in Bindings
          BY <1>2 DEF DialogType
        <5>2. mDialog[i].at \in Nat /\ mDialog[i].at <= now
          BY <1>1, <3>2, <5>1, BindingFields, Zenon DEF DialogInv, UpTo
        <5> QED
          BY <1>5, <5>2
      <4> QED
        BY <1>1, <1>3, <2>1, <3>2, <4>1, Zenon DEF DialogInv, dialogVars
    <3> QED
      BY <3>1, <3>2, Zenon
  <2> QED
    BY <1>4, <2>2, <2>3, TypePartsPrime, Zenon DEF IInv
<1>7. CASE LoopTop
  <2>1. now' = now /\ mCurrentTime' = now /\ pc = "top" /\ pc' = "get" /\ shutdown' = shutdown
    BY <1>7, Zenon DEF LoopTop
  <2>2. QueueType' /\ ClockInv'
    BY <1>2, <1>3, <1>5, <2>1, Zenon DEF QueueType, ClockInv, Ids
  <2>3. DialogInv'
    BY <1>1, <1>3, <2>1, Zenon DEF DialogInv, dialogVars
  <2> QED
    BY <1>4, <2>2, <2>3, TypePartsPrime DEF IInv
<1>8. CASE GetTimesOut \/ OnInit
  <2>1. now' = now /\ mCurrentTime' = mCurrentTime /\ pc = "get" /\ pc' = "top" /\ shutdown' \in {shutdown, FALSE}
    BY <1>8, Zenon DEF GetTimesOut, OnInit
  <2>2. QueueType' /\ ClockInv'
    BY <1>1, <1>2, <1>3, <1>5, <2>1, Zenon DEF QueueType, ClockInv, Ids
  <2>3. DialogInv'
    BY <1>1, <1>3, <2>1, SameDialogs, Zenon
  <2> QED
    BY <1>4, <2>2, <2>3, TypePartsPrime DEF IInv
<1> QED
  BY <1>6, <1>7, <1>8, Zenon

LEMMA StutterOK ==
  ASSUME IInv, UNCHANGED vars
  PROVE  IInv'
<1>1. TypeOK /\ QueueInv /\ EvenInv /\ ClockInv /\ DialogInv
  BY Zenon DEF IInv
<1>2. /\ UNCHANGED balanceVars /\ UNCHANGED dialogVars
      /\ UNCHANGED <<now, mCurrentTime, pc, shutdown, mFifo, shape, rx, got, freed>>
  BY Zenon DEF vars, kernelVars
<1>3. QueueType /\ DialogType
  BY <1>1, TypeParts, Zenon
<1>4. QueueType' /\ DialogType' /\ DialogInv' /\ ClockInv' /\ QueueInv'
  BY <1>1, <1>2, <1>3, Zenon DEF QueueType, DialogType, DialogInv, ClockInv, QueueInv, dialogVars, Ids
<1> QED
  BY <1>1, <1>2, <1>4, SameBalance, TypePartsPrime, Zenon DEF IInv

LEMMA InitInv ==
  ASSUME Init
  PROVE  IInv
<1>1. QueueType /\ DialogType
  <2>1. MaxMsgs \in Nat
    BY SelectorAssumption, Zenon
  <2> QED
    BY <2>1 DEF Init, QueueType, DialogType
<1>2. BalanceType
  <2>1. ASSUME NEW t \in Tasks
        PROVE  /\ instpos[t] < Len(Hosts[t])
               /\ weight[t] \in [Insts(t) -> {0, 1}] /\ load[t] \in [Insts(t) -> Nat]
    <3>1. Len(Hosts[t]) \in Nat \ {0}
      BY TaskFacts, Zenon
    <3> QED
      BY <3>1 DEF Init
  <2> QED
    BY <2>1, Zenon DEF Init, BalanceType
<1>3. QueueInv
  BY DEF Init, QueueInv, Rising, Range
<1>4. EvenInv
  <2> SUFFICES ASSUME NEW t \in Tasks
               PROVE  /\ \A k \in Insts(t) : weight[t][k] = 0
                      /\ \E b \in Nat : \A k \in Insts(t) :
                           load[t][k] = IF k > 1 /\ k <= instpos[t] + 1 THEN b + 1 ELSE b
    BY Zenon DEF EvenInv
  <2>1. instpos[t] = 0 /\ \A k \in Insts(t) : weight[t][k] = 0 /\ load[t][k] = 0 /\ k \in Nat
    BY DEF Init, Insts
  <2>2. \A k \in Insts(t) : load[t][k] = IF k > 1 /\ k <= instpos[t] + 1 THEN 0 + 1 ELSE 0
    BY <2>1
  <2> QED
    BY <2>1, <2>2
<1>5. ClockInv /\ DialogInv
  BY DEF Init, ClockInv, DialogInv, Sorted, Unique, UpTo, Used
<1> QED
  BY <1>1, <1>2, <1>3, <1>4, <1>5, TypeParts, Zenon DEF IInv

LEMMA NextInv ==
  ASSUME IInv, [Next]_vars
  PROVE  IInv'
<1>1. ASSUME NEW x \in Inputs, Send(x) PROVE IInv'
  BY <1>1, SendOK, Zenon
<1>2. ASSUME NEW c \in Containers, Handle(c) PROVE IInv'
  BY <1>2, HandleOK
<1>3. CASE Tick \/ LoopTop \/ GetTimesOut \/ OnInit
  BY <1>3, ClockStepsOK, Zenon
<1>4. CASE Route
  BY <1>4, RouteOK, Zenon
<1>5. CASE UNCHANGED vars
  BY <1>5, StutterOK, Zenon
<1> QED
  BY <1>1, <1>2, <1>3, <1>4, <1>5, Zenon DEF Next

-----------------------------------------------------------------------------
(* One owner for each message *)

(* What MsgHasOneOwner says of a message that is routed, if its shape is x. *)
Owned(m, x) ==
  /\ \A c \in Containers : got[m][c] <= 1
  /\ IF x.type = "other"
       THEN \/ freed[m] = 0 /\ \E c \in Containers : Receivers(m) = {c}
            \/ freed[m] = 1 /\ Receivers(m) = {}
       ELSE /\ freed[m] = 1 \/ (x.type = "multicast" /\ x.task \notin Tasks)
            /\ \/ Receivers(m) = {}
               \/ x.type = "broadcast" /\ Receivers(m) = Containers
               \/ /\ x.type = "multicast" /\ x.task \in Tasks
                  /\ Receivers(m) = Hosted(x.task)

(* A message that was with the kernel is given to containers C, once. *)
LEMMA GiveOnce ==
  ASSUME TypeOK, NEW m \in Ids, Receivers(m) = {}, NEW C \in SUBSET Containers, Give(m, C)
  PROVE  (\A c \in Containers : got'[m][c] <= 1) /\ Receivers(m)' = C
<1>1. got \in [Ids -> [Containers -> Nat]]
  BY Zenon DEF TypeOK
<1>2. \A c \in Containers : got[m][c] = 0
  BY <1>1 DEF Receivers
<1>3. got'[m] = [c \in Containers |-> got[m][c] + IF c \in C THEN 1 ELSE 0]
  BY <1>1, Zenon DEF Give
<1>4. \A c \in Containers : got'[m][c] = IF c \in C THEN 1 ELSE 0
  BY <1>2, <1>3
<1> QED
  BY <1>4 DEF Receivers

(* A pass makes the message it takes owned and touches no other message. *)
LEMMA DeliveryOwned ==
  ASSUME TypeOK, NEW m \in Ids, NEW x \in Shapes, DeliveryStep(m, x),
         freed[m] = 0, Receivers(m) = {}
  PROVE  Owned(m, x)' /\ \A n \in Ids \ {m} : freed'[n] = freed[n] /\ got'[n] = got[n]
<1>1. got \in [Ids -> [Containers -> Nat]] /\ freed \in [Ids -> Nat]
  BY Zenon DEF TypeOK
<1>2. Free(m) => freed'[m] = 1 /\ \A n \in Ids \ {m} : freed'[n] = freed[n]
  BY <1>1 DEF Free
<1>3. ASSUME NEW C \in SUBSET Containers, Give(m, C) PROVE \A n \in Ids \ {m} : got'[n] = got[n]
  BY <1>1, <1>3, Zenon DEF Give
<1>4. CASE Free(m) /\ UNCHANGED <<rx, got>>
  <2>1. Receivers(m)' = {} /\ \A c \in Containers : got'[m][c] <= 1
    BY <1>1, <1>4 DEF Receivers
  <2>2. freed'[m] = 1 /\ \A n \in Ids \ {m} : freed'[n] = freed[n] /\ got'[n] = got[n]
    BY <1>2, <1>4, Zenon
  <2>3. Owned(m, x)'
    BY <2>1, <2>2 DEF Owned
  <2> QED
    BY <2>2, <2>3, Zenon
<1>5. CASE x.type = "other" /\ UNCHANGED freed /\ \E c \in Containers : Give(m, {c})
  <2>1. PICK c \in Containers : Give(m, {c})
    BY <1>5, Zenon
  <2>2. (\A d \in Containers : got'[m][d] <= 1) /\ Receivers(m)' = {c}
    BY <2>1, GiveOnce, Zenon
  <2>3. \A n \in Ids \ {m} : got'[n] = got[n]
    BY <1>3, <2>1, Zenon
  <2> QED
    BY <1>5, <2>2, <2>3, Zenon DEF Owned
<1>6. CASE x.type = "multicast" /\ x.task \in Tasks /\ Free(m) /\ Give(m, Hosted(x.task))
  <2>1. PICK C \in SUBSET Containers : C = Hosted(x.task)
    BY <1>6, TaskFacts, Zenon
  <2>2. Give(m, C)
    BY <1>6, <2>1, Zenon
  <2>3. (\A d \in Containers : got'[m][d] <= 1) /\ Receivers(m)' = C
    BY <2>2, GiveOnce, Zenon
  <2>4. \A n \in Ids \ {m} : got'[n] = got[n]
    BY <1>3, <2>2, Zenon
  <2>5. freed'[m] = 1 /\ \A n \in Ids \ {m} : freed'[n] = freed[n]
    BY <1>2, <1>6, Zenon
  <2> QED
    <3>1. Receivers(m)' = Hosted(x.task)
      BY <2>1, <2>3, Zenon
    <3>2. Owned(m, x)'
      BY <1>6, <2>3, <2>5, <3>1 DEF Owned, Hosted, Tasks
    <3> QED
      BY <2>4, <2>5, <3>2, Zenon
<1>7. CASE x.type = "broadcast" /\ Free(m) /\ Give(m, Containers)
  <2>1. (\A d \in Containers : got'[m][d] <= 1) /\ Receivers(m)' = Containers
    BY <1>7, GiveOnce, Zenon
  <2>2. \A n \in Ids \ {m} : got'[n] = got[n]
    BY <1>3, <1>7, Zenon
  <2> QED
    <3>1. freed'[m] = 1 /\ \A n \in Ids \ {m} : freed'[n] = freed[n]
      BY <1>2, <1>7, Zenon
    <3>2. Owned(m, x)'
      BY <1>7, <2>1, <3>1 DEF Owned
    <3> QED
      BY <2>2, <3>1, <3>2, Zenon
<1>8. CASE /\ x.type = "multicast" /\ x.task \notin Tasks
           /\ freed' = [freed EXCEPT ![m] = @ + 2] /\ UNCHANGED <<rx, got>>
  <2>1. Receivers(m)' = {} /\ \A c \in Containers : got'[m][c] <= 1
    BY <1>1, <1>8 DEF Receivers
  <2>2. \A n \in Ids \ {m} : freed'[n] = freed[n] /\ got'[n] = got[n]
    BY <1>1, <1>8
  <2>3. x.type # "other"
    BY <1>8
  <2> QED
    BY <1>8, <2>1, <2>2, <2>3, Zenon DEF Owned
<1> QED
  BY <1>4, <1>5, <1>6, <1>7, <1>8, Zenon DEF DeliveryStep

LEMMA OwnerStep ==
  ASSUME IInv, MsgHasOneOwner, [Next]_vars
  PROVE  MsgHasOneOwner'
<1>1. TypeOK /\ QueueInv
  BY Zenon DEF IInv
<1>2. /\ \A m \in Ids \ Routed : freed[m] = 0 /\ Receivers(m) = {}
      /\ \A m \in Routed : Owned(m, shape[m])
  BY DEF MsgHasOneOwner, Owned, StrayMulticast
<1>3. /\ Len(shape) \in Nat /\ DOMAIN shape = 1..Len(shape) /\ shape \in Seq(Shapes) /\ mFifo \in Seq(Nat)
      /\ Len(shape) <= MaxMsgs /\ MaxMsgs \in Nat
  BY <1>1, SelectorAssumption DEF TypeOK
<1>4. Routed \subseteq Ids /\ Routed \subseteq 1..Len(shape)
  BY <1>3 DEF Routed, Ids
<1>5. SUFFICES /\ \A m \in Ids \ Routed' : freed'[m] = 0 /\ Receivers(m)' = {}
               /\ \A m \in Routed' : Owned(m, shape[m])'
  BY Zenon DEF MsgHasOneOwner, Owned, StrayMulticast, Ids, Hosted, Tasks
<1>6. CASE Routed' = Routed /\ UNCHANGED <<got, freed>> /\ \A m \in Routed : shape'[m] = shape[m]
  <2>1. ASSUME NEW m PROVE Receivers(m)' = Receivers(m)
    BY <1>6, Zenon DEF Receivers
  <2>2. ASSUME NEW m \in Routed PROVE Owned(m, shape[m])'
    BY <1>2, <1>6, <2>1, <2>2, Zenon DEF Owned, Hosted, Tasks
  <2> QED
    BY <1>2, <1>6, <2>1, <2>2, Zenon
<1>7. ASSUME NEW x \in Inputs, Send(x)
      PROVE  Routed' = Routed /\ UNCHANGED <<got, freed>> /\ \A m \in Routed : shape'[m] = shape[m]
  <2>1. PICK n \in Nat : n = Len(shape) + 1
    BY <1>3
  <2>2. shape' = Append(shape, x) /\ mFifo' = Append(mFifo, n) /\ UNCHANGED <<got, freed>> /\ x \in Shapes
    BY <1>7, <2>1, SelectorAssumption, Zenon DEF Send
  <2>3. Len(shape') = n /\ \A i \in 1..Len(shape) : shape'[i] = shape[i]
    BY <1>3, <2>1, <2>2, Appended
  <2>4. Range(mFifo') = Range(mFifo) \cup {n}
    <3>1. mFifo \in Seq(Nat) /\ mFifo' = Append(mFifo, n)
      BY <1>3, <2>2, Zenon
    <3> QED
      BY <3>1, Appended
  <2>5. \A m : m \in 1..n /\ m # n <=> m \in 1..Len(shape)
    BY <1>3, <2>1
  <2>6. Routed' = Routed
    BY <2>3, <2>4, <2>5, Zenon DEF Routed
  <2> QED
    BY <1>4, <2>2, <2>3, <2>6, Zenon
<1>8. ASSUME UNCHANGED <<mFifo, shape, got, freed>>
      PROVE  Routed' = Routed /\ UNCHANGED <<got, freed>> /\ \A m \in Routed : shape'[m] = shape[m]
  BY <1>8, Zenon DEF Routed
<1>9. CASE Route
  <2>1. PICK m \in Ids : \E x \in Inputs :
           /\ m \in 1..Len(shape) /\ x = shape[m] /\ x \in Shapes
           /\ NotStarted(m) \/ Add(m, x)
           /\ m \in Nat /\ Range(mFifo) = Range(mFifo') \cup {m} /\ m \notin Range(mFifo')
           /\ Rising(mFifo') /\ mFifo' \in Seq(Nat)
           /\ pc = "get" /\ pc' = "top" /\ now' = now /\ mCurrentTime' = mCurrentTime
           /\ shutdown' = shutdown /\ shape' = shape
    BY <1>1, <1>9, Routes, Zenon
  <2>2. PICK x \in Inputs : x = shape[m] /\ x \in Shapes /\ (NotStarted(m) \/ Add(m, x))
    BY <2>1, Zenon
  <2>3. DeliveryStep(m, x)
    BY <1>1, <2>2, PassSteps, Zenon
  <2>4. Routed' = Routed \cup {m} /\ m \notin Routed
    BY <2>1, Zenon DEF Routed
  <2>6. freed[m] = 0 /\ Receivers(m) = {}
    BY <1>2, <2>4, Zenon
  <2>7. Owned(m, x)' /\ \A n \in Ids \ {m} : freed'[n] = freed[n] /\ got'[n] = got[n]
    BY <1>1, <2>2, <2>3, <2>6, DeliveryOwned, Zenon
  <2>8. ASSUME NEW n \in Ids \ {m} PROVE Receivers(n)' = Receivers(n)
    BY <2>7, Zenon DEF Receivers
  <2>9. ASSUME NEW n \in Routed PROVE Owned(n, shape[n])'
    <3>1. n \in Ids \ {m} /\ shape' = shape
      BY <1>4, <2>1, <2>4, Zenon
    <3>2. Receivers(n)' = Receivers(n) /\ freed'[n] = freed[n] /\ got'[n] = got[n]
      BY <2>7, <2>8, <3>1, Zenon
    <3> QED
      BY <1>2, <3>1, <3>2, Zenon DEF Owned, Hosted, Tasks
  <2>10. Owned(m, shape[m])'
    BY <2>1, <2>2, <2>7, Zenon DEF Owned, Hosted, Tasks
  <2> QED
    BY <1>2, <2>4, <2>7, <2>8, <2>9, <2>10, Zenon
<1>10. (\E c \in Containers : Handle(c)) \/ Tick \/ LoopTop \/ GetTimesOut \/ OnInit \/ UNCHANGED vars
         => UNCHANGED <<mFifo, shape, got, freed>>
  BY Zenon DEF Handle, Tick, LoopTop, GetTimesOut, OnInit, vars
<1> QED
  BY <1>6, <1>7, <1>8, <1>9, <1>10, Zenon DEF Next

-----------------------------------------------------------------------------
(* The theorems *)

(* Whatever is sent, when, and whichever lengths balanceCheck reads:       *)
(* the kernel's queue is in order, an unblocked task's instances take      *)
(* turns, and the table of sessions is in the order of expiry although     *)
(* TTaskSelector pushes with time(0) and updates with mCurrentTime.        *)
THEOREM Invariance == Spec => []IInv
<1>1. Init => IInv
  BY InitInv, Zenon
<1>2. IInv /\ [Next]_vars => IInv'
  BY NextInv, Zenon
<1> QED
  BY <1>1, <1>2, PTL DEF Spec

(* No message is lost, deleted twice, or both handed to a container and    *)
(* deleted by TFRAMEControl::mainLoop; only a multicast to a task that is  *)
(* not registered may be deleted more than once.                           *)
THEOREM OneOwner == Spec => []MsgHasOneOwner
<1>1. Init => MsgHasOneOwner
  <2> SUFFICES ASSUME Init PROVE MsgHasOneOwner
    BY Zenon
  <2>1. Routed = {}
    BY DEF Init, Routed
  <2>2. \A m \in Ids : freed[m] = 0 /\ Receivers(m) = {}
    BY DEF Init, Receivers
  <2> QED
    BY <2>1, <2>2, Zenon DEF MsgHasOneOwner
<1>2. MsgHasOneOwner /\ IInv /\ [Next]_vars => MsgHasOneOwner'
  BY OwnerStep, Zenon
<1> QED
  BY <1>1, <1>2, Invariance, PTL DEF Spec

(* TTaskSelector::getTask shares a task's messages out evenly among any    *)
(* number of instances until balanceCheck blocks one of them.              *)
THEOREM EvenLoad == Spec => []LoadIsEven
<1>1. IInv => LoadIsEven
  <2> SUFFICES ASSUME IInv, NEW t \in Tasks \ blocked, NEW j \in Insts(t), NEW k \in Insts(t)
               PROVE  load[t][j] - load[t][k] <= 1
    BY Zenon DEF LoadIsEven
  <2>1. PICK b \in Nat : \A i \in Insts(t) :
          load[t][i] = IF i > 1 /\ i <= instpos[t] + 1 THEN b + 1 ELSE b
    BY Zenon DEF IInv, EvenInv
  <2>2. load[t][j] \in {b, b + 1} /\ load[t][k] \in {b, b + 1}
    BY <2>1, Zenon
  <2> QED
    BY <2>2
<1> QED
  BY <1>1, Invariance, PTL

(* A step other than a pass of the kernel leaves the table of sessions alone. *)
LEMMA OtherSteps ==
  ASSUME [Next]_vars, ~Route
  PROVE  UNCHANGED dialogVars /\ \A m : ~(IInv /\ Routing(m))
<1>1. UNCHANGED dialogVars
  BY Zenon DEF Next, Send, Handle, Tick, LoopTop, GetTimesOut, OnInit, vars
<1>2. ASSUME NEW m, IInv, Routing(m) PROVE FALSE
  <2>1. mFifo' # mFifo
    BY <1>2, Zenon DEF Routing
  <2>2. PICK x \in Inputs : Send(x)
    BY <2>1, Zenon DEF Next, Handle, Tick, LoopTop, GetTimesOut, OnInit, vars
  <2>3. mFifo \in Seq(Nat) /\ Len(shape) + 1 \in Nat
    BY <1>2 DEF IInv, TypeOK
  <2>4. PICK n \in Nat : n = Len(shape) + 1
    BY <2>3, Zenon
  <2>5. mFifo' = Append(mFifo, n)
    BY <2>2, <2>4, Zenon DEF Send
  <2>6. Range(mFifo') = Range(mFifo) \cup {n}
    BY <2>3, <2>5, Appended
  <2> QED
    BY <1>2, <2>6, Zenon DEF Routing
<1> QED
  BY <1>1, <1>2, Zenon

(* A session in use keeps its binding: CExpireBuffer::pop_old drops only   *)
(* bindings of sessions nobody asked for in their living time.             *)
THEOREM SessionsAreKept == Spec => BindingIsKept
<1>1. IInv /\ [Next]_vars =>
        [\A s \in Sessions : Found(s) /\ ~Found(s)' => now - lastUse[s] >= LivingTime]_vars
  <2> SUFFICES ASSUME IInv, [Next]_vars, NEW s \in Sessions, Found(s), ~Found(s)'
               PROVE  now - lastUse[s] >= LivingTime
    BY Zenon
  <2>1. CASE Route
    BY <2>1, RouteOK, Zenon
  <2>2. CASE ~Route
    <3>1. mDialog' = mDialog
      BY <2>2, OtherSteps, Zenon DEF dialogVars
    <3> QED
      BY <3>1, Zenon DEF Found
  <2> QED
    BY <2>1, <2>2, Zenon
<1> QED
  BY <1>1, Invariance, PTL DEF Spec, BindingIsKept

(* pop_old, which looks at the front of the list only, finds every binding *)
(* that has expired.                                                       *)
THEOREM TablesArePruned == Spec => ExpiredArePruned
<1>1. IInv /\ [Next]_vars =>
        [\A m \in Ids : /\ Routing(m) /\ ~shutdown /\ shape[m].task \in Tasks
                        /\ shape[m].type = "other" /\ LooksUp(shape[m])
                        => \A i \in DOMAIN mDialog' : ~Expired(mDialog'[i])]_vars
  <2> SUFFICES ASSUME IInv, [Next]_vars, NEW m \in Ids, Routing(m), ~shutdown, shape[m].task \in Tasks,
                      shape[m].type = "other", LooksUp(shape[m])
               PROVE  \A i \in DOMAIN mDialog' : ~Expired(mDialog'[i])
    BY Zenon
  <2>1. Route
    BY OtherSteps, Zenon
  <2>2. TypeOK /\ QueueInv /\ ClockInv /\ DialogInv
    BY Zenon DEF IInv
  <2>3. PICK n \in Ids : \E x \in Inputs :
           /\ n \in 1..Len(shape) /\ x = shape[n] /\ x \in Shapes
           /\ NotStarted(n) \/ Add(n, x)
           /\ n \in Nat /\ Range(mFifo) = Range(mFifo') \cup {n} /\ n \notin Range(mFifo')
           /\ Rising(mFifo') /\ mFifo' \in Seq(Nat)
           /\ pc = "get" /\ pc' = "top" /\ now' = now /\ mCurrentTime' = mCurrentTime
           /\ shutdown' = shutdown /\ shape' = shape
    BY <2>1, <2>2, Routes, Zenon
  <2>4. n = m
    BY <2>3, Zenon DEF Routing
  <2>5. PICK x \in Shapes : x = shape[m] /\ (NotStarted(m) \/ Add(m, x))
    BY <2>3, <2>4, Zenon
  <2>6. DialogsStep(x)
    BY <2>2, <2>5, PassSteps, Zenon
  <2>7. LooksUp(x) /\ x.type = "other" /\ x.task \in Tasks
    BY <2>5, Zenon DEF LooksUp
  <2> QED
    BY <2>2, <2>3, <2>6, <2>7, DialogsStepOK, Zenon
<1> QED
  BY <1>1, Invariance, PTL DEF Spec, ExpiredArePruned

=============================================================================
