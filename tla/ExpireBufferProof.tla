------------------------- MODULE ExpireBufferProof --------------------------
(***************************************************************************)
(* The pointers of a CExpireBuffer implement the map with expiry.          *)
(*                                                                         *)
(* An order r names the entries of the ring: r[0] and r[n + 1] are m_pTag, *)
(* r[1] to r[n] the entries from m_pHead on.  Chain(b, r) says that next   *)
(* and prev run along r and that what they link is what is allocated;      *)
(* Holds(b, L) adds m_pTail, the std::map and the list L of keys and times *)
(* along r.  What each operation does to the pointers is shown to be a cut *)
(* of r, an entry grown at its end, or both; what that makes of L is what  *)
(* ExpiringMap does.                                                       *)
(***************************************************************************)
EXTENDS ExpireBuffer, SequenceTheorems, WellFoundedInduction, TLAPS

-----------------------------------------------------------------------------
(* The operations, member by member. *)

(* A buffer is a record of the members of CExpireBuffer. *)
IsBuffer(b) ==
  b = [max |-> b.max, destroyOld |-> b.destroyOld, head |-> b.head, tail |-> b.tail,
       count |-> b.count, map |-> b.map, live |-> b.live, prev |-> b.prev, next |-> b.next,
       key |-> b.key, at |-> b.at]

(* An assignment to a member leaves the buffer a buffer. *)
LEMMA Assigned ==
  ASSUME NEW b, IsBuffer(b), NEW x
  PROVE  /\ IsBuffer([b EXCEPT !.head = x])
         /\ IsBuffer([b EXCEPT !.tail = x])
         /\ IsBuffer([b EXCEPT !.count = x])
         /\ IsBuffer([b EXCEPT !.map = x])
         /\ IsBuffer([b EXCEPT !.live = x])
         /\ IsBuffer([b EXCEPT !.prev = x])
         /\ IsBuffer([b EXCEPT !.next = x])
         /\ IsBuffer([b EXCEPT !.key = x])
         /\ IsBuffer([b EXCEPT !.at = x])
<1>1. IsBuffer([b EXCEPT !.head = x])
  BY SMT DEF IsBuffer
<1>2. IsBuffer([b EXCEPT !.tail = x])
  BY SMT DEF IsBuffer
<1>3. IsBuffer([b EXCEPT !.count = x])
  BY SMT DEF IsBuffer
<1>4. IsBuffer([b EXCEPT !.map = x])
  BY SMT DEF IsBuffer
<1>5. IsBuffer([b EXCEPT !.live = x])
  BY SMT DEF IsBuffer
<1>6. IsBuffer([b EXCEPT !.prev = x])
  BY SMT DEF IsBuffer
<1>7. IsBuffer([b EXCEPT !.next = x])
  BY SMT DEF IsBuffer
<1>8. IsBuffer([b EXCEPT !.key = x])
  BY SMT DEF IsBuffer
<1>9. IsBuffer([b EXCEPT !.at = x])
  BY SMT DEF IsBuffer
<1> QED
  BY <1>1, <1>2, <1>3, <1>4, <1>5, <1>6, <1>7, <1>8, <1>9, Zenon

(* e stands between p and m. *)
Stands(b, p, e, m) ==
  /\ b.next \in [Nodes -> Nodes] /\ b.prev \in [Nodes -> Nodes]
  /\ p \in Nodes /\ e \in Nodes /\ m \in Nodes /\ Tag \in Nodes
  /\ b.next[e] = m /\ b.prev[e] = p /\ e # p /\ e # m /\ e # Tag

(* c is b without its entry e, which stood between p and m. *)
Unlinks(b, c, p, e, m) ==
  /\ IsBuffer(c) /\ c.max = b.max /\ c.destroyOld = b.destroyOld
  /\ c.count = b.count - 1 /\ c.live = b.live \ {e}
  /\ c.key = Drop(b.key, e) /\ c.at = Drop(b.at, e)
  /\ c.next \in [Nodes -> Nodes] /\ c.prev \in [Nodes -> Nodes]
  /\ \A x \in Nodes : x # e => c.next[x] = IF x = p THEN m ELSE b.next[x]
  /\ \A x \in Nodes : x # e => c.prev[x] = IF x = m THEN p ELSE b.prev[x]

(* pop_front *)
LEMMA PopFrontUnlinks ==
  ASSUME NEW b, NEW p, NEW e, NEW m, IsBuffer(b), b.count # 0, Stands(b, p, e, m), p = Tag, e = b.head
  PROVE  LET c == PopFront(b)
         IN /\ Unlinks(b, c, p, e, m)
            /\ c.head = m
            /\ c.tail = (IF b.count = 1 THEN Tag ELSE b.tail)
            /\ c.map = Drop(b.map, b.key[e])
<1> DEFINE c == PopFront(b)
<1>1. m = b.next[e] /\ p = b.prev[e]
  BY Zenon DEF Stands
<1>2. /\ IsBuffer(c)
      /\ c.max = b.max /\ c.destroyOld = b.destroyOld
      /\ c.count = b.count - 1 /\ c.live = b.live \ {e}
      /\ c.key = Drop(b.key, e) /\ c.at = Drop(b.at, e)
      /\ c.head = m
      /\ c.tail = (IF b.count = 1 THEN Tag ELSE b.tail)
      /\ c.map = Drop(b.map, b.key[e])
      /\ c.prev = [[b.prev EXCEPT ![m] = Tag] EXCEPT ![e] = Tag]
      /\ c.next = [[b.next EXCEPT ![Tag] = m] EXCEPT ![e] = Tag]
  BY <1>1, Zenon DEF PopFront, Delete, IsBuffer
<1> HIDE DEF c
<1>3. /\ c.next \in [Nodes -> Nodes]
      /\ \A x \in Nodes : x # e => c.next[x] = IF x = p THEN m ELSE b.next[x]
  BY <1>2 DEF Stands
<1>4. /\ c.prev \in [Nodes -> Nodes]
      /\ \A x \in Nodes : x # e => c.prev[x] = IF x = m THEN p ELSE b.prev[x]
  BY <1>2 DEF Stands
<1> QED
  BY <1>2, <1>3, <1>4, Zenon DEF Unlinks, c

(* pop_back *)
LEMMA PopBackUnlinks ==
  ASSUME NEW b, NEW p, NEW e, NEW m, IsBuffer(b), b.count # 0, Stands(b, p, e, m), m = Tag, e = b.tail
  PROVE  LET c == PopBack(b)
         IN /\ Unlinks(b, c, p, e, m)
            /\ c.tail = p
            /\ c.head = (IF b.count = 1 THEN Tag ELSE b.head)
            /\ c.map = Drop(b.map, b.key[e])
<1> DEFINE c == PopBack(b)
<1>1. m = b.next[e] /\ p = b.prev[e]
  BY Zenon DEF Stands
<1>2. /\ IsBuffer(c)
      /\ c.max = b.max /\ c.destroyOld = b.destroyOld
      /\ c.count = b.count - 1 /\ c.live = b.live \ {e}
      /\ c.key = Drop(b.key, e) /\ c.at = Drop(b.at, e)
      /\ c.tail = p
      /\ c.head = (IF b.count = 1 THEN Tag ELSE b.head)
      /\ c.map = Drop(b.map, b.key[e])
      /\ c.prev = [[b.prev EXCEPT ![Tag] = p] EXCEPT ![e] = Tag]
      /\ c.next = [[b.next EXCEPT ![p] = Tag] EXCEPT ![e] = Tag]
  BY <1>1, Zenon DEF PopBack, Delete, IsBuffer
<1> HIDE DEF c
<1>3. /\ c.next \in [Nodes -> Nodes]
      /\ \A x \in Nodes : x # e => c.next[x] = IF x = p THEN m ELSE b.next[x]
  BY <1>2 DEF Stands
<1>4. /\ c.prev \in [Nodes -> Nodes]
      /\ \A x \in Nodes : x # e => c.prev[x] = IF x = m THEN p ELSE b.prev[x]
  BY <1>2 DEF Stands
<1> QED
  BY <1>2, <1>3, <1>4, Zenon DEF Unlinks, c

(* pop *)
Pops(b, c, k, p, e, m) ==
  /\ Unlinks(b, c, p, e, m)
  /\ c.tail = (IF p = Tag /\ b.count = 1 THEN Tag ELSE IF m = Tag THEN p ELSE b.tail)
  /\ c.head = (IF p = Tag THEN m ELSE IF m = Tag /\ b.count = 1 THEN Tag ELSE b.head)
  /\ c.map = Drop(b.map, k)

LEMMA PopUnlinks ==
  ASSUME NEW b, NEW k, NEW p, NEW e, NEW m, IsBuffer(b), Stands(b, p, e, m), e = b.map[k]
  PROVE  Pops(b, Pop(b, k), k, p, e, m)
<1> DEFINE c == Pop(b, k)
<1>1. m = b.next[e] /\ p = b.prev[e]
  BY Zenon DEF Stands
<1>2. /\ IsBuffer(c)
      /\ c.max = b.max /\ c.destroyOld = b.destroyOld
      /\ c.count = b.count - 1 /\ c.live = b.live \ {e}
      /\ c.key = Drop(b.key, e) /\ c.at = Drop(b.at, e)
      /\ c.tail = (IF p = Tag /\ b.count = 1 THEN Tag ELSE IF m = Tag THEN p ELSE b.tail)
      /\ c.head = (IF p = Tag THEN m ELSE IF m = Tag /\ b.count = 1 THEN Tag ELSE b.head)
      /\ c.map = Drop(b.map, k)
      /\ c.prev = [[b.prev EXCEPT ![e] = Tag] EXCEPT ![m] = p]
      /\ c.next = [[b.next EXCEPT ![e] = Tag] EXCEPT ![p] = m]
  <2>1. IsBuffer(c)
    <3>1. IsBuffer(Delete(b, e))
      BY Assigned, Zenon DEF Delete
    <3> QED
      BY <3>1, Assigned, Zenon DEF Pop
  <2>2. c.max = b.max /\ c.destroyOld = b.destroyOld
    BY <1>1, Zenon DEF Pop, Delete, IsBuffer
  <2>3. c.count = b.count - 1 /\ c.live = b.live \ {e}
    BY <1>1, Zenon DEF Pop, Delete, IsBuffer
  <2>4. c.key = Drop(b.key, e) /\ c.at = Drop(b.at, e)
    BY <1>1, Zenon DEF Pop, Delete, IsBuffer
  <2>5. c.tail = (IF p = Tag /\ b.count = 1 THEN Tag ELSE IF m = Tag THEN p ELSE b.tail)
    BY <1>1, Zenon DEF Pop, Delete, IsBuffer
  <2>6. c.head = (IF p = Tag THEN m ELSE IF m = Tag /\ b.count = 1 THEN Tag ELSE b.head)
    BY <1>1, Zenon DEF Pop, Delete, IsBuffer
  <2>7. c.map = Drop(b.map, k)
    BY <1>1, Zenon DEF Pop, Delete, IsBuffer
  <2>8. c.prev = [[b.prev EXCEPT ![e] = Tag] EXCEPT ![m] = p]
    BY <1>1, Zenon DEF Pop, Delete, IsBuffer
  <2>9. c.next = [[b.next EXCEPT ![e] = Tag] EXCEPT ![p] = m]
    BY <1>1, Zenon DEF Pop, Delete, IsBuffer
  <2> QED
    BY <2>1, <2>2, <2>3, <2>4, <2>5, <2>6, <2>7, <2>8, <2>9, Zenon
<1> HIDE DEF c
<1>3. /\ c.next \in [Nodes -> Nodes]
      /\ \A x \in Nodes : x # e => c.next[x] = IF x = p THEN m ELSE b.next[x]
  BY <1>2 DEF Stands
<1>4. /\ c.prev \in [Nodes -> Nodes]
      /\ \A x \in Nodes : x # e => c.prev[x] = IF x = m THEN p ELSE b.prev[x]
  BY <1>2 DEF Stands
<1> QED
  BY <1>2, <1>3, <1>4, Zenon DEF Pops, Unlinks, c

(* clear *)
LEMMA ClearOneUnlinks ==
  ASSUME NEW b, NEW p, NEW e, NEW m, IsBuffer(b), Stands(b, p, e, m), p = Tag, e = b.head
  PROVE  LET c == ClearOne(b)
         IN /\ Unlinks(b, c, p, e, m)
            /\ c.head = m
<1> DEFINE c == ClearOne(b)
<1>1. m = b.next[e] /\ p = b.prev[e]
  BY Zenon DEF Stands
<1>2. /\ IsBuffer(c)
      /\ c.max = b.max /\ c.destroyOld = b.destroyOld
      /\ c.count = b.count - 1 /\ c.live = b.live \ {e}
      /\ c.key = Drop(b.key, e) /\ c.at = Drop(b.at, e)
      /\ c.head = m
      /\ c.prev = [[b.prev EXCEPT ![m] = Tag] EXCEPT ![e] = Tag]
      /\ c.next = [[b.next EXCEPT ![Tag] = m] EXCEPT ![e] = Tag]
  <2>1. IsBuffer(c)
    BY Assigned, Zenon DEF ClearOne, Delete
  <2>2. c.max = b.max /\ c.destroyOld = b.destroyOld
    BY <1>1, Zenon DEF ClearOne, Delete, IsBuffer
  <2>3. c.count = b.count - 1 /\ c.live = b.live \ {e}
    BY <1>1, Zenon DEF ClearOne, Delete, IsBuffer
  <2>4. c.key = Drop(b.key, e) /\ c.at = Drop(b.at, e)
    BY <1>1, Zenon DEF ClearOne, Delete, IsBuffer
  <2>5. c.head = m
    BY <1>1, Zenon DEF ClearOne, Delete, IsBuffer
  <2>6. c.prev = [[b.prev EXCEPT ![m] = Tag] EXCEPT ![e] = Tag]
    BY <1>1, Zenon DEF ClearOne, Delete, IsBuffer
  <2>7. c.next = [[b.next EXCEPT ![Tag] = m] EXCEPT ![e] = Tag]
    BY <1>1, Zenon DEF ClearOne, Delete, IsBuffer
  <2> QED
    BY <2>1, <2>2, <2>3, <2>4, <2>5, <2>6, <2>7, Zenon
<1> HIDE DEF c
<1>3. /\ c.next \in [Nodes -> Nodes]
      /\ \A x \in Nodes : x # e => c.next[x] = IF x = p THEN m ELSE b.next[x]
  BY <1>2 DEF Stands
<1>4. /\ c.prev \in [Nodes -> Nodes]
      /\ \A x \in Nodes : x # e => c.prev[x] = IF x = m THEN p ELSE b.prev[x]
  BY <1>2 DEF Stands
<1> QED
  BY <1>2, <1>3, <1>4, Zenon DEF Unlinks, c

(* push, before it makes room *)
Pushed(b, k, e, t) ==
  LET b1 == [b EXCEPT !.live = @ \cup {e}, !.key = Put(@, e, k), !.at = Put(@, e, t),
                      !.prev[e] = b.tail, !.next[e] = Tag, !.map = Put(@, k, e)]
  IN [b1 EXCEPT !.head = IF b.count = 0 THEN e ELSE @,
                !.next[IF b.count = 0 THEN Tag ELSE b.tail] = e,
                !.tail = e, !.prev[Tag] = e, !.count = @ + 1]

(* c is b with a new entry e behind l. *)
Links(b, c, l, e, k, t) ==
  /\ IsBuffer(c) /\ c.max = b.max /\ c.destroyOld = b.destroyOld
  /\ c.tail = e /\ c.head = (IF b.count = 0 THEN e ELSE b.head)
  /\ c.count = b.count + 1 /\ c.live = b.live \cup {e}
  /\ c.map = Put(b.map, k, e) /\ c.key = Put(b.key, e, k) /\ c.at = Put(b.at, e, t)
  /\ c.next \in [Nodes -> Nodes] /\ c.prev \in [Nodes -> Nodes]
  /\ \A x \in Nodes : c.next[x] = IF x = e THEN Tag ELSE IF x = l THEN e ELSE b.next[x]
  /\ \A x \in Nodes : c.prev[x] = IF x = e THEN l ELSE IF x = Tag THEN e ELSE b.prev[x]

LEMMA PushedLinks ==
  ASSUME NEW b, NEW k, NEW e \in Nodes, NEW t, NEW l \in Nodes, IsBuffer(b),
         b.next \in [Nodes -> Nodes], b.prev \in [Nodes -> Nodes],
         l = b.tail, b.count = 0 => l = Tag, e # l, e # Tag
  PROVE  Links(b, Pushed(b, k, e, t), l, e, k, t)
<1> DEFINE c == Pushed(b, k, e, t)
<1>1. IsBuffer(c)
  <2>1. IsBuffer([b EXCEPT !.live = @ \cup {e}, !.key = Put(@, e, k), !.at = Put(@, e, t),
                           !.prev[e] = b.tail, !.next[e] = Tag, !.map = Put(@, k, e)])
    BY Assigned, Zenon
  <2>2. ASSUME NEW d, IsBuffer(d)
        PROVE  IsBuffer([d EXCEPT !.head = IF b.count = 0 THEN e ELSE @,
                                  !.next[IF b.count = 0 THEN Tag ELSE b.tail] = e,
                                  !.tail = e, !.prev[Tag] = e, !.count = @ + 1])
    BY <2>2, Assigned, Zenon
  <2> QED
    BY <2>1, <2>2, Zenon DEF Pushed
<1>2. c.max = b.max
  BY Zenon DEF Pushed, IsBuffer
<1>3. c.destroyOld = b.destroyOld
  BY Zenon DEF Pushed, IsBuffer
<1>4. c.tail = e
  BY Zenon DEF Pushed, IsBuffer
<1>5. c.head = IF b.count = 0 THEN e ELSE b.head
  BY Zenon DEF Pushed, IsBuffer
<1>6. c.count = b.count + 1
  BY Zenon DEF Pushed, IsBuffer
<1>7. c.map = Put(b.map, k, e)
  BY Zenon DEF Pushed, IsBuffer
<1>8. c.live = b.live \cup {e}
  BY Zenon DEF Pushed, IsBuffer
<1>9. c.prev = [[b.prev EXCEPT ![e] = b.tail] EXCEPT ![Tag] = e]
  BY Zenon DEF Pushed, IsBuffer
<1>10. c.next = [[b.next EXCEPT ![e] = Tag] EXCEPT ![IF b.count = 0 THEN Tag ELSE b.tail] = e]
  BY Zenon DEF Pushed, IsBuffer
<1>11. c.key = Put(b.key, e, k)
  BY Zenon DEF Pushed, IsBuffer
<1>12. c.at = Put(b.at, e, t)
  BY Zenon DEF Pushed, IsBuffer
<1>20. Tag \in Nodes
  BY Zenon DEF Nodes
<1> HIDE DEF c
<1>21. /\ c.next \in [Nodes -> Nodes]
       /\ \A x \in Nodes : c.next[x] = IF x = e THEN Tag ELSE IF x = l THEN e ELSE b.next[x]
  <2>1. l = IF b.count = 0 THEN Tag ELSE b.tail
    BY Zenon
  <2>2. c.next = [[b.next EXCEPT ![e] = Tag] EXCEPT ![l] = e]
    BY <1>10, <2>1, Zenon
  <2> QED
    BY <1>20, <2>2
<1>22. /\ c.prev \in [Nodes -> Nodes]
       /\ \A x \in Nodes : c.prev[x] = IF x = e THEN l ELSE IF x = Tag THEN e ELSE b.prev[x]
  BY <1>20, <1>9
<1> QED
  BY <1>1, <1>2, <1>3, <1>4, <1>5, <1>6, <1>7, <1>8, <1>9, <1>10, <1>11, <1>12, <1>21, <1>22, Zenon DEF Links, c

LEMMA PushIsPushed ==
  ASSUME NEW b, IsBuffer(b), NEW k, NEW e
  PROVE  LET c == Pushed(b, k, e, now)
         IN Push(b, k, e) = IF b.max > 0 /\ c.count > b.max THEN PopFront(c) ELSE c
BY Zenon DEF Pushed, Push

(* c is b with its entry e moved from between p and m to behind l. *)
Moves(b, c, p, e, m, l, t) ==
  /\ IsBuffer(c) /\ c.max = b.max /\ c.destroyOld = b.destroyOld
  /\ c.tail = e /\ c.head = (IF b.head = e THEN m ELSE b.head)
  /\ c.count = b.count /\ c.live = b.live /\ c.map = b.map /\ c.key = b.key
  /\ c.at = [b.at EXCEPT ![e] = t]
  /\ c.next \in [Nodes -> Nodes] /\ c.prev \in [Nodes -> Nodes]
  /\ \A x \in Nodes :
       c.next[x] = IF x = e THEN Tag ELSE IF x = l THEN e ELSE IF x = p THEN m ELSE b.next[x]
  /\ \A x \in Nodes :
       c.prev[x] = IF x = e THEN l ELSE IF x = Tag THEN e ELSE IF x = m THEN p ELSE b.prev[x]

(* update *)
LEMMA UpdateMoves ==
  ASSUME NEW b, NEW k, NEW t, NEW p, NEW e, NEW m, NEW l \in Nodes, IsBuffer(b), Stands(b, p, e, m),
         e = b.map[k], l = b.tail, e # l
  PROVE  Moves(b, Update(b, k, t), p, e, m, l, t)
<1> DEFINE c == Update(b, k, t)
<1>1. m = b.next[e] /\ p = b.prev[e] /\ b.map[k] # b.tail
  BY Zenon DEF Stands
<1>2. /\ IsBuffer(c)
      /\ c.max = b.max /\ c.destroyOld = b.destroyOld
      /\ c.tail = e /\ c.head = IF b.head = e THEN m ELSE b.head
      /\ c.count = b.count /\ c.map = b.map /\ c.live = b.live
      /\ c.prev = [[[b.prev EXCEPT ![m] = p] EXCEPT ![Tag] = e] EXCEPT ![e] = l]
      /\ c.next = [[[b.next EXCEPT ![p] = m] EXCEPT ![l] = e] EXCEPT ![e] = Tag]
      /\ c.key = b.key /\ c.at = [b.at EXCEPT ![e] = t]
  BY <1>1, ZenonT(40) DEF Update, IsBuffer
<1> HIDE DEF c
<1>3. /\ c.next \in [Nodes -> Nodes]
      /\ \A x \in Nodes :
           c.next[x] = IF x = e THEN Tag ELSE IF x = l THEN e ELSE IF x = p THEN m ELSE b.next[x]
  BY <1>2 DEF Stands
<1>4. /\ c.prev \in [Nodes -> Nodes]
      /\ \A x \in Nodes :
           c.prev[x] = IF x = e THEN l ELSE IF x = Tag THEN e ELSE IF x = m THEN p ELSE b.prev[x]
  BY <1>2 DEF Stands
<1> QED
  BY <1>2, <1>3, <1>4, Zenon DEF Moves, c

(* c is b with another time for its last entry. *)
Retimes(b, c, t) ==
  /\ IsBuffer(c)
  /\ c.max = b.max /\ c.destroyOld = b.destroyOld /\ c.tail = b.tail /\ c.head = b.head
  /\ c.count = b.count /\ c.map = b.map /\ c.live = b.live
  /\ c.prev = b.prev /\ c.next = b.next
  /\ c.key = b.key /\ c.at = [b.at EXCEPT ![b.tail] = t]

LEMMA UpdateRetimes ==
  ASSUME NEW b, IsBuffer(b), NEW k, NEW t, b.map[k] = b.tail
  PROVE  Retimes(b, Update(b, k, t), t)
BY Zenon DEF Retimes, Update, IsBuffer

-----------------------------------------------------------------------------
(* The ring *)

(* r lists the n entries of a ring from the head on, between two mentions of the tag. *)
Order(r, n) ==
  /\ n \in Nat /\ r \in [0..n + 1 -> Nodes]
  /\ r[0] = Tag /\ r[n + 1] = Tag
  /\ \A i, j \in 0..n : r[i] = r[j] => i = j

Ring(next, prev, r, n) ==
  /\ Order(r, n) /\ next \in [Nodes -> Nodes] /\ prev \in [Nodes -> Nodes]
  /\ \A i \in 0..n : next[r[i]] = r[i + 1] /\ prev[r[i + 1]] = r[i]

(* r without its j-th entry, and with one more at its end *)
Cut(r, n, j) == [i \in 0..n |-> IF i < j THEN r[i] ELSE r[i + 1]]
Grown(r, n, e) == [i \in 0..n + 2 |-> IF i <= n THEN r[i] ELSE IF i = n + 1 THEN e ELSE Tag]

(* The entries are told apart from each other and from the tag. *)
LEMMA OrderDistinct ==
  ASSUME NEW r, NEW n, Order(r, n)
  PROVE  /\ \A i, j \in 0..n : r[i] = r[j] => i = j
         /\ \A i, j \in 1..n + 1 : r[i] = r[j] => i = j
         /\ \A i \in 1..n : r[i] # Tag /\ r[i] \in Addrs
BY DEF Order, Nodes

LEMMA CutOrder ==
  ASSUME NEW r, NEW n, Order(r, n), NEW j \in 1..n
  PROVE  Order(Cut(r, n, j), n - 1)
<1> DEFINE q == Cut(r, n, j)
<1>1. n \in Nat /\ n - 1 \in Nat /\ q \in [0..n -> Nodes] /\ q[0] = Tag /\ q[n] = Tag
  BY DEF Order, Cut
<1>2. ASSUME NEW i \in 0..n - 1, NEW k \in 0..n - 1, q[i] = q[k]
      PROVE  i = k
  BY <1>1, <1>2, OrderDistinct DEF Cut
<1> QED
  BY <1>1, <1>2 DEF Order

(* An entry is unlinked from between its neighbours. *)
LEMMA RingCut ==
  ASSUME NEW next, NEW prev, NEW r, NEW n, Ring(next, prev, r, n), NEW j \in 1..n,
         NEW next2 \in [Nodes -> Nodes], NEW prev2 \in [Nodes -> Nodes],
         \A x \in Nodes : x # r[j] => next2[x] = IF x = r[j - 1] THEN r[j + 1] ELSE next[x],
         \A x \in Nodes : x # r[j] => prev2[x] = IF x = r[j + 1] THEN r[j - 1] ELSE prev[x]
  PROVE  Ring(next2, prev2, Cut(r, n, j), n - 1)
<1> DEFINE q == Cut(r, n, j)
<1>1. Order(r, n) /\ Order(q, n - 1) /\ n \in Nat
  <2>1. Order(r, n)
    BY Zenon DEF Ring
  <2>2. Order(q, n - 1)
    BY <2>1, CutOrder, Zenon
  <2> QED
    BY <2>1, <2>2, Zenon DEF Order
<1>2. ASSUME NEW i \in 0..n - 1
      PROVE  next2[q[i]] = q[i + 1] /\ prev2[q[i + 1]] = q[i]
  <2>1. r \in [0..n + 1 -> Nodes] /\ \A k \in 0..n : next[r[k]] = r[k + 1] /\ prev[r[k + 1]] = r[k]
    BY DEF Ring, Order
  <2>2. /\ \A k, l \in 0..n : r[k] = r[l] => k = l
        /\ \A k, l \in 1..n + 1 : r[k] = r[l] => k = l
    BY <1>1, OrderDistinct
  <2>3. CASE i < j - 1
    <3>1. q[i] = r[i] /\ q[i + 1] = r[i + 1]
      BY <1>1, <2>3 DEF Cut
    <3>2. r[i] # r[j] /\ r[i] # r[j - 1] /\ r[i + 1] # r[j] /\ r[i + 1] # r[j + 1]
      BY <1>1, <2>2, <2>3
    <3> QED
      BY <1>1, <2>1, <3>1, <3>2
  <2>4. CASE i = j - 1
    <3>1. q[i] = r[j - 1] /\ q[i + 1] = r[j + 1]
      BY <1>1, <2>4 DEF Cut
    <3>2. r[j - 1] # r[j] /\ r[j + 1] # r[j]
      BY <1>1, <2>2
    <3> QED
      BY <1>1, <2>1, <3>1, <3>2
  <2>5. CASE i > j - 1
    <3>1. q[i] = r[i + 1] /\ q[i + 1] = r[i + 2]
      BY <1>1, <2>5 DEF Cut
    <3>2. r[i + 1] # r[j] /\ r[i + 1] # r[j - 1] /\ r[i + 2] # r[j] /\ r[i + 2] # r[j + 1]
      BY <1>1, <2>2, <2>5
    <3>3. next[r[i + 1]] = r[i + 2] /\ prev[r[i + 2]] = r[i + 1]
      <4>1. i + 1 \in 0..n /\ (i + 1) + 1 = i + 2
        BY <1>1
      <4> QED
        BY <4>1, <2>1
    <3>4. r[i + 1] \in Nodes /\ r[i + 2] \in Nodes
      BY <1>1, <2>1
    <3> QED
      BY <3>1, <3>2, <3>3, <3>4
  <2> QED
    BY <1>1, <2>3, <2>4, <2>5
<1> QED
  BY <1>1, <1>2 DEF Ring

LEMMA GrownOrder ==
  ASSUME NEW r, NEW n, Order(r, n), NEW e \in Addrs, \A i \in 1..n : r[i] # e
  PROVE  Order(Grown(r, n, e), n + 1)
<1> DEFINE q == Grown(r, n, e)
<1>1. n \in Nat /\ e \in Nodes /\ Tag \in Nodes /\ e # Tag /\ r \in [0..n + 1 -> Nodes] /\ r[0] = Tag
  BY BufferAssumption DEF Order, Nodes
<1>2. q \in [0..n + 2 -> Nodes] /\ q[0] = Tag /\ q[n + 2] = Tag
  BY <1>1 DEF Grown
<1>3. \A i \in 0..n : q[i] = r[i] /\ q[i] # e
  BY <1>1 DEF Grown
<1>4. q[n + 1] = e
  BY <1>1 DEF Grown
<1>5. ASSUME NEW i \in 0..n + 1, NEW k \in 0..n + 1, q[i] = q[k]
      PROVE  i = k
  <2> HIDE DEF q
  <2>1. \A l, m \in 0..n : r[l] = r[m] => l = m
    BY OrderDistinct
  <2> QED
    BY <1>1, <1>3, <1>4, <1>5, <2>1
<1> QED
  BY <1>1, <1>2, <1>5 DEF Order

(* An entry is linked in behind the last one. *)
LEMMA RingGrown ==
  ASSUME NEW next, NEW prev, NEW r, NEW n, Ring(next, prev, r, n),
         NEW e \in Addrs, \A i \in 1..n : r[i] # e,
         NEW next2 \in [Nodes -> Nodes], NEW prev2 \in [Nodes -> Nodes],
         \A x \in Nodes : next2[x] = IF x = e THEN Tag ELSE IF x = r[n] THEN e ELSE next[x],
         \A x \in Nodes : prev2[x] = IF x = e THEN r[n] ELSE IF x = Tag THEN e ELSE prev[x]
  PROVE  Ring(next2, prev2, Grown(r, n, e), n + 1)
<1> DEFINE q == Grown(r, n, e)
<1>1. Order(r, n) /\ Order(q, n + 1) /\ n \in Nat
  <2>1. Order(r, n)
    BY Zenon DEF Ring
  <2>2. Order(q, n + 1)
    BY <2>1, GrownOrder, Zenon
  <2> QED
    BY <2>1, <2>2, Zenon DEF Order
<1>2. /\ r \in [0..n + 1 -> Nodes] /\ r[0] = Tag
      /\ \A k \in 0..n : next[r[k]] = r[k + 1] /\ prev[r[k + 1]] = r[k]
      /\ e \in Nodes /\ Tag \in Nodes /\ e # Tag
  BY BufferAssumption DEF Ring, Order, Nodes
<1>3. (\A i \in 0..n : q[i] = r[i]) /\ q[n + 1] = e /\ q[n + 2] = Tag
  BY <1>1 DEF Grown
<1>4. ASSUME NEW i \in 0..n + 1
      PROVE  next2[q[i]] = q[i + 1] /\ prev2[q[i + 1]] = q[i]
  <2>1. /\ \A k, l \in 0..n : r[k] = r[l] => k = l
        /\ \A k \in 1..n : r[k] # Tag
    BY <1>1, OrderDistinct
  <2>2. CASE i < n
    <3>1. q[i] = r[i] /\ q[i + 1] = r[i + 1]
      BY <1>1, <1>3, <2>2
    <3>2. r[i] # e /\ r[i] # r[n] /\ r[i + 1] # e /\ r[i + 1] # Tag
      BY <1>1, <1>2, <2>1, <2>2
    <3>3. r[i] \in Nodes /\ r[i + 1] \in Nodes /\ next[r[i]] = r[i + 1] /\ prev[r[i + 1]] = r[i]
      BY <1>1, <1>2, <2>2
    <3> QED
      BY <3>1, <3>2, <3>3
  <2>3. CASE i = n
    <3>1. q[i] = r[n] /\ q[i + 1] = e /\ r[n] # e /\ r[n] \in Nodes
      BY <1>1, <1>2, <1>3, <2>3
    <3> QED
      BY <1>2, <3>1
  <2>4. CASE i = n + 1
    <3>1. q[i] = e /\ q[i + 1] = Tag /\ q[n + 1] = e
      <4>1. i + 1 = n + 2
        BY <1>1, <2>4
      <4> QED
        BY <4>1, <1>3, <2>4
    <3> QED
      BY <1>2, <3>1
  <2> QED
    BY <1>1, <2>2, <2>3, <2>4
<1> QED
  BY <1>1, <1>4 DEF Ring

-----------------------------------------------------------------------------
(* The buffer along its ring *)

Linked(r, n) == {r[i] : i \in 1..n}

(* The ring of b is r, and it holds what was allocated and not deleted. *)
Chain(b, r) ==
  /\ IsBuffer(b) /\ Ring(b.next, b.prev, r, b.count) /\ b.head = r[1]
  /\ b.live = Linked(r, b.count)
  /\ DOMAIN b.key = b.live /\ b.at \in [b.live -> Nat]

(* The map knows the entries under their keys. *)
Keyed(b) ==
  /\ \A k \in DOMAIN b.map : b.map[k] \in b.live /\ b.key[b.map[k]] = k
  /\ \A x \in b.live : b.key[x] \in DOMAIN b.map /\ b.map[b.key[x]] = x

Mapped(b, r) == b.tail = r[b.count] /\ Keyed(b)

(* c is b without the j-th entry of its ring. *)
Unlinked(b, c, r, j) ==
  Unlinks(b, c, r[j - 1], r[j], r[j + 1]) /\ c.head = Cut(r, b.count, j)[1]

LEMMA CutLinked ==
  ASSUME NEW r, NEW n, Order(r, n), NEW j \in 1..n
  PROVE  Linked(Cut(r, n, j), n - 1) = Linked(r, n) \ {r[j]}
<1> DEFINE q == Cut(r, n, j)
<1>1. n \in Nat /\ \A i, k \in 0..n : r[i] = r[k] => i = k
  BY OrderDistinct DEF Order
<1>2. ASSUME NEW i \in 1..n - 1
      PROVE  q[i] \in Linked(r, n) \ {r[j]}
  <2>1. PICK k \in 1..n : q[i] = r[k] /\ k # j
    <3>1. CASE i < j
      BY <1>1, <3>1 DEF Cut
    <3>2. CASE i >= j
      BY <1>1, <3>2 DEF Cut
    <3> QED
      BY <1>1, <3>1, <3>2
  <2> QED
    BY <1>1, <2>1 DEF Linked
<1>3. ASSUME NEW k \in 1..n, r[k] # r[j]
      PROVE  \E i \in 1..n - 1 : q[i] = r[k]
  <2>1. CASE k < j
    BY <1>1, <2>1 DEF Cut
  <2>2. CASE k > j
    <3>1. k - 1 \in 1..n - 1 /\ q[k - 1] = r[k]
      BY <1>1, <2>2 DEF Cut
    <3> QED
      BY <3>1
  <2> QED
    BY <1>1, <1>3, <2>1, <2>2
<1> QED
  BY <1>2, <1>3 DEF Linked

LEMMA UnlinkedChain ==
  ASSUME NEW b, NEW c, NEW r, Chain(b, r), NEW j \in 1..b.count, Unlinked(b, c, r, j)
  PROVE  Chain(c, Cut(r, b.count, j))
<1>1. Order(r, b.count) /\ Ring(b.next, b.prev, r, b.count)
  BY Zenon DEF Chain, Ring
<1>2. Ring(c.next, c.prev, Cut(r, b.count, j), b.count - 1)
  BY <1>1, RingCut DEF Unlinked, Unlinks
<1>3. c.live = Linked(Cut(r, b.count, j), b.count - 1)
  <2>1. Linked(Cut(r, b.count, j), b.count - 1) = Linked(r, b.count) \ {r[j]}
    BY <1>1, CutLinked
  <2> QED
    BY <2>1, Zenon DEF Unlinked, Unlinks, Chain
<1>4. DOMAIN c.key = c.live
  <2>1. c.key = Drop(b.key, r[j]) /\ c.live = b.live \ {r[j]} /\ DOMAIN b.key = b.live
    BY Zenon DEF Unlinked, Unlinks, Chain
  <2> QED
    BY <2>1, SMT DEF Drop, Restrict
<1>5. c.at \in [c.live -> Nat]
  BY DEF Unlinked, Unlinks, Chain, Drop, Restrict
<1> QED
  BY <1>2, <1>3, <1>4, <1>5, Zenon DEF Chain, Unlinked, Unlinks

LEMMA UnlinkedMapped ==
  ASSUME NEW b, NEW c, NEW r, Chain(b, r), NEW j \in 1..b.count, Unlinked(b, c, r, j), Mapped(b, r),
         c.map = Drop(b.map, b.key[r[j]]), c.tail = Cut(r, b.count, j)[b.count - 1]
  PROVE  Mapped(c, Cut(r, b.count, j))
<1>1. PICK e : e = r[j]
  BY Zenon
<1>2. c.key = Drop(b.key, e) /\ c.live = b.live \ {e} /\ DOMAIN b.key = b.live /\ c.count = b.count - 1
  BY <1>1, Zenon DEF Unlinked, Unlinks, Chain
<1>3. e \in b.live
  BY <1>1 DEF Chain, Linked
<1>4. /\ DOMAIN c.map = DOMAIN b.map \ {b.key[e]}
      /\ \A k \in DOMAIN b.map : k # b.key[e] => c.map[k] = b.map[k]
  BY <1>1, SMT DEF Drop, Restrict
<1>5. \A x \in b.live : x # e => c.key[x] = b.key[x]
  BY <1>2, SMT DEF Drop, Restrict
<1>6. Keyed(b)
  BY Zenon DEF Mapped
<1>7. Keyed(c)
  BY <1>2, <1>3, <1>4, <1>5, <1>6 DEF Keyed
<1> QED
  BY <1>2, <1>7, Zenon DEF Mapped

-----------------------------------------------------------------------------
(* The operations along the ring *)

(* The ends of the ring. *)
LEMMA Ends ==
  ASSUME NEW b, NEW r, Chain(b, r)
  PROVE  /\ b.count \in Nat /\ Order(r, b.count) /\ r \in [0..b.count + 1 -> Nodes]
         /\ r[0] = Tag /\ r[b.count + 1] = Tag
         /\ b.next \in [Nodes -> Nodes] /\ b.prev \in [Nodes -> Nodes] /\ b.head = r[1]
         /\ \A i \in 0..b.count : b.next[r[i]] = r[i + 1] /\ b.prev[r[i + 1]] = r[i]
         /\ IsBuffer(b)
BY Zenon DEF Chain, Ring, Order

(* What the first and the last entry of a ring without its j-th are. *)
LEMMA CutEnds ==
  ASSUME NEW r, NEW n, Order(r, n), NEW j \in 1..n
  PROVE  /\ Cut(r, n, j)[1] = IF j = 1 THEN r[2] ELSE r[1]
         /\ Cut(r, n, j)[n - 1] = IF j = n THEN r[n - 1] ELSE r[n]
<1>1. n \in Nat
  BY DEF Order
<1> QED
  BY <1>1 DEF Cut

(* An entry stands between its neighbours. *)
LEMMA RingStands ==
  ASSUME NEW next, NEW prev, NEW r, NEW n, Ring(next, prev, r, n), NEW j \in 1..n
  PROVE  /\ r[j - 1] \in Nodes /\ r[j] \in Nodes /\ r[j + 1] \in Nodes
         /\ next[r[j]] = r[j + 1] /\ prev[r[j]] = r[j - 1]
         /\ r[j] # r[j - 1] /\ r[j] # r[j + 1] /\ r[j] # Tag
<1>1. /\ n \in Nat /\ Order(r, n) /\ r \in [0..n + 1 -> Nodes]
      /\ \A i \in 0..n : next[r[i]] = r[i + 1] /\ prev[r[i + 1]] = r[i]
  BY Zenon DEF Ring, Order
<1>2. r[j - 1] \in Nodes /\ r[j] \in Nodes /\ r[j + 1] \in Nodes
  BY <1>1
<1>3. next[r[j]] = r[j + 1] /\ prev[r[j]] = r[j - 1]
  <2>1. j \in 0..n /\ j - 1 \in 0..n /\ (j - 1) + 1 = j
    BY <1>1
  <2> QED
    BY <1>1, <2>1
<1>4. r[j] # r[j - 1] /\ r[j] # r[j + 1] /\ r[j] # Tag
  <2>1. /\ j \in 0..n /\ j - 1 \in 0..n /\ j # j - 1
        /\ j \in 1..n + 1 /\ j + 1 \in 1..n + 1 /\ j # j + 1
    BY <1>1
  <2>2. /\ \A i, k \in 0..n : r[i] = r[k] => i = k
        /\ \A i, k \in 1..n + 1 : r[i] = r[k] => i = k
        /\ \A i \in 1..n : r[i] # Tag
    BY <1>1, OrderDistinct, Zenon
  <2> QED
    BY <2>1, <2>2, Zenon
<1> QED
  BY <1>2, <1>3, <1>4, Zenon

LEMMA StandsAt ==
  ASSUME NEW b, NEW r, Chain(b, r), NEW j \in 1..b.count
  PROVE  Stands(b, r[j - 1], r[j], r[j + 1])
<1>1. /\ Ring(b.next, b.prev, r, b.count)
      /\ b.next \in [Nodes -> Nodes] /\ b.prev \in [Nodes -> Nodes] /\ Tag \in Nodes
  BY Zenon DEF Chain, Ring, Nodes
<1>2. PICK next, prev, n : next = b.next /\ prev = b.prev /\ n = b.count
  BY Zenon
<1>3. /\ r[j - 1] \in Nodes /\ r[j] \in Nodes /\ r[j + 1] \in Nodes
      /\ next[r[j]] = r[j + 1] /\ prev[r[j]] = r[j - 1]
      /\ r[j] # r[j - 1] /\ r[j] # r[j + 1] /\ r[j] # Tag
  <2>1. Ring(next, prev, r, n) /\ j \in 1..n
    BY <1>1, <1>2, Zenon
  <2> QED
    BY <2>1, RingStands
<1> QED
  BY <1>1, <1>2, <1>3, Zenon DEF Stands

(* c is b without the j-th entry of its ring and without that in its map. *)
Removes(b, c, r, j) ==
  /\ Unlinked(b, c, r, j)
  /\ c.map = Drop(b.map, b.key[r[j]]) /\ c.tail = Cut(r, b.count, j)[b.count - 1]

LEMMA RemovesFront ==
  ASSUME NEW b, NEW r, Chain(b, r), Mapped(b, r), b.count # 0
  PROVE  1 \in 1..b.count /\ Removes(b, PopFront(b), r, 1)
<1> DEFINE c == PopFront(b)
           n == b.count
<1>1. n \in Nat /\ Order(r, n) /\ r[0] = Tag /\ IsBuffer(b) /\ b.head = r[1] /\ b.tail = r[n]
  BY Ends, Zenon DEF Mapped
<1>2. 1 \in 1..n /\ 1 - 1 = 0 /\ 1 + 1 = 2
  BY <1>1
<1>3. Stands(b, r[1 - 1], r[1], r[1 + 1]) /\ r[1 - 1] = Tag
  BY <1>1, <1>2, StandsAt
<1>4. /\ Unlinks(b, c, r[1 - 1], r[1], r[1 + 1]) /\ c.head = r[1 + 1]
      /\ c.tail = (IF n = 1 THEN Tag ELSE b.tail) /\ c.map = Drop(b.map, b.key[r[1]])
  BY <1>1, <1>3, PopFrontUnlinks
<1> HIDE DEF c
<1>5. c.head = Cut(r, n, 1)[1] /\ c.tail = Cut(r, n, 1)[n - 1]
  BY <1>1, <1>2, <1>4, CutEnds
<1> QED
  BY <1>2, <1>4, <1>5, Zenon DEF Removes, Unlinked, c

LEMMA RemovesBack ==
  ASSUME NEW b, NEW r, Chain(b, r), Mapped(b, r), b.count # 0
  PROVE  b.count \in 1..b.count /\ Removes(b, PopBack(b), r, b.count)
<1> DEFINE c == PopBack(b)
           n == b.count
<1>1. n \in Nat /\ Order(r, n) /\ r[0] = Tag /\ r[n + 1] = Tag /\ IsBuffer(b) /\ b.head = r[1] /\ b.tail = r[n]
  BY Ends, Zenon DEF Mapped
<1>2. n \in 1..n
  BY <1>1
<1>3. Stands(b, r[n - 1], r[n], r[n + 1]) /\ r[n + 1] = Tag
  BY <1>1, <1>2, StandsAt
<1>4. /\ Unlinks(b, c, r[n - 1], r[n], r[n + 1]) /\ c.tail = r[n - 1]
      /\ c.head = (IF n = 1 THEN Tag ELSE b.head) /\ c.map = Drop(b.map, b.key[r[n]])
  BY <1>1, <1>3, PopBackUnlinks
<1> HIDE DEF c
<1>5. c.head = Cut(r, n, n)[1] /\ c.tail = Cut(r, n, n)[n - 1]
  BY <1>1, <1>2, <1>4, CutEnds
<1> QED
  BY <1>2, <1>4, <1>5, Zenon DEF Removes, Unlinked, c

LEMMA RemovesKey ==
  ASSUME NEW b, NEW r, Chain(b, r), Mapped(b, r), NEW j \in 1..b.count
  PROVE  Removes(b, Pop(b, b.key[r[j]]), r, j)
<1> DEFINE k == b.key[r[j]]
           c == Pop(b, k)
           n == b.count
<1>1. n \in Nat /\ Order(r, n) /\ r[0] = Tag /\ r[n + 1] = Tag /\ IsBuffer(b) /\ b.head = r[1] /\ b.tail = r[n]
  BY Ends, Zenon DEF Mapped
<1>2. Stands(b, r[j - 1], r[j], r[j + 1]) /\ b.map[k] = r[j]
  <2>1. r[j] \in b.live
    BY DEF Chain, Linked
  <2> QED
    BY <2>1, StandsAt, Zenon DEF Mapped, Keyed
<1>3. /\ Unlinks(b, c, r[j - 1], r[j], r[j + 1]) /\ c.map = Drop(b.map, k)
      /\ c.tail = (IF r[j - 1] = Tag /\ n = 1 THEN Tag ELSE IF r[j + 1] = Tag THEN r[j - 1] ELSE b.tail)
      /\ c.head = (IF r[j - 1] = Tag THEN r[j + 1] ELSE IF r[j + 1] = Tag /\ n = 1 THEN Tag ELSE b.head)
  <2>1. Pops(b, c, k, r[j - 1], r[j], r[j + 1])
    BY <1>1, <1>2, PopUnlinks, Zenon
  <2> QED
    BY <2>1, Zenon DEF Pops
<1>4. (r[j - 1] = Tag <=> j = 1) /\ (r[j + 1] = Tag <=> j = n)
  <2>1. /\ \A i \in 0..n : r[i] = r[0] => i = 0
        /\ \A i \in 1..n + 1 : r[i] = r[n + 1] => i = n + 1
    BY <1>1, OrderDistinct
  <2> QED
    BY <1>1, <2>1
<1> HIDE DEF c, k
<1>5. c.head = Cut(r, n, j)[1] /\ c.tail = Cut(r, n, j)[n - 1]
  <2>1. /\ Cut(r, n, j)[1] = IF j = 1 THEN r[2] ELSE r[1]
        /\ Cut(r, n, j)[n - 1] = IF j = n THEN r[n - 1] ELSE r[n]
    BY <1>1, CutEnds
  <2>2. c.head = IF j = 1 THEN r[2] ELSE r[1]
    BY <1>1, <1>3, <1>4
  <2>3. c.tail = IF j = n THEN r[n - 1] ELSE r[n]
    BY <1>1, <1>3, <1>4
  <2> QED
    BY <2>1, <2>2, <2>3
<1> QED
  BY <1>3, <1>5, Zenon DEF Removes, Unlinked, c, k

LEMMA GrownLinked ==
  ASSUME NEW r, NEW n \in Nat, NEW e
  PROVE  Linked(Grown(r, n, e), n + 1) = Linked(r, n) \cup {e}
<1> DEFINE q == Grown(r, n, e)
<1>1. (\A i \in 1..n : q[i] = r[i]) /\ q[n + 1] = e
  BY DEF Grown
<1>2. \A i \in 1..n + 1 : i \in 1..n \/ i = n + 1
  OBVIOUS
<1>3. \A i \in 1..n : i \in 1..n + 1
  OBVIOUS
<1>4. n + 1 \in 1..n + 1
  OBVIOUS
<1> HIDE DEF q
<1> QED
  BY <1>1, <1>2, <1>3, <1>4 DEF Linked, q

(* A push of a new entry extends the ring. *)
LEMMA LinksChain ==
  ASSUME NEW b, NEW c, NEW r, NEW e \in Addrs, NEW k, NEW t \in Nat,
         Chain(b, r), e \notin b.live, Links(b, c, r[b.count], e, k, t)
  PROVE  Chain(c, Grown(r, b.count, e))
<1> DEFINE n == b.count
           q == Grown(r, n, e)
<1>1. /\ n \in Nat /\ Ring(b.next, b.prev, r, n) /\ Order(r, n)
      /\ b.live = Linked(r, n) /\ DOMAIN b.key = b.live /\ b.at \in [b.live -> Nat] /\ b.head = r[1]
  BY Zenon DEF Chain, Ring, Order
<1>2. \A i \in 1..n : r[i] # e
  BY <1>1 DEF Linked
<1>3. Ring(c.next, c.prev, q, n + 1)
  BY <1>1, <1>2, RingGrown DEF Links
<1>4. c.live = Linked(q, n + 1)
  <2>1. Linked(q, n + 1) = Linked(r, n) \cup {e}
    BY <1>1, GrownLinked
  <2> QED
    BY <1>1, <2>1, Zenon DEF Links
<1>5. DOMAIN c.key = c.live
  <2>1. c.key = Put(b.key, e, k) /\ c.live = b.live \cup {e}
    BY Zenon DEF Links
  <2> QED
    BY <1>1, <2>1, SMT DEF Put
<1>6. c.at \in [c.live -> Nat]
  <2>1. c.at = Put(b.at, e, t) /\ c.live = b.live \cup {e}
    BY Zenon DEF Links
  <2> QED
    BY <1>1, <2>1, SMT DEF Put
<1>7. c.head = q[1]
  <2>1. c.head = (IF n = 0 THEN e ELSE b.head)
    BY Zenon DEF Links
  <2>2. q[1] = IF n = 0 THEN e ELSE r[1]
    BY <1>1 DEF Grown
  <2> QED
    BY <1>1, <2>1, <2>2, Zenon
<1> QED
  BY <1>3, <1>4, <1>5, <1>6, <1>7, Zenon DEF Chain, Links

LEMMA LinksMapped ==
  ASSUME NEW b, NEW c, NEW r, NEW e \in Addrs, NEW k, NEW t,
         Chain(b, r), Mapped(b, r), e \notin b.live, k \notin DOMAIN b.map, Links(b, c, r[b.count], e, k, t)
  PROVE  Mapped(c, Grown(r, b.count, e))
<1>1. /\ c.map = Put(b.map, k, e) /\ c.key = Put(b.key, e, k) /\ c.live = b.live \cup {e}
      /\ DOMAIN b.key = b.live /\ b.count \in Nat /\ c.count = b.count + 1 /\ c.tail = e /\ Keyed(b)
  BY Zenon DEF Links, Chain, Ring, Order, Mapped
<1>2. /\ DOMAIN c.map = DOMAIN b.map \cup {k} /\ c.map[k] = e
      /\ \A x \in DOMAIN b.map : c.map[x] = b.map[x]
  BY <1>1, SMT DEF Put
<1>3. c.key[e] = k /\ \A x \in b.live : c.key[x] = b.key[x]
  BY <1>1, SMT DEF Put
<1>4. Keyed(c)
  BY <1>1, <1>2, <1>3 DEF Keyed
<1>5. Grown(r, b.count, e)[c.count] = e
  BY <1>1 DEF Grown
<1> QED
  BY <1>1, <1>4, <1>5, Zenon DEF Mapped

(* An update moves its entry to the end of the ring. *)
Moved(r, n, j) == Grown(Cut(r, n, j), n - 1, r[j])

LEMMA RingMoved ==
  ASSUME NEW next, NEW prev, NEW r, NEW n, Ring(next, prev, r, n), NEW j \in 1..n, j # n,
         NEW next2 \in [Nodes -> Nodes], NEW prev2 \in [Nodes -> Nodes],
         \A x \in Nodes : next2[x] = IF x = r[j] THEN Tag ELSE IF x = r[n] THEN r[j]
                                     ELSE IF x = r[j - 1] THEN r[j + 1] ELSE next[x],
         \A x \in Nodes : prev2[x] = IF x = r[j] THEN r[n] ELSE IF x = Tag THEN r[j]
                                     ELSE IF x = r[j + 1] THEN r[j - 1] ELSE prev[x]
  PROVE  /\ Ring(next2, prev2, Moved(r, n, j), n)
         /\ Linked(Moved(r, n, j), n) = Linked(r, n)
         /\ Moved(r, n, j)[n] = r[j] /\ Moved(r, n, j)[1] = IF j = 1 THEN r[2] ELSE r[1]
<1> DEFINE q == Cut(r, n, j)
           next1 == [x \in Nodes |-> IF x = r[j - 1] THEN r[j + 1] ELSE next[x]]
           prev1 == [x \in Nodes |-> IF x = r[j + 1] THEN r[j - 1] ELSE prev[x]]
<1>1. /\ n \in Nat /\ n - 1 \in Nat /\ n = (n - 1) + 1 /\ Order(r, n)
      /\ next \in [Nodes -> Nodes] /\ prev \in [Nodes -> Nodes]
  <2>1. n \in Nat /\ Order(r, n) /\ next \in [Nodes -> Nodes] /\ prev \in [Nodes -> Nodes]
    BY Zenon DEF Ring, Order
  <2> QED
    BY <2>1
<1>2. r[j - 1] \in Nodes /\ r[j] \in Addrs /\ r[j + 1] \in Nodes
  BY <1>1, RingStands DEF Nodes
<1>3. next1 \in [Nodes -> Nodes] /\ prev1 \in [Nodes -> Nodes]
  BY <1>1, <1>2
<1>4. Ring(next1, prev1, q, n - 1)
  BY <1>3, RingCut, Zenon
<1>5. Linked(q, n - 1) = Linked(r, n) \ {r[j]}
  BY <1>1, CutLinked
<1>6. \A i \in 1..n - 1 : q[i] # r[j]
  <2>1. \A i \in 1..n - 1 : q[i] \in Linked(q, n - 1)
    BY Zenon DEF Linked
  <2> HIDE DEF q
  <2> QED
    BY <1>5, <2>1
<1>7. q[n - 1] = r[n] /\ q[1] = IF j = 1 THEN r[2] ELSE r[1]
  BY <1>1, CutEnds
<1> HIDE DEF q
<1>8. /\ \A x \in Nodes : next2[x] = IF x = r[j] THEN Tag ELSE IF x = q[n - 1] THEN r[j] ELSE next1[x]
      /\ \A x \in Nodes : prev2[x] = IF x = r[j] THEN q[n - 1] ELSE IF x = Tag THEN r[j] ELSE prev1[x]
  BY <1>7
<1> HIDE DEF next1, prev1
<1>9. Ring(next2, prev2, Grown(q, n - 1, r[j]), (n - 1) + 1)
  BY <1>2, <1>4, <1>6, <1>8, RingGrown
<1>10. Linked(Grown(q, n - 1, r[j]), (n - 1) + 1) = Linked(r, n)
  <2>1. Linked(Grown(q, n - 1, r[j]), (n - 1) + 1) = Linked(q, n - 1) \cup {r[j]}
    BY <1>1, GrownLinked
  <2>2. r[j] \in Linked(r, n)
    BY Zenon DEF Linked
  <2> QED
    BY <1>5, <2>1, <2>2
<1>11. Grown(q, n - 1, r[j])[n] = r[j] /\ Grown(q, n - 1, r[j])[1] = q[1]
  BY <1>1 DEF Grown
<1> QED
  BY <1>1, <1>7, <1>9, <1>10, <1>11 DEF Moved, q

LEMMA MovesChain ==
  ASSUME NEW b, NEW c, NEW r, NEW t \in Nat, Chain(b, r), Mapped(b, r), NEW j \in 1..b.count, j # b.count,
         Moves(b, c, r[j - 1], r[j], r[j + 1], r[b.count], t)
  PROVE  Chain(c, Moved(r, b.count, j)) /\ Mapped(c, Moved(r, b.count, j))
<1> DEFINE n == b.count
           q == Moved(r, n, j)
<1>1. /\ n \in Nat /\ Ring(b.next, b.prev, r, n) /\ Order(r, n) /\ b.head = r[1]
      /\ b.live = Linked(r, n) /\ DOMAIN b.key = b.live /\ b.at \in [b.live -> Nat]
  BY Zenon DEF Chain, Ring, Order
<1>2. /\ Ring(c.next, c.prev, q, n) /\ Linked(q, n) = Linked(r, n)
      /\ q[n] = r[j] /\ q[1] = IF j = 1 THEN r[2] ELSE r[1]
  BY <1>1, RingMoved, SMTT(30) DEF Moves
<1> HIDE DEF q
<1>3. /\ IsBuffer(c) /\ c.count = n /\ c.live = b.live /\ c.map = b.map /\ c.key = b.key
      /\ c.tail = r[j] /\ c.head = (IF b.head = r[j] THEN r[j + 1] ELSE b.head)
      /\ c.at = [b.at EXCEPT ![r[j]] = t]
  BY Zenon DEF Moves
<1>4. c.at \in [c.live -> Nat]
  BY <1>1, <1>3, Zenon
<1>5. c.head = q[1]
  <2>1. r[1] = r[j] <=> j = 1
    <3>1. 1 \in 0..n /\ j \in 0..n
      BY <1>1
    <3> QED
      BY <1>1, <3>1, OrderDistinct, Zenon
  <2>2. CASE j = 1
    <3>1. j + 1 = 2
      BY <2>2
    <3> QED
      BY <1>1, <1>2, <1>3, <2>1, <2>2, <3>1, Zenon
  <2>3. CASE j # 1
    BY <1>1, <1>2, <1>3, <2>1, <2>3, Zenon
  <2> QED
    BY <2>2, <2>3, Zenon
<1>6. Chain(c, q)
  BY <1>1, <1>2, <1>3, <1>4, <1>5, Zenon DEF Chain
<1>7. Keyed(c)
  BY <1>3, Zenon DEF Mapped, Keyed
<1> QED
  BY <1>2, <1>3, <1>6, <1>7, Zenon DEF Mapped, q

(* An update of the last entry only moves its time. *)
LEMMA UpdateLastChain ==
  ASSUME NEW b, NEW k, NEW r, NEW t \in Nat, Chain(b, r), Mapped(b, r), b.map[k] = b.tail
  PROVE  Retimes(b, Update(b, k, t), t) /\ Chain(Update(b, k, t), r) /\ Mapped(Update(b, k, t), r)
<1> DEFINE c == Update(b, k, t)
<1>1. IsBuffer(b) /\ b.at \in [b.live -> Nat]
  BY Zenon DEF Chain
<1>2. Retimes(b, c, t)
  BY <1>1, UpdateRetimes
<1> HIDE DEF c
<1>3. c.at \in [c.live -> Nat]
  BY <1>1, <1>2, Zenon DEF Retimes
<1>4. Chain(c, r)
  BY <1>2, <1>3, Zenon DEF Chain, Retimes
<1>5. Mapped(c, r)
  BY <1>2, Zenon DEF Mapped, Keyed, Retimes
<1> QED
  BY <1>2, <1>4, <1>5, Zenon DEF c

LEMMA UpdateKeeps ==
  ASSUME NEW b, NEW r, NEW t \in Nat, Chain(b, r), Mapped(b, r), NEW j \in 1..b.count
  PROVE  LET c == Update(b, b.key[r[j]], t)
         IN IF j = b.count THEN Retimes(b, c, t) /\ Chain(c, r) /\ Mapped(c, r)
            ELSE /\ Moves(b, c, r[j - 1], r[j], r[j + 1], r[b.count], t)
                 /\ Chain(c, Moved(r, b.count, j)) /\ Mapped(c, Moved(r, b.count, j))
<1> DEFINE k == b.key[r[j]]
           n == b.count
<1>1. r[j] \in b.live
  BY DEF Chain, Linked
<1>2. b.map[k] = r[j] /\ b.tail = r[n] /\ IsBuffer(b) /\ Order(r, n) /\ n \in Nat
  BY <1>1, Ends, Zenon DEF Mapped, Keyed
<1>3. CASE j = n
  BY <1>2, <1>3, UpdateLastChain, Zenon
<1>4. CASE j # n
  <2>1. r[j] # r[n] /\ r[n] \in Nodes
    <3>1. j \in 0..n /\ n \in 0..n /\ n \in 1..n
      BY <1>2
    <3>2. \A x, y \in 0..n : r[x] = r[y] => x = y
      BY <1>2, OrderDistinct, Zenon
    <3>3. r[n] \in Addrs
      BY <1>2, <3>1, OrderDistinct, Zenon
    <3> QED
      BY <3>1, <3>2, <3>3, <1>4, Zenon DEF Nodes
  <2>2. Stands(b, r[j - 1], r[j], r[j + 1])
    BY StandsAt
  <2> HIDE DEF k
  <2>3. Moves(b, Update(b, k, t), r[j - 1], r[j], r[j + 1], r[n], t)
    BY <1>2, <2>1, <2>2, UpdateMoves
  <2>4. Chain(Update(b, k, t), Moved(r, n, j)) /\ Mapped(Update(b, k, t), Moved(r, n, j))
    BY <1>4, <2>3, MovesChain, Zenon
  <2> QED
    BY <1>4, <2>3, <2>4, Zenon DEF k
<1> QED
  BY <1>3, <1>4, Zenon

-----------------------------------------------------------------------------
(* The operations on the list of the entries *)

Item(k, t) == [key |-> k, at |-> t]

(* The entries of the ring r. *)
Listed(b, r) == [i \in 1..b.count |-> Item(b.key[r[i]], b.at[r[i]])]

IsListed(b, r, L) == Listed(b, r) = L

(* A list of n entries without its j-th, and with one more. *)
Omit(L, n, j) == [i \in 1..n - 1 |-> IF i < j THEN L[i] ELSE L[i + 1]]
Extend(L, n, x) == [i \in 1..n + 1 |-> IF i = n + 1 THEN x ELSE L[i]]

LEMMA ListedUnlinked ==
  ASSUME NEW b, NEW c, NEW r, Chain(b, r), NEW j \in 1..b.count, Unlinked(b, c, r, j)
  PROVE  Listed(c, Cut(r, b.count, j)) = Omit(Listed(b, r), b.count, j)
<1> DEFINE n == b.count
           q == Cut(r, n, j)
<1>1. /\ n \in Nat /\ Order(r, n) /\ c.count = n - 1
      /\ c.key = Drop(b.key, r[j]) /\ c.at = Drop(b.at, r[j])
      /\ DOMAIN b.key = Linked(r, n) /\ DOMAIN b.at = Linked(r, n)
  <2>1. b.at \in [b.live -> Nat]
    BY Zenon DEF Chain
  <2>2. DOMAIN b.at = b.live
    BY <2>1
  <2> QED
    BY <2>2, Zenon DEF Chain, Ring, Order, Unlinked, Unlinks
<1>2. \A x \in Linked(r, n) : x # r[j] => c.key[x] = b.key[x] /\ c.at[x] = b.at[x]
  BY <1>1, SMT DEF Drop, Restrict
<1>3. ASSUME NEW i \in 1..n - 1
      PROVE  Item(c.key[q[i]], c.at[q[i]]) = Omit(Listed(b, r), n, j)[i]
  <2> DEFINE k == IF i < j THEN i ELSE i + 1
  <2>1. k \in 1..n /\ k # j /\ q[i] = r[k]
    BY <1>1 DEF Cut
  <2>2. Omit(Listed(b, r), n, j)[i] = Listed(b, r)[k]
    BY <1>1, Zenon DEF Omit
  <2> HIDE DEF k
  <2>3. r[k] \in Linked(r, n)
    BY <2>1, Zenon DEF Linked
  <2>4. r[k] # r[j]
    <3>1. k \in 0..n /\ j \in 0..n
      BY <1>1, <2>1
    <3> QED
      BY <1>1, <2>1, <3>1, OrderDistinct, Zenon
  <2>5. c.key[r[k]] = b.key[r[k]] /\ c.at[r[k]] = b.at[r[k]]
    BY <1>2, <2>3, <2>4, Zenon
  <2> QED
    BY <2>1, <2>2, <2>5, Zenon DEF Listed
<1> QED
  BY <1>1, <1>3, Zenon DEF Listed, Omit

LEMMA ListedLinks ==
  ASSUME NEW b, NEW c, NEW r, NEW e, NEW k, NEW t, Chain(b, r), e \notin b.live,
         Links(b, c, r[b.count], e, k, t)
  PROVE  IsListed(c, Grown(r, b.count, e), Extend(Listed(b, r), b.count, Item(k, t)))
<1> DEFINE n == b.count
           q == Grown(r, n, e)
<1>1. /\ n \in Nat /\ c.count = n + 1
      /\ c.key = Put(b.key, e, k) /\ c.at = Put(b.at, e, t)
      /\ DOMAIN b.key = Linked(r, n) /\ DOMAIN b.at = Linked(r, n) /\ e \notin Linked(r, n)
  <2>1. b.at \in [b.live -> Nat]
    BY Zenon DEF Chain
  <2>2. DOMAIN b.at = b.live
    BY <2>1
  <2> QED
    BY <2>2, Zenon DEF Chain, Ring, Order, Links
<1>2. /\ c.key[e] = k /\ c.at[e] = t
      /\ \A x \in Linked(r, n) : c.key[x] = b.key[x] /\ c.at[x] = b.at[x]
  BY <1>1, SMT DEF Put
<1>3. ASSUME NEW i \in 1..n + 1
      PROVE  Item(c.key[q[i]], c.at[q[i]]) = Extend(Listed(b, r), n, Item(k, t))[i]
  <2>1. CASE i = n + 1
    <3>1. q[i] = e
      BY <1>1, <2>1 DEF Grown
    <3> QED
      BY <1>2, <2>1, <3>1, Zenon DEF Extend
  <2>2. CASE i # n + 1
    <3>1. i \in 1..n /\ q[i] = r[i]
      BY <1>1, <2>2 DEF Grown
    <3>2. r[i] \in Linked(r, n)
      BY <3>1, Zenon DEF Linked
    <3> HIDE DEF q
    <3> QED
      BY <1>2, <2>2, <3>1, <3>2, Zenon DEF Extend, Listed
  <2> QED
    BY <2>1, <2>2, Zenon
<1> QED
  BY <1>1, <1>3, Zenon DEF IsListed, Listed, Extend

LEMMA ListedMoves ==
  ASSUME NEW b, NEW c, NEW r, NEW t, Chain(b, r), NEW j \in 1..b.count, j # b.count,
         Moves(b, c, r[j - 1], r[j], r[j + 1], r[b.count], t)
  PROVE  IsListed(c, Moved(r, b.count, j),
                  Extend(Omit(Listed(b, r), b.count, j), b.count - 1, Item(b.key[r[j]], t)))
<1> DEFINE n == b.count
           q == Moved(r, n, j)
           L == Extend(Omit(Listed(b, r), n, j), n - 1, Item(b.key[r[j]], t))
<1>1. /\ n \in Nat /\ Order(r, n) /\ c.count = n /\ c.key = b.key /\ c.at = [b.at EXCEPT ![r[j]] = t]
      /\ b.at \in [Linked(r, n) -> Nat]
  BY Zenon DEF Chain, Ring, Order, Moves
<1>2. r[j] \in Linked(r, n)
  BY Zenon DEF Linked
<1>3. c.at[r[j]] = t /\ \A x \in Linked(r, n) : x # r[j] => c.at[x] = b.at[x]
  BY <1>1, <1>2
<1>4. n = (n - 1) + 1
  BY <1>1
<1>5. \A x, y \in 0..n : r[x] = r[y] => x = y
  BY <1>1, OrderDistinct, Zenon
<1>6. \A i \in 1..n : q[i] = IF i = n THEN r[j] ELSE IF i < j THEN r[i] ELSE r[i + 1]
  BY <1>1 DEF Moved, Grown, Cut
<1>7. ASSUME NEW i \in 1..n
      PROVE  Item(c.key[q[i]], c.at[q[i]]) = L[i]
  <2>1. CASE i = n
    <3>1. q[i] = r[j]
      BY <1>6, <2>1, Zenon
    <3>2. L[i] = Item(b.key[r[j]], t)
      BY <1>4, <2>1, Zenon DEF Extend
    <3> QED
      BY <1>1, <1>3, <3>1, <3>2, Zenon
  <2>2. CASE i # n
    <3> DEFINE k == IF i < j THEN i ELSE i + 1
    <3>1. k \in 1..n /\ k # j /\ i \in 1..n - 1
      BY <1>1, <2>2
    <3>2. q[i] = r[k]
      BY <1>6, <2>2, Zenon
    <3>3. L[i] = Listed(b, r)[k]
      BY <1>4, <2>2, <3>1, Zenon DEF Extend, Omit
    <3> HIDE DEF k
    <3>4. r[k] \in Linked(r, n)
      BY <3>1, Zenon DEF Linked
    <3>5. r[k] # r[j]
      <4>1. k \in 0..n /\ j \in 0..n
        BY <1>1, <3>1
      <4> QED
        BY <1>5, <3>1, <4>1, Zenon
    <3>6. Listed(b, r)[k] = Item(b.key[r[k]], b.at[r[k]])
      BY <3>1, Zenon DEF Listed
    <3> HIDE DEF q, L
    <3> QED
      BY <1>1, <1>3, <3>2, <3>3, <3>4, <3>5, <3>6, Zenon
  <2> QED
    BY <2>1, <2>2, Zenon
<1>8. L = [i \in 1..n |-> L[i]]
  BY <1>4, Zenon DEF Extend
<1>9. Listed(c, q) = [i \in 1..n |-> Item(c.key[q[i]], c.at[q[i]])]
  BY <1>1, Zenon DEF Listed
<1> HIDE DEF q, L
<1>10. Listed(c, q) = L
  BY <1>7, <1>8, <1>9, Zenon
<1> QED
  BY <1>10, Zenon DEF IsListed, q, L

LEMMA ListedRetimes ==
  ASSUME NEW b, NEW c, NEW r, NEW t, Chain(b, r), Mapped(b, r), b.count # 0, Retimes(b, c, t)
  PROVE  Listed(c, r) = Extend(Omit(Listed(b, r), b.count, b.count), b.count - 1, Item(b.key[r[b.count]], t))
<1> DEFINE n == b.count
           L == Extend(Omit(Listed(b, r), n, n), n - 1, Item(b.key[r[n]], t))
<1>1. /\ n \in Nat /\ Order(r, n) /\ c.count = n /\ c.key = b.key /\ c.at = [b.at EXCEPT ![r[n]] = t]
      /\ b.at \in [Linked(r, n) -> Nat]
  BY Zenon DEF Chain, Ring, Order, Retimes, Mapped
<1>2. r[n] \in Linked(r, n)
  <2>1. n \in 1..n
    BY <1>1
  <2> QED
    BY <2>1, Zenon DEF Linked
<1>3. c.at[r[n]] = t /\ \A x \in Linked(r, n) : x # r[n] => c.at[x] = b.at[x]
  BY <1>1, <1>2
<1>4. n = (n - 1) + 1
  BY <1>1
<1>5. ASSUME NEW i \in 1..n
      PROVE  Item(c.key[r[i]], c.at[r[i]]) = L[i]
  <2>1. CASE i = n
    <3>1. L[i] = Item(b.key[r[n]], t)
      BY <1>4, <2>1, Zenon DEF Extend
    <3> QED
      BY <1>1, <1>3, <2>1, <3>1, Zenon
  <2>2. CASE i # n
    <3>1. i \in 1..n - 1 /\ i < n
      BY <1>1, <2>2
    <3>2. L[i] = Listed(b, r)[i]
      BY <1>4, <2>2, <3>1, Zenon DEF Extend, Omit
    <3>3. r[i] \in Linked(r, n)
      BY Zenon DEF Linked
    <3>4. r[i] # r[n]
      <4>1. i \in 0..n /\ n \in 0..n
        BY <1>1
      <4> QED
        BY <1>1, <2>2, <4>1, OrderDistinct, Zenon
    <3>5. Listed(b, r)[i] = Item(b.key[r[i]], b.at[r[i]])
      BY Zenon DEF Listed
    <3> HIDE DEF L
    <3> QED
      BY <1>1, <1>3, <3>2, <3>3, <3>4, <3>5, Zenon
  <2> QED
    BY <2>1, <2>2, Zenon
<1>6. L = [i \in 1..n |-> L[i]]
  BY <1>4, Zenon DEF Extend
<1>7. Listed(c, r) = [i \in 1..n |-> Item(c.key[r[i]], c.at[r[i]])]
  BY <1>1, Zenon DEF Listed
<1> HIDE DEF L
<1>8. Listed(c, r) = L
  BY <1>5, <1>6, <1>7, Zenon
<1> QED
  BY <1>8, Zenon DEF L

-----------------------------------------------------------------------------
(* A buffer and the list it holds *)

Holds(b, L) == \E r : Chain(b, r) /\ Mapped(b, r) /\ Listed(b, r) = L

Same(b, c) == c.max = b.max /\ c.destroyOld = b.destroyOld

IsItem(x, k, t) == x.key = k /\ x.at = t /\ x = Item(x.key, x.at)

LEMMA ListedAt ==
  ASSUME NEW b, NEW r, NEW i \in 1..b.count
  PROVE  IsItem(Listed(b, r)[i], b.key[r[i]], b.at[r[i]])
BY Zenon DEF IsItem, Listed, Item

(* The list and the map know the same keys, each once. *)
LEMMA Held ==
  ASSUME NEW b, NEW L, Holds(b, L)
  PROVE  /\ b.count \in Nat /\ L = [i \in 1..b.count |-> L[i]] /\ IsBuffer(b)
         /\ \A i \in 1..b.count : /\ L[i] = Item(L[i].key, L[i].at) /\ L[i].at \in Nat
                                  /\ L[i].key \in DOMAIN b.map
         /\ \A k \in DOMAIN b.map : \E i \in 1..b.count : L[i].key = k
         /\ \A i, j \in 1..b.count : L[i].key = L[j].key => i = j
         /\ b.count > 0 => b.at[b.head] = L[1].at
<1> DEFINE n == b.count
<1>1. PICK r : Chain(b, r) /\ Mapped(b, r) /\ Listed(b, r) = L
  BY Zenon DEF Holds
<1>2. /\ n \in Nat /\ IsBuffer(b) /\ Order(r, n) /\ b.at \in [b.live -> Nat] /\ b.head = r[1]
      /\ b.live = Linked(r, n) /\ Keyed(b)
  BY <1>1, Zenon DEF Chain, Ring, Order, Mapped
<1>3. L = [i \in 1..n |-> L[i]]
  BY <1>1, Zenon DEF Listed
<1>4. \A i \in 1..n : r[i] \in b.live
  BY <1>2, Zenon DEF Linked
<1>5. \A i \in 1..n : L[i].key = b.key[r[i]] /\ L[i].at = b.at[r[i]] /\ L[i] = Item(L[i].key, L[i].at)
  <2> SUFFICES ASSUME NEW i \in 1..n
               PROVE  L[i].key = b.key[r[i]] /\ L[i].at = b.at[r[i]] /\ L[i] = Item(L[i].key, L[i].at)
    BY Zenon
  <2> DEFINE x == Listed(b, r)[i]
  <2>1. IsItem(x, b.key[r[i]], b.at[r[i]])
    BY ListedAt
  <2>2. L[i] = x
    BY <1>1, Zenon
  <2> HIDE DEF x
  <2> QED
    BY <2>1, <2>2, Zenon DEF IsItem
<1>6. \A i \in 1..n : L[i].at \in Nat /\ L[i].key \in DOMAIN b.map /\ b.map[L[i].key] = r[i]
  <2> SUFFICES ASSUME NEW i \in 1..n
               PROVE  L[i].at \in Nat /\ L[i].key \in DOMAIN b.map /\ b.map[L[i].key] = r[i]
    BY Zenon
  <2>1. r[i] \in b.live /\ L[i].key = b.key[r[i]] /\ L[i].at = b.at[r[i]]
    BY <1>4, <1>5, Zenon
  <2>2. b.at[r[i]] \in Nat
    BY <1>2, <2>1
  <2> QED
    BY <1>2, <2>1, <2>2, Zenon DEF Keyed
<1>7. \A k \in DOMAIN b.map : \E i \in 1..n : L[i].key = k
  <2> SUFFICES ASSUME NEW k \in DOMAIN b.map PROVE \E i \in 1..n : L[i].key = k
    BY Zenon
  <2>1. b.map[k] \in Linked(r, n) /\ b.key[b.map[k]] = k
    BY <1>2, Zenon DEF Keyed
  <2>2. PICK i \in 1..n : b.map[k] = r[i]
    BY <2>1, Zenon DEF Linked
  <2> QED
    BY <1>5, <2>1, <2>2, ZenonT(40)
<1>8. \A i, j \in 1..n : L[i].key = L[j].key => i = j
  <2> SUFFICES ASSUME NEW i \in 1..n, NEW j \in 1..n, L[i].key = L[j].key PROVE i = j
    BY Zenon
  <2>1. r[i] = r[j]
    BY <1>6, Zenon
  <2>2. i \in 0..n /\ j \in 0..n
    BY <1>2
  <2>3. \A x, y \in 0..n : r[x] = r[y] => x = y
    BY <1>2, OrderDistinct, Zenon
  <2> QED
    BY <2>1, <2>2, <2>3, Zenon
<1>9. ASSUME n > 0 PROVE b.at[b.head] = L[1].at
  <2>1. 1 \in 1..n
    BY <1>2, <1>9
  <2> QED
    BY <1>2, <1>5, <2>1, Zenon
<1> QED
  BY <1>2, <1>3, <1>5, <1>6, <1>7, <1>8, <1>9, Zenon

(* pop_front, pop_back and pop *)
LEMMA HoldsRemoved ==
  ASSUME NEW b, NEW c, NEW r, Chain(b, r), Mapped(b, r), NEW j \in 1..b.count, Removes(b, c, r, j)
  PROVE  Holds(c, Omit(Listed(b, r), b.count, j)) /\ Same(b, c) /\ c.count = b.count - 1
<1>1. /\ Unlinked(b, c, r, j) /\ c.map = Drop(b.map, b.key[r[j]])
      /\ c.tail = Cut(r, b.count, j)[b.count - 1]
  BY Zenon DEF Removes
<1>2. Chain(c, Cut(r, b.count, j))
  BY <1>1, UnlinkedChain
<1>3. Mapped(c, Cut(r, b.count, j))
  BY <1>1, UnlinkedMapped
<1>4. Listed(c, Cut(r, b.count, j)) = Omit(Listed(b, r), b.count, j)
  BY <1>1, ListedUnlinked
<1> QED
  BY <1>1, <1>2, <1>3, <1>4, Zenon DEF Holds, Same, Unlinked, Unlinks

LEMMA HoldsFront ==
  ASSUME NEW b, NEW L, Holds(b, L), b.count # 0
  PROVE  LET c == PopFront(b)
         IN Holds(c, Omit(L, b.count, 1)) /\ Same(b, c) /\ c.count = b.count - 1
<1>1. PICK r : Chain(b, r) /\ Mapped(b, r) /\ Listed(b, r) = L
  BY Zenon DEF Holds
<1>2. 1 \in 1..b.count /\ Removes(b, PopFront(b), r, 1)
  BY <1>1, RemovesFront
<1> QED
  BY <1>1, <1>2, HoldsRemoved

LEMMA HoldsBack ==
  ASSUME NEW b, NEW L, Holds(b, L), b.count # 0
  PROVE  LET c == PopBack(b)
         IN Holds(c, Omit(L, b.count, b.count)) /\ Same(b, c)
<1>1. PICK r : Chain(b, r) /\ Mapped(b, r) /\ Listed(b, r) = L
  BY Zenon DEF Holds
<1>2. b.count \in 1..b.count /\ Removes(b, PopBack(b), r, b.count)
  BY <1>1, RemovesBack
<1> QED
  BY <1>1, <1>2, HoldsRemoved

LEMMA HoldsPop ==
  ASSUME NEW b, NEW L, Holds(b, L), NEW j \in 1..b.count
  PROVE  LET c == Pop(b, L[j].key)
         IN Holds(c, Omit(L, b.count, j)) /\ Same(b, c)
<1>1. PICK r : Chain(b, r) /\ Mapped(b, r) /\ Listed(b, r) = L
  BY Zenon DEF Holds
<1>2. L[j].key = b.key[r[j]]
  <2>1. IsItem(Listed(b, r)[j], b.key[r[j]], b.at[r[j]])
    BY ListedAt
  <2> QED
    BY <1>1, <2>1, Zenon DEF IsItem
<1>3. Removes(b, Pop(b, L[j].key), r, j)
  BY <1>1, <1>2, RemovesKey
<1> QED
  BY <1>1, <1>3, HoldsRemoved

(* push, before it makes room *)
LEMMA HoldsPushed ==
  ASSUME NEW b, NEW L, Holds(b, L), NEW e \in Addrs, e \notin b.live, NEW k, k \notin DOMAIN b.map, NEW t \in Nat
  PROVE  LET c == Pushed(b, k, e, t)
         IN Holds(c, Extend(L, b.count, Item(k, t))) /\ Same(b, c) /\ c.count = b.count + 1
<1> DEFINE n == b.count
           c == Pushed(b, k, e, t)
<1>1. PICK r : Chain(b, r) /\ Mapped(b, r) /\ Listed(b, r) = L
  BY Zenon DEF Holds
<1>2. /\ n \in Nat /\ Order(r, n) /\ r \in [0..n + 1 -> Nodes] /\ r[0] = Tag /\ IsBuffer(b)
      /\ b.next \in [Nodes -> Nodes] /\ b.prev \in [Nodes -> Nodes]
      /\ b.tail = r[n] /\ b.live = Linked(r, n)
  <2>1. /\ n \in Nat /\ Order(r, n) /\ r \in [0..n + 1 -> Nodes] /\ r[0] = Tag /\ IsBuffer(b)
        /\ b.next \in [Nodes -> Nodes] /\ b.prev \in [Nodes -> Nodes]
    BY <1>1, Ends, Zenon
  <2>2. b.tail = r[n] /\ b.live = Linked(r, n)
    BY <1>1, Zenon DEF Mapped, Chain
  <2> QED
    BY <2>1, <2>2, Zenon
<1>3. r[n] \in Nodes /\ e \in Nodes /\ e # Tag /\ e # r[n]
  <2>1. n = 0 \/ n \in 1..n
    BY <1>2
  <2>2. n \in 0..n + 1
    BY <1>2
  <2>3. e # Tag /\ e \in Nodes
    BY BufferAssumption, Zenon DEF Nodes
  <2>4. r[n] \in Nodes
    BY <1>2, <2>2, Zenon
  <2>5. n \in 1..n => r[n] \in Linked(r, n)
    BY Zenon DEF Linked
  <2> QED
    BY <1>2, <2>1, <2>3, <2>4, <2>5, Zenon
<1>4. Links(b, c, r[n], e, k, t)
  BY <1>2, <1>3, PushedLinks
<1> HIDE DEF c
<1>5. Chain(c, Grown(r, n, e))
  BY <1>1, <1>4, LinksChain
<1>6. Mapped(c, Grown(r, n, e))
  BY <1>1, <1>4, LinksMapped
<1>7. Listed(c, Grown(r, n, e)) = Extend(L, n, Item(k, t))
  <2>1. Chain(b, r)
    BY <1>1
  <2>2. IsListed(c, Grown(r, n, e), Extend(Listed(b, r), n, Item(k, t)))
    BY <1>4, <2>1, ListedLinks
  <2> QED
    BY <1>1, <2>2, Zenon DEF IsListed
<1> QED
  BY <1>4, <1>5, <1>6, <1>7, Zenon DEF Holds, Same, Links, c

(* update *)
LEMMA HoldsUpdate ==
  ASSUME NEW b, NEW L, Holds(b, L), NEW j \in 1..b.count, NEW t \in Nat
  PROVE  LET c == Update(b, L[j].key, t)
         IN /\ Holds(c, Extend(Omit(L, b.count, j), b.count - 1, Item(L[j].key, t)))
            /\ Same(b, c)
<1>1. PICK r : Chain(b, r) /\ Mapped(b, r) /\ Listed(b, r) = L
  BY Zenon DEF Holds
<1>2. L[j].key = b.key[r[j]]
  <2>1. IsItem(Listed(b, r)[j], b.key[r[j]], b.at[r[j]])
    BY ListedAt
  <2> QED
    BY <1>1, <2>1, Zenon DEF IsItem
<1>3. PICK c : c = Update(b, b.key[r[j]], t)
  BY Zenon
<1>4. CASE j = b.count
  <2>1. Retimes(b, c, t) /\ Chain(c, r) /\ Mapped(c, r)
    BY <1>1, <1>3, <1>4, UpdateKeeps, Zenon
  <2>2. b.count # 0
    BY <1>4
  <2>3. Listed(c, r) = Extend(Omit(L, b.count, j), b.count - 1, Item(L[j].key, t))
    BY <1>1, <1>2, <1>4, <2>1, <2>2, ListedRetimes
  <2> QED
    BY <1>2, <1>3, <2>1, <2>3, Zenon DEF Holds, Same, Retimes
<1>5. CASE j # b.count
  <2>1. /\ Moves(b, c, r[j - 1], r[j], r[j + 1], r[b.count], t)
        /\ Chain(c, Moved(r, b.count, j)) /\ Mapped(c, Moved(r, b.count, j))
    BY <1>1, <1>3, <1>5, UpdateKeeps
  <2>2. Listed(c, Moved(r, b.count, j)) = Extend(Omit(L, b.count, j), b.count - 1, Item(L[j].key, t))
    <3>1. Chain(b, r)
      BY <1>1
    <3>2. IsListed(c, Moved(r, b.count, j),
                   Extend(Omit(Listed(b, r), b.count, j), b.count - 1, Item(b.key[r[j]], t)))
      BY <1>5, <2>1, <3>1, ListedMoves, Zenon
    <3> QED
      BY <1>1, <1>2, <3>2, Zenon DEF IsListed
  <2> QED
    BY <1>2, <1>3, <2>1, <2>2, Zenon DEF Holds, Same, Moves
<1> QED
  BY <1>4, <1>5, Zenon

(* push *)
LEMMA HoldsPush ==
  ASSUME NEW b, NEW L, Holds(b, L), NEW e \in Addrs, e \notin b.live, NEW k, k \notin DOMAIN b.map, now \in Nat
  PROVE  LET c == Push(b, k, e)
             M == Extend(L, b.count, Item(k, now))
         IN /\ Holds(c, IF b.max > 0 /\ b.count + 1 > b.max THEN Omit(M, b.count + 1, 1) ELSE M)
            /\ Same(b, c)
<1> DEFINE c == Pushed(b, k, e, now)
           M == Extend(L, b.count, Item(k, now))
<1>1. Holds(c, M) /\ Same(b, c) /\ c.count = b.count + 1
  BY HoldsPushed
<1>2. IsBuffer(b) /\ b.count \in Nat
  BY Held, Zenon
<1>3. Push(b, k, e) = IF b.max > 0 /\ c.count > b.max THEN PopFront(c) ELSE c
  BY <1>2, PushIsPushed, Zenon
<1> HIDE DEF c, M
<1>4. CASE b.max > 0 /\ b.count + 1 > b.max
  <2>1. c.count # 0 /\ c.count = b.count + 1
    BY <1>1, <1>2
  <2>2. Holds(PopFront(c), Omit(M, c.count, 1)) /\ Same(c, PopFront(c))
    BY <1>1, <2>1, HoldsFront, Zenon
  <2> QED
    BY <1>1, <1>3, <1>4, <2>1, <2>2, Zenon DEF Same, M
<1>5. CASE ~(b.max > 0 /\ b.count + 1 > b.max)
  BY <1>1, <1>3, <1>5, Zenon DEF M
<1> QED
  BY <1>4, <1>5, Zenon

-----------------------------------------------------------------------------
(* The loops of pop_old and clear *)

(* Induction over the naturals, for a set of them. *)
LEMMA SetInduction ==
  ASSUME NEW S, 0 \in S, \A n \in Nat : n \in S => n + 1 \in S
  PROVE  \A n \in Nat : n \in S
<1> SUFFICES ASSUME NEW m \in Nat, m \notin S PROVE FALSE
  BY Zenon
<1> DEFINE R == OpToRel(<, Nat)
           T == Nat \ S
<1>1. IsWellFoundedOn(R, Nat)
  BY NatLessThanWellFounded, Zenon
<1>2. \A x, y \in Nat : x < y => <<x, y>> \in R
  BY Zenon DEF OpToRel
<1>3. T \subseteq Nat /\ T # {}
  BY Zenon
<1> HIDE DEF R, T
<1>4. PICK x \in T : \A y \in T : ~(<<y, x>> \in R)
  BY <1>1, <1>3, WFMin, Zenon
<1> USE DEF T
<1>5. x \in Nat /\ x \notin S /\ x # 0
  BY Zenon
<1>6. x - 1 \in Nat /\ x - 1 \in T
  BY <1>5
<1>7. <<x - 1, x>> \in R
  <2>1. x - 1 < x
    BY <1>5
  <2> QED
    BY <1>2, <1>5, <1>6, <2>1, Zenon
<1> QED
  BY <1>4, <1>6, <1>7, Zenon

(* One turn of the loop of pop_old, or of clear. *)
Turn(b, t, clearing) ==
  IF clearing THEN ClearOne(b) ELSE IF FrontOld(b, t) THEN PopFront(b) ELSE b

(* The buffer after each turn. *)
IsRun(f, b, t, clearing, n) ==
  /\ f = [i \in 0..n |-> f[i]]
  /\ f[0] = b
  /\ \A i \in 1..n : f[i] = Turn(f[i - 1], t, clearing)

LEMMA RunExists ==
  ASSUME NEW b, NEW t, NEW clearing, NEW n \in Nat
  PROVE  \E f : IsRun(f, b, t, clearing, n)
<1> DEFINE S == {k \in Nat : \E f : IsRun(f, b, t, clearing, k)}
<1>1. 0 \in S
  <2>1. IsRun([i \in 0..0 |-> b], b, t, clearing, 0)
    BY DEF IsRun
  <2> QED
    BY <2>1, Zenon
<1>2. ASSUME NEW k \in Nat, k \in S PROVE k + 1 \in S
  <2>1. PICK f : IsRun(f, b, t, clearing, k)
    BY <1>2, Zenon
  <2> DEFINE x == Turn(f[k], t, clearing)
             g == [i \in 0..k + 1 |-> IF i = k + 1 THEN x ELSE f[i]]
  <2>2. f[0] = b /\ \A i \in 1..k : f[i] = Turn(f[i - 1], t, clearing)
    BY <2>1, Zenon DEF IsRun
  <2>3. g[0] = b
    BY <2>2
  <2>4. ASSUME NEW i \in 1..k + 1
        PROVE  g[i] = Turn(g[i - 1], t, clearing)
    <3>1. CASE i = k + 1
      BY <3>1
    <3>2. CASE i # k + 1
      BY <2>2, <3>2
    <3> QED
      BY <3>1, <3>2, Zenon
  <2>5. g = [i \in 0..k + 1 |-> g[i]]
    BY Zenon
  <2> HIDE DEF g
  <2>6. IsRun(g, b, t, clearing, k + 1)
    BY <2>3, <2>4, <2>5, Zenon DEF IsRun
  <2> QED
    BY <2>6
<1> HIDE DEF S
<1>3. \A k \in Nat : k \in S
  BY <1>1, <1>2, SetInduction, Zenon
<1> QED
  BY <1>3, Zenon DEF S

(* A solution of the loop's equation is such a run, and there is one. *)
LEMMA RunEquation ==
  ASSUME NEW b, NEW t, NEW clearing, NEW n \in Nat
  PROVE  LET F(f) == [i \in 0..n |-> IF i = 0 THEN b ELSE Turn(f[i - 1], t, clearing)]
         IN (\E f : f = F(f)) /\ \A f : f = F(f) => IsRun(f, b, t, clearing, n)
<1> DEFINE F(f) == [i \in 0..n |-> IF i = 0 THEN b ELSE Turn(f[i - 1], t, clearing)]
<1>1. PICK g : IsRun(g, b, t, clearing, n)
  BY RunExists, Zenon
<1>2. g = F(g)
  <2>1. ASSUME NEW i \in 0..n PROVE g[i] = F(g)[i]
    <3>1. CASE i = 0
      BY <1>1, <3>1, Zenon DEF IsRun
    <3>2. CASE i \in 1..n
      BY <1>1, <3>2, Zenon DEF IsRun
    <3> QED
      BY <3>1, <3>2
  <2>2. g = [i \in 0..n |-> g[i]]
    BY <1>1, Zenon DEF IsRun
  <2> QED
    BY <2>1, <2>2, Zenon
<1>3. ASSUME NEW f, f = F(f) PROVE IsRun(f, b, t, clearing, n)
  <2>1. f = [i \in 0..n |-> f[i]]
    BY <1>3, Zenon
  <2>2. f[0] = b
    BY <1>3
  <2>3. ASSUME NEW i \in 1..n PROVE f[i] = Turn(f[i - 1], t, clearing)
    <3>1. i \in 0..n /\ i # 0
      OBVIOUS
    <3> QED
      BY <1>3, <3>1, Zenon
  <2> QED
    BY <2>1, <2>2, <2>3, Zenon DEF IsRun
<1> QED
  BY <1>2, <1>3, Zenon

LEMMA PopOldRun ==
  ASSUME NEW b, NEW t, b.count \in Nat
  PROVE  \E f : IsRun(f, b, t, FALSE, b.count) /\ PopOld(b, t) = f[b.count]
<1> DEFINE n == b.count
           F(f) == [i \in 0..n |-> IF i = 0 THEN b ELSE Turn(f[i - 1], t, FALSE)]
           h == CHOOSE f : f = F(f)
<1>1. (\E f : f = F(f)) /\ \A f : f = F(f) => IsRun(f, b, t, FALSE, n)
  BY RunEquation, Zenon
<1>2. h = F(h)
  BY <1>1, Zenon
<1>3. PopOld(b, t) = h[n]
  BY Zenon DEF PopOld, Turn
<1> HIDE DEF h
<1> QED
  BY <1>1, <1>2, <1>3, Zenon

LEMMA ClearRun ==
  ASSUME NEW b, b.count \in Nat
  PROVE  \E f : IsRun(f, b, 0, TRUE, b.count) /\ Clear(b) = [f[b.count] EXCEPT !.map = << >>]
<1> DEFINE n == b.count
           F(f) == [i \in 0..n |-> IF i = 0 THEN b ELSE Turn(f[i - 1], 0, TRUE)]
           h == CHOOSE f : f = F(f)
<1>1. (\E f : f = F(f)) /\ \A f : f = F(f) => IsRun(f, b, 0, TRUE, n)
  BY RunEquation, Zenon
<1>2. h = F(h)
  BY <1>1, Zenon
<1>3. Clear(b) = [h[n] EXCEPT !.map = << >>]
  BY Zenon DEF Clear, Turn
<1> HIDE DEF h
<1> QED
  BY <1>1, <1>2, <1>3, Zenon

(* What is left of a list of n entries behind its first d. *)
Rest(L, n, d) == [i \in 1..n - d |-> L[i + d]]

(* The i-th entry is to expire at t. *)
Old(L, t, i) == LivingTime < t - L[i].at

(* c is b without its first d entries, which were to expire. *)
Expired(b, c, L, t, d) ==
  /\ Holds(c, Rest(L, b.count, d)) /\ Same(b, c) /\ c.count = b.count - d
  /\ \A i \in 1..d : Old(L, t, i)

(* The next one is not to expire. *)
Fresh(L, t, n, d) == d = n \/ ~Old(L, t, d + 1)

LEMMA ExpiredTurn ==
  ASSUME NEW b, NEW c, NEW L, NEW t, NEW d \in 0..b.count, Holds(b, L), Expired(b, c, L, t, d)
  PROVE  IF Fresh(L, t, b.count, d)
           THEN Turn(c, t, FALSE) = c
           ELSE d + 1 \in 0..b.count /\ Expired(b, Turn(c, t, FALSE), L, t, d + 1)
<1> DEFINE n == b.count
<1>1. n \in Nat
  BY Held, Zenon
<1>2. Holds(c, Rest(L, n, d)) /\ Same(b, c) /\ c.count = n - d /\ \A i \in 1..d : Old(L, t, i)
  BY Zenon DEF Expired
<1>3. c.count > 0 => c.at[c.head] = Rest(L, n, d)[1].at
  BY <1>2, Held, Zenon
<1>4. CASE d = n
  <2>1. ~(c.count > 0)
    BY <1>1, <1>2, <1>4
  <2> QED
    BY <1>4, <2>1, Zenon DEF Turn, FrontOld, Fresh
<1>5. CASE d # n
  <2>1. c.count > 0 /\ c.count # 0 /\ 1 \in 1..n - d /\ 1 + d = d + 1 /\ d + 1 \in 0..n
    BY <1>1, <1>2, <1>5
  <2>2. Rest(L, n, d)[1] = L[d + 1]
    BY <2>1, Zenon DEF Rest
  <2>3. FrontOld(c, t) <=> Old(L, t, d + 1)
    BY <1>3, <2>1, <2>2, Zenon DEF FrontOld, Old
  <2>4. CASE ~Old(L, t, d + 1)
    BY <2>3, <2>4, Zenon DEF Turn, Fresh
  <2>5. CASE Old(L, t, d + 1)
    <3>1. ~Fresh(L, t, n, d) /\ Turn(c, t, FALSE) = PopFront(c)
      BY <1>5, <2>3, <2>5, Zenon DEF Turn, Fresh
    <3>2. PICK x : x = PopFront(c)
      BY Zenon
    <3>3. Holds(x, Omit(Rest(L, n, d), c.count, 1)) /\ Same(c, x) /\ x.count = c.count - 1
      BY <1>2, <2>1, <3>2, HoldsFront, Zenon
    <3>4. Omit(Rest(L, n, d), c.count, 1) = Rest(L, n, d + 1)
      <4>1. Omit(Rest(L, n, d), n - d, 1) = Rest(L, n, d + 1)
        <5>1. (n - d) - 1 = n - (d + 1)
          BY <1>1
        <5>2. \A i \in 1..n - (d + 1) : ~(i < 1) /\ i + 1 \in 1..n - d /\ (i + 1) + d = i + (d + 1)
          BY <1>1
        <5> QED
          BY <5>1, <5>2, Zenon DEF Omit, Rest
      <4> QED
        BY <1>2, <4>1, Zenon
    <3>5. x.count = n - (d + 1)
      BY <1>1, <1>2, <3>3
    <3>6. \A i \in 1..d + 1 : Old(L, t, i)
      <4>1. \A i \in 1..d + 1 : i \in 1..d \/ i = d + 1
        BY <1>1
      <4> QED
        BY <1>2, <2>5, <4>1, Zenon
    <3>7. Same(b, x)
      BY <1>2, <3>3, Zenon DEF Same
    <3>8. Expired(b, x, L, t, d + 1)
      BY <3>3, <3>4, <3>5, <3>6, <3>7, Zenon DEF Expired
    <3> QED
      BY <2>1, <3>1, <3>2, <3>8, Zenon
  <2> QED
    BY <2>4, <2>5, Zenon
<1> QED
  BY <1>4, <1>5, Zenon

(* pop_old drops the longest run of entries to expire. *)
LEMMA HoldsOld ==
  ASSUME NEW b, NEW L, NEW t, Holds(b, L)
  PROVE  \E d \in 0..b.count : Expired(b, PopOld(b, t), L, t, d) /\ Fresh(L, t, b.count, d)
<1> DEFINE n == b.count
<1>1. n \in Nat
  BY Held, Zenon
<1>2. PICK f : IsRun(f, b, t, FALSE, n) /\ PopOld(b, t) = f[n]
  BY <1>1, PopOldRun, Zenon
<1> DEFINE Done(i, d) == Expired(b, f[i], L, t, d) /\ (d = i \/ Fresh(L, t, n, d))
           S == {i \in Nat : i <= n => \E d \in 0..n : Done(i, d)}
<1>3. 0 \in S
  <2>1. f[0] = b
    BY <1>2, Zenon DEF IsRun
  <2>2. L = [i \in 1..n |-> L[i]]
    BY Held, Zenon
  <2>3. Rest(L, n, 0) = L
    <3>1. Rest(L, n, 0) = [i \in 1..n |-> L[i]]
      BY <1>1 DEF Rest
    <3> QED
      BY <2>2, <3>1, Zenon
  <2>4. n = n - 0 /\ 0 \in 0..n /\ \A i \in 1..0 : Old(L, t, i)
    BY <1>1
  <2>5. Expired(b, b, L, t, 0)
    BY <2>3, <2>4, Zenon DEF Expired, Same
  <2> QED
    BY <2>1, <2>4, <2>5
<1>4. ASSUME NEW i \in Nat, i \in S PROVE i + 1 \in S
  <2>0. i + 1 \in Nat
    OBVIOUS
  <2> SUFFICES ASSUME i + 1 <= n PROVE \E d \in 0..n : Done(i + 1, d)
    BY <2>0, Zenon
  <2>1. i <= n /\ i + 1 \in 1..n /\ (i + 1) - 1 = i
    BY <1>1
  <2>2. PICK d \in 0..n : Done(i, d)
    BY <1>4, <2>1, Zenon
  <2>3. f[i + 1] = Turn(f[i], t, FALSE)
    BY <1>2, <2>1, Zenon DEF IsRun
  <2>4. PICK c : c = f[i]
    BY Zenon
  <2>5. Expired(b, c, L, t, d)
    BY <2>2, <2>4, Zenon
  <2>6. CASE Fresh(L, t, n, d)
    <3>1. Turn(c, t, FALSE) = c
      BY <2>5, <2>6, ExpiredTurn, Zenon
    <3>2. Done(i + 1, d)
      BY <2>3, <2>4, <2>5, <2>6, <3>1, Zenon
    <3> QED
      BY <3>2, Zenon
  <2>7. CASE ~Fresh(L, t, n, d)
    <3>1. d + 1 \in 0..n /\ Expired(b, Turn(c, t, FALSE), L, t, d + 1)
      BY <2>5, <2>7, ExpiredTurn, Zenon
    <3>2. d = i
      BY <2>2, <2>7, Zenon
    <3>3. Done(i + 1, d + 1)
      BY <2>3, <2>4, <3>1, <3>2, Zenon
    <3> QED
      BY <3>1, <3>3, Zenon
  <2> QED
    BY <2>6, <2>7, Zenon
<1>5. n \in S
  <2> HIDE DEF S
  <2> QED
    BY <1>1, <1>3, <1>4, SetInduction, Zenon
<1>6. PICK d \in 0..n : Done(n, d)
  <2>1. n <= n
    BY <1>1
  <2> QED
    BY <1>5, <2>1, Zenon
<1> QED
  BY <1>2, <1>6, Zenon DEF Fresh

(* clear() cuts the ring entry by entry. *)
LEMMA ClearOneChain ==
  ASSUME NEW b, NEW r, Chain(b, r), b.count # 0
  PROVE  (\E q : Chain(ClearOne(b), q)) /\ Same(b, ClearOne(b)) /\ ClearOne(b).count = b.count - 1
<1> DEFINE n == b.count
<1>1. n \in Nat /\ Order(r, n) /\ r[0] = Tag /\ IsBuffer(b) /\ b.head = r[1]
  BY Ends, Zenon
<1>2. 1 \in 1..n /\ 1 - 1 = 0 /\ 1 + 1 = 2
  BY <1>1
<1>3. Stands(b, r[1 - 1], r[1], r[1 + 1]) /\ r[1 - 1] = Tag
  BY <1>1, <1>2, StandsAt
<1>4. PICK c : c = ClearOne(b)
  BY Zenon
<1>5. Unlinks(b, c, r[1 - 1], r[1], r[1 + 1]) /\ c.head = r[1 + 1]
  BY <1>1, <1>3, <1>4, ClearOneUnlinks
<1>6. Cut(r, n, 1)[1] = r[2]
  BY <1>1, <1>2, CutEnds
<1>7. Unlinked(b, c, r, 1)
  BY <1>2, <1>5, <1>6, Zenon DEF Unlinked
<1>8. Chain(c, Cut(r, n, 1))
  BY <1>2, <1>7, UnlinkedChain, Zenon
<1>9. Same(b, c) /\ c.count = n - 1
  BY <1>5, Zenon DEF Unlinks, Same
<1> QED
  BY <1>4, <1>8, <1>9, Zenon

(* A cleared buffer: no entry in the ring, none in the map. *)
Cleared(b) == (\E r : Chain(b, r)) /\ b.count = 0 /\ b.map = << >>

LEMMA HoldsClear ==
  ASSUME NEW b, NEW L, Holds(b, L)
  PROVE  /\ Cleared(Clear(b)) /\ Same(b, Clear(b))
         /\ b.count = 0 => Clear(b).tail = Tag
<1> DEFINE n == b.count
<1>1. PICK r : Chain(b, r) /\ Mapped(b, r)
  BY Zenon DEF Holds
<1>2. n \in Nat /\ r[0] = Tag
  BY <1>1, Ends, Zenon
<1>3. PICK f : IsRun(f, b, 0, TRUE, n) /\ Clear(b) = [f[n] EXCEPT !.map = << >>]
  BY <1>2, ClearRun, Zenon
<1> DEFINE Done(i) == (\E q : Chain(f[i], q)) /\ Same(b, f[i]) /\ f[i].count = n - i
           S == {i \in Nat : i <= n => Done(i)}
<1>4. f[0] = b
  BY <1>3, Zenon DEF IsRun
<1>5. 0 \in S
  <2>1. n - 0 = n
    BY <1>2
  <2>2. Done(0)
    BY <1>1, <1>4, <2>1, Zenon DEF Same
  <2> QED
    BY <2>2
<1>6. ASSUME NEW i \in Nat, i \in S PROVE i + 1 \in S
  <2>0. i + 1 \in Nat
    OBVIOUS
  <2> SUFFICES ASSUME i + 1 <= n PROVE Done(i + 1)
    BY <2>0, Zenon
  <2>1. i <= n /\ i + 1 \in 1..n /\ (i + 1) - 1 = i /\ n - i # 0 /\ (n - i) - 1 = n - (i + 1)
    BY <1>2
  <2>2. Done(i)
    BY <1>6, <2>1, Zenon
  <2>3. f[i + 1] = ClearOne(f[i])
    BY <1>3, <2>1, Zenon DEF IsRun, Turn
  <2>4. PICK c, q : c = f[i] /\ Chain(c, q)
    BY <2>2, Zenon
  <2>5. (\E s : Chain(ClearOne(c), s)) /\ Same(c, ClearOne(c)) /\ ClearOne(c).count = c.count - 1
    BY <2>1, <2>2, <2>4, ClearOneChain, Zenon
  <2> QED
    BY <2>1, <2>2, <2>3, <2>4, <2>5, Zenon DEF Same
<1>7. n \in S
  <2> HIDE DEF S
  <2> QED
    BY <1>2, <1>5, <1>6, SetInduction, Zenon
<1>8. Done(n) /\ n - n = 0
  <2>1. n <= n /\ n - n = 0
    BY <1>2
  <2> QED
    BY <1>7, <2>1, Zenon
<1>9. PICK c, q : c = f[n] /\ Chain(c, q)
  BY <1>8, Zenon
<1>10. PICK d : d = [c EXCEPT !.map = << >>]
  BY Zenon
<1>11. IsBuffer(c)
  BY <1>9, Ends, Zenon
<1>12. /\ IsBuffer(d) /\ d.map = << >> /\ d.max = c.max /\ d.destroyOld = c.destroyOld
       /\ d.head = c.head /\ d.tail = c.tail /\ d.count = c.count /\ d.live = c.live
       /\ d.prev = c.prev /\ d.next = c.next /\ d.key = c.key /\ d.at = c.at
  <2>1. IsBuffer(d)
    BY <1>10, <1>11, Assigned, Zenon
  <2> QED
    BY <1>10, <1>11, <2>1, SMTT(30) DEF IsBuffer
<1>13. Chain(d, q)
  BY <1>9, <1>12, Zenon DEF Chain
<1>14. n = 0 => d.tail = Tag
  BY <1>1, <1>2, <1>4, <1>9, <1>12, Zenon DEF Mapped
<1>15. Cleared(d) /\ Same(b, d)
  BY <1>8, <1>9, <1>12, <1>13, Zenon DEF Cleared, Same
<1>16. Clear(b) = d
  BY <1>3, <1>9, <1>10, Zenon
<1> QED
  BY <1>14, <1>15, <1>16, Zenon

(* The empty list. *)
LEMMA HoldsNone ==
  ASSUME NEW b, Cleared(b), b.tail = Tag
  PROVE  Holds(b, << >>)
<1>1. PICK r : Chain(b, r)
  BY Zenon DEF Cleared
<1>2. b.count = 0 /\ r[0] = Tag /\ b.live = Linked(r, b.count)
  <2>1. b.count = 0
    BY Zenon DEF Cleared
  <2>2. r[0] = Tag
    BY <1>1, Ends, Zenon
  <2>3. b.live = Linked(r, b.count)
    BY <1>1, Zenon DEF Chain
  <2> QED
    BY <2>1, <2>2, <2>3, Zenon
<1>3. b.live = {}
  BY <1>2 DEF Linked
<1>4. DOMAIN b.map = {}
  BY DEF Cleared
<1>5. Mapped(b, r)
  BY <1>2, <1>3, <1>4, Zenon DEF Mapped, Keyed
<1>6. Listed(b, r) = << >>
  BY <1>2 DEF Listed
<1> QED
  BY <1>1, <1>5, <1>6, Zenon DEF Holds

(* A walk of n steps along pointers, and where they lead. *)
WalkFrom(n, first, step) ==
  LET w[i \in 1..n + 1] == IF i = 1 THEN first ELSE step[w[i - 1]] IN w

Trail(n, first, step, r) ==
  n \in Nat /\ r[1] = first /\ \A i \in 1..n : step[r[i]] = r[i + 1]

IsWalk(w, n, r) == w = [i \in 1..n + 1 |-> r[i]]

LEMMA WalkIs ==
  ASSUME NEW n, NEW first, NEW step, NEW r, Trail(n, first, step, r)
  PROVE  IsWalk(WalkFrom(n, first, step), n, r)
<1> USE DEF Trail
<1> DEFINE F(w) == [i \in 1..n + 1 |-> IF i = 1 THEN first ELSE step[w[i - 1]]]
           g == [i \in 1..n + 1 |-> r[i]]
           h == CHOOSE w : w = F(w)
<1>1. g = F(g)
  <2>1. ASSUME NEW i \in 1..n + 1, i # 1
        PROVE  r[i] = step[g[i - 1]]
    <3>1. i - 1 \in 1..n + 1 /\ i - 1 \in 1..n /\ (i - 1) + 1 = i
      BY <2>1
    <3> QED
      BY <3>1, Zenon
  <2>2. \A i \in 1..n + 1 : g[i] = F(g)[i]
    BY <2>1, Zenon
  <2> QED
    BY <2>2, Zenon
<1>2. h = F(h)
  <2> HIDE DEF F, g
  <2> QED
    BY <1>1, Zenon
<1>3. \A i \in Nat : i + 1 <= n + 1 => h[i + 1] = r[i + 1]
  <2> HIDE DEF h
  <2> DEFINE S == {i \in Nat : i + 1 <= n + 1 => h[i + 1] = r[i + 1]}
  <2>1. 0 \in S
    <3>1. 1 \in 1..n + 1 /\ 0 + 1 = 1
      OBVIOUS
    <3>2. h[1] = r[1]
      BY <1>2, <3>1, Zenon
    <3> QED
      BY <3>1, <3>2
  <2>2. ASSUME NEW i \in Nat, i \in S PROVE i + 1 \in S
    <3>0. i + 1 \in Nat
      OBVIOUS
    <3> SUFFICES ASSUME (i + 1) + 1 <= n + 1 PROVE h[(i + 1) + 1] = r[(i + 1) + 1]
      BY <3>0, Zenon
    <3>1. /\ i + 1 <= n + 1 /\ (i + 1) + 1 \in 1..n + 1 /\ (i + 1) + 1 # 1
          /\ ((i + 1) + 1) - 1 = i + 1 /\ i + 1 \in 1..n
      OBVIOUS
    <3>2. h[i + 1] = r[i + 1]
      BY <2>2, <3>1, Zenon
    <3>3. h[(i + 1) + 1] = step[h[i + 1]]
      BY <1>2, <3>1, Zenon
    <3> QED
      BY <3>1, <3>2, <3>3, Zenon
  <2> HIDE DEF S
  <2>3. \A i \in Nat : i \in S
    BY <2>1, <2>2, SetInduction, Zenon
  <2> QED
    BY <2>3, Zenon DEF S
<1>4. h = g
  <2>1. ASSUME NEW i \in 1..n + 1 PROVE h[i] = r[i]
    <3>1. i - 1 \in Nat /\ (i - 1) + 1 = i /\ i <= n + 1
      OBVIOUS
    <3> HIDE DEF h
    <3> QED
      BY <1>3, <3>1
  <2>2. h = [i \in 1..n + 1 |-> h[i]]
    <3> HIDE DEF h
    <3> QED
      BY <1>2, Zenon
  <2> HIDE DEF h
  <2> QED
    BY <2>1, <2>2, Zenon
<1> QED
  BY <1>4, Zenon DEF WalkFrom, IsWalk

LEMMA WalkRing ==
  ASSUME NEW b, NEW r, Chain(b, r)
  PROVE  Walk(b) = [i \in 1..b.count + 1 |-> r[i]]
<1>1. b.count \in Nat /\ r[1] = b.head /\ \A i \in 0..b.count : b.next[r[i]] = r[i + 1]
  BY Zenon DEF Chain, Ring, Order
<1>2. \A i \in 1..b.count : b.next[r[i]] = r[i + 1]
  <2>1. \A i \in 1..b.count : i \in 0..b.count
    BY <1>1
  <2> QED
    BY <1>1, <2>1, Zenon
<1>3. Trail(b.count, b.head, b.next, r)
  BY <1>1, <1>2, Zenon DEF Trail
<1>4. IsWalk(WalkFrom(b.count, b.head, b.next), b.count, r)
  BY <1>3, WalkIs
<1> QED
  BY <1>4, Zenon DEF Walk, WalkFrom, IsWalk

LEMMA WalkBackRing ==
  ASSUME NEW b, NEW r, Chain(b, r), b.tail = r[b.count]
  PROVE  WalkBack(b) = [i \in 1..b.count + 1 |-> r[b.count + 1 - i]]
<1> DEFINE n == b.count
           q == [i \in 1..n + 1 |-> r[n + 1 - i]]
<1>1. n \in Nat /\ \A i \in 0..n : b.prev[r[i + 1]] = r[i]
  BY Zenon DEF Chain, Ring, Order
<1>2. q[1] = b.tail
  BY <1>1
<1>3. ASSUME NEW i \in 1..n PROVE b.prev[q[i]] = q[i + 1]
  <2>1. i \in 1..n + 1 /\ i + 1 \in 1..n + 1 /\ n - i \in 0..n /\ n + 1 - i = (n - i) + 1 /\ n + 1 - (i + 1) = n - i
    BY <1>1
  <2> QED
    BY <1>1, <2>1, Zenon
<1>4. q = [i \in 1..n + 1 |-> q[i]]
  BY Zenon
<1> HIDE DEF q
<1>5. Trail(n, b.tail, b.prev, q)
  BY <1>1, <1>2, <1>3, Zenon DEF Trail
<1>6. IsWalk(WalkFrom(n, b.tail, b.prev), n, q)
  BY <1>5, WalkIs
<1>7. WalkBack(b) = [i \in 1..n + 1 |-> q[i]]
  BY <1>6, Zenon DEF WalkBack, WalkFrom, IsWalk
<1> QED
  BY <1>4, <1>7, Zenon DEF q

(* The entries a buffer holds are read off by a walk from its head. *)
LEMMA EntriesRing ==
  ASSUME NEW b, NEW r, Chain(b, r)
  PROVE  Entries(b) = Listed(b, r)
<1>1. b.count \in Nat
  BY Ends, Zenon
<1>2. \A i \in 1..b.count : i \in 1..b.count + 1
  BY <1>1
<1>3. \A i \in 1..b.count : Walk(b)[i] = r[i]
  <2>1. Walk(b) = [i \in 1..b.count + 1 |-> r[i]]
    BY WalkRing, Zenon
  <2> QED
    BY <1>2, <2>1, Zenon
<1> QED
  BY <1>3, Zenon DEF Entries, Listed, Item

LEMMA EntriesHeld ==
  ASSUME NEW b, NEW L, Holds(b, L)
  PROVE  Entries(b) = L
BY EntriesRing, Zenon DEF Holds

LEMMA EntriesCleared ==
  ASSUME NEW b, Cleared(b)
  PROVE  Entries(b) = << >>
BY SMT DEF Cleared, Entries

Good(b) == b.live \cup {Tag}

(* The walk from the head stays among the entries that were not deleted. *)
LEMMA WalkGood ==
  ASSUME NEW b, NEW r, Chain(b, r)
  PROVE  /\ {Walk(b)[i] : i \in 1..b.count} = b.live
         /\ Walk(b)[b.count + 1] = Tag
         /\ \A i \in 0..b.count + 1 : r[i] \in Good(b)
         /\ b.head \in Good(b)
         /\ \A e \in Good(b) : b.next[e] \in Good(b) /\ b.prev[e] \in Good(b)
<1> DEFINE n == b.count
<1>1. /\ n \in Nat /\ r[0] = Tag /\ r[n + 1] = Tag /\ b.head = r[1] /\ b.live = Linked(r, n)
      /\ \A i \in 0..n : b.next[r[i]] = r[i + 1] /\ b.prev[r[i + 1]] = r[i]
  BY Zenon DEF Chain, Ring, Order
<1>2. Walk(b) = [i \in 1..n + 1 |-> r[i]]
  BY WalkRing, Zenon
<1>3. n + 1 \in 1..n + 1 /\ \A i \in 1..n : i \in 1..n + 1
  BY <1>1
<1>4. {Walk(b)[i] : i \in 1..n} = b.live
  <2>1. \A i \in 1..n : Walk(b)[i] = r[i]
    BY <1>2, <1>3, Zenon
  <2>2. {Walk(b)[i] : i \in 1..n} = {r[i] : i \in 1..n}
    BY <2>1
  <2> QED
    BY <1>1, <2>2, Zenon DEF Linked
<1>5. Walk(b)[n + 1] = Tag
  BY <1>1, <1>2, <1>3, Zenon
<1>6. ASSUME NEW i \in 0..n + 1 PROVE r[i] \in Good(b)
  <2>1. i = 0 \/ i = n + 1 \/ i \in 1..n
    BY <1>1
  <2> QED
    BY <1>1, <2>1, Zenon DEF Good, Linked
<1>7. b.head \in Good(b)
  <2>1. 1 \in 0..n + 1
    BY <1>1
  <2> QED
    BY <1>1, <1>6, <2>1, Zenon
<1>8. ASSUME NEW e \in Good(b) PROVE b.next[e] \in Good(b) /\ b.prev[e] \in Good(b)
  <2>1. PICK i \in 0..n : e = r[i]
    <3>1. 0 \in 0..n /\ \A i \in 1..n : i \in 0..n
      BY <1>1
    <3> QED
      BY <1>1, <3>1, Zenon DEF Good, Linked
  <2>2. PICK j \in 0..n : e = r[j + 1]
    <3>1. CASE e = Tag
      <4>1. n \in 0..n
        BY <1>1
      <4> QED
        BY <1>1, <3>1, <4>1, Zenon
    <3>2. CASE e \in b.live
      <4>1. PICK k \in 1..n : e = r[k]
        <5>1. b.live = Linked(r, n)
          BY <1>1, Zenon
        <5> QED
          BY <3>2, <5>1, Zenon DEF Linked
      <4>2. k - 1 \in 0..n /\ (k - 1) + 1 = k
        BY <1>1
      <4> QED
        BY <4>1, <4>2, Zenon
    <3> QED
      BY <3>1, <3>2, Zenon DEF Good
  <2>3. i + 1 \in 0..n + 1 /\ j \in 0..n + 1
    BY <1>1
  <2> QED
    BY <1>1, <1>6, <2>1, <2>2, <2>3, ZenonT(40)
<1> QED
  BY <1>4, <1>5, <1>6, <1>7, <1>8, Zenon

(* Both walks find the entries the map knows. *)
LEMMA WalksMatch ==
  ASSUME NEW b, NEW L, Holds(b, L)
  PROVE  /\ \A i \in 1..b.count : Walk(b)[i] = WalkBack(b)[b.count + 1 - i]
         /\ WalkBack(b)[b.count + 1] = Tag
         /\ Range(b.map) = b.live /\ \A k \in DOMAIN b.map : b.key[b.map[k]] = k
         /\ b.tail \in Good(b)
<1> DEFINE n == b.count
<1>1. PICK r : Chain(b, r) /\ Mapped(b, r)
  BY Zenon DEF Holds
<1>2. n \in Nat /\ r[0] = Tag /\ b.tail = r[n]
  BY <1>1, Zenon DEF Chain, Ring, Order, Mapped
<1>3. Walk(b) = [i \in 1..n + 1 |-> r[i]]
  BY <1>1, WalkRing, Zenon
<1>4. WalkBack(b) = [i \in 1..n + 1 |-> r[n + 1 - i]]
  BY <1>1, <1>2, WalkBackRing, Zenon
<1>5. ASSUME NEW i \in 1..n PROVE Walk(b)[i] = WalkBack(b)[n + 1 - i]
  <2>1. i \in 1..n + 1 /\ n + 1 - i \in 1..n + 1 /\ n + 1 - (n + 1 - i) = i
    BY <1>2
  <2> QED
    BY <1>3, <1>4, <2>1, Zenon
<1>6. WalkBack(b)[n + 1] = Tag
  <2>1. n + 1 \in 1..n + 1 /\ n + 1 - (n + 1) = 0
    BY <1>2
  <2> QED
    BY <1>2, <1>4, <2>1, Zenon
<1>7. Range(b.map) = b.live /\ \A k \in DOMAIN b.map : b.key[b.map[k]] = k
  <2>1. /\ \A k \in DOMAIN b.map : b.map[k] \in b.live /\ b.key[b.map[k]] = k
        /\ \A x \in b.live : \E k \in DOMAIN b.map : b.map[k] = x
    BY <1>1, Zenon DEF Mapped, Keyed
  <2>2. ASSUME NEW x PROVE x \in Range(b.map) <=> x \in b.live
    BY <2>1, Zenon DEF Range
  <2> QED
    BY <2>1, <2>2, Zenon
<1>8. b.tail \in Good(b)
  <2>1. n \in 0..n + 1
    BY <1>2
  <2> QED
    BY <1>1, <1>2, <2>1, WalkGood, Zenon
<1> QED
  BY <1>5, <1>6, <1>7, <1>8, Zenon

----------------------------------------------------------------------------
(* The inductive invariant: as long as the buffer is used, its pointers    *)
(* and its map describe a list of entries.                                 *)
BufferInv ==
  /\ now \in Nat /\ buf.max \in Nat /\ buf.destroyOld \in BOOLEAN
  /\ IF Closing THEN Cleared(buf) ELSE \E L : Holds(buf, L)

LEMMA InvRing == BufferInv => RingMatchesMap
<1> SUFFICES ASSUME BufferInv PROVE RingMatchesMap
  BY Zenon
<1>2. CASE Closing
  <2>1. PICK r : Chain(buf, r) /\ buf.count = 0 /\ buf.map = << >>
    BY <1>2, Zenon DEF BufferInv, Cleared
  <2>2. buf.live = {} /\ Range(buf.map) = {} /\ DOMAIN buf.map = {} /\ 1..buf.count = {}
    <3>1. buf.live = Linked(r, buf.count)
      BY <2>1, Zenon DEF Chain
    <3> QED
      BY <2>1, <3>1 DEF Linked, Range
  <2>3. /\ {Walk(buf)[i] : i \in 1..buf.count} = buf.live
        /\ Walk(buf)[buf.count + 1] = Tag
        /\ buf.head \in Good(buf)
        /\ \A e \in Good(buf) : buf.next[e] \in Good(buf) /\ buf.prev[e] \in Good(buf)
    BY <2>1, WalkGood
  <2> QED
    BY <1>2, <2>2, <2>3, Zenon DEF RingMatchesMap, Good
<1>3. CASE ~Closing
  <2>1. PICK L : Holds(buf, L)
    BY <1>3, Zenon DEF BufferInv
  <2>2. PICK r : Chain(buf, r)
    BY <2>1, Zenon DEF Holds
  <2>3. /\ {Walk(buf)[i] : i \in 1..buf.count} = buf.live
        /\ Walk(buf)[buf.count + 1] = Tag
        /\ buf.head \in Good(buf)
        /\ \A e \in Good(buf) : buf.next[e] \in Good(buf) /\ buf.prev[e] \in Good(buf)
    BY <2>2, WalkGood
  <2>4. /\ \A i \in 1..buf.count : Walk(buf)[i] = WalkBack(buf)[buf.count + 1 - i]
        /\ WalkBack(buf)[buf.count + 1] = Tag
        /\ Range(buf.map) = buf.live /\ \A k \in DOMAIN buf.map : buf.key[buf.map[k]] = k
        /\ buf.tail \in Good(buf)
    BY <2>1, WalksMatch
  <2> QED
    BY <2>3, <2>4, Zenon DEF RingMatchesMap, Good
<1> QED
  BY <1>2, <1>3, Zenon

----------------------------------------------------------------------------
(* What the operators on sequences make of a list of n entries. *)
IsList(L, n) == n \in Nat /\ L = [i \in 1..n |-> L[i]]

Measures(L, n) == Len(L) = n /\ DOMAIN L = 1..n /\ (L = << >> <=> n = 0)

LEMMA ListSeq ==
  ASSUME NEW L, NEW n, IsList(L, n)
  PROVE  (\E T : L \in Seq(T)) /\ Measures(L, n)
<1> DEFINE T == {L[i] : i \in 1..n}
<1>1. n \in Nat /\ DOMAIN L = 1..n /\ \A i \in 1..n : L[i] \in T
  BY DEF IsList
<1>2. L \in [1..n -> T]
  BY <1>1 DEF IsList
<1> HIDE DEF T
<1>3. L \in Seq(T) /\ Len(L) = n
  BY <1>1, <1>2
<1>4. L = << >> <=> n = 0
  BY <1>3
<1> QED
  BY <1>1, <1>3, <1>4, Zenon DEF Measures

LEMMA SeqList ==
  ASSUME NEW T, NEW s \in Seq(T), NEW n, Len(s) = n
  PROVE  s = [i \in 1..n |-> s[i]]
<1>1. s \in [1..n -> T]
  BY LenProperties
<1> QED
  BY <1>1, Zenon

LEMMA ListTail ==
  ASSUME NEW L, NEW n, IsList(L, n), n # 0
  PROVE  Tail(L) = Omit(L, n, 1)
<1>1. PICK T : L \in Seq(T) /\ Len(L) = n /\ L # << >> /\ n \in Nat
  BY ListSeq DEF IsList, Measures
<1>2. PICK s : s = Tail(L)
  BY Zenon
<1>3. s \in Seq(T) /\ Len(s) = n - 1 /\ \A i \in 1..n - 1 : s[i] = L[i + 1]
  BY <1>1, <1>2, HeadTailProperties
<1>4. s = [i \in 1..n - 1 |-> s[i]]
  BY <1>3, SeqList
<1>5. \A i \in 1..n - 1 : ~(i < 1)
  BY <1>1
<1> QED
  BY <1>2, <1>3, <1>4, <1>5, Zenon DEF Omit

Front(s) == SubSeq(s, 1, Len(s) - 1)
RemoveAt(s, i) == SubSeq(s, 1, i - 1) \o SubSeq(s, i + 1, Len(s))

LEMMA ListFront ==
  ASSUME NEW L, NEW n, IsList(L, n), n # 0
  PROVE  Front(L) = Omit(L, n, n)
<1>1. PICK T : L \in Seq(T) /\ Len(L) = n /\ n \in Nat
  BY ListSeq DEF IsList, Measures
<1>2. SubSeq(L, 1, n - 1) = [i \in 1..n - 1 |-> L[i]]
  BY <1>1
<1>3. \A i \in 1..n - 1 : i < n
  BY <1>1
<1> QED
  BY <1>1, <1>2, <1>3, Zenon DEF Omit, Front

LEMMA ListAppend ==
  ASSUME NEW L, NEW n, IsList(L, n), NEW x
  PROVE  Append(L, x) = Extend(L, n, x)
<1>1. PICK T : L \in Seq(T) /\ Len(L) = n /\ n \in Nat
  BY ListSeq DEF IsList, Measures
<1>2. PICK U : L \in Seq(U) /\ x \in U
  <2>1. L \in Seq(T \cup {x})
    BY <1>1
  <2> QED
    BY <2>1
<1>3. PICK s : s = Append(L, x)
  BY Zenon
<1>4. s \in Seq(U) /\ Len(s) = n + 1 /\ s[n + 1] = x /\ \A i \in 1..n : s[i] = L[i]
  BY <1>1, <1>2, <1>3, AppendProperties
<1>5. s = [i \in 1..n + 1 |-> s[i]]
  BY <1>4, SeqList
<1>6. \A i \in 1..n + 1 : i = n + 1 \/ i \in 1..n
  BY <1>1
<1> QED
  BY <1>3, <1>4, <1>5, <1>6, Zenon DEF Extend

LEMMA ListRest ==
  ASSUME NEW L, NEW n, IsList(L, n), NEW d \in 0..n
  PROVE  SubSeq(L, d + 1, n) = Rest(L, n, d)
<1>1. PICK T : L \in Seq(T) /\ Len(L) = n /\ n \in Nat
  BY ListSeq, Zenon DEF IsList, Measures
<1> QED
  BY <1>1 DEF Rest

LEMMA ListRemove ==
  ASSUME NEW L, NEW n, IsList(L, n), NEW j \in 1..n
  PROVE  RemoveAt(L, j) = Omit(L, n, j)
<1>1. PICK T : L \in Seq(T) /\ Len(L) = n /\ n \in Nat
  BY ListSeq DEF IsList, Measures
<1> DEFINE F == SubSeq(L, 1, j - 1)
           G == SubSeq(L, j + 1, n)
<1>2. /\ F \in Seq(T) /\ Len(F) = j - 1 /\ \A i \in 1..j - 1 : F[i] = L[i]
  BY <1>1
<1>3. /\ G \in Seq(T) /\ Len(G) = n - j /\ \A i \in 1..n - j : G[i] = L[i + j]
  BY <1>1
<1> HIDE DEF F, G
<1>4. PICK s : s = F \o G
  BY Zenon
<1>5. /\ s \in Seq(T) /\ Len(s) = (j - 1) + (n - j)
      /\ \A i \in 1..(j - 1) + (n - j) : s[i] = IF i <= j - 1 THEN F[i] ELSE G[i - (j - 1)]
  <2>1. /\ s \in Seq(T) /\ Len(s) = Len(F) + Len(G)
        /\ \A i \in 1..Len(F) + Len(G) : s[i] = IF i <= Len(F) THEN F[i] ELSE G[i - Len(F)]
    BY <1>2, <1>3, <1>4, ConcatProperties
  <2> QED
    BY <1>2, <1>3, <2>1, Zenon
<1>6. (j - 1) + (n - j) = n - 1
  BY <1>1
<1>7. s = [i \in 1..n - 1 |-> s[i]]
  BY <1>5, <1>6, SeqList
<1>8. ASSUME NEW i \in 1..n - 1 PROVE s[i] = IF i < j THEN L[i] ELSE L[i + 1]
  <2>1. CASE i < j
    <3>1. i <= j - 1 /\ i \in 1..j - 1
      BY <2>1
    <3> QED
      BY <1>2, <1>5, <1>6, <2>1, <3>1, Zenon
  <2>2. CASE ~(i < j)
    <3>1. ~(i <= j - 1) /\ i - (j - 1) \in 1..n - j /\ (i - (j - 1)) + j = i + 1
      BY <1>1, <2>2
    <3> QED
      BY <1>3, <1>5, <1>6, <2>2, <3>1, Zenon
  <2> QED
    BY <2>1, <2>2, Zenon
<1>9. F \o G = Omit(L, n, j)
  BY <1>4, <1>7, <1>8, Zenon DEF Omit
<1> QED
  BY <1>1, <1>9, Zenon DEF RemoveAt, F, G

LEMMA ListOmit ==
  ASSUME NEW L, NEW n \in Nat, NEW j \in 1..n
  PROVE  IsList(Omit(L, n, j), n - 1)
<1>1. n - 1 \in Nat
  OBVIOUS
<1> QED
  BY <1>1, Zenon DEF IsList, Omit

LEMMA ListExtend ==
  ASSUME NEW L, NEW n \in Nat, NEW x
  PROVE  IsList(Extend(L, n, x), n + 1)
<1>1. n + 1 \in Nat
  OBVIOUS
<1> QED
  BY <1>1, Zenon DEF IsList, Extend

(* What the map with expiry sees of a buffer. *)
LEMMA Seen ==
  ASSUME NEW L, Holds(buf, L)
  PROVE  /\ List = L /\ IsList(L, buf.count)
         /\ Len(List) = buf.count /\ DOMAIN List = 1..buf.count
         /\ List = << >> <=> buf.count = 0
         /\ \A k : Abstract!Has(k) <=> k \in DOMAIN buf.map
<1>1. List = L
  BY EntriesHeld, Zenon DEF List
<1>2. /\ buf.count \in Nat /\ L = [i \in 1..buf.count |-> L[i]]
      /\ \A i \in 1..buf.count : L[i].key \in DOMAIN buf.map
      /\ \A k \in DOMAIN buf.map : \E i \in 1..buf.count : L[i].key = k
  BY Held
<1>3. IsList(L, buf.count)
  BY <1>2, Zenon DEF IsList
<1>4. Len(L) = buf.count /\ DOMAIN L = 1..buf.count /\ (L = << >> <=> buf.count = 0)
  <2>1. Measures(L, buf.count)
    BY <1>3, ListSeq, Zenon
  <2> QED
    BY <2>1, Zenon DEF Measures
<1>5. \A k : Abstract!Has(k) <=> k \in DOMAIN buf.map
  BY <1>1, <1>2, <1>4, Zenon DEF Abstract!Has
<1> QED
  BY <1>1, <1>3, <1>4, <1>5, Zenon

(* The entry under a key is one of the list, and there is no other. *)
LEMMA Found ==
  ASSUME NEW L, Holds(buf, L), NEW k, k \in DOMAIN buf.map
  PROVE  \E j \in 1..buf.count : L[j].key = k /\ Abstract!Without(k) = Omit(L, buf.count, j)
<1>1. /\ List = L /\ IsList(L, buf.count) /\ DOMAIN List = 1..buf.count
      /\ Abstract!Has(k)
  BY Seen, Zenon
<1>2. /\ \E i \in 1..buf.count : L[i].key = k
      /\ \A i, j \in 1..buf.count : L[i].key = L[j].key => i = j
  BY Held
<1> DEFINE j == CHOOSE i \in 1..buf.count : L[i].key = k
<1>3. j \in 1..buf.count /\ L[j].key = k
  BY <1>2, Zenon
<1>4. Abstract!Without(k) = RemoveAt(L, j)
  BY <1>1, Zenon DEF Abstract!Without, RemoveAt
<1> HIDE DEF j
<1>5. RemoveAt(L, j) = Omit(L, buf.count, j)
  BY <1>1, <1>3, ListRemove, Zenon
<1> QED
  BY <1>3, <1>4, <1>5, Zenon

(* The buffer goes on as one that holds M. *)
Goes(M) == Holds(buf', M) /\ Same(buf, buf') /\ now' = now

LEMMA GoesList ==
  ASSUME NEW M, Goes(M)
  PROVE  List' = M
<1>1. Entries(buf') = M
  BY EntriesHeld, Zenon DEF Goes
<1> QED
  BY <1>1 DEF List

LEMMA GoesInv ==
  ASSUME BufferInv, NEW M, Goes(M), ~Closing'
  PROVE  BufferInv'
<1>1. now' \in Nat /\ buf'.max \in Nat /\ buf'.destroyOld \in BOOLEAN
  BY Zenon DEF BufferInv, Goes, Same
<1>2. \E L : Holds(buf', L)
  BY Zenon DEF Goes
<1> QED
  BY <1>1, <1>2, Zenon DEF BufferInv

LEMMA StaysGoes ==
  ASSUME NEW L, Holds(buf, L), UNCHANGED <<buf, now>>
  PROVE  Goes(L) /\ UNCHANGED List
<1>1. buf' = buf /\ now' = now
  BY Zenon
<1>2. Goes(L)
  BY <1>1, Zenon DEF Goes, Same
<1>3. List' = L /\ List = L
  BY <1>2, GoesList, Seen, Zenon
<1> QED
  BY <1>2, <1>3, Zenon

----------------------------------------------------------------------------
(* Step by step: each call leaves the buffer holding a list again, and     *)
(* does to the list what the map with expiry promises.                     *)
Kept == (\E M : Goes(M)) /\ ~Closing'

LEMMA Names == "new" # "clear" /\ "push" # "clear" /\ "pop" # "clear" /\ "update" # "clear"
               /\ "pop_front" # "clear" /\ "pop_back" # "clear" /\ "pop_old" # "clear"
OBVIOUS

LEMMA NotClosing ==
  ASSUME NEW op, NEW x, NEW y, call' = <<op, x, y>>, op # "clear"
  PROVE  ~Closing'
BY DEF Closing

LEMMA PushStep ==
  ASSUME BufferInv, NEW L, Holds(buf, L), NEW k, DoPush(k)
  PROVE  Kept /\ Abstract!Push(k)
<1>1. /\ List = L /\ IsList(L, buf.count) /\ Len(List) = buf.count
      /\ Abstract!Has(k) <=> k \in DOMAIN buf.map
  BY Seen, Zenon
<1>2. now' = now /\ now \in Nat /\ buf.count \in Nat /\ buf.max \in Nat
  BY <1>1, Zenon DEF DoPush, BufferInv, IsList
<1>3. Refuses(buf, k) <=> Abstract!Has(k) \/ (buf.max > 0 /\ ~buf.destroyOld /\ Len(List) >= buf.max)
  BY <1>1, Zenon DEF Refuses
<1>4. CASE Refuses(buf, k)
  <2>1. call' = <<"push", k, 0>> /\ buf' = buf
    BY <1>4, Zenon DEF DoPush
  <2>2. Goes(L) /\ UNCHANGED List
    BY <1>2, <2>1, StaysGoes, Zenon
  <2>3. ~Closing'
    BY <2>1, Names, NotClosing, Zenon
  <2>4. Abstract!Push(k)
    BY <1>3, <1>4, <2>1, <2>2, Zenon DEF Abstract!Push
  <2> QED
    BY <2>2, <2>3, <2>4, Zenon DEF Kept
<1>5. CASE ~Refuses(buf, k)
  <2>1. PICK e \in Addrs \ buf.live :
          /\ buf' = Push(buf, k, e)
          /\ call' = <<"push", k, IF buf.max > 0 /\ buf.count >= buf.max THEN 2 ELSE 1>>
    BY <1>5, Zenon DEF DoPush
  <2>2. k \notin DOMAIN buf.map
    BY <1>5, Zenon DEF Refuses
  <2> DEFINE M == Extend(L, buf.count, Item(k, now))
             N == IF buf.max > 0 /\ buf.count + 1 > buf.max THEN Omit(M, buf.count + 1, 1) ELSE M
  <2>3. Holds(Push(buf, k, e), N) /\ Same(buf, Push(buf, k, e))
    <3>1. e \in Addrs /\ e \notin buf.live
      BY Zenon
    <3> QED
      BY <1>2, <2>2, <3>1, HoldsPush, Zenon
  <2>4. Goes(N)
    BY <1>2, <2>1, <2>3, Zenon DEF Goes
  <2>5. ~Closing'
    BY <2>1, Names, NotClosing, Zenon
  <2>6. List' = N
    <3> HIDE DEF N
    <3> QED
      BY <2>4, GoesList, Zenon
  <2>7. Append(List, Abstract!Entry(k, now)) = M
    BY <1>1, ListAppend, Zenon DEF Abstract!Entry, Item
  <2>8. IsList(M, buf.count + 1) /\ buf.count + 1 # 0
    BY <1>2, ListExtend
  <2>9. Len(M) = buf.count + 1 /\ Tail(M) = Omit(M, buf.count + 1, 1)
    <3> HIDE DEF M
    <3>1. Measures(M, buf.count + 1)
      BY <2>8, ListSeq, Zenon
    <3>2. Tail(M) = Omit(M, buf.count + 1, 1)
      BY <2>8, ListTail, Zenon
    <3> QED
      BY <3>1, <3>2, Zenon DEF Measures
  <2>10. buf.count + 1 > buf.max <=> buf.count >= buf.max
    BY <1>2
  <2>11. Abstract!Push(k)
    <3> HIDE DEF M
    <3> QED
      BY <1>3, <1>5, <2>1, <2>6, <2>7, <2>9, <2>10, Zenon DEF Abstract!Push
  <2> QED
    BY <2>4, <2>5, <2>11, Zenon DEF Kept
<1> QED
  BY <1>4, <1>5, Zenon

LEMMA PopStep ==
  ASSUME BufferInv, NEW L, Holds(buf, L), NEW k, DoPop(k)
  PROVE  Kept /\ Abstract!Pop(k)
<1>1. /\ List = L /\ IsList(L, buf.count)
      /\ Abstract!Has(k) <=> k \in DOMAIN buf.map
  BY Seen, Zenon
<1>2. now' = now /\ buf.count \in Nat
  BY <1>1, Zenon DEF DoPop, IsList
<1>3. CASE k \in DOMAIN buf.map
  <2>1. PICK j \in 1..buf.count : L[j].key = k /\ Abstract!Without(k) = Omit(L, buf.count, j)
    BY <1>3, Found, Zenon
  <2>2. buf.count > 0
    BY <1>2, <2>1
  <2>3. buf' = Pop(buf, k) /\ call' = <<"pop", k, 1>>
    BY <1>3, <2>2, Zenon DEF DoPop
  <2>4. Holds(Pop(buf, L[j].key), Omit(L, buf.count, j)) /\ Same(buf, Pop(buf, L[j].key))
    BY HoldsPop, Zenon
  <2>5. Goes(Omit(L, buf.count, j))
    BY <1>2, <2>1, <2>3, <2>4, Zenon DEF Goes
  <2>6. List' = Omit(L, buf.count, j)
    BY <2>5, GoesList, Zenon
  <2>7. ~Closing'
    BY <2>3, Names, NotClosing, Zenon
  <2>8. Abstract!Pop(k)
    BY <1>1, <1>3, <2>1, <2>3, <2>6, Zenon DEF Abstract!Pop
  <2> QED
    BY <2>5, <2>7, <2>8, Zenon DEF Kept
<1>4. CASE k \notin DOMAIN buf.map
  <2>1. call' = <<"pop", k, 0>> /\ buf' = buf
    BY <1>4, Zenon DEF DoPop
  <2>2. Goes(L) /\ UNCHANGED List
    BY <1>2, <2>1, StaysGoes, Zenon
  <2>3. ~Closing'
    BY <2>1, Names, NotClosing, Zenon
  <2>4. Abstract!Pop(k)
    BY <1>1, <1>4, <2>1, <2>2, Zenon DEF Abstract!Pop, Abstract!Without
  <2> QED
    BY <2>2, <2>3, <2>4, Zenon DEF Kept
<1> QED
  BY <1>3, <1>4, Zenon

LEMMA UpdateStep ==
  ASSUME BufferInv, NEW L, Holds(buf, L), NEW k, NEW t \in Nat, DoUpdate(k, t)
  PROVE  Kept /\ Abstract!Update(k, t)
<1>1. /\ List = L /\ IsList(L, buf.count)
      /\ Abstract!Has(k) <=> k \in DOMAIN buf.map
  BY Seen, Zenon
<1>2. now' = now /\ buf.count \in Nat
  BY <1>1, Zenon DEF DoUpdate, IsList
<1>3. CASE k \in DOMAIN buf.map
  <2>1. PICK j \in 1..buf.count : L[j].key = k /\ Abstract!Without(k) = Omit(L, buf.count, j)
    BY <1>3, Found, Zenon
  <2>2. buf' = Update(buf, k, t) /\ call' = <<"update", k, 1>>
    BY <1>3, Zenon DEF DoUpdate
  <2> DEFINE M == Omit(L, buf.count, j)
             N == Extend(M, buf.count - 1, Item(k, t))
  <2>3. Holds(Update(buf, k, t), N) /\ Same(buf, Update(buf, k, t))
    <3>1. /\ Holds(Update(buf, L[j].key, t), Extend(M, buf.count - 1, Item(L[j].key, t)))
          /\ Same(buf, Update(buf, L[j].key, t))
      BY HoldsUpdate, Zenon
    <3> QED
      BY <2>1, <3>1, Zenon
  <2>4. Goes(N)
    BY <1>2, <2>2, <2>3, Zenon DEF Goes
  <2>5. List' = N
    <3> HIDE DEF N
    <3> QED
      BY <2>4, GoesList, Zenon
  <2>6. Append(M, Abstract!Entry(k, t)) = N
    <3>1. IsList(M, buf.count - 1)
      BY <1>2, ListOmit, Zenon
    <3>2. Append(M, Item(k, t)) = Extend(M, buf.count - 1, Item(k, t))
      <4> HIDE DEF M
      <4> QED
        BY <3>1, ListAppend, Zenon
    <3> QED
      BY <3>2, Zenon DEF Abstract!Entry, Item
  <2>7. ~Closing'
    BY <2>2, Names, NotClosing, Zenon
  <2>8. Abstract!Update(k, t)
    <3> HIDE DEF N
    <3> QED
      BY <1>1, <1>3, <2>1, <2>2, <2>5, <2>6, Zenon DEF Abstract!Update
  <2> QED
    BY <2>4, <2>7, <2>8, Zenon DEF Kept
<1>4. CASE k \notin DOMAIN buf.map
  <2>1. call' = <<"update", k, 0>> /\ buf' = buf
    BY <1>4, Zenon DEF DoUpdate
  <2>2. Goes(L) /\ UNCHANGED List
    BY <1>2, <2>1, StaysGoes, Zenon
  <2>3. ~Closing'
    BY <2>1, Names, NotClosing, Zenon
  <2>4. Abstract!Update(k, t)
    BY <1>1, <1>4, <2>1, <2>2, Zenon DEF Abstract!Update
  <2> QED
    BY <2>2, <2>3, <2>4, Zenon DEF Kept
<1> QED
  BY <1>3, <1>4, Zenon

LEMMA PopFrontStep ==
  ASSUME BufferInv, NEW L, Holds(buf, L), DoPopEnd("pop_front", PopFront(buf))
  PROVE  Kept /\ Abstract!PopEnd("pop_front", Tail(List))
<1>1. List = L /\ IsList(L, buf.count) /\ (List = << >> <=> buf.count = 0)
  BY Seen, Zenon
<1>2. now' = now /\ buf' = PopFront(buf) /\ buf.count \in Nat
  BY <1>1, Zenon DEF DoPopEnd, IsList
<1>3. call' = <<"pop_front", None, IF buf.count = 0 THEN 0 ELSE 1>>
  <2>1. buf.count > 0 <=> buf.count # 0
    BY <1>2
  <2> QED
    BY <2>1, Zenon DEF DoPopEnd
<1>4. ~Closing'
  BY <1>3, Names, NotClosing, Zenon
<1>5. CASE buf.count = 0
  <2>1. buf' = buf
    BY <1>2, <1>5, Zenon DEF PopFront
  <2>2. Goes(L) /\ UNCHANGED List
    BY <1>2, <2>1, StaysGoes, Zenon
  <2>3. Abstract!PopEnd("pop_front", Tail(List))
    BY <1>1, <1>3, <1>5, <2>2, Zenon DEF Abstract!PopEnd
  <2> QED
    BY <1>4, <2>2, <2>3, Zenon DEF Kept
<1>6. CASE buf.count # 0
  <2>1. Holds(PopFront(buf), Omit(L, buf.count, 1)) /\ Same(buf, PopFront(buf))
    BY <1>6, HoldsFront, Zenon
  <2>2. Goes(Omit(L, buf.count, 1))
    BY <1>2, <2>1, Zenon DEF Goes
  <2>3. List' = Omit(L, buf.count, 1)
    BY <2>2, GoesList, Zenon
  <2>4. Tail(L) = Omit(L, buf.count, 1)
    BY <1>1, <1>6, ListTail, Zenon
  <2>5. Abstract!PopEnd("pop_front", Tail(List))
    BY <1>1, <1>3, <1>6, <2>3, <2>4, Zenon DEF Abstract!PopEnd
  <2> QED
    BY <1>4, <2>2, <2>5, Zenon DEF Kept
<1> QED
  BY <1>5, <1>6, Zenon

LEMMA PopBackStep ==
  ASSUME BufferInv, NEW L, Holds(buf, L), DoPopEnd("pop_back", PopBack(buf))
  PROVE  Kept /\ Abstract!PopEnd("pop_back", Front(List))
<1>1. List = L /\ IsList(L, buf.count) /\ (List = << >> <=> buf.count = 0)
  BY Seen, Zenon
<1>2. now' = now /\ buf' = PopBack(buf) /\ buf.count \in Nat
  BY <1>1, Zenon DEF DoPopEnd, IsList
<1>3. call' = <<"pop_back", None, IF buf.count = 0 THEN 0 ELSE 1>>
  <2>1. buf.count > 0 <=> buf.count # 0
    BY <1>2
  <2> QED
    BY <2>1, Zenon DEF DoPopEnd
<1>4. ~Closing'
  BY <1>3, Names, NotClosing, Zenon
<1>5. CASE buf.count = 0
  <2>1. buf' = buf
    BY <1>2, <1>5, Zenon DEF PopBack
  <2>2. Goes(L) /\ UNCHANGED List
    BY <1>2, <2>1, StaysGoes, Zenon
  <2>3. Abstract!PopEnd("pop_back", Front(List))
    BY <1>1, <1>3, <1>5, <2>2, Zenon DEF Abstract!PopEnd
  <2> QED
    BY <1>4, <2>2, <2>3, Zenon DEF Kept
<1>6. CASE buf.count # 0
  <2>1. Holds(PopBack(buf), Omit(L, buf.count, buf.count)) /\ Same(buf, PopBack(buf))
    BY <1>6, HoldsBack, Zenon
  <2>2. Goes(Omit(L, buf.count, buf.count))
    BY <1>2, <2>1, Zenon DEF Goes
  <2>3. List' = Omit(L, buf.count, buf.count)
    BY <2>2, GoesList, Zenon
  <2>4. Front(L) = Omit(L, buf.count, buf.count)
    BY <1>1, <1>6, ListFront, Zenon DEF Front
  <2>5. Abstract!PopEnd("pop_back", Front(List))
    BY <1>1, <1>3, <1>6, <2>3, <2>4, Zenon DEF Abstract!PopEnd
  <2> QED
    BY <1>4, <2>2, <2>5, Zenon DEF Kept
<1> QED
  BY <1>5, <1>6, Zenon

LEMMA MinIs ==
  ASSUME NEW S, S \subseteq Nat, NEW m \in S, \A y \in S : m <= y
  PROVE  Abstract!Least(S) = m
<1> DEFINE x == CHOOSE z \in S : \A y \in S : z <= y
<1>1. x \in S /\ \A y \in S : x <= y
  BY Zenon
<1> HIDE DEF x
<1>2. x = m
  BY <1>1
<1> QED
  BY <1>2, Zenon DEF Abstract!Least, x

(* The longest run of expired entries ends where a fresh one stands. *)
StartsAt(L, n, t, f) ==
  LET S == {i \in 1..n : t - L[i].at <= LivingTime}
  IN f = IF S = {} THEN n + 1 ELSE Abstract!Least(S)

LEMMA FirstKept ==
  ASSUME NEW L, NEW n \in Nat, NEW t \in Nat, \A i \in 1..n : L[i].at \in Nat,
         NEW d \in 0..n, \A i \in 1..d : Old(L, t, i), Fresh(L, t, n, d)
  PROVE  StartsAt(L, n, t, d + 1)
<1> USE DEF StartsAt
<1> DEFINE S == {i \in 1..n : t - L[i].at <= LivingTime}
<1>1. \A i \in 1..n : t - L[i].at <= LivingTime <=> ~Old(L, t, i)
  BY BufferAssumption DEF Old
<1>2. ASSUME NEW i \in S PROVE i \in Nat /\ d + 1 <= i
  <2>1. i \in 1..n /\ i \notin 1..d
    BY <1>1, Zenon
  <2> QED
    BY <2>1
<1>3. CASE d = n
  <2>1. \A i \in 1..n : ~(d + 1 <= i)
    BY <1>3
  <2>2. S = {}
    BY <1>2, <2>1, Zenon
  <2> QED
    BY <1>3, <2>2, Zenon
<1>4. CASE d # n
  <2>1. d + 1 \in 1..n
    BY <1>4
  <2>2. d + 1 \in S
    BY <1>1, <1>4, <2>1, Zenon DEF Fresh
  <2>3. S \subseteq Nat
    BY <1>2, Zenon
  <2>4. Abstract!Least(S) = d + 1
    <3> HIDE DEF S
    <3> QED
      BY <1>2, <2>2, <2>3, MinIs, Zenon
  <2>5. S # {}
    BY <2>2, Zenon
  <2> QED
    BY <2>4, <2>5, Zenon
<1> QED
  BY <1>3, <1>4, Zenon

LEMMA PopOldStep ==
  ASSUME BufferInv, NEW L, Holds(buf, L), NEW t \in Nat, DoPopOld(t)
  PROVE  Kept /\ Abstract!PopOld(t)
<1>1. List = L /\ IsList(L, buf.count) /\ Len(List) = buf.count /\ DOMAIN List = 1..buf.count
  BY Seen, Zenon
<1>2. /\ now' = now /\ buf' = PopOld(buf, t) /\ buf.count \in Nat
      /\ call' = <<"pop_old", None, buf.count - buf'.count>>
  BY <1>1, Zenon DEF DoPopOld, IsList
<1>3. PICK d \in 0..buf.count : Expired(buf, PopOld(buf, t), L, t, d) /\ Fresh(L, t, buf.count, d)
  BY HoldsOld, Zenon
<1>4. /\ Holds(buf', Rest(L, buf.count, d)) /\ Same(buf, buf') /\ buf'.count = buf.count - d
      /\ \A i \in 1..d : Old(L, t, i)
  BY <1>2, <1>3, Zenon DEF Expired
<1>5. Goes(Rest(L, buf.count, d))
  BY <1>2, <1>4, Zenon DEF Goes
<1>6. List' = Rest(L, buf.count, d)
  BY <1>5, GoesList, Zenon
<1>7. SubSeq(L, d + 1, buf.count) = Rest(L, buf.count, d)
  BY <1>1, ListRest, Zenon
<1>8. buf.count - buf'.count = d /\ (d + 1) - 1 = d
  BY <1>2, <1>4
<1>9. ~Closing'
  BY <1>2, Names, NotClosing, Zenon
<1> DEFINE S == {i \in 1..buf.count : t - L[i].at <= LivingTime}
<1>10. StartsAt(L, buf.count, t, d + 1)
  <2>1. \A i \in 1..buf.count : L[i].at \in Nat
    BY Held
  <2>2. Fresh(L, t, buf.count, d)
    BY <1>3, Zenon
  <2> QED
    BY <1>2, <1>4, <2>1, <2>2, FirstKept, Zenon
<1>11. Abstract!PopOld(t)
  <2>1. PICK f : f = d + 1
    BY Zenon
  <2>2. f = (IF S = {} THEN Len(List) + 1 ELSE Abstract!Least(S)) /\ f - 1 = d
    BY <1>1, <1>8, <1>10, <2>1, Zenon DEF StartsAt
  <2>3. S = {i \in DOMAIN List : t - List[i].at <= LivingTime}
    BY <1>1, Zenon
  <2>4. List' = SubSeq(List, f, Len(List)) /\ call' = <<"pop_old", None, f - 1>>
    BY <1>1, <1>2, <1>6, <1>7, <1>8, <2>1, <2>2, Zenon
  <2> HIDE DEF S
  <2> QED
    BY <2>2, <2>3, <2>4, Zenon DEF Abstract!PopOld
<1> QED
  BY <1>5, <1>9, <1>11, Zenon DEF Kept

LEMMA ClearStep ==
  ASSUME BufferInv, NEW L, Holds(buf, L), DoClear
  PROVE  BufferInv' /\ Same(buf, buf') /\ Abstract!Clear
<1>1. List = L /\ Len(List) = buf.count /\ IsList(L, buf.count)
  BY Seen, Zenon
<1>2. now' = now /\ buf' = Clear(buf) /\ call' = <<"clear", None, buf.count>> /\ buf.count \in Nat
  BY <1>1, Zenon DEF DoClear, IsList
<1>3. Cleared(Clear(buf)) /\ Same(buf, Clear(buf)) /\ (buf.count = 0 => Clear(buf).tail = Tag)
  BY HoldsClear, Zenon
<1>4. Cleared(buf') /\ Same(buf, buf') /\ (buf.count = 0 => buf'.tail = Tag)
  BY <1>2, <1>3, Zenon
<1>5. List' = << >>
  <2>1. Entries(buf') = << >>
    BY <1>4, EntriesCleared, Zenon
  <2> QED
    BY <2>1 DEF List
<1>6. Abstract!Clear
  BY <1>1, <1>2, <1>5, Zenon DEF Abstract!Clear
<1>7. now' \in Nat /\ buf'.max \in Nat /\ buf'.destroyOld \in BOOLEAN
  BY <1>2, <1>4, Zenon DEF BufferInv, Same
<1>8. Closing' \/ Holds(buf', << >>)
  <2>1. CASE buf.count = 0
    BY <1>4, <2>1, HoldsNone, Zenon
  <2>2. CASE buf.count # 0
    <3>1. buf.count > 0
      BY <1>2, <2>2
    <3> QED
      BY <1>2, <3>1 DEF Closing
  <2> QED
    BY <2>1, <2>2, Zenon
<1> QED
  BY <1>4, <1>6, <1>7, <1>8, Zenon DEF BufferInv

(* A new buffer holds nothing. *)
LEMMA InitInv == Init => BufferInv /\ Abstract!Init
<1> SUFFICES ASSUME Init PROVE BufferInv /\ Abstract!Init
  BY Zenon
<1>1. PICK max \in Limits, destroyOld \in BOOLEAN :
        buf = [max |-> max, destroyOld |-> destroyOld,
               head |-> Tag, tail |-> Tag, count |-> 0, map |-> << >>, live |-> {},
               prev |-> [n \in Nodes |-> Tag], next |-> [n \in Nodes |-> Tag],
               key |-> << >>, at |-> << >>]
  BY Zenon DEF Init
<1>2. /\ buf.max = max /\ buf.destroyOld = destroyOld /\ buf.head = Tag /\ buf.tail = Tag
      /\ buf.count = 0 /\ buf.map = << >> /\ buf.live = {} /\ buf.key = << >> /\ buf.at = << >>
      /\ buf.prev = [n \in Nodes |-> Tag] /\ buf.next = [n \in Nodes |-> Tag] /\ IsBuffer(buf)
  BY <1>1, Zenon DEF IsBuffer
<1> DEFINE r == [i \in 0..1 |-> Tag]
<1>3. r \in [0..0 + 1 -> Nodes] /\ r[0] = Tag /\ r[1] = Tag /\ Tag \in Nodes
  BY DEF Nodes
<1>4. Order(r, 0)
  BY BufferAssumption, <1>3 DEF Order
<1>5. Ring(buf.next, buf.prev, r, 0)
  <2>1. buf.next \in [Nodes -> Nodes] /\ buf.prev \in [Nodes -> Nodes] /\ buf.next[Tag] = Tag /\ buf.prev[Tag] = Tag
    BY <1>2, <1>3, ZenonT(40)
  <2>2. \A i \in 0..0 : i = 0 /\ i + 1 = 1
    OBVIOUS
  <2> HIDE DEF r
  <2> QED
    BY <1>3, <1>4, <2>1, <2>2, Zenon DEF Ring
<1>6. Chain(buf, r)
  <2>1. Linked(r, 0) = {}
    BY DEF Linked
  <2>2. DOMAIN buf.key = buf.live /\ buf.at \in [buf.live -> Nat]
    BY <1>2
  <2> HIDE DEF r
  <2> QED
    BY <1>2, <1>3, <1>5, <2>1, <2>2, Zenon DEF Chain
<1>7. Holds(buf, << >>)
  BY <1>2, <1>6, HoldsNone, Zenon DEF Cleared
<1>8. now = 0 /\ call = <<"new", None, 0>>
  BY Zenon DEF Init
<1>9. ~Closing
  BY <1>8 DEF Closing
<1>10. now \in Nat /\ buf.max \in Nat /\ buf.destroyOld \in BOOLEAN
  BY <1>2, <1>8, BufferAssumption
<1>11. List = << >>
  BY <1>7, Seen, Zenon
<1> QED
  BY <1>7, <1>8, <1>9, <1>10, <1>11, Zenon DEF BufferInv, Abstract!Init

(* Every step of the buffer is one of the map with expiry, or none. *)
LEMMA StepInv == BufferInv /\ [Next]_vars => BufferInv' /\ [Abstract!Next]_(Abstract!vars)
<1> SUFFICES ASSUME BufferInv, [Next]_vars
             PROVE  BufferInv' /\ [Abstract!Next]_(Abstract!vars)
  BY Zenon
<1> DEFINE Step == Abstract!Next
           Fixed == UNCHANGED <<buf.max, buf.destroyOld, now>>
<1>1. CASE UNCHANGED vars
  <2>1. now' = now /\ buf' = buf /\ call' = call
    BY <1>1, Zenon DEF vars
  <2>2. BufferInv'
    BY <2>1 DEF BufferInv, Closing
  <2>3. UNCHANGED Abstract!vars
    BY <2>1 DEF Abstract!vars, List
  <2> QED
    BY <2>2, <2>3, Zenon
<1>2. CASE Tick
  <2>1. now' = now + 1 /\ buf' = buf /\ call' = call /\ now \in Nat
    BY <1>2, Zenon DEF Tick, BufferInv
  <2>2. now' \in Nat
    BY <2>1
  <2>3. BufferInv'
    BY <2>1, <2>2 DEF BufferInv, Closing
  <2>4. Abstract!Tick
    BY <2>1 DEF Abstract!Tick, List
  <2> QED
    BY <2>3, <2>4, Zenon DEF Abstract!Next
<1>3. CASE ~Closing /\ Calls
  <2>1. PICK L : Holds(buf, L)
    BY <1>3, Zenon DEF BufferInv
  <2>2. \A t \in 0..now : t \in Nat
    BY DEF BufferInv
  <2>3. ASSUME Kept PROVE BufferInv' /\ Fixed
    BY <2>3, GoesInv, Zenon DEF Kept, Goes, Same
  <2>4. ASSUME NEW k \in Keys, DoPush(k) PROVE BufferInv' /\ Step
    <3>1. Kept /\ Abstract!Push(k)
      BY <2>1, <2>4, PushStep, Zenon
    <3> QED
      BY <2>3, <3>1, Zenon DEF Abstract!Next
  <2>5. ASSUME NEW k \in Keys, DoPop(k) PROVE BufferInv' /\ Step
    <3>1. Kept /\ Abstract!Pop(k)
      BY <2>1, <2>5, PopStep, Zenon
    <3> QED
      BY <2>3, <3>1, Zenon DEF Abstract!Next
  <2>6. ASSUME NEW k \in Keys, NEW t \in 0..now, DoUpdate(k, t) PROVE BufferInv' /\ Step
    <3>1. Kept /\ Abstract!Update(k, t)
      BY <2>1, <2>2, <2>6, UpdateStep, Zenon
    <3> QED
      BY <2>3, <3>1, Zenon DEF Abstract!Next
  <2>7. ASSUME DoPopEnd("pop_front", PopFront(buf)) PROVE BufferInv' /\ Step
    <3>1. Kept /\ Abstract!PopEnd("pop_front", Tail(List))
      BY <2>1, <2>7, PopFrontStep, Zenon
    <3> QED
      BY <2>3, <3>1, Zenon DEF Abstract!Next
  <2>8. ASSUME DoPopEnd("pop_back", PopBack(buf)) PROVE BufferInv' /\ Step
    <3>1. Kept /\ Abstract!PopEnd("pop_back", Front(List))
      BY <2>1, <2>8, PopBackStep, Zenon
    <3> QED
      BY <2>3, <3>1, Zenon DEF Abstract!Next, Front
  <2>9. ASSUME NEW t \in 0..now, DoPopOld(t) PROVE BufferInv' /\ Step
    <3>1. Kept /\ Abstract!PopOld(t)
      BY <2>1, <2>2, <2>9, PopOldStep, Zenon
    <3> QED
      BY <2>3, <3>1, Zenon DEF Abstract!Next
  <2>10. ASSUME DoClear PROVE BufferInv' /\ Step
    <3>1. BufferInv' /\ Same(buf, buf') /\ Abstract!Clear
      BY <2>1, <2>10, ClearStep, Zenon
    <3>2. Fixed
      BY <2>10, <3>1, Zenon DEF Same, DoClear
    <3> QED
      BY <3>1, <3>2, Zenon DEF Abstract!Next
  <2> HIDE DEF Step
  <2>11. BufferInv' /\ Step
    BY <1>3, <2>4, <2>5, <2>6, <2>7, <2>8, <2>9, <2>10, Zenon DEF Calls
  <2> QED
    BY <2>11, Zenon DEF Step
<1> QED
  BY <1>1, <1>2, <1>3, Zenon DEF Next

(* Whatever is pushed, popped, updated, expired or cleared: read from      *)
(* m_pHead along next or from m_pTail along prev, the ring of a            *)
(* CExpireBuffer holds the entries its std::map knows, and no pointer of   *)
(* the buffer leads to a deleted entry.                                    *)
THEOREM RingIsMap == Spec => []RingMatchesMap
<1>1. Init => BufferInv
  BY InitInv, Zenon
<1>2. BufferInv /\ [Next]_vars => BufferInv'
  BY StepInv, Zenon
<1>3. BufferInv => RingMatchesMap
  BY InvRing, Zenon
<1> QED
  BY <1>1, <1>2, <1>3, PTL DEF Spec

(* A CExpireBuffer is a map of limited size in the order of last use: each *)
(* of its operations on pointers does to the list of entries, and returns, *)
(* what ExpiringMap says, whatever the limit, the keys and the addresses.  *)
THEOREM BufferIsExpiringMap == Spec => ImplementsExpiringMap
<1>1. Init => BufferInv /\ Abstract!Init
  BY InitInv, Zenon
<1>2. BufferInv /\ [Next]_vars => BufferInv' /\ [Abstract!Next]_(Abstract!vars)
  BY StepInv, Zenon
<1> QED
  BY <1>1, <1>2, PTL DEF Spec, ImplementsExpiringMap, Abstract!Spec
=============================================================================
