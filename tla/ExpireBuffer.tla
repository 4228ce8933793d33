---------------------------- MODULE ExpireBuffer ----------------------------
(***************************************************************************)
(* CExpireBuffer at the level of its pointers: a ring of entries through   *)
(* m_pTag, a std::map from keys to entries, and a count.  Each operation   *)
(* is the sequence of its assignments, as a function on the buffer.        *)
(*                                                                         *)
(* Values ride along with their keys and are left out, and so is the       *)
(* cursor m_pCurrent, which only next() and prev() read and no caller of   *)
(* this code uses.  A freed entry's fields are reset: nothing may read     *)
(* them.                                                                   *)
(***************************************************************************)
EXTENDS Integers, Sequences, Functions

CONSTANTS Keys,
          None,         \* no argument
          Addrs,        \* addresses of entries
          Tag,          \* m_pTag
          Limits,       \* values of m_count_max; 0 is no limit
          LivingTime,   \* m_living_time
          MaxNow        \* bound: the clock

ASSUME BufferAssumption ==
  /\ Tag \notin Addrs
  /\ Limits \subseteq Nat /\ LivingTime \in Nat /\ MaxNow \in Nat

VARIABLES
  now,   \* time(0)
  buf,   \* the buffer
  call   \* the last call: operation, argument, result

vars == <<now, buf, call>>

Nodes == Addrs \cup {Tag}

Init ==
  /\ now = 0 /\ call = <<"new", None, 0>>
  /\ \E max \in Limits, destroyOld \in BOOLEAN :
     buf = [max |-> max, destroyOld |-> destroyOld,
            head |-> Tag, tail |-> Tag, count |-> 0, map |-> << >>, live |-> {},
            prev |-> [n \in Nodes |-> Tag], next |-> [n \in Nodes |-> Tag],
            key |-> << >>, at |-> << >>]

----------------------------------------------------------------------------
(* The operations, as functions on the buffer *)

Drop(f, x) == Restrict(f, DOMAIN f \ {x})
Put(f, x, y) == [z \in DOMAIN f \cup {x} |-> IF z = x THEN y ELSE f[z]]

Delete(b, e) ==
  [b EXCEPT !.live = @ \ {e}, !.prev[e] = Tag, !.next[e] = Tag,
            !.key = Drop(@, e), !.at = Drop(@, e)]

PopFront(b) ==
  LET h == b.head
      c == b.next[h]
      unlinked == [b EXCEPT !.prev[c] = Tag, !.next[Tag] = c, !.map = Drop(@, b.key[h]),
                            !.head = c, !.count = @ - 1, !.tail = IF b.count = 1 THEN Tag ELSE @]
  IN IF b.count = 0 THEN b ELSE Delete(unlinked, h)

PopBack(b) ==
  LET l == b.tail
      c == b.prev[l]
      unlinked == [b EXCEPT !.next[c] = Tag, !.prev[Tag] = c, !.map = Drop(@, b.key[l]),
                            !.tail = c, !.count = @ - 1, !.head = IF b.count = 1 THEN Tag ELSE @]
  IN IF b.count = 0 THEN b ELSE Delete(unlinked, l)

(* pop(key): p and n are read before the entry is deleted. *)
Pop(b, k) ==
  LET e == b.map[k]
      p == b.prev[e]
      n == b.next[e]
  IN [Delete(b, e) EXCEPT
        !.count = @ - 1, !.map = Drop(@, k), !.next[p] = n, !.prev[n] = p,
        !.tail = IF p = Tag /\ b.count = 1 THEN Tag ELSE IF n = Tag THEN p ELSE @,
        !.head = IF p = Tag THEN n ELSE IF n = Tag /\ b.count = 1 THEN Tag ELSE @]

Refuses(b, k) ==
  k \in DOMAIN b.map \/ (~b.destroyOld /\ b.max > 0 /\ b.count >= b.max)

(* Linked in behind the tail; pop_front makes room if that was too many. *)
Push(b, k, e) ==
  LET b1 == [b EXCEPT !.live = @ \cup {e}, !.key = Put(@, e, k), !.at = Put(@, e, now),
                      !.prev[e] = b.tail, !.next[e] = Tag, !.map = Put(@, k, e)]
      b2 == [b1 EXCEPT !.head = IF b.count = 0 THEN e ELSE @,
                       !.next[IF b.count = 0 THEN Tag ELSE b.tail] = e,
                       !.tail = e, !.prev[Tag] = e, !.count = @ + 1]
  IN IF b.max > 0 /\ b2.count > b.max THEN PopFront(b2) ELSE b2

(* Slip: the entry stays where it is. *)
UpdateInPlace(b, k, t) == [b EXCEPT !.at[b.map[k]] = t]

(* Slip: the new head is not told. *)
UpdateKeepsHead(b, k, t) ==
  LET e == b.map[k]
      p == b.prev[e]
      n == b.next[e]
  IN IF e = b.tail
       THEN [b EXCEPT !.at[e] = t]
       ELSE [b EXCEPT !.at[e] = t, !.next[p] = n, !.prev[n] = p,
                      !.next[b.tail] = e, !.prev[Tag] = e, !.next[e] = Tag, !.prev[e] = b.tail,
                      !.tail = e]

(* Taken out of the ring and linked in behind the tail. *)
Update(b, k, t) ==
  LET e == b.map[k]
      p == b.prev[e]
      n == b.next[e]
  IN IF e = b.tail
       THEN [b EXCEPT !.at[e] = t]
       ELSE [b EXCEPT !.at[e] = t, !.next[p] = n, !.prev[n] = p,
                      !.head = IF @ = e THEN n ELSE @,
                      !.next[b.tail] = e, !.prev[Tag] = e, !.next[e] = Tag, !.prev[e] = b.tail,
                      !.tail = e]

FrontOld(b, t) == b.count > 0 /\ LivingTime < t - b.at[b.head]

PopOld(b, t) ==
  LET turn[i \in 0..b.count] ==
        IF i = 0 THEN b ELSE IF FrontOld(turn[i - 1], t) THEN PopFront(turn[i - 1]) ELSE turn[i - 1]
  IN turn[b.count]

(* clear() deletes entry by entry from the head and leaves m_pTail. *)
ClearOne(b) ==
  LET h == b.head
      c == b.next[h]
  IN Delete([b EXCEPT !.prev[c] = Tag, !.next[Tag] = c, !.head = c, !.count = @ - 1], h)

Clear(b) ==
  LET turn[i \in 0..b.count] == IF i = 0 THEN b ELSE ClearOne(turn[i - 1])
  IN [turn[b.count] EXCEPT !.map = << >>]

----------------------------------------------------------------------------
(* The calls *)

DoPush(k) ==
  /\ IF Refuses(buf, k)
       THEN call' = <<"push", k, 0>> /\ UNCHANGED buf
       ELSE \E e \in Addrs \ buf.live :
              /\ buf' = Push(buf, k, e)
              /\ call' = <<"push", k, IF buf.max > 0 /\ buf.count >= buf.max THEN 2 ELSE 1>>
  /\ UNCHANGED now

(* pop and update look at the count or the map first. *)
DoPop(k) ==
  /\ IF buf.count > 0 /\ k \in DOMAIN buf.map
       THEN buf' = Pop(buf, k) /\ call' = <<"pop", k, 1>>
       ELSE call' = <<"pop", k, 0>> /\ UNCHANGED buf
  /\ UNCHANGED now

DoUpdate(k, t) ==
  /\ IF k \in DOMAIN buf.map
       THEN buf' = Update(buf, k, t) /\ call' = <<"update", k, 1>>
       ELSE call' = <<"update", k, 0>> /\ UNCHANGED buf
  /\ UNCHANGED now

DoPopEnd(op, popped) ==
  /\ buf' = popped /\ call' = <<op, None, IF buf.count > 0 THEN 1 ELSE 0>>
  /\ UNCHANGED now

DoPopOld(t) ==
  /\ buf' = PopOld(buf, t) /\ call' = <<"pop_old", None, buf.count - buf'.count>>
  /\ UNCHANGED now

DoClear ==
  /\ buf' = Clear(buf) /\ call' = <<"clear", None, buf.count>>
  /\ UNCHANGED now

(* A buffer that was cleared of entries is destroyed next: only             *)
(* ~TTaskSelector clears one, and init clears an empty one and uses it on. *)
Closing == call[1] = "clear" /\ call[3] > 0

Tick == now < MaxNow /\ now' = now + 1 /\ UNCHANGED <<buf, call>>

Calls ==
  \/ \E k \in Keys : DoPush(k) \/ DoPop(k) \/ \E t \in 0..now : DoUpdate(k, t)
  \/ DoPopEnd("pop_front", PopFront(buf))
  \/ DoPopEnd("pop_back", PopBack(buf))
  \/ \E t \in 0..now : DoPopOld(t)
  \/ DoClear

Next == (~Closing /\ Calls) \/ Tick

Spec == Init /\ [][Next]_vars

----------------------------------------------------------------------------
(* Properties *)

(* The entries from the head on, and from the tail. *)
Walk(b) == LET w[i \in 1..b.count + 1] == IF i = 1 THEN b.head ELSE b.next[w[i - 1]] IN w
WalkBack(b) == LET w[i \in 1..b.count + 1] == IF i = 1 THEN b.tail ELSE b.prev[w[i - 1]] IN w

(* The ring read forwards and backwards holds the same entries, exactly    *)
(* those the map knows under their keys, and no pointer of the buffer, its *)
(* map or a live entry leads to an entry that was deleted; a buffer        *)
(* cleared for its destruction keeps m_pTail.                              *)
RingMatchesMap ==
  LET n == buf.count
      forth == Walk(buf)
      back == WalkBack(buf)
      good == buf.live \cup {Tag}
  IN /\ \A i \in 1..n : forth[i] = back[n + 1 - i]
     /\ forth[n + 1] = Tag /\ (Closing \/ back[n + 1] = Tag)
     /\ {forth[i] : i \in 1..n} = Range(buf.map)
     /\ Range(buf.map) = buf.live /\ \A k \in DOMAIN buf.map : buf.key[buf.map[k]] = k
     /\ Closing \/ buf.tail \in good
     /\ buf.head \in good /\ \A e \in good : buf.next[e] \in good /\ buf.prev[e] \in good

(* What the entries from the head on hold. *)
Entries(b) == LET w == Walk(b) IN [i \in 1..b.count |-> [key |-> b.key[w[i]], at |-> b.at[w[i]]]]

List == Entries(buf)

Abstract == INSTANCE ExpiringMap WITH maxCount <- buf.max, destroyOld <- buf.destroyOld, list <- List

(* Every operation on the ring does to the list of entries, and returns,   *)
(* what the map with expiry promises.                                      *)
ImplementsExpiringMap == Abstract!Spec
=============================================================================
