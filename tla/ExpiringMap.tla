----------------------------- MODULE ExpiringMap -----------------------------
(***************************************************************************)
(* What CExpireBuffer promises: a map of limited size whose entries are    *)
(* kept in the order of their last push or update, and from whose old end  *)
(* entries expire.  The selector's sessions and the transaction layer's    *)
(* states are kept in such maps.                                           *)
(***************************************************************************)
EXTENDS Integers, Sequences

CONSTANTS Keys,
          None,         \* no argument
          LivingTime    \* m_living_time

VARIABLES maxCount,    \* m_count_max; 0 is no limit
          destroyOld,  \* m_destroy_old
          now,         \* time(0)
          list,        \* entries, oldest first
          call         \* the last call: operation, argument, result

vars == <<maxCount, destroyOld, now, list, call>>

Has(k) == \E i \in DOMAIN list : list[i].key = k
Without(k) ==
  LET i == CHOOSE j \in DOMAIN list : list[j].key = k
  IN IF Has(k) THEN SubSeq(list, 1, i - 1) \o SubSeq(list, i + 1, Len(list)) ELSE list
Least(S) == CHOOSE x \in S : \A y \in S : x <= y
Entry(k, t) == [key |-> k, at |-> t]

Init ==
  /\ maxCount \in Nat /\ destroyOld \in BOOLEAN
  /\ now \in Nat /\ list = <<>> /\ call = <<"new", None, 0>>

Push(k) ==
  IF Has(k) \/ (maxCount > 0 /\ ~destroyOld /\ Len(list) >= maxCount)
    THEN call' = <<"push", k, 0>> /\ UNCHANGED list
    ELSE LET longer == Append(list, Entry(k, now))
         IN IF maxCount > 0 /\ Len(longer) > maxCount
              THEN call' = <<"push", k, 2>> /\ list' = Tail(longer)
              ELSE call' = <<"push", k, 1>> /\ list' = longer

Pop(k) == list' = Without(k) /\ call' = <<"pop", k, IF Has(k) THEN 1 ELSE 0>>

Update(k, t) ==
  /\ list' = IF Has(k) THEN Append(Without(k), Entry(k, t)) ELSE list
  /\ call' = <<"update", k, IF Has(k) THEN 1 ELSE 0>>

PopEnd(op, rest) ==
  IF list = <<>> THEN call' = <<op, None, 0>> /\ UNCHANGED list
                 ELSE call' = <<op, None, 1>> /\ list' = rest

(* The longest run of expired entries at the old end is dropped. *)
PopOld(t) ==
  LET kept == {i \in DOMAIN list : t - list[i].at <= LivingTime}
      from == IF kept = {} THEN Len(list) + 1 ELSE Least(kept)
  IN list' = SubSeq(list, from, Len(list)) /\ call' = <<"pop_old", None, from - 1>>

Clear == list' = <<>> /\ call' = <<"clear", None, Len(list)>>

Tick == now' = now + 1 /\ UNCHANGED <<maxCount, destroyOld, list, call>>

Next ==
  \/ Tick
  \/ /\ \/ \E k \in Keys : Push(k) \/ Pop(k) \/ \E t \in 0..now : Update(k, t)
        \/ PopEnd("pop_front", Tail(list)) \/ PopEnd("pop_back", SubSeq(list, 1, Len(list) - 1)) \/ Clear
        \/ \E t \in 0..now : PopOld(t)
     /\ UNCHANGED <<maxCount, destroyOld, now>>

Spec == Init /\ [][Next]_vars
=============================================================================
