------------------------------ MODULE LruTable ------------------------------
(***************************************************************************)
(* What a bounded table with eviction promises: at most Capacity entries,  *)
(* each with the time of its last update; an update of a known key touches *)
(* that entry alone; a new key enters with the value Fresh, and only when  *)
(* the table is full does another entry go, one that was updated longest   *)
(* ago.                                                                    *)
(***************************************************************************)
EXTENDS Integers, FiniteSets

CONSTANTS Keys, Values, Fresh, Capacity

VARIABLES table, now

Entry == [at : Nat, value : Values]
Tables == UNION {[K -> Entry] : K \in SUBSET Keys}

Init == table = [k \in {} |-> Fresh] /\ now \in Nat

With(t, k, e) ==
  [q \in DOMAIN t \cup {k} |-> IF q = k THEN e ELSE t[q]]

Update(k, v) ==
  /\ k \in DOMAIN table
  /\ table' = With(table, k, [at |-> now, value |-> v])
  /\ UNCHANGED now

Insert(k) ==
  /\ k \notin DOMAIN table
  /\ Cardinality(DOMAIN table) < Capacity
  /\ table' = With(table, k, [at |-> now, value |-> Fresh])
  /\ UNCHANGED now

Oldest(k) == \A q \in DOMAIN table : table[k].at <= table[q].at

Replace(k, old) ==
  /\ k \notin DOMAIN table
  /\ Cardinality(DOMAIN table) = Capacity
  /\ old \in DOMAIN table /\ Oldest(old)
  /\ table' = With([q \in DOMAIN table \ {old} |-> table[q]], k,
                   [at |-> now, value |-> Fresh])
  /\ UNCHANGED now

Clear == table' = [k \in {} |-> Fresh] /\ UNCHANGED now

Pass == now' > now /\ UNCHANGED table

Next == \/ \E k \in Keys : \/ \E v \in Values : Update(k, v)
                           \/ Insert(k)
                           \/ \E old \in Keys : Replace(k, old)
        \/ Clear
        \/ Pass

Spec == Init /\ [][Next]_<<table, now>>
=============================================================================
