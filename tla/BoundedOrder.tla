---------------------------- MODULE BoundedOrder ----------------------------
(***************************************************************************)
(* The order slices of internal/state/state.go (responseOrder,             *)
(* chatCompletionOrder, conversationOrder): the keys of a map, oldest save *)
(* first, and the eviction loop the three maps share.                      *)
(***************************************************************************)
EXTENDS Naturals, FiniteSets, Sequences, SequencesExt

\* A Go map after m[k] = v.
Put(m, k, v) == [x \in DOMAIN m \cup {k} |-> IF x = k THEN v ELSE m[x]]

\* forgetID: drop the first occurrence of id, shifting the rest down.
Forget(order, id) == RemoveFirst(order, id)

\* rememberID: the key becomes the newest, and occurs once.
RememberWithoutForgetting(order, id) == Append(order, id)

RememberAtFront(order, id) == <<id>> \o Forget(order, id)

RememberOnce(order, id) ==
  IF id \in ToSet(order) THEN order ELSE Append(order, id)

Remember(order, id) == Append(Forget(order, id), id)

\* The k keys saved longest ago.
Oldest(order, k) == ToSet(SubSeq(order, 1, k))

\* The eviction loops pop the oldest key and delete its entry while the map is
\* over its limit and the order is not exhausted; a limit of 0 evicts nothing.
EvictionStopsEarly(order, keys, max, k) ==
  \/ max = 0
  \/ Cardinality(keys \ Oldest(order, k)) <= max + 1
  \/ k = Len(order)

EvictionStops(order, keys, max, k) ==
  \/ max = 0
  \/ Cardinality(keys \ Oldest(order, k)) <= max
  \/ k = Len(order)

\* The number of keys an eviction loop pops.
EvictCount(order, keys, max) ==
  CHOOSE k \in 0 .. Len(order) :
    /\ EvictionStops(order, keys, max, k)
    /\ \A j \in 0 .. (k - 1) : ~EvictionStops(order, keys, max, j)

\* The entries the loop deletes.
Evicted(order, keys, max) ==
  keys \cap Oldest(order, EvictCount(order, keys, max))

AfterEviction(order, keys, max) ==
  SubSeq(order, EvictCount(order, keys, max) + 1, Len(order))

\* The entries of a map, oldest save first.
Entries(order, m) ==
  [i \in 1 .. Len(order) |-> [key |-> order[i], value |-> m[order[i]]]]

\* An order slice in step with its map: every key once, and no other.
InStep(order, keys) ==
  /\ \A i, j \in 1 .. Len(order) : order[i] = order[j] => i = j
  /\ ToSet(order) = keys

=============================================================================
