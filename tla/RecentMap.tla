------------------------------ MODULE RecentMap ------------------------------
(***************************************************************************)
(* What each bounded map of the store promises its callers: a table of the *)
(* most recently saved entries.  A save replaces the entry of its key and  *)
(* makes it the newest; if the table then holds more than Limit entries    *)
(* the ones saved longest ago are gone (Limit = 0: no limit).  An update   *)
(* changes a value, in the ways Updates allows, and not its age.  The      *)
(* store implements the table by a map and a separate order slice.         *)
(***************************************************************************)
EXTENDS Naturals, Sequences, SequencesExt

CONSTANTS Keys, Values,
          Updates,      \* the pairs of a value and what an update makes of it
          Limit         \* how many entries stay; 0 is no limit

VARIABLE table     \* a sequence of [key, value], oldest save first

Has(k) == \E i \in 1 .. Len(table) : table[i].key = k

\* The entry of k, which has one at most.
Place(k) == CHOOSE i \in 1 .. Len(table) : table[i].key = k

Without(k) == IF Has(k) THEN RemoveAt(table, Place(k)) ELSE table

Newest(s) == IF Limit = 0 \/ Len(s) <= Limit
             THEN s
             ELSE SubSeq(s, Len(s) - Limit + 1, Len(s))

Init == table = <<>>

Save(k, v) == table' = Newest(Append(Without(k), [key |-> k, value |-> v]))

Update(k, v) ==
  /\ \E i \in 1 .. Len(table) : table[i].key = k /\ <<table[i].value, v>> \in Updates
  /\ table' = [i \in 1 .. Len(table) |->
                 IF table[i].key = k THEN [key |-> k, value |-> v] ELSE table[i]]

Delete(k) == Has(k) /\ table' = Without(k)

Next == \E k \in Keys : \/ \E v \in Values : Save(k, v) \/ Update(k, v)
                        \/ Delete(k)

Spec == Init /\ [][Next]_table

==============================================================================
