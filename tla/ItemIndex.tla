------------------------------ MODULE ItemIndex ------------------------------
(***************************************************************************)
(* The shared item index of internal/state/state.go: ItemsByID and         *)
(* itemRefCount.  Every list of items the store keeps (the input and the   *)
(* context of a response, the items of a conversation) counts once for     *)
(* each id it holds; an item is dropped when the last list that counts it  *)
(* is released.  The operators map an index value to an index value, so    *)
(* that a method of the store can chain them as the code does.             *)
(*                                                                         *)
(* An item is abstracted to its id: a list of items is a sequence of ids,  *)
(* ItemsByID the set of ids it has an entry for.  Every item a handler     *)
(* saves has a non-empty id (NormalizeInputItems and the output builders   *)
(* make one where a client sends none).                                    *)
(***************************************************************************)
EXTENDS Naturals, FiniteSets, Sequences, SequencesExt

CONSTANT ItemIDs

\* byID is the keys of ItemsByID.  refs is itemRefCount: the count of an id the
\* Go map has no entry for is 0, as the code reads it.
Indexes == [byID : SUBSET ItemIDs, refs : [ItemIDs -> Nat]]

\* registerItemsLocked.
RegisterItems(index, items) ==
  [index EXCEPT !.byID = @ \cup ToSet(items)]

CountAsPresence(index, items) ==
  [index EXCEPT !.refs =
     [id \in ItemIDs |->
        IF id \in ToSet(items) /\ index.refs[id] = 0 THEN 1 ELSE index.refs[id]]]

\* addItemRefsLocked: one count for each id of the list, however often it occurs.
AddItemRefs(index, items) ==
  [index EXCEPT !.refs =
     [id \in ItemIDs |->
        IF id \in ToSet(items) THEN index.refs[id] + 1 ELSE index.refs[id]]]

\* releaseItemRefsLocked, called for one list after the other: times[id] of the
\* lists hold id.  The count of an id falls by one for each of them, and the id
\* is dropped when it has no count left to give.
ReleaseKeepingLast(index, times) ==
  [byID |-> {id \in index.byID : times[id] = 0 \/ index.refs[id] >= times[id]},
   refs |-> [id \in ItemIDs |-> IF index.refs[id] > times[id]
                                THEN index.refs[id] - times[id]
                                ELSE 0]]

ReleaseItemRefs(index, times) ==
  [byID |-> {id \in index.byID : times[id] = 0 \/ index.refs[id] > times[id]},
   refs |-> [id \in ItemIDs |-> IF index.refs[id] > times[id]
                                THEN index.refs[id] - times[id]
                                ELSE 0]]

\* How many of the owners' lists hold each id.
Times(owners, lists) ==
  [id \in ItemIDs |->
     Cardinality({o \in owners : id \in ToSet(lists[o])})]

==============================================================================
