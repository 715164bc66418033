------------------------- MODULE ResponsesAPIProofs -------------------------
(***************************************************************************)
(* Proofs about the store of responses, conversations and items, for any   *)
(* sets of ids, any batches and any limits, and about the handlers that    *)
(* use it.                                                                 *)
(*                                                                         *)
(* The handlers call the store as the proofs of its methods assume,        *)
(* whatever they interleave: what the first half shows of the methods      *)
(* holds of the server, for any number of requests, with clients that      *)
(* repeat and reference items and conversations that go while requests use *)
(* them.                                                                   *)
(***************************************************************************)
EXTENDS ResponsesAPI, ListProofs

------------------------------------------------------------------------------
(* The ids in a list.                                                       *)

LEMMA ItemsOfList ==
  ASSUME NEW items \in Seq(ItemIDs)
  PROVE  ToSet(items) \subseteq ItemIDs
PROOF BY LenProperties, ElementOfSeq DEF ToSet

LEMMA ItemsOfConcat ==
  ASSUME NEW s \in Seq(ItemIDs), NEW t \in Seq(ItemIDs)
  PROVE  /\ s \o t \in Seq(ItemIDs)
         /\ ToSet(s \o t) = ToSet(s) \cup ToSet(t)
PROOF
<1> DEFINE st == s \o t
<1>1. /\ st \in Seq(ItemIDs)
      /\ Len(st) = Len(s) + Len(t)
      /\ \A i \in 1 .. Len(s) + Len(t) :
           st[i] = IF i <= Len(s) THEN s[i] ELSE t[i - Len(s)]
  BY ConcatProperties, Zenon
<1>2. /\ Len(s) \in Nat /\ DOMAIN s = 1 .. Len(s)
      /\ Len(t) \in Nat /\ DOMAIN t = 1 .. Len(t)
      /\ DOMAIN st = 1 .. Len(st)
  BY <1>1, LenProperties
<1> HIDE DEF st
<1>3. ASSUME NEW i \in DOMAIN st PROVE st[i] \in ToSet(s) \cup ToSet(t)
  <2>1. CASE i <= Len(s)
    <3>1. i \in DOMAIN s /\ st[i] = s[i]
      BY <1>1, <1>2, <2>1
    <3> QED BY <3>1 DEF ToSet
  <2>2. CASE i > Len(s)
    <3>1. i - Len(s) \in DOMAIN t /\ st[i] = t[i - Len(s)]
      BY <1>1, <1>2, <2>2
    <3> QED BY <3>1 DEF ToSet
  <2> QED BY <1>1, <1>2, <2>1, <2>2
<1>4. ASSUME NEW i \in DOMAIN s PROVE s[i] \in ToSet(st)
  <2>1. i \in DOMAIN st /\ st[i] = s[i]
    BY <1>1, <1>2
  <2> QED BY <2>1 DEF ToSet
<1>5. ASSUME NEW i \in DOMAIN t PROVE t[i] \in ToSet(st)
  <2>1. i + Len(s) \in DOMAIN st /\ st[i + Len(s)] = t[i]
    BY <1>1, <1>2
  <2> QED BY <2>1 DEF ToSet
<1>6. ToSet(st) = ToSet(s) \cup ToSet(t)
  BY <1>3, <1>4, <1>5 DEF ToSet
<1> QED BY <1>1, <1>6 DEF st

------------------------------------------------------------------------------
(* How often the lists of a set of owners hold an id.                      *)

LEMMA TimesType ==
  ASSUME NEW owners, IsFiniteSet(owners), NEW lists
  PROVE  Times(owners, lists) \in [ItemIDs -> Nat]
PROOF
<1>1. ASSUME NEW id \in ItemIDs
      PROVE  Cardinality({o \in owners : id \in ToSet(lists[o])}) \in Nat
  BY FS_Subset, FS_CardinalityType
<1> QED BY <1>1 DEF Times

LEMMA TimesSplit ==
  ASSUME NEW owners, IsFiniteSet(owners), NEW part \in SUBSET owners, NEW lists,
         NEW id \in ItemIDs
  PROVE  Times(owners, lists)[id] =
           Times(part, lists)[id] + Times(owners \ part, lists)[id]
PROOF
<1> DEFINE Of(S) == {o \in S : id \in ToSet(lists[o])}
<1>1. /\ IsFiniteSet(Of(part)) /\ IsFiniteSet(Of(owners \ part))
  BY FS_Subset
<1>2. Of(owners) = Of(part) \cup Of(owners \ part) /\ Of(part) \cap Of(owners \ part) = {}
  OBVIOUS
<1> HIDE DEF Of
<1>3. Cardinality(Of(owners)) =
        Cardinality(Of(part)) + Cardinality(Of(owners \ part))
          - Cardinality(Of(part) \cap Of(owners \ part))
  BY <1>1, <1>2, FS_Union
<1>4. Cardinality(Of(part) \cap Of(owners \ part)) = 0
  BY <1>2, FS_EmptySet
<1>5. Cardinality(Of(part)) \in Nat /\ Cardinality(Of(owners \ part)) \in Nat
  BY <1>1, FS_CardinalityType
<1>6. Cardinality(Of(owners)) = Cardinality(Of(part)) + Cardinality(Of(owners \ part))
  BY <1>3, <1>4, <1>5
<1> QED BY <1>6 DEF Times, Of

LEMMA TimesSame ==
  ASSUME NEW owners, NEW f, NEW g, \A o \in owners : f[o] = g[o]
  PROVE  Times(owners, f) = Times(owners, g)
PROOF
<1>1. ASSUME NEW id \in ItemIDs
      PROVE  {o \in owners : id \in ToSet(f[o])} = {o \in owners : id \in ToSet(g[o])}
  OBVIOUS
<1> QED BY <1>1 DEF Times

LEMMA TimesOfOne ==
  ASSUME NEW o, NEW lists, NEW id \in ItemIDs
  PROVE  Times({o}, lists)[id] = IF id \in ToSet(lists[o]) THEN 1 ELSE 0
PROOF
<1>1. CASE id \in ToSet(lists[o])
  <2>1. {x \in {o} : id \in ToSet(lists[x])} = {o}
    BY <1>1
  <2> QED BY <1>1, <2>1, FS_Singleton DEF Times
<1>2. CASE id \notin ToSet(lists[o])
  <2>1. {x \in {o} : id \in ToSet(lists[x])} = {}
    BY <1>2
  <2> QED BY <1>2, <2>1, FS_EmptySet DEF Times
<1> QED BY <1>1, <1>2

\* A list the map gets under a new key, or instead of the one under an old key.
LEMMA TimesPut ==
  ASSUME NEW f, IsFiniteSet(DOMAIN f), NEW k, NEW items, NEW id \in ItemIDs
  PROVE  LET g == Put(f, k, items)
         IN  /\ IsFiniteSet(DOMAIN g)
             /\ Times(DOMAIN g, g)[id] =
                  (IF id \in ToSet(items) THEN 1 ELSE 0)
                    + Times(DOMAIN f \ {k}, f)[id]
PROOF
<1> DEFINE g == Put(f, k, items)
<1>1. /\ DOMAIN g = DOMAIN f \cup {k}
      /\ g[k] = items
      /\ \A x \in DOMAIN f \ {k} : g[x] = f[x]
  BY DEF Put
<1> HIDE DEF g
<1>2. IsFiniteSet(DOMAIN g)
  BY <1>1, FS_AddElement
<1>3. DOMAIN g \ {k} = DOMAIN f \ {k} /\ {k} \in SUBSET DOMAIN g
  BY <1>1
<1>4. Times(DOMAIN g, g)[id] = Times({k}, g)[id] + Times(DOMAIN g \ {k}, g)[id]
  BY <1>2, <1>3, TimesSplit
<1>5. Times({k}, g)[id] = IF id \in ToSet(items) THEN 1 ELSE 0
  BY <1>1, TimesOfOne
<1>6. Times(DOMAIN f \ {k}, g) = Times(DOMAIN f \ {k}, f)
  BY <1>1, TimesSame
<1> QED BY <1>2, <1>3, <1>4, <1>5, <1>6, Zenon DEF g

LEMMA TimesReplace ==
  \A f, k, items, g : \A id \in ItemIDs :
    IsFiniteSet(DOMAIN f) /\ g = Put(f, k, items)
      => Times(DOMAIN g, g)[id] =
           (IF id \in ToSet(items) THEN 1 ELSE 0) + Times(DOMAIN f \ {k}, f)[id]
PROOF
<1> SUFFICES ASSUME NEW f, IsFiniteSet(DOMAIN f), NEW k, NEW items, NEW id \in ItemIDs
             PROVE  LET g == Put(f, k, items)
                    IN  Times(DOMAIN g, g)[id] =
                          (IF id \in ToSet(items) THEN 1 ELSE 0) + Times(DOMAIN f \ {k}, f)[id]
  OBVIOUS
<1> QED BY TimesPut, Zenon

\* A list the map gets under a new key.
LEMMA TimesAdd ==
  \A f, k, items : \A id \in ItemIDs :
    IsFiniteSet(DOMAIN f) /\ k \notin DOMAIN f
      => Times(DOMAIN Put(f, k, items), Put(f, k, items))[id] =
           (IF id \in ToSet(items) THEN 1 ELSE 0) + Times(DOMAIN f, f)[id]
PROOF
<1> SUFFICES ASSUME NEW f, IsFiniteSet(DOMAIN f), NEW k, k \notin DOMAIN f, NEW items,
                    NEW id \in ItemIDs
             PROVE  Times(DOMAIN Put(f, k, items), Put(f, k, items))[id] =
                      (IF id \in ToSet(items) THEN 1 ELSE 0) + Times(DOMAIN f, f)[id]
  OBVIOUS
<1>1. DOMAIN f \ {k} = DOMAIN f
  OBVIOUS
<1>2. Times(DOMAIN Put(f, k, items), Put(f, k, items))[id] =
        (IF id \in ToSet(items) THEN 1 ELSE 0) + Times(DOMAIN f \ {k}, f)[id]
  BY TimesPut, Zenon
<1> QED BY <1>1, <1>2, Zenon

\* The lists that remain when some owners' lists are deleted.
LEMMA TimesDrop ==
  ASSUME NEW f, IsFiniteSet(DOMAIN f), NEW dropped \in SUBSET DOMAIN f,
         NEW id \in ItemIDs
  PROVE  LET g == Restrict(f, DOMAIN f \ dropped)
         IN  /\ IsFiniteSet(DOMAIN g)
             /\ Times(DOMAIN f, f)[id] = Times(dropped, f)[id] + Times(DOMAIN g, g)[id]
PROOF
<1> DEFINE g == Restrict(f, DOMAIN f \ dropped)
<1>1. DOMAIN g = DOMAIN f \ dropped /\ \A x \in DOMAIN g : g[x] = f[x]
  BY DEF Restrict
<1>2. IsFiniteSet(DOMAIN g)
  BY <1>1, FS_Difference
<1>3. Times(DOMAIN g, g) = Times(DOMAIN f \ dropped, f)
  BY <1>1, TimesSame
<1> QED BY <1>2, <1>3, TimesSplit

------------------------------------------------------------------------------
(* The item index against the lists it counts.                             *)

\* How many of the lists of three maps hold each id.
Counts(inputs, contexts, lists) ==
  [id \in ItemIDs |-> Times(DOMAIN inputs, inputs)[id]
                        + Times(DOMAIN contexts, contexts)[id]
                        + Times(DOMAIN lists, lists)[id]]

\* An id is indexed while it is counted, and counted for each list that holds
\* it: exactly, where no count can be lost track of.
Balanced(index, counts, exact) ==
  /\ index \in Indexes
  /\ index.byID = {id \in ItemIDs : index.refs[id] > 0}
  /\ \A id \in ItemIDs : /\ index.refs[id] >= counts[id]
                         /\ exact => index.refs[id] = counts[id]

LEMMA CountsType ==
  ASSUME NEW inputs, NEW contexts, NEW lists,
         IsFiniteSet(DOMAIN inputs), IsFiniteSet(DOMAIN contexts),
         IsFiniteSet(DOMAIN lists)
  PROVE  Counts(inputs, contexts, lists) \in [ItemIDs -> Nat]
PROOF
<1>1. /\ Times(DOMAIN inputs, inputs) \in [ItemIDs -> Nat]
      /\ Times(DOMAIN contexts, contexts) \in [ItemIDs -> Nat]
      /\ Times(DOMAIN lists, lists) \in [ItemIDs -> Nat]
  BY TimesType
<1> QED BY <1>1 DEF Counts

\* Releasing lists takes away the counts they had.
LEMMA ReleaseBalanced ==
  ASSUME NEW index, NEW before \in [ItemIDs -> Nat], NEW exact \in BOOLEAN,
         Balanced(index, before, exact),
         NEW times \in [ItemIDs -> Nat], NEW after \in [ItemIDs -> Nat],
         \A id \in ItemIDs : before[id] = times[id] + after[id]
  PROVE  Balanced(ReleaseItemRefs(index, times), after, exact)
PROOF
<1> DEFINE released == ReleaseItemRefs(index, times)
<1>1. /\ index.byID = {id \in ItemIDs : index.refs[id] > 0}
      /\ index.refs \in [ItemIDs -> Nat]
  BY DEF Balanced, Indexes
<1>2. /\ released.byID = {id \in index.byID : times[id] = 0 \/ index.refs[id] > times[id]}
      /\ released.refs = [id \in ItemIDs |-> IF index.refs[id] > times[id]
                                             THEN index.refs[id] - times[id]
                                             ELSE 0]
      /\ released = [byID |-> released.byID, refs |-> released.refs]
  BY DEF ReleaseItemRefs
<1> HIDE DEF released
<1>3. \A a, b \in Nat : (IF a > b THEN a - b ELSE 0) \in Nat
  OBVIOUS
<1>4. released.refs \in [ItemIDs -> Nat]
  BY <1>1, <1>2, <1>3
<1>5. ASSUME NEW id \in ItemIDs
      PROVE  /\ id \in released.byID <=> released.refs[id] > 0
             /\ released.refs[id] >= after[id]
             /\ exact => released.refs[id] = after[id]
  <2>1. /\ index.refs[id] \in Nat /\ times[id] \in Nat /\ after[id] \in Nat
        /\ index.refs[id] >= times[id] + after[id]
        /\ exact => index.refs[id] = times[id] + after[id]
    BY <1>1 DEF Balanced
  <2>2. id \in released.byID <=>
          index.refs[id] > 0 /\ (times[id] = 0 \/ index.refs[id] > times[id])
    BY <1>1, <1>2
  <2>3. CASE index.refs[id] > times[id]
    <3>1. released.refs[id] = index.refs[id] - times[id]
      BY <1>2, <2>3
    <3> QED BY <2>1, <2>2, <2>3, <3>1
  <2>4. CASE ~(index.refs[id] > times[id])
    <3>1. released.refs[id] = 0
      BY <1>2, <2>4
    <3>2. after[id] = 0 /\ index.refs[id] = times[id]
      BY <2>1, <2>4, Z3
    <3> QED BY <2>1, <2>2, <2>4, <3>1, <3>2, Z3
  <2> QED BY <2>3, <2>4
<1>6. released \in Indexes
  BY <1>1, <1>2, <1>4 DEF Indexes
<1>7. released.byID = {id \in ItemIDs : released.refs[id] > 0}
  BY <1>1, <1>2, <1>5
<1> QED BY <1>5, <1>6, <1>7 DEF Balanced, released

\* Counting a list whose ids are indexed adds a count for each of them.
LEMMA AddRefsBalanced ==
  ASSUME NEW index, NEW before \in [ItemIDs -> Nat], NEW exact \in BOOLEAN,
         index \in Indexes,
         NEW items \in Seq(ItemIDs),
         index.byID = ToSet(items) \cup {id \in ItemIDs : index.refs[id] > 0},
         \A id \in ItemIDs : /\ index.refs[id] >= before[id]
                             /\ exact => index.refs[id] = before[id],
         NEW after \in [ItemIDs -> Nat],
         \A id \in ItemIDs :
           LET one == IF id \in ToSet(items) THEN 1 ELSE 0
           IN  after[id] <= one + before[id] /\ (exact => after[id] = one + before[id])
  PROVE  Balanced(AddItemRefs(index, items), after, exact)
PROOF
<1> DEFINE added == AddItemRefs(index, items)
<1>1. index.byID \subseteq ItemIDs /\ index.refs \in [ItemIDs -> Nat]
      /\ index = [byID |-> index.byID, refs |-> index.refs]
  BY DEF Indexes
<1>2. /\ added.byID = index.byID
      /\ added.refs = [id \in ItemIDs |-> IF id \in ToSet(items)
                                          THEN index.refs[id] + 1
                                          ELSE index.refs[id]]
      /\ added = [index EXCEPT !.refs = added.refs]
  BY <1>1 DEF AddItemRefs
<1> HIDE DEF added
<1>3. ASSUME NEW id \in ItemIDs
      PROVE  /\ added.refs[id] \in Nat
             /\ id \in added.byID <=> added.refs[id] > 0
             /\ added.refs[id] >= after[id]
             /\ exact => added.refs[id] = after[id]
  <2>1. /\ index.refs[id] \in Nat /\ before[id] \in Nat /\ after[id] \in Nat
        /\ index.refs[id] >= before[id]
        /\ exact => index.refs[id] = before[id]
    BY <1>1
  <2>2. CASE id \in ToSet(items)
    <3>1. /\ added.refs[id] = index.refs[id] + 1
          /\ id \in added.byID
      BY <1>2, <2>2
    <3>2. /\ after[id] <= 1 + before[id]
          /\ exact => after[id] = 1 + before[id]
      BY <2>2
    <3> QED BY <2>1, <3>1, <3>2, Z3
  <2>3. CASE id \notin ToSet(items)
    <3>1. /\ added.refs[id] = index.refs[id]
          /\ id \in added.byID <=> index.refs[id] > 0
      BY <1>2, <2>3
    <3>2. /\ after[id] <= 0 + before[id]
          /\ exact => after[id] = 0 + before[id]
      BY <2>3
    <3> QED BY <2>1, <3>1, <3>2
  <2> QED BY <2>2, <2>3
<1>4. added.refs \in [ItemIDs -> Nat]
  BY <1>2, <1>3
<1>5. added \in Indexes
  BY <1>1, <1>2, <1>4 DEF Indexes
<1>6. added.byID = {id \in ItemIDs : added.refs[id] > 0}
  BY <1>1, <1>2, <1>3
<1> QED BY <1>3, <1>5, <1>6 DEF Balanced, added

\* The same for a list that is registered first.
LEMMA CountBalanced ==
  ASSUME NEW index, NEW before \in [ItemIDs -> Nat], NEW exact \in BOOLEAN,
         Balanced(index, before, exact),
         NEW items \in Seq(ItemIDs), NEW after \in [ItemIDs -> Nat],
         \A id \in ItemIDs :
           LET one == IF id \in ToSet(items) THEN 1 ELSE 0
           IN  after[id] <= one + before[id] /\ (exact => after[id] = one + before[id])
  PROVE  /\ Balanced(AddItemRefs(RegisterItems(index, items), items), after, exact)
         /\ ToSet(items) \subseteq AddItemRefs(RegisterItems(index, items), items).byID
PROOF
<1> DEFINE registered == RegisterItems(index, items)
<1>1. ToSet(items) \subseteq ItemIDs
  BY ItemsOfList
<1>2. /\ index \in Indexes
      /\ index.byID = {id \in ItemIDs : index.refs[id] > 0}
      /\ \A id \in ItemIDs : /\ index.refs[id] >= before[id]
                             /\ exact => index.refs[id] = before[id]
  BY DEF Balanced
<1>3. /\ registered.byID = index.byID \cup ToSet(items)
      /\ registered.refs = index.refs
      /\ registered \in Indexes
  BY <1>1, <1>2 DEF RegisterItems, Indexes
<1> HIDE DEF registered
<1>4. registered.byID = ToSet(items) \cup {id \in ItemIDs : registered.refs[id] > 0}
  BY <1>2, <1>3
<1>5. \A id \in ItemIDs : /\ registered.refs[id] >= before[id]
                          /\ exact => registered.refs[id] = before[id]
  BY <1>2, <1>3
<1>6. Balanced(AddItemRefs(registered, items), after, exact)
  BY <1>3, <1>4, <1>5, AddRefsBalanced
<1>7. AddItemRefs(registered, items).byID = registered.byID
  BY <1>3 DEF AddItemRefs, Indexes
<1> QED BY <1>3, <1>6, <1>7 DEF registered

------------------------------------------------------------------------------
(* The inductive invariant.                                                *)

\* exact says whether no count can be lost track of: a conversation only gets items
\* it does not have, and no save replaces a list that outlived its conversation.
IInv(exact) ==
  /\ TypeOK
  /\ OrdersInStep
  /\ WithinLimits
  /\ RefsCoverHolds
  /\ ~LateAppends => NoOrphanLists
  /\ exact => RefsAreExact

\* IInv in three parts: the responses, the conversations, the item index.
GoodResponses(responses, inputs, contexts, order) ==
  /\ responses \in [DOMAIN responses -> Statuses]
  /\ DOMAIN responses \subseteq ResponseIDs
  /\ inputs \in [DOMAIN responses -> Seq(ItemIDs)]
  /\ contexts \in [DOMAIN responses -> Seq(ItemIDs)]
  /\ order \in Seq(ResponseIDs)
  /\ InStep(order, DOMAIN responses)
  /\ MaxResponses > 0 => Cardinality(DOMAIN responses) <= MaxResponses

GoodConversations(conversations, lists, order) ==
  /\ conversations \in [DOMAIN conversations -> Metadata]
  /\ DOMAIN conversations \subseteq DOMAIN lists
  /\ lists \in [DOMAIN lists -> Seq(ItemIDs)]
  /\ DOMAIN lists \subseteq ConversationIDs
  /\ order \in Seq(ConversationIDs)
  /\ InStep(order, DOMAIN conversations)
  /\ MaxConversations > 0 => Cardinality(DOMAIN conversations) <= MaxConversations
  /\ ~LateAppends => DOMAIN lists \subseteq DOMAIN conversations

LEMMA InvariantParts ==
  ASSUME NEW exact \in BOOLEAN
  PROVE  IInv(exact) <=>
           /\ GoodResponses(Responses, ResponseInputItems, ResponseContextItems,
                            responseOrder)
           /\ GoodConversations(Conversations, ConversationItems, conversationOrder)
           /\ Balanced(Index, Counts(ResponseInputItems, ResponseContextItems,
                                     ConversationItems), exact)
PROOF
<1> DEFINE counts == Counts(ResponseInputItems, ResponseContextItems, ConversationItems)
<1>1. \A id \in ItemIDs : HoldCount(id) = counts[id]
  BY DEF HoldCount, Counts
<1>2. Index.byID = ItemsByID /\ Index.refs = itemRefCount
  BY DEF Index
<1>3. Index \in Indexes <=> ItemsByID \subseteq ItemIDs /\ itemRefCount \in [ItemIDs -> Nat]
  BY DEF Index, Indexes
<1> HIDE DEF counts
<1>4. ASSUME ItemsByID \subseteq ItemIDs, itemRefCount \in [ItemIDs -> Nat]
      PROVE  RefsCoverHolds /\ (exact => RefsAreExact) <=> Balanced(Index, counts, exact)
  BY <1>1, <1>2, <1>3, <1>4 DEF RefsCoverHolds, RefsAreExact, Balanced
<1>5. Balanced(Index, counts, exact) => Index \in Indexes
  BY DEF Balanced
<1>6. TypeOK =>
        /\ DOMAIN ResponseInputItems = DOMAIN Responses
        /\ DOMAIN ResponseContextItems = DOMAIN Responses
        /\ ItemsByID \subseteq ItemIDs /\ itemRefCount \in [ItemIDs -> Nat]
  BY DEF TypeOK
<1>7. ASSUME IInv(exact)
      PROVE  /\ GoodResponses(Responses, ResponseInputItems, ResponseContextItems,
                              responseOrder)
             /\ GoodConversations(Conversations, ConversationItems, conversationOrder)
             /\ Balanced(Index, counts, exact)
  <2>1. Balanced(Index, counts, exact)
    BY <1>4, <1>6, <1>7 DEF IInv
  <2>2. GoodResponses(Responses, ResponseInputItems, ResponseContextItems, responseOrder)
    BY <1>7 DEF IInv, TypeOK, OrdersInStep, ResponsesInStep, WithinLimits, GoodResponses
  <2>3. GoodConversations(Conversations, ConversationItems, conversationOrder)
    BY <1>7 DEF IInv, TypeOK, OrdersInStep, ConversationsInStep, WithinLimits,
                NoOrphanLists, GoodConversations
  <2> QED BY <2>1, <2>2, <2>3
<1>8. ASSUME GoodResponses(Responses, ResponseInputItems, ResponseContextItems,
                           responseOrder),
             GoodConversations(Conversations, ConversationItems, conversationOrder),
             Balanced(Index, counts, exact)
      PROVE  IInv(exact)
  <2>1. ItemsByID \subseteq ItemIDs /\ itemRefCount \in [ItemIDs -> Nat]
    BY <1>3, <1>5, <1>8
  <2>2. RefsCoverHolds /\ (exact => RefsAreExact)
    BY <1>4, <1>8, <2>1
  <2>3. /\ DOMAIN ResponseInputItems = DOMAIN Responses
        /\ DOMAIN ResponseContextItems = DOMAIN Responses
    BY <1>8 DEF GoodResponses
  <2>4. TypeOK
    BY <1>8, <2>1, <2>3 DEF TypeOK, GoodResponses, GoodConversations
  <2>5. OrdersInStep /\ WithinLimits /\ (~LateAppends => NoOrphanLists)
    BY <1>8 DEF GoodResponses, GoodConversations, OrdersInStep, ResponsesInStep,
                ConversationsInStep, WithinLimits, NoOrphanLists
  <2> QED BY <2>2, <2>4, <2>5 DEF IInv
<1> QED BY <1>7, <1>8 DEF counts

------------------------------------------------------------------------------
(* The responses.                                                          *)

LEMMA FiniteMaps ==
  /\ \A responses, inputs, contexts, order :
       GoodResponses(responses, inputs, contexts, order) =>
         /\ IsFiniteSet(DOMAIN responses)
         /\ DOMAIN inputs = DOMAIN responses
         /\ DOMAIN contexts = DOMAIN responses
  /\ \A conversations, lists, order :
       GoodConversations(conversations, lists, order) => IsFiniteSet(DOMAIN lists)
PROOF
<1>1. IsFiniteSet(ResponseIDs) /\ IsFiniteSet(ConversationIDs)
  BY StoreAssumption DEF StoreAssumption
<1> QED BY <1>1, FS_Subset DEF GoodResponses, GoodConversations

\* Deleting responses releases what their lists counted.
LEMMA ReleaseResponsesBalanced ==
  ASSUME NEW exact \in BOOLEAN,
         NEW ids, NEW inputs, NEW contexts, NEW lists, NEW index,
         IsFiniteSet(DOMAIN inputs), DOMAIN contexts = DOMAIN inputs,
         IsFiniteSet(DOMAIN lists),
         ids \subseteq DOMAIN inputs,
         Balanced(index, Counts(inputs, contexts, lists), exact)
  PROVE  Balanced(ReleaseResponses(index, ids, inputs, contexts),
                  Counts(Restrict(inputs, DOMAIN inputs \ ids),
                         Restrict(contexts, DOMAIN contexts \ ids), lists),
                  exact)
PROOF
<1> DEFINE keptInputs == Restrict(inputs, DOMAIN inputs \ ids)
           keptContexts == Restrict(contexts, DOMAIN contexts \ ids)
           before == Counts(inputs, contexts, lists)
           between == Counts(keptInputs, contexts, lists)
           after == Counts(keptInputs, keptContexts, lists)
<1>1. exact \in BOOLEAN
  OBVIOUS
<1>2. IsFiniteSet(ids)
  BY FS_Subset
<1>3. Times(ids, inputs) \in [ItemIDs -> Nat] /\ Times(ids, contexts) \in [ItemIDs -> Nat]
  BY <1>2, TimesType
<1>4. ASSUME NEW id \in ItemIDs
      PROVE  /\ Times(DOMAIN inputs, inputs)[id] =
                  Times(ids, inputs)[id] + Times(DOMAIN keptInputs, keptInputs)[id]
             /\ Times(DOMAIN contexts, contexts)[id] =
                  Times(ids, contexts)[id] + Times(DOMAIN keptContexts, keptContexts)[id]
  <2>1. /\ ids \in SUBSET DOMAIN inputs /\ ids \in SUBSET DOMAIN contexts
        /\ IsFiniteSet(DOMAIN contexts)
    OBVIOUS
  <2>2. Times(DOMAIN inputs, inputs)[id] =
          Times(ids, inputs)[id] + Times(DOMAIN keptInputs, keptInputs)[id]
    BY <2>1, TimesDrop, Zenon
  <2>3. Times(DOMAIN contexts, contexts)[id] =
          Times(ids, contexts)[id] + Times(DOMAIN keptContexts, keptContexts)[id]
    BY <2>1, TimesDrop, Zenon
  <2> QED BY <2>2, <2>3
<1>5. IsFiniteSet(DOMAIN keptInputs) /\ IsFiniteSet(DOMAIN keptContexts)
  <2>1. DOMAIN keptInputs = DOMAIN inputs \ ids /\ DOMAIN keptContexts = DOMAIN contexts \ ids
    BY DEF Restrict
  <2> QED BY <2>1, FS_Difference, SMTT(30)
<1> HIDE DEF keptInputs, keptContexts
<1>6. /\ before \in [ItemIDs -> Nat] /\ between \in [ItemIDs -> Nat]
      /\ after \in [ItemIDs -> Nat]
  BY <1>5, CountsType
<1>7. /\ Times(DOMAIN inputs, inputs) \in [ItemIDs -> Nat]
      /\ Times(DOMAIN contexts, contexts) \in [ItemIDs -> Nat]
      /\ Times(DOMAIN lists, lists) \in [ItemIDs -> Nat]
      /\ Times(DOMAIN keptInputs, keptInputs) \in [ItemIDs -> Nat]
      /\ Times(DOMAIN keptContexts, keptContexts) \in [ItemIDs -> Nat]
  BY <1>5, TimesType
<1>8. ASSUME NEW id \in ItemIDs
      PROVE  /\ before[id] = Times(ids, inputs)[id] + between[id]
             /\ between[id] = Times(ids, contexts)[id] + after[id]
  BY <1>3, <1>4, <1>7 DEF Counts
<1> HIDE DEF before, between, after
<1>9. Balanced(ReleaseItemRefs(index, Times(ids, inputs)), between, exact)
  BY <1>1, <1>3, <1>6, <1>8, ReleaseBalanced DEF before
<1>10. Balanced(ReleaseItemRefs(ReleaseItemRefs(index, Times(ids, inputs)),
                                Times(ids, contexts)), after, exact)
  BY <1>1, <1>3, <1>6, <1>8, <1>9, ReleaseBalanced
<1> QED BY <1>10 DEF ReleaseResponses, after, keptInputs, keptContexts

\* Storing a response counts its two lists.
LEMMA AddResponseBalanced ==
  ASSUME NEW exact \in BOOLEAN,
         NEW r, NEW inputs, NEW contexts, NEW lists, NEW index,
         IsFiniteSet(DOMAIN inputs), r \notin DOMAIN inputs,
         IsFiniteSet(DOMAIN contexts), r \notin DOMAIN contexts,
         IsFiniteSet(DOMAIN lists),
         Balanced(index, Counts(inputs, contexts, lists), exact),
         NEW input \in Seq(ItemIDs), NEW full \in Seq(ItemIDs),
         ToSet(input) \subseteq ToSet(full)
  PROVE  Balanced(AddItemRefs(AddItemRefs(RegisterItems(index, full), full), input),
                  Counts(Put(inputs, r, input), Put(contexts, r, full), lists),
                  exact)
PROOF
<1> DEFINE newInputs == Put(inputs, r, input)
           newContexts == Put(contexts, r, full)
           before == Counts(inputs, contexts, lists)
           between == Counts(inputs, newContexts, lists)
           after == Counts(newInputs, newContexts, lists)
           counted == AddItemRefs(RegisterItems(index, full), full)
<1>1. exact \in BOOLEAN
  OBVIOUS
<1>2. DOMAIN newInputs = DOMAIN inputs \cup {r} /\ DOMAIN newContexts = DOMAIN contexts \cup {r}
  BY DEF Put
<1>3. IsFiniteSet(DOMAIN newInputs) /\ IsFiniteSet(DOMAIN newContexts)
  BY <1>2, FS_AddElement, Z3
<1>5. ASSUME NEW id \in ItemIDs
      PROVE  /\ Times(DOMAIN newInputs, newInputs)[id] =
                  (IF id \in ToSet(input) THEN 1 ELSE 0) + Times(DOMAIN inputs, inputs)[id]
             /\ Times(DOMAIN newContexts, newContexts)[id] =
                  (IF id \in ToSet(full) THEN 1 ELSE 0) + Times(DOMAIN contexts, contexts)[id]
  <2>1. Times(DOMAIN newInputs, newInputs)[id] =
          (IF id \in ToSet(input) THEN 1 ELSE 0) + Times(DOMAIN inputs, inputs)[id]
    BY TimesAdd
  <2>2. Times(DOMAIN newContexts, newContexts)[id] =
          (IF id \in ToSet(full) THEN 1 ELSE 0) + Times(DOMAIN contexts, contexts)[id]
    BY TimesAdd
  <2> QED BY <2>1, <2>2, Zenon
<1> HIDE DEF newInputs, newContexts
<1>6. /\ before \in [ItemIDs -> Nat] /\ between \in [ItemIDs -> Nat]
      /\ after \in [ItemIDs -> Nat]
  BY <1>3, CountsType
<1>7. /\ Times(DOMAIN inputs, inputs) \in [ItemIDs -> Nat]
      /\ Times(DOMAIN contexts, contexts) \in [ItemIDs -> Nat]
      /\ Times(DOMAIN lists, lists) \in [ItemIDs -> Nat]
  BY TimesType
<1>8. ASSUME NEW id \in ItemIDs
      PROVE  /\ between[id] = (IF id \in ToSet(full) THEN 1 ELSE 0) + before[id]
             /\ after[id] = (IF id \in ToSet(input) THEN 1 ELSE 0) + between[id]
  <2>1. \A x, y, z \in Nat, e, f \in {0, 1} :
          /\ x + (e + y) + z = e + (x + y + z)
          /\ (f + x) + (e + y) + z = f + (x + (e + y) + z)
    OBVIOUS
  <2>2. /\ (IF id \in ToSet(full) THEN 1 ELSE 0) \in {0, 1}
        /\ (IF id \in ToSet(input) THEN 1 ELSE 0) \in {0, 1}
    OBVIOUS
  <2>3. /\ before[id] = Times(DOMAIN inputs, inputs)[id]
                          + Times(DOMAIN contexts, contexts)[id]
                          + Times(DOMAIN lists, lists)[id]
        /\ between[id] = Times(DOMAIN inputs, inputs)[id]
                          + Times(DOMAIN newContexts, newContexts)[id]
                          + Times(DOMAIN lists, lists)[id]
        /\ after[id] = Times(DOMAIN newInputs, newInputs)[id]
                          + Times(DOMAIN newContexts, newContexts)[id]
                          + Times(DOMAIN lists, lists)[id]
    BY DEF Counts
  <2> HIDE DEF before, between, after
  <2>4. /\ Times(DOMAIN inputs, inputs)[id] \in Nat
        /\ Times(DOMAIN contexts, contexts)[id] \in Nat
        /\ Times(DOMAIN lists, lists)[id] \in Nat
    BY <1>7
  <2> DEFINE x == Times(DOMAIN inputs, inputs)[id]
             y == Times(DOMAIN contexts, contexts)[id]
             z == Times(DOMAIN lists, lists)[id]
             e == IF id \in ToSet(full) THEN 1 ELSE 0
             f == IF id \in ToSet(input) THEN 1 ELSE 0
  <2>5. /\ before[id] = x + y + z
        /\ between[id] = x + (e + y) + z
        /\ after[id] = (f + x) + (e + y) + z
    BY <1>5, <2>3, Zenon
  <2> HIDE DEF x, y, z, e, f
  <2>6. x \in Nat /\ y \in Nat /\ z \in Nat /\ e \in {0, 1} /\ f \in {0, 1}
    BY <2>2, <2>4 DEF x, y, z, e, f
  <2>7. between[id] = e + before[id] /\ after[id] = f + between[id]
    BY <2>1, <2>5, <2>6
  <2> QED BY <2>7 DEF e, f
<1> HIDE DEF before, between, after
<1>9. \A id \in ItemIDs : before[id] \in Nat /\ between[id] \in Nat /\ after[id] \in Nat
  BY <1>6
<1>10. Balanced(counted, between, exact) /\ ToSet(full) \subseteq counted.byID
  <2>1. Balanced(index, before, exact)
    BY DEF before
  <2>2. \A id \in ItemIDs :
          LET one == IF id \in ToSet(full) THEN 1 ELSE 0
          IN  between[id] <= one + before[id] /\ (exact => between[id] = one + before[id])
    BY <1>8, <1>9
  <2> QED BY <1>1, <1>6, <2>1, <2>2, CountBalanced
<1> HIDE DEF counted
<1>11. Balanced(AddItemRefs(counted, input), after, exact)
  <2>1. /\ counted \in Indexes
        /\ counted.byID = {id \in ItemIDs : counted.refs[id] > 0}
        /\ \A id \in ItemIDs : /\ counted.refs[id] >= between[id]
                               /\ exact => counted.refs[id] = between[id]
    BY <1>10 DEF Balanced
  <2>2. counted.byID = ToSet(input) \cup {id \in ItemIDs : counted.refs[id] > 0}
    BY <1>10, <2>1
  <2>3. \A id \in ItemIDs :
          LET one == IF id \in ToSet(input) THEN 1 ELSE 0
          IN  after[id] <= one + between[id] /\ (exact => after[id] = one + between[id])
    BY <1>8, <1>9
  <2> QED BY <1>1, <1>6, <2>1, <2>2, <2>3, AddRefsBalanced
<1> QED BY <1>11 DEF counted, after, newInputs, newContexts

\* Storing a response keeps everything in order, the eviction included.
LEMMA StoreResponseGood ==
  ASSUME NEW exact \in BOOLEAN,
         IInv(exact),
         NEW r \in ResponseIDs, NEW status \in Statuses,
         NEW contextItems \in Seq(ItemIDs), NEW outputItems \in Seq(ItemIDs)
  PROVE  LET saved == StoreResponse(r, status, contextItems, outputItems)
         IN  /\ GoodResponses(saved.responses, saved.inputs, saved.contexts, saved.order)
             /\ Balanced(saved.index,
                         Counts(saved.inputs, saved.contexts, ConversationItems), exact)
PROOF
<1> DEFINE full      == contextItems \o outputItems
           replaced  == {r} \cap DOMAIN Responses
           released  == ReleaseResponses(Index, replaced, ResponseInputItems,
                                         ResponseContextItems)
           counted   == AddItemRefs(AddItemRefs(RegisterItems(released, full), full),
                                    contextItems)
           responses == Put(Responses, r, status)
           inputs    == Put(ResponseInputItems, r, contextItems)
           contexts  == Put(ResponseContextItems, r, full)
           order     == Remember(responseOrder, r)
           evicted   == Evicted(order, DOMAIN responses, MaxResponses)
           kept      == DOMAIN responses \ evicted
           saved     == StoreResponse(r, status, contextItems, outputItems)
           otherInputs == Restrict(ResponseInputItems, DOMAIN ResponseInputItems \ replaced)
           otherContexts == Restrict(ResponseContextItems,
                                     DOMAIN ResponseContextItems \ replaced)
<1>1. /\ saved.responses = Restrict(responses, kept)
      /\ saved.inputs = Restrict(inputs, kept)
      /\ saved.contexts = Restrict(contexts, kept)
      /\ saved.order = AfterEviction(order, DOMAIN responses, MaxResponses)
      /\ saved.index = ReleaseResponses(counted, evicted, inputs, contexts)
  BY DEF StoreResponse
<1> HIDE DEF saved
<1>2. /\ GoodResponses(Responses, ResponseInputItems, ResponseContextItems, responseOrder)
      /\ GoodConversations(Conversations, ConversationItems, conversationOrder)
      /\ Balanced(Index, Counts(ResponseInputItems, ResponseContextItems,
                                ConversationItems), exact)
  BY InvariantParts
<1>3. /\ IsFiniteSet(DOMAIN Responses)
      /\ DOMAIN ResponseInputItems = DOMAIN Responses
      /\ DOMAIN ResponseContextItems = DOMAIN Responses
      /\ IsFiniteSet(DOMAIN ConversationItems)
  BY <1>2, FiniteMaps
<1>4. full \in Seq(ItemIDs) /\ ToSet(contextItems) \subseteq ToSet(full)
  BY ItemsOfConcat
<1> HIDE DEF full
<1>5. /\ DOMAIN responses = DOMAIN Responses \cup {r}
      /\ DOMAIN inputs = DOMAIN Responses \cup {r}
      /\ DOMAIN contexts = DOMAIN Responses \cup {r}
      /\ responses \in [DOMAIN Responses \cup {r} -> Statuses]
      /\ inputs \in [DOMAIN Responses \cup {r} -> Seq(ItemIDs)]
      /\ contexts \in [DOMAIN Responses \cup {r} -> Seq(ItemIDs)]
  BY <1>2, <1>3, <1>4 DEF GoodResponses, Put
<1>6. order \in Seq(ResponseIDs) /\ InStep(order, DOMAIN responses)
  <2>1. responseOrder \in Seq(ResponseIDs) /\ InStep(responseOrder, DOMAIN Responses)
    BY <1>2 DEF GoodResponses
  <2> HIDE DEF responses
  <2> QED BY <1>5, <2>1, RememberInStep
<1> HIDE DEF order
<1>7. /\ saved.order \in Seq(ResponseIDs)
      /\ InStep(saved.order, kept)
      /\ MaxResponses > 0 => Cardinality(kept) <= MaxResponses
  BY <1>1, <1>6, EvictionInStep, StoreAssumption DEF StoreAssumption
<1>8. GoodResponses(saved.responses, saved.inputs, saved.contexts, saved.order)
  <2>1. DOMAIN responses \subseteq ResponseIDs
    BY <1>2, <1>5 DEF GoodResponses
  <2>2. /\ saved.responses \in [kept -> Statuses] /\ DOMAIN saved.responses = kept
        /\ saved.inputs \in [kept -> Seq(ItemIDs)]
        /\ saved.contexts \in [kept -> Seq(ItemIDs)]
    <3> HIDE DEF responses, inputs, contexts, evicted
    <3> QED BY <1>1, <1>5 DEF Restrict
  <2> HIDE DEF kept, responses
  <2>3. kept \subseteq DOMAIN responses
    BY DEF kept
  <2> QED BY <1>7, <2>1, <2>2, <2>3 DEF GoodResponses
<1>9. Balanced(released, Counts(otherInputs, otherContexts, ConversationItems), exact)
  <2>1. replaced \subseteq DOMAIN ResponseInputItems
    BY <1>3
  <2> QED BY <1>2, <1>3, <2>1, ReleaseResponsesBalanced
<1> HIDE DEF released
<1>10. /\ DOMAIN otherInputs = DOMAIN Responses \ {r}
       /\ DOMAIN otherContexts = DOMAIN Responses \ {r}
       /\ IsFiniteSet(DOMAIN Responses \ {r})
       /\ inputs = Put(otherInputs, r, contextItems)
       /\ contexts = Put(otherContexts, r, full)
  <2>1. /\ DOMAIN otherInputs = DOMAIN Responses \ {r}
        /\ DOMAIN otherContexts = DOMAIN Responses \ {r}
    BY <1>3 DEF Restrict
  <2>2. IsFiniteSet(DOMAIN Responses \ {r})
    BY <1>3, FS_RemoveElement
  <2>3. inputs = Put(otherInputs, r, contextItems)
    BY <1>3 DEF Put, Restrict
  <2>4. contexts = Put(otherContexts, r, full)
    BY <1>3 DEF Put, Restrict
  <2> QED BY <2>1, <2>2, <2>3, <2>4
<1> HIDE DEF otherInputs, otherContexts, inputs, contexts
<1>11. Balanced(counted, Counts(inputs, contexts, ConversationItems), exact)
  BY <1>3, <1>4, <1>9, <1>10, AddResponseBalanced
<1> HIDE DEF counted
<1>12. Balanced(saved.index, Counts(saved.inputs, saved.contexts, ConversationItems), exact)
  <2>1. IsFiniteSet(DOMAIN inputs) /\ DOMAIN contexts = DOMAIN inputs
    <3>1. IsFiniteSet(DOMAIN Responses \cup {r})
      BY <1>3, FS_AddElement
    <3> QED BY <1>5, <3>1
  <2>2. evicted \subseteq DOMAIN inputs
    BY <1>5 DEF Evicted
  <2>3. kept = DOMAIN inputs \ evicted /\ kept = DOMAIN contexts \ evicted
    BY <1>5
  <2> HIDE DEF evicted, kept
  <2> QED BY <1>1, <1>3, <1>11, <2>1, <2>2, <2>3, ReleaseResponsesBalanced
<1> QED BY <1>8, <1>12 DEF saved
------------------------------------------------------------------------------
(* The conversations.                                                      *)

\* The list a map has under a key, also under one it has no entry for.
ListOf(lists, c) == IF c \in DOMAIN lists THEN lists[c] ELSE <<>>

\* One key's list against the lists of the other keys.
LEMMA TimesOthers ==
  \A lists, c : \A id \in ItemIDs :
    IsFiniteSet(DOMAIN lists)
      => Times(DOMAIN lists, lists)[id] =
           (IF id \in ToSet(ListOf(lists, c)) THEN 1 ELSE 0)
             + Times(DOMAIN lists \ {c}, lists)[id]
PROOF
<1> SUFFICES ASSUME NEW lists, NEW c, NEW id \in ItemIDs, IsFiniteSet(DOMAIN lists)
             PROVE  Times(DOMAIN lists, lists)[id] =
                      (IF id \in ToSet(ListOf(lists, c)) THEN 1 ELSE 0)
                        + Times(DOMAIN lists \ {c}, lists)[id]
  OBVIOUS
<1>1. CASE c \in DOMAIN lists
  <2>1. {c} \in SUBSET DOMAIN lists
    BY <1>1
  <2>2. Times(DOMAIN lists, lists)[id] =
          Times({c}, lists)[id] + Times(DOMAIN lists \ {c}, lists)[id]
    BY <2>1, TimesSplit
  <2>3. Times({c}, lists)[id] = IF id \in ToSet(lists[c]) THEN 1 ELSE 0
    BY TimesOfOne
  <2> QED BY <1>1, <2>2, <2>3 DEF ListOf
<1>2. CASE c \notin DOMAIN lists
  <2>1. ListOf(lists, c) = <<>> /\ DOMAIN lists \ {c} = DOMAIN lists
    BY <1>2 DEF ListOf
  <2>2. id \notin ToSet(<<>>)
    BY DEF ToSet
  <2>3. Times(DOMAIN lists, lists)[id] \in Nat
    BY TimesType
  <2> QED BY <2>1, <2>2, <2>3
<1> QED BY <1>1, <1>2

\* Deleting conversations releases what their lists counted.
LEMMA ReleaseListsBalanced ==
  ASSUME NEW exact \in BOOLEAN,
         NEW ids, NEW inputs, NEW contexts, NEW lists, NEW index,
         IsFiniteSet(DOMAIN inputs), IsFiniteSet(DOMAIN contexts),
         IsFiniteSet(DOMAIN lists),
         ids \subseteq DOMAIN lists,
         Balanced(index, Counts(inputs, contexts, lists), exact)
  PROVE  Balanced(ReleaseItemRefs(index, Times(ids, lists)),
                  Counts(inputs, contexts, Restrict(lists, DOMAIN lists \ ids)),
                  exact)
PROOF
<1> DEFINE kept == Restrict(lists, DOMAIN lists \ ids)
           before == Counts(inputs, contexts, lists)
           after == Counts(inputs, contexts, kept)
<1>1. exact \in BOOLEAN
  OBVIOUS
<1>2. Times(ids, lists) \in [ItemIDs -> Nat]
  <2>1. IsFiniteSet(ids)
    BY FS_Subset
  <2> QED BY <2>1, TimesType
<1>3. ASSUME NEW id \in ItemIDs
      PROVE  Times(DOMAIN lists, lists)[id] =
               Times(ids, lists)[id] + Times(DOMAIN kept, kept)[id]
  <2>1. ids \in SUBSET DOMAIN lists
    OBVIOUS
  <2> QED BY <2>1, TimesDrop
<1>4. IsFiniteSet(DOMAIN kept)
  <2>1. DOMAIN kept = DOMAIN lists \ ids
    BY DEF Restrict
  <2> QED BY <2>1, FS_Difference
<1> HIDE DEF kept
<1>5. before \in [ItemIDs -> Nat] /\ after \in [ItemIDs -> Nat]
  BY <1>4, CountsType
<1>6. /\ Times(DOMAIN inputs, inputs) \in [ItemIDs -> Nat]
      /\ Times(DOMAIN contexts, contexts) \in [ItemIDs -> Nat]
      /\ Times(DOMAIN kept, kept) \in [ItemIDs -> Nat]
  BY <1>4, TimesType
<1>7. \A id \in ItemIDs : before[id] = Times(ids, lists)[id] + after[id]
  BY <1>2, <1>3, <1>6 DEF Counts
<1> HIDE DEF before, after
<1>8. Balanced(ReleaseItemRefs(index, Times(ids, lists)), after, exact)
  BY <1>1, <1>2, <1>5, <1>7, ReleaseBalanced DEF before
<1> QED BY <1>8 DEF after, kept

\* Counting the items a conversation gets, in place of its list or after it:
\* exactly, unless the list held one of them already.
LEMMA NewListBalanced ==
  ASSUME NEW exact \in BOOLEAN,
         NEW c, NEW inputs, NEW contexts, NEW lists, NEW index,
         IsFiniteSet(DOMAIN inputs), IsFiniteSet(DOMAIN contexts),
         IsFiniteSet(DOMAIN lists),
         Balanced(index, Counts(inputs, contexts, lists), exact),
         NEW added \in Seq(ItemIDs), NEW list,
         ToSet(list) \subseteq ToSet(ListOf(lists, c)) \cup ToSet(added),
         exact => /\ ToSet(list) = ToSet(ListOf(lists, c)) \cup ToSet(added)
                  /\ ToSet(ListOf(lists, c)) \cap ToSet(added) = {}
  PROVE  Balanced(AddItemRefs(RegisterItems(index, added), added),
                  Counts(inputs, contexts, Put(lists, c, list)), exact)
PROOF
<1> DEFINE new == Put(lists, c, list)
           before == Counts(inputs, contexts, lists)
           after == Counts(inputs, contexts, new)
<1>1. exact \in BOOLEAN
  OBVIOUS
<1>2. IsFiniteSet(DOMAIN new)
  <2>1. DOMAIN new = DOMAIN lists \cup {c}
    BY DEF Put
  <2> QED BY <2>1, FS_AddElement
<1>3. ASSUME NEW id \in ItemIDs
      PROVE  Times(DOMAIN new, new)[id] =
               (IF id \in ToSet(list) THEN 1 ELSE 0) + Times(DOMAIN lists \ {c}, lists)[id]
  <2>1. new = Put(lists, c, list)
    OBVIOUS
  <2> HIDE DEF before, after, new
  <2> QED BY <1>3, <2>1, TimesReplace, Z3
<1> HIDE DEF new
<1>4. before \in [ItemIDs -> Nat] /\ after \in [ItemIDs -> Nat]
  BY <1>2, CountsType
<1>5. /\ Times(DOMAIN inputs, inputs) \in [ItemIDs -> Nat]
      /\ Times(DOMAIN contexts, contexts) \in [ItemIDs -> Nat]
      /\ Times(DOMAIN lists \ {c}, lists) \in [ItemIDs -> Nat]
  <2>1. IsFiniteSet(DOMAIN lists \ {c})
    BY FS_RemoveElement
  <2> QED BY <2>1, TimesType
<1>6. ASSUME NEW id \in ItemIDs
      PROVE  LET one == IF id \in ToSet(added) THEN 1 ELSE 0
             IN  after[id] <= one + before[id] /\ (exact => after[id] = one + before[id])
  <2> DEFINE x == Times(DOMAIN inputs, inputs)[id]
             y == Times(DOMAIN contexts, contexts)[id]
             z == Times(DOMAIN lists \ {c}, lists)[id]
             old == IF id \in ToSet(ListOf(lists, c)) THEN 1 ELSE 0
             now == IF id \in ToSet(list) THEN 1 ELSE 0
             one == IF id \in ToSet(added) THEN 1 ELSE 0
  <2>1. /\ Times(DOMAIN lists, lists)[id] = old + z
        /\ Times(DOMAIN new, new)[id] = now + z
    BY <1>3, TimesOthers
  <2>2. x \in Nat /\ y \in Nat /\ z \in Nat
    BY <1>5
  <2>3. /\ old \in {0, 1} /\ now \in {0, 1} /\ one \in {0, 1}
        /\ now <= one + old
        /\ exact => now = one + old
    OBVIOUS
  <2>4. before[id] = x + y + Times(DOMAIN lists, lists)[id]
        /\ after[id] = x + y + Times(DOMAIN new, new)[id]
    BY DEF Counts
  <2> HIDE DEF x, y, z, old, now, one, before, after
  <2>5. before[id] = x + y + (old + z) /\ after[id] = x + y + (now + z)
    BY <2>1, <2>4
  <2>6. after[id] <= one + before[id] /\ (exact => after[id] = one + before[id])
    BY <2>2, <2>3, <2>5
  <2> QED BY <2>6 DEF one
<1> HIDE DEF before, after
<1>7. Balanced(AddItemRefs(RegisterItems(index, added), added), after, exact)
  BY <1>1, <1>4, <1>6, CountBalanced DEF before
<1> QED BY <1>7 DEF after, new
------------------------------------------------------------------------------
(* Every step keeps the invariant.                                         *)

LEMMA InvariantPartsNext ==
  ASSUME NEW exact \in BOOLEAN
  PROVE  (/\ GoodResponses(Responses, ResponseInputItems, ResponseContextItems,
                          responseOrder)
          /\ GoodConversations(Conversations, ConversationItems, conversationOrder)
          /\ Balanced(Index, Counts(ResponseInputItems, ResponseContextItems,
                                    ConversationItems), exact))' => IInv(exact)'
PROOF
<1>1. (/\ GoodResponses(Responses, ResponseInputItems, ResponseContextItems,
                        responseOrder)
       /\ GoodConversations(Conversations, ConversationItems, conversationOrder)
       /\ Balanced(Index, Counts(ResponseInputItems, ResponseContextItems,
                                 ConversationItems), exact)) => IInv(exact)
  BY InvariantParts
<1> QED BY <1>1, PTL

LEMMA InvariantPartsAfter ==
  ASSUME NEW exact \in BOOLEAN,
         GoodResponses(Responses', ResponseInputItems', ResponseContextItems',
                       responseOrder'),
         GoodConversations(Conversations', ConversationItems', conversationOrder'),
         Balanced([byID |-> ItemsByID', refs |-> itemRefCount'],
                  Counts(ResponseInputItems', ResponseContextItems',
                         ConversationItems'), exact)
  PROVE  IInv(exact)'
PROOF
<1>1. (GoodResponses(Responses, ResponseInputItems, ResponseContextItems,
                     responseOrder))'
  OBVIOUS
<1>2. (GoodConversations(Conversations, ConversationItems, conversationOrder))'
  OBVIOUS
<1>3. (Balanced(Index, Counts(ResponseInputItems, ResponseContextItems,
                              ConversationItems), exact))'
  BY DEF Index
<1> QED BY <1>1, <1>2, <1>3, InvariantPartsNext

\* A step that changes nothing.
LEMMA StoreUnchanged ==
  ASSUME NEW exact \in BOOLEAN, IInv(exact), UNCHANGED vars
  PROVE  IInv(exact)'
PROOF
<1>1. /\ GoodResponses(Responses, ResponseInputItems, ResponseContextItems, responseOrder)
      /\ GoodConversations(Conversations, ConversationItems, conversationOrder)
      /\ Balanced(Index, Counts(ResponseInputItems, ResponseContextItems,
                                ConversationItems), exact)
  BY InvariantParts
<1>2. UNCHANGED <<Responses, ResponseInputItems, ResponseContextItems, responseOrder,
                  Conversations, ConversationItems, conversationOrder,
                  ItemsByID, itemRefCount>>
  BY DEF vars, responseVars, conversationVars, itemVars
<1> QED BY <1>1, <1>2, InvariantPartsAfter DEF Index

LEMMA InitialState ==
  ASSUME NEW exact \in BOOLEAN PROVE Init => IInv(exact)
PROOF
<1> SUFFICES ASSUME Init PROVE IInv(exact)
  OBVIOUS
<1> DEFINE none == <<>>
<1>1. DOMAIN none = {} /\ none \in Seq(ResponseIDs) /\ none \in Seq(ConversationIDs)
  OBVIOUS
<1>2. none \in [{} -> Statuses] /\ none \in [{} -> Seq(ItemIDs)] /\ none \in [{} -> Metadata]
  BY <1>1
<1>3. InStep(none, {})
  BY DEF InStep, ToSet
<1>4. Cardinality({}) = 0 /\ IsFiniteSet({})
  BY FS_EmptySet
<1>5. \A id \in ItemIDs : Times(DOMAIN none, none)[id] = 0
  <2>1. \A id \in ItemIDs : {o \in DOMAIN none : id \in ToSet(none[o])} = {}
    BY <1>1
  <2> QED BY <1>4, <2>1 DEF Times
<1>6. /\ Responses = none /\ ResponseInputItems = none /\ ResponseContextItems = none
      /\ responseOrder = none /\ Conversations = none /\ ConversationItems = none
      /\ conversationOrder = none
      /\ ItemsByID = {} /\ itemRefCount = [id \in ItemIDs |-> 0]
  BY DEF Init
<1> HIDE DEF none
<1>7. GoodResponses(Responses, ResponseInputItems, ResponseContextItems, responseOrder)
  BY <1>1, <1>2, <1>3, <1>4, <1>6, StoreAssumption DEF GoodResponses, StoreAssumption
<1>8. GoodConversations(Conversations, ConversationItems, conversationOrder)
  BY <1>1, <1>2, <1>3, <1>4, <1>6, StoreAssumption DEF GoodConversations, StoreAssumption
<1>9. Balanced(Index, Counts(ResponseInputItems, ResponseContextItems,
                             ConversationItems), exact)
  <2>1. \A id \in ItemIDs : Counts(ResponseInputItems, ResponseContextItems,
                                   ConversationItems)[id] = 0
    BY <1>5, <1>6 DEF Counts
  <2>2. /\ Index.byID = {} /\ Index.refs = [id \in ItemIDs |-> 0]
        /\ Index \in Indexes
    BY <1>6 DEF Index, Indexes
  <2> QED BY <2>1, <2>2 DEF Balanced
<1> QED BY <1>7, <1>8, <1>9, InvariantParts

\* What a save appends to a conversation, if it names one.
Extends(exact, c, newItems) ==
  c # NoConversation =>
    /\ LateAppends \/ c \in DOMAIN Conversations
    /\ exact => ToSet(newItems) \cap ToSet(ItemsOf(c)) = {}

LEMMA SaveResponseKeeps ==
  ASSUME NEW exact \in BOOLEAN,
         IInv(exact),
         NEW r \in ResponseIDs, NEW status \in Statuses,
         NEW contextItems \in Seq(ItemIDs), NEW outputItems \in Seq(ItemIDs),
         NEW store \in BOOLEAN, NEW c \in ConversationIDs \cup {NoConversation},
         NEW input \in Seq(ItemIDs),
         Extends(exact, c, input \o outputItems),
         SaveResponse(r, status, contextItems, outputItems, store, c, input)
  PROVE  IInv(exact)'
PROOF
<1> DEFINE stored == StoreResponse(r, status, contextItems, outputItems)
           saved == IF store THEN stored ELSE NothingStored
           newItems == input \o outputItems
           lists == IF c = NoConversation THEN ConversationItems
                    ELSE Put(ConversationItems, c, ItemsOf(c) \o newItems)
           index == IF c = NoConversation THEN saved.index
                    ELSE AddItemRefs(RegisterItems(saved.index, newItems), newItems)
<1>1. /\ Responses' = saved.responses
      /\ ResponseInputItems' = saved.inputs
      /\ ResponseContextItems' = saved.contexts
      /\ responseOrder' = saved.order
      /\ ConversationItems' = lists
      /\ ItemsByID' = index.byID
      /\ itemRefCount' = index.refs
      /\ UNCHANGED <<Conversations, conversationOrder>>
  BY DEF SaveResponse
<1>2. /\ GoodResponses(Responses, ResponseInputItems, ResponseContextItems, responseOrder)
      /\ GoodConversations(Conversations, ConversationItems, conversationOrder)
      /\ Balanced(Index, Counts(ResponseInputItems, ResponseContextItems,
                                ConversationItems), exact)
  BY InvariantParts
<1>3. /\ GoodResponses(saved.responses, saved.inputs, saved.contexts, saved.order)
      /\ Balanced(saved.index,
                  Counts(saved.inputs, saved.contexts, ConversationItems), exact)
  <2>1. CASE store
    <3>1. /\ GoodResponses(stored.responses, stored.inputs, stored.contexts, stored.order)
          /\ Balanced(stored.index,
                      Counts(stored.inputs, stored.contexts, ConversationItems), exact)
      BY StoreResponseGood
    <3> HIDE DEF stored
    <3> QED BY <2>1, <3>1
  <2>2. CASE ~store
    BY <1>2, <2>2 DEF NothingStored
  <2> QED BY <2>1, <2>2
<1> HIDE DEF saved
<1>4. /\ IsFiniteSet(DOMAIN saved.inputs) /\ IsFiniteSet(DOMAIN saved.contexts)
      /\ IsFiniteSet(DOMAIN ConversationItems)
  <2>1. /\ IsFiniteSet(DOMAIN saved.responses)
        /\ DOMAIN saved.inputs = DOMAIN saved.responses
        /\ DOMAIN saved.contexts = DOMAIN saved.responses
    BY <1>3, StoreAssumption, FS_Subset DEF GoodResponses, StoreAssumption
  <2>2. IsFiniteSet(DOMAIN ConversationItems)
    BY <1>2, FiniteMaps
  <2> QED BY <2>1, <2>2
<1>5. /\ ItemsOf(c) = ListOf(ConversationItems, c)
      /\ ItemsOf(c) \in Seq(ItemIDs)
  BY <1>2 DEF ItemsOf, ListOf, GoodConversations
<1>6. newItems \in Seq(ItemIDs)
  BY ItemsOfConcat
<1>7. c # NoConversation =>
        /\ LateAppends \/ c \in DOMAIN Conversations
        /\ exact => ToSet(newItems) \cap ToSet(ItemsOf(c)) = {}
  BY DEF Extends
<1> HIDE DEF newItems
<1>8. /\ ItemsOf(c) \o newItems \in Seq(ItemIDs)
      /\ ToSet(ItemsOf(c) \o newItems) = ToSet(ItemsOf(c)) \cup ToSet(newItems)
  BY <1>5, <1>6, ItemsOfConcat
<1>9. GoodConversations(Conversations', lists, conversationOrder')
  <2>1. CASE c = NoConversation
    BY <1>1, <1>2, <2>1
  <2>2. CASE c # NoConversation
    <3>1. lists = Put(ConversationItems, c, ItemsOf(c) \o newItems) /\ c \in ConversationIDs
      BY <2>2
    <3>2. /\ DOMAIN lists = DOMAIN ConversationItems \cup {c}
          /\ lists \in [DOMAIN lists -> Seq(ItemIDs)]
      BY <1>2, <1>8, <3>1 DEF Put, GoodConversations
    <3> HIDE DEF lists
    <3> QED BY <1>1, <1>2, <1>7, <2>2, <3>1, <3>2 DEF GoodConversations
  <2> QED BY <2>1, <2>2
<1>10. Balanced(index, Counts(saved.inputs, saved.contexts, lists), exact)
  <2>1. CASE c = NoConversation
    BY <1>3, <2>1
  <2>2. CASE c # NoConversation
    <3>1. exact => ToSet(ListOf(ConversationItems, c)) \cap ToSet(newItems) = {}
      BY <1>5, <1>7, <2>2
    <3>2. Balanced(AddItemRefs(RegisterItems(saved.index, newItems), newItems),
                   Counts(saved.inputs, saved.contexts,
                          Put(ConversationItems, c, ItemsOf(c) \o newItems)), exact)
      BY <1>3, <1>4, <1>5, <1>6, <1>8, <3>1, NewListBalanced
    <3> QED BY <2>2, <3>2
  <2> QED BY <2>1, <2>2
<1>11. index = [byID |-> index.byID, refs |-> index.refs]
  BY <1>10 DEF Balanced, Indexes
<1> HIDE DEF index, lists
<1> QED BY <1>1, <1>3, <1>9, <1>10, <1>11, InvariantPartsAfter
LEMMA DeleteResponseKeeps ==
  ASSUME NEW exact \in BOOLEAN,
         IInv(exact), NEW r \in ResponseIDs, DeleteResponse(r)
  PROVE  IInv(exact)'
PROOF
<1> DEFINE kept == DOMAIN Responses \ {r}
           index == ReleaseResponses(Index, {r}, ResponseInputItems,
                                     ResponseContextItems)
           inputs == Restrict(ResponseInputItems, kept)
           contexts == Restrict(ResponseContextItems, kept)
<1>1. /\ r \in DOMAIN Responses
      /\ Responses' = Restrict(Responses, kept)
      /\ ResponseInputItems' = inputs
      /\ ResponseContextItems' = contexts
      /\ responseOrder' = Forget(responseOrder, r)
      /\ ItemsByID' = index.byID
      /\ itemRefCount' = index.refs
      /\ UNCHANGED <<Conversations, ConversationItems, conversationOrder>>
  BY DEF DeleteResponse, conversationVars
<1>2. /\ GoodResponses(Responses, ResponseInputItems, ResponseContextItems, responseOrder)
      /\ GoodConversations(Conversations, ConversationItems, conversationOrder)
      /\ Balanced(Index, Counts(ResponseInputItems, ResponseContextItems,
                                ConversationItems), exact)
  BY InvariantParts
<1>3. /\ IsFiniteSet(DOMAIN Responses)
      /\ DOMAIN ResponseInputItems = DOMAIN Responses
      /\ DOMAIN ResponseContextItems = DOMAIN Responses
      /\ IsFiniteSet(DOMAIN ConversationItems)
  BY <1>2, FiniteMaps
<1>4. Balanced(index, Counts(inputs, contexts, ConversationItems), exact)
  <2>1. {r} \subseteq DOMAIN ResponseInputItems
    BY <1>1, <1>3
  <2> QED BY <1>2, <1>3, <2>1, ReleaseResponsesBalanced
<1>5. index = [byID |-> index.byID, refs |-> index.refs]
  BY <1>4 DEF Balanced, Indexes
<1> HIDE DEF index
<1>6. GoodResponses(Responses', inputs, contexts, responseOrder')
  <2>1. responseOrder \in Seq(ResponseIDs) /\ InStep(responseOrder, DOMAIN Responses)
    BY <1>2 DEF GoodResponses
  <2>2. responseOrder' \in Seq(ResponseIDs) /\ InStep(responseOrder', kept)
    BY <1>1, <2>1, ForgetInStep
  <2>3. MaxResponses > 0 => Cardinality(kept) <= MaxResponses
    <3>1. Cardinality(kept) \in Nat /\ Cardinality(DOMAIN Responses) \in Nat
      BY <1>3, FS_RemoveElement, FS_CardinalityType
    <3>2. Cardinality(kept) <= Cardinality(DOMAIN Responses)
      BY <1>3, FS_Subset
    <3> QED BY <1>2, <3>1, <3>2, StoreAssumption DEF GoodResponses, StoreAssumption
  <2>4. /\ Responses' \in [kept -> Statuses] /\ DOMAIN Responses' = kept
        /\ inputs \in [kept -> Seq(ItemIDs)]
        /\ contexts \in [kept -> Seq(ItemIDs)]
    BY <1>1, <1>2 DEF GoodResponses, Restrict
  <2>5. kept \subseteq ResponseIDs
    BY <1>2 DEF GoodResponses
  <2> HIDE DEF kept, inputs, contexts
  <2> QED BY <2>2, <2>3, <2>4, <2>5 DEF GoodResponses
<1> QED BY <1>1, <1>2, <1>4, <1>5, <1>6, InvariantPartsAfter

LEMMA CancelResponseKeeps ==
  ASSUME NEW exact \in BOOLEAN,
         IInv(exact), NEW r \in ResponseIDs, CancelResponse(r)
  PROVE  IInv(exact)'
PROOF
<1>1. /\ r \in DOMAIN Responses
      /\ Responses' = [Responses EXCEPT ![r] = CancelStatus(@)]
      /\ UNCHANGED <<ResponseInputItems, ResponseContextItems, responseOrder,
                     Conversations, ConversationItems, conversationOrder,
                     ItemsByID, itemRefCount>>
  BY DEF CancelResponse, conversationVars, itemVars
<1>2. /\ GoodResponses(Responses, ResponseInputItems, ResponseContextItems, responseOrder)
      /\ GoodConversations(Conversations, ConversationItems, conversationOrder)
      /\ Balanced(Index, Counts(ResponseInputItems, ResponseContextItems,
                                ConversationItems), exact)
  BY InvariantParts
<1>3. CancelStatus(Responses[r]) \in Statuses
  BY <1>1, <1>2 DEF CancelStatus, Statuses, GoodResponses
<1>4. Responses' \in [DOMAIN Responses -> Statuses] /\ DOMAIN Responses' = DOMAIN Responses
  BY <1>1, <1>2, <1>3 DEF GoodResponses
<1>5. GoodResponses(Responses', ResponseInputItems', ResponseContextItems', responseOrder')
  BY <1>1, <1>2, <1>4 DEF GoodResponses
<1> QED BY <1>1, <1>2, <1>5, InvariantPartsAfter DEF Index

LEMMA UpdateConversationKeeps ==
  ASSUME NEW exact \in BOOLEAN,
         IInv(exact), NEW c \in ConversationIDs, NEW metadata \in Metadata \cup {Nil},
         UpdateConversation(c, metadata)
  PROVE  IInv(exact)'
PROOF
<1>1. /\ c \in DOMAIN Conversations
      /\ Conversations' = [Conversations EXCEPT ![c] = MetadataOrEmpty(metadata)]
      /\ UNCHANGED <<Responses, ResponseInputItems, ResponseContextItems, responseOrder,
                     ConversationItems, conversationOrder, ItemsByID, itemRefCount>>
  BY DEF UpdateConversation, responseVars, itemVars
<1>2. /\ GoodResponses(Responses, ResponseInputItems, ResponseContextItems, responseOrder)
      /\ GoodConversations(Conversations, ConversationItems, conversationOrder)
      /\ Balanced(Index, Counts(ResponseInputItems, ResponseContextItems,
                                ConversationItems), exact)
  BY InvariantParts
<1>3. MetadataOrEmpty(metadata) \in Metadata
  BY StoreAssumption DEF MetadataOrEmpty, StoreAssumption
<1>4. /\ Conversations' \in [DOMAIN Conversations -> Metadata]
      /\ DOMAIN Conversations' = DOMAIN Conversations
  BY <1>1, <1>2, <1>3 DEF GoodConversations
<1>5. GoodConversations(Conversations', ConversationItems', conversationOrder')
  BY <1>1, <1>2, <1>4 DEF GoodConversations
<1> QED BY <1>1, <1>2, <1>5, InvariantPartsAfter DEF Index
LEMMA SaveConversationKeeps ==
  ASSUME NEW exact \in BOOLEAN,
         IInv(exact), NEW c \in ConversationIDs, NEW metadata \in Metadata,
         NEW items \in Seq(ItemIDs), SaveConversation(c, metadata, items),
         exact => c \in DOMAIN Conversations \/ c \notin DOMAIN ConversationItems
  PROVE  IInv(exact)'
PROOF
<1> DEFINE replaced      == {c} \cap DOMAIN Conversations
           released      == ReleaseItemRefs(Index, Times(replaced, ConversationItems))
           counted       == AddItemRefs(RegisterItems(released, items), items)
           conversations == Put(Conversations, c, metadata)
           rest          == Restrict(ConversationItems, DOMAIN ConversationItems \ replaced)
           lists         == Put(ConversationItems, c, items)
           order         == Remember(conversationOrder, c)
           evicted       == Evicted(order, DOMAIN conversations, MaxConversations)
           index         == ReleaseItemRefs(counted, Times(evicted, lists))
           kept          == DOMAIN conversations \ evicted
           keptLists     == Restrict(lists, DOMAIN lists \ evicted)
<1>1. /\ Conversations' = Restrict(conversations, kept)
      /\ ConversationItems' = keptLists
      /\ conversationOrder' = AfterEviction(order, DOMAIN conversations, MaxConversations)
      /\ ItemsByID' = index.byID
      /\ itemRefCount' = index.refs
      /\ UNCHANGED <<Responses, ResponseInputItems, ResponseContextItems, responseOrder>>
  BY DEF SaveConversation, responseVars
<1>2. /\ GoodResponses(Responses, ResponseInputItems, ResponseContextItems, responseOrder)
      /\ GoodConversations(Conversations, ConversationItems, conversationOrder)
      /\ Balanced(Index, Counts(ResponseInputItems, ResponseContextItems,
                                ConversationItems), exact)
  BY InvariantParts
<1>3. /\ IsFiniteSet(DOMAIN ResponseInputItems) /\ IsFiniteSet(DOMAIN ResponseContextItems)
      /\ IsFiniteSet(DOMAIN ConversationItems)
      /\ DOMAIN Conversations \subseteq DOMAIN ConversationItems
  <2>1. /\ IsFiniteSet(DOMAIN Responses) /\ IsFiniteSet(DOMAIN ConversationItems)
        /\ DOMAIN ResponseInputItems = DOMAIN Responses
        /\ DOMAIN ResponseContextItems = DOMAIN Responses
    BY <1>2, FiniteMaps
  <2> QED BY <1>2, <2>1 DEF GoodConversations
<1>4. /\ DOMAIN conversations = DOMAIN Conversations \cup {c}
      /\ conversations \in [DOMAIN Conversations \cup {c} -> Metadata]
      /\ DOMAIN lists = DOMAIN ConversationItems \cup {c}
      /\ lists \in [DOMAIN lists -> Seq(ItemIDs)]
  BY <1>2 DEF GoodConversations, Put
<1>5. Balanced(released, Counts(ResponseInputItems, ResponseContextItems, rest), exact)
  <2>1. replaced \subseteq DOMAIN ConversationItems
    BY <1>3
  <2> QED BY <1>2, <1>3, <2>1, ReleaseListsBalanced
<1>6. /\ IsFiniteSet(DOMAIN rest)
      /\ lists = Put(rest, c, items)
      /\ exact => c \notin DOMAIN rest
  <2>1. DOMAIN rest = DOMAIN ConversationItems \ replaced
    BY DEF Restrict
  <2>2. IsFiniteSet(DOMAIN rest)
    <3>1. IsFiniteSet(DOMAIN ConversationItems)
      BY <1>3
    <3> QED BY <2>1, <3>1, FS_Difference, Zenon
  <2>3. lists = Put(rest, c, items)
    BY DEF Put, Restrict
  <2> QED BY <2>1, <2>2, <2>3
<1> HIDE DEF released, rest, lists
<1>7. Balanced(counted, Counts(ResponseInputItems, ResponseContextItems, lists), exact)
  <2>1. ToSet(items) \subseteq ToSet(ListOf(rest, c)) \cup ToSet(items)
    OBVIOUS
  <2>2. exact => /\ ToSet(items) = ToSet(ListOf(rest, c)) \cup ToSet(items)
                 /\ ToSet(ListOf(rest, c)) \cap ToSet(items) = {}
    <3>1. ToSet(<<>>) = {}
      BY DEF ToSet
    <3> QED BY <1>6, <3>1 DEF ListOf
  <2> QED BY <1>3, <1>5, <1>6, <2>1, <2>2, NewListBalanced
<1> HIDE DEF counted
<1>8. Balanced(index, Counts(ResponseInputItems, ResponseContextItems, keptLists), exact)
  <2>1. IsFiniteSet(DOMAIN lists)
    <3>1. IsFiniteSet(DOMAIN ConversationItems \cup {c})
      BY <1>3, FS_AddElement
    <3> QED BY <1>4, <3>1
  <2>2. evicted \subseteq DOMAIN lists
    BY <1>3, <1>4 DEF Evicted
  <2> HIDE DEF evicted
  <2> QED BY <1>3, <1>7, <2>1, <2>2, ReleaseListsBalanced
<1>9. index = [byID |-> index.byID, refs |-> index.refs]
  BY <1>8 DEF Balanced, Indexes
<1> HIDE DEF index
<1>10. GoodConversations(Conversations', keptLists, conversationOrder')
  <2>1. conversationOrder \in Seq(ConversationIDs)
        /\ InStep(conversationOrder, DOMAIN Conversations)
    BY <1>2 DEF GoodConversations
  <2>2. order \in Seq(ConversationIDs) /\ InStep(order, DOMAIN conversations)
    <3> HIDE DEF conversations
    <3> QED BY <1>4, <2>1, RememberInStep
  <2>3. /\ conversationOrder' \in Seq(ConversationIDs)
        /\ InStep(conversationOrder', kept)
        /\ MaxConversations > 0 => Cardinality(kept) <= MaxConversations
    <3> HIDE DEF order
    <3> QED BY <1>1, <2>2, EvictionInStep, StoreAssumption DEF StoreAssumption
  <2>4. /\ Conversations' \in [kept -> Metadata] /\ DOMAIN Conversations' = kept
        /\ keptLists \in [DOMAIN lists \ evicted -> Seq(ItemIDs)]
        /\ DOMAIN keptLists = DOMAIN lists \ evicted
    <3> HIDE DEF conversations, evicted
    <3> QED BY <1>1, <1>4 DEF Restrict
  <2>5. /\ kept \subseteq DOMAIN lists \ evicted
        /\ DOMAIN lists \ evicted \subseteq ConversationIDs
        /\ ~LateAppends => DOMAIN lists \ evicted \subseteq kept
    <3> HIDE DEF conversations, evicted
    <3> QED BY <1>2, <1>3, <1>4 DEF GoodConversations
  <2> HIDE DEF kept, keptLists, evicted, conversations
  <2> QED BY <2>3, <2>4, <2>5 DEF GoodConversations
<1> HIDE DEF keptLists
<1> QED BY <1>1, <1>2, <1>8, <1>9, <1>10, InvariantPartsAfter

LEMMA DeleteConversationKeeps ==
  ASSUME NEW exact \in BOOLEAN,
         IInv(exact), NEW c \in ConversationIDs, DeleteConversation(c)
  PROVE  IInv(exact)'
PROOF
<1> DEFINE kept == DOMAIN Conversations \ {c}
           lists == Restrict(ConversationItems, DOMAIN ConversationItems \ {c})
           index == ReleaseItemRefs(Index, Times({c}, ConversationItems))
<1>1. /\ c \in DOMAIN Conversations
      /\ Conversations' = Restrict(Conversations, kept)
      /\ ConversationItems' = lists
      /\ conversationOrder' = Forget(conversationOrder, c)
      /\ ItemsByID' = index.byID
      /\ itemRefCount' = index.refs
      /\ UNCHANGED <<Responses, ResponseInputItems, ResponseContextItems, responseOrder>>
  BY DEF DeleteConversation, responseVars
<1>2. /\ GoodResponses(Responses, ResponseInputItems, ResponseContextItems, responseOrder)
      /\ GoodConversations(Conversations, ConversationItems, conversationOrder)
      /\ Balanced(Index, Counts(ResponseInputItems, ResponseContextItems,
                                ConversationItems), exact)
  BY InvariantParts
<1>3. /\ IsFiniteSet(DOMAIN ResponseInputItems) /\ IsFiniteSet(DOMAIN ResponseContextItems)
      /\ IsFiniteSet(DOMAIN ConversationItems)
      /\ DOMAIN Conversations \subseteq DOMAIN ConversationItems
      /\ IsFiniteSet(DOMAIN Conversations)
  <2>1. /\ IsFiniteSet(DOMAIN Responses) /\ IsFiniteSet(DOMAIN ConversationItems)
        /\ DOMAIN ResponseInputItems = DOMAIN Responses
        /\ DOMAIN ResponseContextItems = DOMAIN Responses
    BY <1>2, FiniteMaps
  <2>2. DOMAIN Conversations \subseteq DOMAIN ConversationItems
    BY <1>2 DEF GoodConversations
  <2> QED BY <2>1, <2>2, FS_Subset
<1>4. Balanced(index, Counts(ResponseInputItems, ResponseContextItems, lists), exact)
  <2>1. {c} \subseteq DOMAIN ConversationItems
    BY <1>1, <1>3
  <2> QED BY <1>2, <1>3, <2>1, ReleaseListsBalanced
<1>5. index = [byID |-> index.byID, refs |-> index.refs]
  BY <1>4 DEF Balanced, Indexes
<1> HIDE DEF index
<1>6. GoodConversations(Conversations', lists, conversationOrder')
  <2>1. conversationOrder \in Seq(ConversationIDs)
        /\ InStep(conversationOrder, DOMAIN Conversations)
    BY <1>2 DEF GoodConversations
  <2>2. conversationOrder' \in Seq(ConversationIDs) /\ InStep(conversationOrder', kept)
    BY <1>1, <2>1, ForgetInStep
  <2>3. MaxConversations > 0 => Cardinality(kept) <= MaxConversations
    <3>1. Cardinality(kept) \in Nat /\ Cardinality(DOMAIN Conversations) \in Nat
      BY <1>3, FS_RemoveElement, FS_CardinalityType
    <3>2. Cardinality(kept) <= Cardinality(DOMAIN Conversations)
      BY <1>3, FS_Subset
    <3> QED BY <1>2, <3>1, <3>2, StoreAssumption DEF GoodConversations, StoreAssumption
  <2>4. /\ Conversations' \in [kept -> Metadata] /\ DOMAIN Conversations' = kept
        /\ lists \in [DOMAIN lists -> Seq(ItemIDs)]
        /\ DOMAIN lists = DOMAIN ConversationItems \ {c}
    BY <1>1, <1>2 DEF GoodConversations, Restrict
  <2>5. /\ kept \subseteq DOMAIN ConversationItems \ {c}
        /\ DOMAIN ConversationItems \ {c} \subseteq ConversationIDs
        /\ ~LateAppends => DOMAIN ConversationItems \ {c} \subseteq kept
    BY <1>2, <1>3 DEF GoodConversations
  <2> HIDE DEF kept, lists
  <2> QED BY <2>2, <2>3, <2>4, <2>5 DEF GoodConversations
<1> HIDE DEF lists
<1> QED BY <1>1, <1>2, <1>4, <1>5, <1>6, InvariantPartsAfter
\* What the counts of the store alone are exact under: its callers append only to
\* stored conversations, and only what they do not have.
Exact == ~ResentItems /\ ~LateAppends

LEMMA Induction == IInv(Exact) /\ [Next]_vars => IInv(Exact)'
PROOF
<1> SUFFICES ASSUME IInv(Exact), [Next]_vars PROVE IInv(Exact)'
  OBVIOUS
<1>0. Exact \in BOOLEAN
  BY StoreAssumption DEF StoreAssumption, Exact
<1>1. ASSUME NEW r \in ResponseIDs, NEW status \in SavedStatuses,
             NEW context \in Batches, NEW input \in Batches, NEW output \in Batches,
             NEW store \in BOOLEAN, NEW c \in ConversationIDs \cup {NoConversation},
             MayAppend(c, input \o output),
             SaveResponse(r, status, context \o input, output, store, c, input)
      PROVE  IInv(Exact)'
  <2>1. context \in Seq(ItemIDs) /\ input \in Seq(ItemIDs) /\ output \in Seq(ItemIDs)
    BY StoreAssumption DEF StoreAssumption
  <2>2. context \o input \in Seq(ItemIDs)
    BY <2>1, ItemsOfConcat
  <2>3. status \in Statuses
    BY StoreAssumption DEF StoreAssumption, Statuses
  <2>4. Extends(Exact, c, input \o output)
    BY <1>1 DEF MayAppend, Extends, Exact
  <2> QED BY <1>0, <1>1, <2>1, <2>2, <2>3, <2>4, SaveResponseKeeps
<1>2. ASSUME NEW r \in ResponseIDs, DeleteResponse(r) PROVE IInv(Exact)'
  BY <1>0, <1>2, DeleteResponseKeeps
<1>3. ASSUME NEW r \in ResponseIDs, CancelResponse(r) PROVE IInv(Exact)'
  BY <1>0, <1>3, CancelResponseKeeps
<1>4. ASSUME NEW c \in ConversationIDs, NEW metadata \in Metadata, NEW items \in Batches,
             SaveConversation(c, metadata, items)
      PROVE  IInv(Exact)'
  <2>1. items \in Seq(ItemIDs)
    BY StoreAssumption DEF StoreAssumption
  <2>2. Exact => DOMAIN ConversationItems \subseteq DOMAIN Conversations
    BY DEF IInv, Exact, NoOrphanLists
  <2> QED BY <1>0, <1>4, <2>1, <2>2, SaveConversationKeeps
<1>5. ASSUME NEW c \in ConversationIDs, NEW metadata \in Metadata \cup {Nil},
             UpdateConversation(c, metadata)
      PROVE  IInv(Exact)'
  BY <1>0, <1>5, UpdateConversationKeeps
<1>6. ASSUME NEW c \in ConversationIDs, DeleteConversation(c) PROVE IInv(Exact)'
  BY <1>0, <1>6, DeleteConversationKeeps
<1>7. CASE UNCHANGED vars
  BY <1>0, <1>7, StoreUnchanged
<1> QED BY <1>1, <1>2, <1>3, <1>4, <1>5, <1>6, <1>7 DEF Next

\* The conjunction of everything the runs check about the store is inductive,
\* with the exact counts where no list outlives its conversation and no request
\* repeats items.  (every method of Store that writes)
THEOREM StoreInvariant == Spec => []IInv(Exact)
PROOF
<1>1. Exact \in BOOLEAN
  BY StoreAssumption DEF StoreAssumption, Exact
<1>2. Init => IInv(Exact)
  BY <1>1, InitialState
<1> QED BY <1>2, Induction, PTL DEF Spec

------------------------------------------------------------------------------
(* What follows from it.                                                   *)

\* The maps and slices have their types, and each response has both its lists.
THEOREM TypeCorrect == Spec => []TypeOK
PROOF
<1>1. IInv(Exact) => TypeOK
  BY DEF IInv
<1> QED BY <1>1, StoreInvariant, PTL

\* The order slices name the stored keys, each once, whatever is saved again,
\* deleted and evicted.  (rememberID, forgetID, evictResponsesLocked,
\* evictConversationsLocked)
THEOREM OrdersStayInStep == Spec => []OrdersInStep
PROOF
<1>1. IInv(Exact) => OrdersInStep
  BY DEF IInv
<1> QED BY <1>1, StoreInvariant, PTL

\* No map is ever over its limit.
THEOREM LimitsHold == Spec => []WithinLimits
PROOF
<1>1. IInv(Exact) => WithinLimits
  BY DEF IInv
<1> QED BY <1>1, StoreInvariant, PTL

\* The counts cover the lists, even where appends lose track of some.
THEOREM CountsCover == Spec => []RefsCoverHolds
PROOF
<1>1. IInv(Exact) => RefsCoverHolds
  BY DEF IInv
<1> QED BY <1>1, StoreInvariant, PTL

LEMMA HeldIsCounted ==
  \A lists, o : \A id \in ItemIDs :
    IsFiniteSet(DOMAIN lists) /\ o \in DOMAIN lists /\ id \in ToSet(lists[o])
      => Times(DOMAIN lists, lists)[id] > 0
PROOF
<1> SUFFICES ASSUME NEW lists, NEW o, NEW id \in ItemIDs, IsFiniteSet(DOMAIN lists),
                    o \in DOMAIN lists, id \in ToSet(lists[o])
             PROVE  Times(DOMAIN lists, lists)[id] > 0
  OBVIOUS
<1>1. Times(DOMAIN lists, lists)[id] =
        (IF id \in ToSet(ListOf(lists, o)) THEN 1 ELSE 0) + Times(DOMAIN lists \ {o}, lists)[id]
  BY TimesOthers
<1>2. Times(DOMAIN lists \ {o}, lists)[id] \in Nat
  <2>1. IsFiniteSet(DOMAIN lists \ {o})
    BY FS_RemoveElement
  <2>2. Times(DOMAIN lists \ {o}, lists) \in [ItemIDs -> Nat]
    BY <2>1, TimesType
  <2> QED BY <2>2
<1> QED BY <1>1, <1>2 DEF ListOf

LEMMA CountedIsHeld ==
  \A lists : \A id \in ItemIDs :
    Times(DOMAIN lists, lists)[id] # 0
      => \E o \in DOMAIN lists : id \in ToSet(lists[o])
PROOF
<1> SUFFICES ASSUME NEW lists, NEW id \in ItemIDs,
                    \A o \in DOMAIN lists : id \notin ToSet(lists[o])
             PROVE  Times(DOMAIN lists, lists)[id] = 0
  OBVIOUS
<1>1. {o \in DOMAIN lists : id \in ToSet(lists[o])} = {}
  OBVIOUS
<1> QED BY <1>1, FS_EmptySet DEF Times

LEMMA InvariantFacts ==
  ASSUME NEW exact \in BOOLEAN, IInv(exact)
  PROVE  /\ DOMAIN ResponseInputItems = DOMAIN Responses
         /\ DOMAIN ResponseContextItems = DOMAIN Responses
         /\ DOMAIN Conversations \subseteq DOMAIN ConversationItems
         /\ IsFiniteSet(DOMAIN Responses) /\ IsFiniteSet(DOMAIN ConversationItems)
         /\ ItemsByID \subseteq ItemIDs
         /\ \A r \in DOMAIN Responses : ResponseHolds(r) \subseteq ItemIDs
         /\ \A c \in DOMAIN ConversationItems :
              ToSet(ConversationItems[c]) \subseteq ItemIDs
         /\ \A id \in ItemIDs :
              /\ itemRefCount[id] \in Nat
              /\ Times(DOMAIN ResponseInputItems, ResponseInputItems)[id] \in Nat
              /\ Times(DOMAIN ResponseContextItems, ResponseContextItems)[id] \in Nat
              /\ Times(DOMAIN ConversationItems, ConversationItems)[id] \in Nat
PROOF
<1>1. TypeOK
  BY DEF IInv
<1>2. /\ DOMAIN ResponseInputItems = DOMAIN Responses
      /\ DOMAIN ResponseContextItems = DOMAIN Responses
      /\ DOMAIN Conversations \subseteq DOMAIN ConversationItems
      /\ ItemsByID \subseteq ItemIDs
      /\ itemRefCount \in [ItemIDs -> Nat]
      /\ DOMAIN Responses \subseteq ResponseIDs
      /\ DOMAIN ConversationItems \subseteq ConversationIDs
      /\ \A r \in DOMAIN Responses : /\ ResponseInputItems[r] \in Seq(ItemIDs)
                                     /\ ResponseContextItems[r] \in Seq(ItemIDs)
      /\ \A c \in DOMAIN ConversationItems : ConversationItems[c] \in Seq(ItemIDs)
  BY <1>1 DEF TypeOK
<1>3. IsFiniteSet(DOMAIN Responses) /\ IsFiniteSet(DOMAIN ConversationItems)
  BY <1>2, StoreAssumption, FS_Subset DEF StoreAssumption
<1>4. /\ \A r \in DOMAIN Responses : ResponseHolds(r) \subseteq ItemIDs
      /\ \A c \in DOMAIN ConversationItems : ToSet(ConversationItems[c]) \subseteq ItemIDs
  BY <1>2, ItemsOfList DEF ResponseHolds
<1>5. /\ Times(DOMAIN ResponseInputItems, ResponseInputItems) \in [ItemIDs -> Nat]
      /\ Times(DOMAIN ResponseContextItems, ResponseContextItems) \in [ItemIDs -> Nat]
      /\ Times(DOMAIN ConversationItems, ConversationItems) \in [ItemIDs -> Nat]
  BY <1>2, <1>3, TimesType
<1> QED BY <1>2, <1>3, <1>4, <1>5

LEMMA InvariantNeverDangles ==
  ASSUME NEW exact \in BOOLEAN PROVE IInv(exact) => NoDanglingItems
PROOF
<1> SUFFICES ASSUME IInv(exact), NEW id \in HeldItems PROVE id \in ItemsByID
  BY DEF NoDanglingItems
<1>1. RefsCoverHolds
  BY DEF IInv
<1>2. \/ \E r \in DOMAIN Responses : id \in ToSet(ResponseInputItems[r])
      \/ \E r \in DOMAIN Responses : id \in ToSet(ResponseContextItems[r])
      \/ \E c \in DOMAIN Conversations : id \in ToSet(ConversationItems[c])
  BY DEF HeldItems, ResponseHolds
<1>3. id \in ItemIDs
  BY InvariantFacts DEF HeldItems
<1>4. \/ Times(DOMAIN ResponseInputItems, ResponseInputItems)[id] > 0
      \/ Times(DOMAIN ResponseContextItems, ResponseContextItems)[id] > 0
      \/ Times(DOMAIN ConversationItems, ConversationItems)[id] > 0
  BY <1>2, <1>3, InvariantFacts, HeldIsCounted
<1>5. HoldCount(id) > 0
  BY <1>3, <1>4, InvariantFacts DEF HoldCount
<1>6. HoldCount(id) \in Nat
  BY <1>3, InvariantFacts DEF HoldCount
<1>7. itemRefCount[id] > 0
  BY <1>1, <1>3, <1>5, <1>6, InvariantFacts DEF RefsCoverHolds
<1> QED BY <1>1, <1>3, <1>7 DEF RefsCoverHolds

\* An item that a stored response or conversation holds is in the index, for any
\* history of saves, replacements, evictions and deletes.
THEOREM ItemsNeverDangle == Spec => []NoDanglingItems
PROOF
<1>1. Exact \in BOOLEAN
  BY StoreAssumption DEF StoreAssumption, Exact
<1>2. IInv(Exact) => NoDanglingItems
  BY <1>1, InvariantNeverDangles
<1> QED BY <1>2, StoreInvariant, PTL

\* While the counts are exact, what is indexed is in one of the lists.
LEMMA ExactIsHeld ==
  ASSUME IInv(TRUE)
  PROVE  ItemsByID \subseteq HeldItems
                               \cup UNION {ToSet(ConversationItems[c]) :
                                             c \in DOMAIN ConversationItems}
PROOF
<1>1. RefsCoverHolds /\ RefsAreExact
  BY DEF IInv
<1>2. ASSUME NEW id \in ItemsByID
      PROVE  \/ \E r \in DOMAIN Responses : id \in ToSet(ResponseInputItems[r])
             \/ \E r \in DOMAIN Responses : id \in ToSet(ResponseContextItems[r])
             \/ \E c \in DOMAIN ConversationItems : id \in ToSet(ConversationItems[c])
  <2>1. id \in ItemIDs /\ itemRefCount[id] > 0
    BY <1>1 DEF RefsCoverHolds
  <2>2. HoldCount(id) > 0
    BY <1>1, <2>1 DEF RefsAreExact
  <2>3. \/ Times(DOMAIN ResponseInputItems, ResponseInputItems)[id] # 0
        \/ Times(DOMAIN ResponseContextItems, ResponseContextItems)[id] # 0
        \/ Times(DOMAIN ConversationItems, ConversationItems)[id] # 0
    BY <2>1, <2>2, InvariantFacts DEF HoldCount
  <2> QED BY <2>1, <2>3, InvariantFacts, CountedIsHeld
<1> QED BY <1>2 DEF HeldItems, ResponseHolds

\* Where no save names a missing conversation and no request repeats ids its
\* conversation has, nothing outlives the last list that holds it.
THEOREM ItemsNeverLeak == ASSUME Exact PROVE Spec => []NoLeakedItems
PROOF
<1>1. IInv(Exact) => NoLeakedItems
  <2> SUFFICES ASSUME IInv(Exact) PROVE NoLeakedItems
    OBVIOUS
  <2>1. IInv(TRUE) /\ NoOrphanLists
    BY DEF IInv, Exact
  <2> QED BY <2>1, ExactIsHeld DEF NoLeakedItems, NoOrphanLists, HeldItems
<1> QED BY <1>1, StoreInvariant, PTL

\* And the counts are then exactly the number of lists.
THEOREM CountsAreExact == ASSUME Exact PROVE Spec => []RefsAreExact
PROOF
<1>1. IInv(Exact) => RefsAreExact
  BY DEF IInv
<1> QED BY <1>1, StoreInvariant, PTL

------------------------------------------------------------------------------
(* The maps implement the tables of the most recently saved entries.       *)

\* What the invariant says of one map, for the lemmas about tables.
LEMMA RecentFacts ==
  ASSUME TypeOK, OrdersInStep
  PROVE  /\ responseOrder \in Seq(ResponseIDs) /\ InStep(responseOrder, DOMAIN Responses)
         /\ conversationOrder \in Seq(ConversationIDs)
         /\ InStep(conversationOrder, DOMAIN Conversations)
         /\ DOMAIN Responses \subseteq ResponseIDs
         /\ DOMAIN Conversations \subseteq ConversationIDs
         /\ \A r \in DOMAIN Responses : Responses[r] \in Statuses
         /\ \A c \in DOMAIN Conversations : Conversations[c] \in Metadata
         /\ MaxResponses \in Nat /\ MaxConversations \in Nat
BY StoreAssumption
   DEF TypeOK, OrdersInStep, ResponsesInStep, ConversationsInStep, StoreAssumption

SavesEntry(table, new, k, v, limit) ==
  new = NewestOf(Append(WithoutKey(table, k), [key |-> k, value |-> v]), limit)

\* Saving a response is saving its entry, with the eviction in the same step.
LEMMA StoreResponseSaves ==
  ASSUME TypeOK, OrdersInStep, NEW r \in ResponseIDs, NEW status, NEW contextItems,
         NEW outputItems, NEW input, NEW c,
         SaveResponse(r, status, contextItems, outputItems, TRUE, c, input)
  PROVE  SavesEntry(ResponseTable, ResponseTable', r, status, MaxResponses)
PROOF
<1> DEFINE longer == Remember(responseOrder, r)
           put == Put(Responses, r, status)
           keys == DOMAIN put
           gone == Evicted(longer, keys, MaxResponses)
<1>1. /\ Responses' = Restrict(put, keys \ gone)
      /\ responseOrder' = AfterEviction(longer, keys, MaxResponses)
  BY DEF SaveResponse, StoreResponse
<1>2. keys = DOMAIN Responses \cup {r}
  BY DEF Put
<1> HIDE DEF gone, keys
<1>3. Agree(put, Responses', keys, gone)
  BY <1>1 DEF Agree, Restrict
<1>4. /\ responseOrder \in Seq(ResponseIDs) /\ InStep(responseOrder, DOMAIN Responses)
      /\ MaxResponses \in Nat
  BY RecentFacts
<1>5. Entries(AfterEviction(longer, keys, MaxResponses), Responses')
        = NewestOf(Append(WithoutKey(Entries(responseOrder, Responses), r),
                          [key |-> r, value |-> status]), MaxResponses)
  BY <1>2, <1>3, <1>4, EntriesSaveAndEvict DEF gone
<1> QED BY <1>1, <1>5 DEF ResponseTable, SavesEntry

LEMMA SaveConversationSaves ==
  ASSUME TypeOK, OrdersInStep, NEW c \in ConversationIDs, NEW metadata, NEW items,
         SaveConversation(c, metadata, items)
  PROVE  SavesEntry(ConversationTable, ConversationTable', c, metadata, MaxConversations)
PROOF
<1> DEFINE longer == Remember(conversationOrder, c)
           put == Put(Conversations, c, metadata)
           keys == DOMAIN put
           gone == Evicted(longer, keys, MaxConversations)
<1>1. /\ Conversations' = Restrict(put, keys \ gone)
      /\ conversationOrder' = AfterEviction(longer, keys, MaxConversations)
  BY DEF SaveConversation
<1>2. keys = DOMAIN Conversations \cup {c}
  BY DEF Put
<1> HIDE DEF gone, keys
<1>3. Agree(put, Conversations', keys, gone)
  BY <1>1 DEF Agree, Restrict
<1>4. /\ conversationOrder \in Seq(ConversationIDs)
      /\ InStep(conversationOrder, DOMAIN Conversations)
      /\ MaxConversations \in Nat
  BY RecentFacts
<1>5. Entries(AfterEviction(longer, keys, MaxConversations), Conversations')
        = NewestOf(Append(WithoutKey(Entries(conversationOrder, Conversations), c),
                          [key |-> c, value |-> metadata]), MaxConversations)
  BY <1>2, <1>3, <1>4, EntriesSaveAndEvict DEF gone
<1> QED BY <1>1, <1>5 DEF ConversationTable, SavesEntry

DeletesEntry(table, new, k) ==
  /\ \E i \in 1 .. Len(table) : table[i].key = k
  /\ new = WithoutKey(table, k)

LEMMA DeleteResponseDeletes ==
  ASSUME TypeOK, OrdersInStep, NEW r \in ResponseIDs, DeleteResponse(r)
  PROVE  DeletesEntry(ResponseTable, ResponseTable', r)
PROOF
<1>1. /\ r \in DOMAIN Responses
      /\ Responses' = Restrict(Responses, DOMAIN Responses \ {r})
      /\ responseOrder' = Forget(responseOrder, r)
  BY DEF DeleteResponse
<1>2. responseOrder \in Seq(ResponseIDs) /\ InStep(responseOrder, DOMAIN Responses)
  BY RecentFacts
<1>3. Agree(Responses, Responses', DOMAIN Responses, {r})
  BY <1>1 DEF Agree, Restrict
<1>4. ResponseTable' = WithoutKey(ResponseTable, r)
  BY <1>1, <1>2, <1>3, EntriesForget DEF ResponseTable
<1>5. HasEntry(ResponseTable, r, Responses[r])
  BY <1>1, <1>2, EntriesHave DEF ResponseTable
<1> QED BY <1>4, <1>5 DEF DeletesEntry, HasEntry

LEMMA DeleteConversationDeletes ==
  ASSUME TypeOK, OrdersInStep, NEW c \in ConversationIDs, DeleteConversation(c)
  PROVE  DeletesEntry(ConversationTable, ConversationTable', c)
PROOF
<1>1. /\ c \in DOMAIN Conversations
      /\ Conversations' = Restrict(Conversations, DOMAIN Conversations \ {c})
      /\ conversationOrder' = Forget(conversationOrder, c)
  BY DEF DeleteConversation
<1>2. /\ conversationOrder \in Seq(ConversationIDs)
      /\ InStep(conversationOrder, DOMAIN Conversations)
  BY RecentFacts
<1>3. Agree(Conversations, Conversations', DOMAIN Conversations, {c})
  BY <1>1 DEF Agree, Restrict
<1>4. ConversationTable' = WithoutKey(ConversationTable, c)
  BY <1>1, <1>2, <1>3, EntriesForget DEF ConversationTable
<1>5. HasEntry(ConversationTable, c, Conversations[c])
  BY <1>1, <1>2, EntriesHave DEF ConversationTable
<1> QED BY <1>4, <1>5 DEF DeletesEntry, HasEntry

\* The value v replaces one of which it is an update.
UpdatesEntry(table, new, k, v, updates) ==
  /\ \E i \in 1 .. Len(table) : table[i].key = k /\ <<table[i].value, v>> \in updates
  /\ new = WithEntry(table, k, v)

StatusUpdates == {<<status, CancelStatus(status)>> : status \in Statuses}

LEMMA CancelResponseUpdates ==
  ASSUME TypeOK, OrdersInStep, NEW r \in ResponseIDs, CancelResponse(r)
  PROVE  \E status \in Statuses :
           UpdatesEntry(ResponseTable, ResponseTable', r, status, StatusUpdates)
PROOF
<1> DEFINE old == Responses[r]
           status == CancelStatus(old)
<1>1. /\ r \in DOMAIN Responses
      /\ Responses' = [Responses EXCEPT ![r] = status]
      /\ responseOrder' = responseOrder
  BY DEF CancelResponse
<1>2. /\ responseOrder \in Seq(ResponseIDs) /\ InStep(responseOrder, DOMAIN Responses)
      /\ old \in Statuses
  BY <1>1, RecentFacts
<1>3. status \in Statuses /\ <<old, status>> \in StatusUpdates
  BY <1>2 DEF CancelStatus, Statuses, StatusUpdates
<1> HIDE DEF status
<1>4. HasEntry(ResponseTable, r, old)
  BY <1>1, <1>2, EntriesHave DEF ResponseTable
<1>5. ResponseTable' = WithEntry(ResponseTable, r, status)
  <2>1. Updates(Responses, Responses', r, status)
    BY <1>1 DEF Updates
  <2> QED BY <1>1, <1>2, <2>1, EntriesUpdate DEF ResponseTable
<1> QED BY <1>3, <1>4, <1>5 DEF UpdatesEntry, HasEntry

LEMMA UpdateConversationUpdates ==
  ASSUME TypeOK, OrdersInStep, NEW c \in ConversationIDs, NEW given \in Metadata \cup {Nil},
         UpdateConversation(c, given)
  PROVE  \E metadata \in Metadata :
           UpdatesEntry(ConversationTable, ConversationTable', c, metadata,
                        Metadata \X Metadata)
PROOF
<1> DEFINE old == Conversations[c]
           metadata == MetadataOrEmpty(given)
<1>1. /\ c \in DOMAIN Conversations
      /\ Conversations' = [Conversations EXCEPT ![c] = metadata]
      /\ conversationOrder' = conversationOrder
  BY DEF UpdateConversation
<1>2. /\ conversationOrder \in Seq(ConversationIDs)
      /\ InStep(conversationOrder, DOMAIN Conversations)
      /\ old \in Metadata
  BY <1>1, RecentFacts
<1>3. metadata \in Metadata /\ <<old, metadata>> \in Metadata \X Metadata
  BY <1>2, StoreAssumption DEF MetadataOrEmpty, StoreAssumption
<1> HIDE DEF metadata
<1>4. HasEntry(ConversationTable, c, old)
  BY <1>1, <1>2, EntriesHave DEF ConversationTable
<1>5. ConversationTable' = WithEntry(ConversationTable, c, metadata)
  <2>1. Updates(Conversations, Conversations', c, metadata)
    BY <1>1 DEF Updates
  <2> QED BY <1>1, <1>2, <2>1, EntriesUpdate DEF ConversationTable
<1> QED BY <1>3, <1>4, <1>5 DEF UpdatesEntry, HasEntry

\* The map of responses is a table of the most recently saved ones: each step of
\* the store is one step of the table, or leaves it alone.
THEOREM ResponsesAreRecent == Spec => ImplementsRecentResponses
PROOF
<1>1. Init => RecentResponses!Init
  BY DEF Init, RecentResponses!Init, ResponseTable, Entries
<1>2. IInv(Exact) /\ [Next]_vars => [RecentResponses!Next]_ResponseTable
  <2> SUFFICES ASSUME TypeOK, OrdersInStep, [Next]_vars, ResponseTable' # ResponseTable
               PROVE  RecentResponses!Next
    BY DEF IInv
  <2> DEFINE table == ResponseTable
  <2>0. \A k : RecentResponses!Without(k) = WithoutKey(table, k)
    BY DEF RecentResponses!Without, RecentResponses!Has, RecentResponses!Place, RecentResponses!RemoveAt, RemoveAt, WithoutKey
  <2>1. UNCHANGED <<Responses, responseOrder>> => table' = table
    BY DEF ResponseTable, Entries
  <2>2. ASSUME NEW r \in ResponseIDs, NEW status \in Statuses,
               SavesEntry(table, table', r, status, MaxResponses)
        PROVE  RecentResponses!Next
    <3>1. RecentResponses!Save(r, status)
      BY <2>2, <2>0 DEF SavesEntry, RecentResponses!Save, RecentResponses!Newest, NewestOf
    <3> QED BY <3>1 DEF RecentResponses!Next
  <2>3. ASSUME NEW r \in ResponseIDs, DeletesEntry(table, table', r)
        PROVE  RecentResponses!Next
    <3>1. RecentResponses!Delete(r)
      BY <2>3, <2>0 DEF DeletesEntry, RecentResponses!Delete, RecentResponses!Has
    <3> QED BY <3>1 DEF RecentResponses!Next
  <2>4. ASSUME NEW r \in ResponseIDs, NEW status \in Statuses,
               UpdatesEntry(table, table', r, status, StatusUpdates)
        PROVE  RecentResponses!Next
    <3>1. RecentResponses!Update(r, status)
      BY <2>4 DEF UpdatesEntry, WithEntry, StatusUpdates, RecentResponses!Update
    <3> QED BY <3>1 DEF RecentResponses!Next
  <2> HIDE DEF table
  <2>5. ASSUME NEW r \in ResponseIDs, NEW status \in SavedStatuses, NEW context, NEW output,
               NEW store \in BOOLEAN, NEW c, NEW input,
               SaveResponse(r, status, context, output, store, c, input)
        PROVE  RecentResponses!Next
    <3>1. store = TRUE
      BY <2>1, <2>5 DEF SaveResponse, NothingStored, table
    <3>2. status \in Statuses
      BY StoreAssumption DEF StoreAssumption, Statuses
    <3> QED BY <2>2, <2>5, <3>1, <3>2, StoreResponseSaves DEF table
  <2>6. ASSUME NEW r \in ResponseIDs, DeleteResponse(r) \/ CancelResponse(r)
        PROVE  RecentResponses!Next
    BY <2>3, <2>4, <2>6, DeleteResponseDeletes, CancelResponseUpdates DEF table
  <2>7. ASSUME NEW c \in ConversationIDs,
               \/ \E metadata \in Metadata, items \in Batches :
                    SaveConversation(c, metadata, items)
               \/ \E metadata \in Metadata \cup {Nil} : UpdateConversation(c, metadata)
               \/ DeleteConversation(c)
        PROVE  FALSE
    BY <2>1, <2>7 DEF SaveConversation, UpdateConversation, DeleteConversation,
                      responseVars, table
  <2>8. ~UNCHANGED vars
    BY <2>1 DEF vars, responseVars, table
  <2> QED BY <2>5, <2>6, <2>7, <2>8 DEF Next
<1> QED BY <1>1, <1>2, StoreInvariant, PTL
        DEF Spec, ImplementsRecentResponses, RecentResponses!Spec

\* And so is the map of conversations: appends to their lists and saves of responses
\* do not touch their order.
THEOREM ConversationsAreRecent == Spec => ImplementsRecentConversations
PROOF
<1>1. Init => RecentConversations!Init
  BY DEF Init, RecentConversations!Init, ConversationTable, Entries
<1>2. IInv(Exact) /\ [Next]_vars => [RecentConversations!Next]_ConversationTable
  <2> SUFFICES ASSUME TypeOK, OrdersInStep, [Next]_vars,
                      ConversationTable' # ConversationTable
               PROVE  RecentConversations!Next
    BY DEF IInv
  <2> DEFINE table == ConversationTable
  <2>0. \A k : RecentConversations!Without(k) = WithoutKey(table, k)
    BY DEF RecentConversations!Without, RecentConversations!Has, RecentConversations!Place, RecentConversations!RemoveAt, RemoveAt, WithoutKey
  <2>1. UNCHANGED <<Conversations, conversationOrder>> => table' = table
    BY DEF ConversationTable, Entries
  <2>2. ASSUME NEW c \in ConversationIDs, NEW metadata \in Metadata,
               SavesEntry(table, table', c, metadata, MaxConversations)
        PROVE  RecentConversations!Next
    <3>1. RecentConversations!Save(c, metadata)
      BY <2>2, <2>0 DEF SavesEntry, RecentConversations!Save, RecentConversations!Newest, NewestOf
    <3> QED BY <3>1 DEF RecentConversations!Next
  <2>3. ASSUME NEW c \in ConversationIDs, DeletesEntry(table, table', c)
        PROVE  RecentConversations!Next
    <3>1. RecentConversations!Delete(c)
      BY <2>3, <2>0 DEF DeletesEntry, RecentConversations!Delete, RecentConversations!Has
    <3> QED BY <3>1 DEF RecentConversations!Next
  <2>4. ASSUME NEW c \in ConversationIDs, NEW metadata \in Metadata,
               UpdatesEntry(table, table', c, metadata, Metadata \X Metadata)
        PROVE  RecentConversations!Next
    <3>1. RecentConversations!Update(c, metadata)
      BY <2>4 DEF UpdatesEntry, WithEntry, RecentConversations!Update
    <3> QED BY <3>1 DEF RecentConversations!Next
  <2> HIDE DEF table
  <2>5. ASSUME NEW c \in ConversationIDs, NEW metadata \in Metadata, NEW items,
               SaveConversation(c, metadata, items)
        PROVE  RecentConversations!Next
    BY <2>2, <2>5, SaveConversationSaves DEF table
  <2>6. ASSUME NEW c \in ConversationIDs,
               \/ \E metadata \in Metadata \cup {Nil} : UpdateConversation(c, metadata)
               \/ DeleteConversation(c)
        PROVE  RecentConversations!Next
    BY <2>3, <2>4, <2>6, DeleteConversationDeletes, UpdateConversationUpdates DEF table
  <2>7. ASSUME NEW r, NEW status, NEW context, NEW output, NEW store, NEW c, NEW input,
               \/ SaveResponse(r, status, context, output, store, c, input)
               \/ DeleteResponse(r) \/ CancelResponse(r)
        PROVE  FALSE
    BY <2>1, <2>7 DEF SaveResponse, DeleteResponse, CancelResponse, conversationVars, table
  <2>8. ~UNCHANGED vars
    BY <2>1 DEF vars, conversationVars, table
  <2> QED BY <2>5, <2>6, <2>7, <2>8 DEF Next
<1> QED BY <1>1, <1>2, StoreInvariant, PTL
        DEF Spec, ImplementsRecentConversations, RecentConversations!Spec

------------------------------------------------------------------------------
(* The handlers.  First, prefixes of lists.                                *)

LEMMA PrefixElements ==
  ASSUME NEW s \in Seq(ItemIDs), NEW t \in Seq(ItemIDs)
  PROVE  IsPrefix(s, t) <=> /\ Len(s) <= Len(t)
                            /\ \A i \in 1 .. Len(s) : s[i] = t[i]
PROOF
<1>1. Len(s) \in Nat /\ Len(t) \in Nat
  BY LenProperties
<1>2. SubSeq(s, 1, Len(s)) = s
  BY SubSeqFull
<1>3. ASSUME Len(s) <= Len(t)
      PROVE  SubSeq(t, 1, Len(s)) = s <=> \A i \in 1 .. Len(s) : s[i] = t[i]
  <2> DEFINE first == SubSeq(t, 1, Len(s))
  <2>1. \A i \in 1 .. Len(s) : t[i] \in ItemIDs
    BY <1>1, <1>3, ElementOfSeq
  <2>2. /\ first \in Seq(ItemIDs)
        /\ Len(first) = Len(s)
        /\ \A i \in 1 .. Len(s) : first[i] = t[i]
    BY <1>1, <2>1, SubSeqProperties
  <2> HIDE DEF first
  <2>3. first = s <=> \A i \in 1 .. Len(s) : first[i] = s[i]
    BY <2>2, SeqEqual
  <2>4. first = s <=> \A i \in 1 .. Len(s) : s[i] = t[i]
    BY <2>2, <2>3
  <2> QED BY <2>4 DEF first
<1> QED BY <1>2, <1>3 DEF IsPrefix

LEMMA PrefixOfItself == \A s \in Seq(ItemIDs) : IsPrefix(s, s)
PROOF
<1> SUFFICES ASSUME NEW s \in Seq(ItemIDs) PROVE IsPrefix(s, s)
  OBVIOUS
<1>1. Len(s) \in Nat
  BY LenProperties
<1> QED BY <1>1, PrefixElements

LEMMA PrefixOfLonger ==
  ASSUME NEW s \in Seq(ItemIDs), NEW t \in Seq(ItemIDs)
  PROVE  IsPrefix(s, s \o t)
PROOF
<1> DEFINE st == s \o t
<1>1. /\ st \in Seq(ItemIDs)
      /\ Len(st) = Len(s) + Len(t)
      /\ \A i \in 1 .. Len(s) + Len(t) :
           st[i] = IF i <= Len(s) THEN s[i] ELSE t[i - Len(s)]
  BY ConcatProperties, Zenon
<1>2. Len(s) \in Nat /\ Len(t) \in Nat
  BY LenProperties
<1> HIDE DEF st
<1>3. IsPrefix(s, st)
  BY <1>1, <1>2, PrefixElements
<1> QED BY <1>3 DEF st

LEMMA PrefixOfPrefix ==
  \A s, t, u \in Seq(ItemIDs) : IsPrefix(s, t) /\ IsPrefix(t, u) => IsPrefix(s, u)
PROOF
<1> SUFFICES ASSUME NEW s \in Seq(ItemIDs), NEW t \in Seq(ItemIDs), NEW u \in Seq(ItemIDs),
                    IsPrefix(s, t), IsPrefix(t, u)
             PROVE  IsPrefix(s, u)
  OBVIOUS
<1>1. Len(s) \in Nat /\ Len(t) \in Nat /\ Len(u) \in Nat
  BY LenProperties
<1> QED BY <1>1, PrefixElements

------------------------------------------------------------------------------
(* What a write leaves of the histories and adds to the index.             *)

\* Of the responses but the new ones, those still stored are as they were.
ResponsesKept(new) ==
  \A r \in DOMAIN Responses' \ new :
    /\ r \in DOMAIN Responses
    /\ ResponseInputItems'[r] = ResponseInputItems[r]
    /\ ResponseContextItems'[r] = ResponseContextItems[r]

\* Of the conversations but the new ones, those still stored have all they had.
ConversationsKept(new) ==
  \A c \in DOMAIN Conversations' \ new :
    /\ c \in DOMAIN Conversations
    /\ IsPrefix(ConversationItems[c], ConversationItems'[c])

IsIndex(index) == DOMAIN index = {"byID", "refs"}

\* Releasing drops ids, registering adds the list's, counting does neither.
LEMMA IndexedIDs ==
  /\ IsIndex(Index) /\ Index.byID = ItemsByID
  /\ \A index, times : /\ IsIndex(ReleaseItemRefs(index, times))
                       /\ ReleaseItemRefs(index, times).byID \subseteq index.byID
  /\ \A index, items : IsIndex(index) =>
       /\ IsIndex(RegisterItems(index, items))
       /\ RegisterItems(index, items).byID = index.byID \cup ToSet(items)
       /\ IsIndex(AddItemRefs(index, items))
       /\ AddItemRefs(index, items).byID = index.byID
PROOF
<1>1. IsIndex(Index) /\ Index.byID = ItemsByID
  BY DEF Index, IsIndex
<1>2. ASSUME NEW index, NEW times
      PROVE  /\ IsIndex(ReleaseItemRefs(index, times))
             /\ ReleaseItemRefs(index, times).byID \subseteq index.byID
  BY DEF ReleaseItemRefs, IsIndex
<1>3. ASSUME NEW index, NEW items, IsIndex(index)
      PROVE  /\ IsIndex(RegisterItems(index, items))
             /\ RegisterItems(index, items).byID = index.byID \cup ToSet(items)
             /\ IsIndex(AddItemRefs(index, items))
             /\ AddItemRefs(index, items).byID = index.byID
  BY <1>3 DEF RegisterItems, AddItemRefs, IsIndex
<1> QED BY <1>1, <1>2, <1>3

LEMMA StoreResponseIndexes ==
  ASSUME NEW r, NEW status, NEW contextItems \in Seq(ItemIDs),
         NEW outputItems \in Seq(ItemIDs)
  PROVE  LET index == StoreResponse(r, status, contextItems, outputItems).index
         IN  /\ IsIndex(index)
             /\ index.byID \subseteq ItemsByID \cup ToSet(contextItems) \cup ToSet(outputItems)
PROOF
<1> DEFINE full      == contextItems \o outputItems
           replaced  == {r} \cap DOMAIN Responses
           released  == ReleaseResponses(Index, replaced, ResponseInputItems,
                                         ResponseContextItems)
           registered == RegisterItems(released, full)
           counted   == AddItemRefs(AddItemRefs(registered, full), contextItems)
           saved     == StoreResponse(r, status, contextItems, outputItems)
<1>1. PICK evicted, inputs, contexts :
        saved.index = ReleaseResponses(counted, evicted, inputs, contexts)
  BY DEF StoreResponse
<1>2. IsIndex(released) /\ released.byID \subseteq ItemsByID
  BY IndexedIDs DEF ReleaseResponses
<1> HIDE DEF released
<1>3. IsIndex(registered) /\ registered.byID = released.byID \cup ToSet(full)
  BY <1>2, IndexedIDs
<1> HIDE DEF registered
<1>4. IsIndex(counted) /\ counted.byID = registered.byID
  BY <1>3, IndexedIDs
<1> HIDE DEF counted, saved
<1>5. IsIndex(saved.index) /\ saved.index.byID \subseteq counted.byID
  BY <1>1, <1>4, IndexedIDs DEF ReleaseResponses
<1>6. ToSet(full) = ToSet(contextItems) \cup ToSet(outputItems)
  BY ItemsOfConcat
<1> HIDE DEF full
<1> QED BY <1>2, <1>3, <1>4, <1>5, <1>6 DEF saved

\* All that SaveResponse does to the lists that a handler may hold a copy of.
AddsResponse(r, contextItems, outputItems, input) ==
  /\ ResponsesKept({r})
  /\ ConversationsKept({}) /\ Conversations' = Conversations
  /\ ItemsByID' \subseteq ItemsByID \cup ToSet(contextItems) \cup ToSet(outputItems)
                                    \cup ToSet(input)

LEMMA SaveResponseWrites ==
  ASSUME TypeOK,
         NEW r \in ResponseIDs \ DOMAIN Responses, NEW status,
         NEW contextItems \in Seq(ItemIDs), NEW outputItems \in Seq(ItemIDs),
         NEW store \in BOOLEAN, NEW c \in ConversationIDs \cup {NoConversation},
         NEW input \in Seq(ItemIDs),
         SaveResponse(r, status, contextItems, outputItems, store, c, input)
  PROVE  AddsResponse(r, contextItems, outputItems, input)
PROOF
<1> DEFINE stored == StoreResponse(r, status, contextItems, outputItems)
           saved == IF store THEN stored ELSE NothingStored
           newItems == input \o outputItems
           lists == IF c = NoConversation THEN ConversationItems
                    ELSE Put(ConversationItems, c, ItemsOf(c) \o newItems)
           index == IF c = NoConversation THEN saved.index
                    ELSE AddItemRefs(RegisterItems(saved.index, newItems), newItems)
<1>1. /\ Responses' = saved.responses
      /\ ResponseInputItems' = saved.inputs
      /\ ResponseContextItems' = saved.contexts
      /\ ConversationItems' = lists
      /\ ItemsByID' = index.byID
      /\ Conversations' = Conversations
  BY DEF SaveResponse
<1>2. ResponsesKept({r})
  <2>1. CASE store
    <3>1. PICK kept :
            /\ stored.responses = Restrict(Put(Responses, r, status), kept)
            /\ stored.inputs = Restrict(Put(ResponseInputItems, r, contextItems), kept)
            /\ stored.contexts =
                 Restrict(Put(ResponseContextItems, r, contextItems \o outputItems), kept)
            /\ kept \subseteq DOMAIN Responses \cup {r}
      BY DEF StoreResponse, Put
    <3>2. DOMAIN ResponseInputItems = DOMAIN Responses
          /\ DOMAIN ResponseContextItems = DOMAIN Responses
      BY DEF TypeOK
    <3> HIDE DEF stored
    <3> QED BY <1>1, <2>1, <3>1, <3>2 DEF ResponsesKept, Restrict, Put
  <2>2. CASE ~store
    BY <1>1, <2>2 DEF NothingStored, ResponsesKept
  <2> QED BY <2>1, <2>2
<1>3. ConversationsKept({})
  <2>1. /\ \A d \in DOMAIN ConversationItems : ConversationItems[d] \in Seq(ItemIDs)
        /\ DOMAIN Conversations \subseteq DOMAIN ConversationItems
    BY DEF TypeOK
  <2>2. newItems \in Seq(ItemIDs)
    BY ItemsOfConcat
  <2> HIDE DEF newItems
  <2>3. \A d \in DOMAIN Conversations :
          lists[d] = ConversationItems[d] \/ lists[d] = ConversationItems[d] \o newItems
    BY <2>1 DEF Put, ItemsOf
  <2> HIDE DEF lists
  <2>4. \A d \in DOMAIN Conversations : IsPrefix(ConversationItems[d], lists[d])
    BY <2>1, <2>2, <2>3, PrefixOfItself, PrefixOfLonger
  <2> QED BY <1>1, <2>4 DEF ConversationsKept
<1>4. /\ IsIndex(saved.index)
      /\ saved.index.byID \subseteq ItemsByID \cup ToSet(contextItems) \cup ToSet(outputItems)
  <2>1. CASE store
    BY <2>1, StoreResponseIndexes
  <2>2. CASE ~store
    <3>1. saved.index = Index
      BY <2>2 DEF NothingStored
    <3> QED BY <3>1, IndexedIDs
  <2> QED BY <2>1, <2>2
<1> HIDE DEF saved
<1>5. ToSet(newItems) = ToSet(input) \cup ToSet(outputItems)
  BY ItemsOfConcat
<1> HIDE DEF newItems
<1>6. index.byID \subseteq saved.index.byID \cup ToSet(newItems)
  BY <1>4, IndexedIDs
<1> HIDE DEF index
<1> QED BY <1>1, <1>2, <1>3, <1>4, <1>5, <1>6 DEF AddsResponse

LEMMA SaveConversationWrites ==
  ASSUME TypeOK, NEW c \in ConversationIDs \ DOMAIN ConversationItems,
         NEW metadata, NEW items \in Seq(ItemIDs), SaveConversation(c, metadata, items)
  PROVE  /\ ResponsesKept({}) /\ Responses' = Responses
         /\ ConversationsKept({c})
         /\ ItemsByID' \subseteq ItemsByID \cup ToSet(items)
PROOF
<1> DEFINE replaced == {c} \cap DOMAIN Conversations
           released == ReleaseItemRefs(Index, Times(replaced, ConversationItems))
           registered == RegisterItems(released, items)
           counted  == AddItemRefs(registered, items)
<1>1. PICK evicted, times :
        /\ Conversations' = Restrict(Put(Conversations, c, metadata),
                                     DOMAIN Put(Conversations, c, metadata) \ evicted)
        /\ ConversationItems' = Restrict(Put(ConversationItems, c, items),
                                         DOMAIN Put(ConversationItems, c, items) \ evicted)
        /\ ItemsByID' = ReleaseItemRefs(counted, times).byID
        /\ UNCHANGED <<Responses, ResponseInputItems, ResponseContextItems>>
  BY DEF SaveConversation, responseVars
<1>2. ResponsesKept({})
  BY <1>1 DEF ResponsesKept
<1>3. ConversationsKept({c})
  <2>1. /\ \A d \in DOMAIN ConversationItems : ConversationItems[d] \in Seq(ItemIDs)
        /\ DOMAIN Conversations \subseteq DOMAIN ConversationItems
    BY DEF TypeOK
  <2>2. \A d \in DOMAIN Conversations' \ {c} :
          /\ d \in DOMAIN Conversations
          /\ ConversationItems'[d] = ConversationItems[d]
    BY <1>1, <2>1 DEF Restrict, Put
  <2> QED BY <2>1, <2>2, PrefixOfItself DEF ConversationsKept
<1>4. IsIndex(released) /\ released.byID \subseteq ItemsByID
  BY IndexedIDs
<1> HIDE DEF released
<1>5. IsIndex(registered) /\ registered.byID = released.byID \cup ToSet(items)
  BY <1>4, IndexedIDs
<1> HIDE DEF registered
<1>6. counted.byID = registered.byID
  BY <1>5, IndexedIDs
<1> HIDE DEF counted
<1>7. ItemsByID' \subseteq counted.byID
  BY <1>1, IndexedIDs
<1> QED BY <1>1, <1>2, <1>3, <1>4, <1>5, <1>6, <1>7

\* The endpoints of stored objects drop, or change neither lists nor index.
LEMMA StoredObjectWrites ==
  ASSUME TypeOK,
         \/ \E r \in ResponseIDs : DeleteResponse(r) \/ CancelResponse(r)
         \/ \E c \in ConversationIDs, metadata \in Metadata \cup {Nil} :
              UpdateConversation(c, metadata)
         \/ \E c \in ConversationIDs : DeleteConversation(c)
  PROVE  ResponsesKept({}) /\ ConversationsKept({}) /\ ItemsByID' \subseteq ItemsByID
PROOF
<1>1. /\ \A d \in DOMAIN ConversationItems : ConversationItems[d] \in Seq(ItemIDs)
      /\ DOMAIN Conversations \subseteq DOMAIN ConversationItems
      /\ DOMAIN ResponseInputItems = DOMAIN Responses
      /\ DOMAIN ResponseContextItems = DOMAIN Responses
  BY DEF TypeOK
<1>2. ASSUME NEW r \in ResponseIDs, DeleteResponse(r)
      PROVE  ResponsesKept({}) /\ ConversationsKept({}) /\ ItemsByID' \subseteq ItemsByID
  <2>1. ResponsesKept({})
    BY <1>1, <1>2 DEF DeleteResponse, ResponsesKept, Restrict
  <2>2. ConversationsKept({})
    BY <1>1, <1>2, PrefixOfItself DEF DeleteResponse, conversationVars, ConversationsKept
  <2>3. ItemsByID' \subseteq ItemsByID
    BY <1>2, IndexedIDs DEF DeleteResponse, ReleaseResponses
  <2> QED BY <2>1, <2>2, <2>3
<1>3. ASSUME NEW r \in ResponseIDs, CancelResponse(r)
      PROVE  ResponsesKept({}) /\ ConversationsKept({}) /\ ItemsByID' \subseteq ItemsByID
  BY <1>1, <1>3, PrefixOfItself DEF CancelResponse, conversationVars, itemVars,
                                    ResponsesKept, ConversationsKept
<1>4. ASSUME NEW c \in ConversationIDs, NEW metadata \in Metadata \cup {Nil},
             UpdateConversation(c, metadata)
      PROVE  ResponsesKept({}) /\ ConversationsKept({}) /\ ItemsByID' \subseteq ItemsByID
  BY <1>1, <1>4, PrefixOfItself DEF UpdateConversation, responseVars, itemVars,
                                    ResponsesKept, ConversationsKept
<1>5. ASSUME NEW c \in ConversationIDs, DeleteConversation(c)
      PROVE  ResponsesKept({}) /\ ConversationsKept({}) /\ ItemsByID' \subseteq ItemsByID
  <2>1. ResponsesKept({})
    BY <1>5 DEF DeleteConversation, responseVars, ResponsesKept
  <2>2. ConversationsKept({})
    BY <1>1, <1>5, PrefixOfItself DEF DeleteConversation, Restrict, ConversationsKept
  <2>3. ItemsByID' \subseteq ItemsByID
    BY <1>5, IndexedIDs DEF DeleteConversation
  <2> QED BY <2>1, <2>2, <2>3
<1> QED BY <1>2, <1>3, <1>4, <1>5

------------------------------------------------------------------------------
(* What a handler has prepared.                                            *)

LEMMA IdleType == Idle \in PreparedRequests
PROOF BY DEF Idle, PreparedRequests, Phases

LEMMA RequestSet ==
  ASSUME RequestsTypeOK, NEW q \in Requests, NEW prepared \in PreparedRequests,
         request' = [request EXCEPT ![q] = prepared]
  PROVE  RequestsTypeOK'
PROOF BY DEF RequestsTypeOK

\* The lists an answer becomes are lists of items.
LEMMA OutputType == \A output \in Outputs : output \in Seq(ItemIDs)
PROOF
<1>1. MaxOutputItems \in Nat
  BY ResponsesAPIAssumption DEF ResponsesAPIAssumption
<1> QED BY <1>1 DEF Outputs

\* What handlers hold agrees with their phase and with the store: what
\* ContextsAreHistory says of one request, and that its conversation stays where
\* no deletion or eviction takes it away.
Sound(p) ==
  /\ p.phase = "idle" => p = Idle
  /\ p.phase = "previous" => p.conversation = NoConversation
  /\ ~LateAppends => p.conversation \in DOMAIN Conversations \cup {NoConversation}
  /\ p.conversation \in DOMAIN Conversations =>
       IsPrefix(p.context, ConversationItems[p.conversation])
  /\ p.previous \in DOMAIN Responses /\ p.phase \in {"input", "upstream"} =>
       p.context = ResponseContextItems[p.previous]

Mentioned(p) == ToSet(p.context) \cup ToSet(p.input)

\* Without repeated items, what a request brings to its conversation is in no list
\* of the store and no other request has it.
InputIsOwn(q) ==
  request[q].conversation # NoConversation =>
    /\ ToSet(request[q].input) \cap ItemsByID = {}
    /\ \A p \in Requests \ {q} : ToSet(request[q].input) \cap Mentioned(request[p]) = {}

APIInv ==
  /\ RequestsTypeOK
  /\ IInv(~ResentItems)
  /\ \A q \in Requests : Sound(request[q])
  /\ ~ResentItems => \A q \in Requests : InputIsOwn(q)

LEMMA APIInvFacts ==
  ASSUME APIInv
  PROVE  /\ RequestsTypeOK /\ TypeOK /\ RefsCoverHolds /\ (~ResentItems) \in BOOLEAN
         /\ \A r \in DOMAIN Responses : ToSet(ResponseContextItems[r]) \subseteq ItemsByID
         /\ \A c \in ConversationIDs : /\ ItemsOf(c) \in Seq(ItemIDs)
                                       /\ ToSet(ItemsOf(c)) \subseteq ItemsByID
PROOF
<1>1. (~ResentItems) \in BOOLEAN
  BY StoreAssumption DEF StoreAssumption
<1>2. IInv(~ResentItems)
  BY DEF APIInv
<1>3. TypeOK /\ RefsCoverHolds
  BY <1>2 DEF IInv
<1>4. NoDanglingItems
  BY <1>1, <1>2, InvariantNeverDangles
<1>5. \A r \in DOMAIN Responses : ToSet(ResponseContextItems[r]) \subseteq ItemsByID
  BY <1>4 DEF NoDanglingItems, HeldItems, ResponseHolds
<1>6. ASSUME NEW c \in ConversationIDs
      PROVE  ItemsOf(c) \in Seq(ItemIDs) /\ ToSet(ItemsOf(c)) \subseteq ItemsByID
  <2>1. ItemsOf(c) \in Seq(ItemIDs)
    BY <1>3 DEF TypeOK, ItemsOf
  <2>2. CASE c \notin DOMAIN ConversationItems
    BY <2>1, <2>2 DEF ItemsOf, ToSet
  <2>3. ASSUME c \in DOMAIN ConversationItems, NEW id \in ToSet(ItemsOf(c))
        PROVE  id \in ItemsByID
    <3> DEFINE x == Times(DOMAIN ResponseInputItems, ResponseInputItems)[id]
               y == Times(DOMAIN ResponseContextItems, ResponseContextItems)[id]
               z == Times(DOMAIN ConversationItems, ConversationItems)[id]
    <3>1. id \in ItemIDs /\ id \in ToSet(ConversationItems[c])
      BY <2>1, <2>3, ItemsOfList DEF ItemsOf
    <3>2. IsFiniteSet(DOMAIN ConversationItems) /\ x \in Nat /\ y \in Nat /\ z \in Nat
          /\ itemRefCount[id] \in Nat
      BY <1>1, <1>2, <3>1, InvariantFacts
    <3>3. z > 0
      BY <2>3, <3>1, <3>2, HeldIsCounted
    <3>4. itemRefCount[id] >= x + y + z
      BY <1>3, <3>1 DEF RefsCoverHolds, HoldCount
    <3> HIDE DEF x, y, z
    <3>5. itemRefCount[id] > 0
      BY <3>2, <3>3, <3>4
    <3> QED BY <1>3, <3>1, <3>5 DEF RefsCoverHolds
  <2> QED BY <2>1, <2>2, <2>3
<1> QED BY <1>1, <1>3, <1>5, <1>6 DEF APIInv

\* What a step of one handler alone may add to what the handler holds: ids the
\* store has or that are new, and to a conversation's input only new ones.
Adds(p, new) ==
  /\ Mentioned(new) \subseteq Mentioned(p) \cup ItemsByID \cup NewItemIDs
  /\ new.conversation # NoConversation =>
       \/ ToSet(new.input) = {}
       \/ /\ p.conversation # NoConversation
          /\ ToSet(new.input) \subseteq ToSet(p.input) \cup NewItemIDs

LEMMA LocalStepKeepsOwn ==
  ASSUME RequestsTypeOK, NEW q \in Requests, NEW new, Adds(request[q], new),
         request' = [request EXCEPT ![q] = new], ItemsByID' = ItemsByID,
         \A p \in Requests : InputIsOwn(p)
  PROVE  \A p \in Requests : InputIsOwn(p)'
PROOF
<1>1. /\ request'[q] = new
      /\ \A p \in Requests \ {q} : request'[p] = request[p]
  BY DEF RequestsTypeOK
<1>2. \A p \in Requests : NewItemIDs \cap (ItemsByID \cup Mentioned(request[p])) = {}
  BY DEF NewItemIDs, Mentioned
<1>3. ASSUME NEW p \in Requests \ {q}, request[p].conversation # NoConversation
      PROVE  /\ ToSet(request[p].input) \cap ItemsByID = {}
             /\ ToSet(request[p].input) \cap Mentioned(new) = {}
             /\ \A o \in Requests \ {p} :
                  ToSet(request[p].input) \cap Mentioned(request[o]) = {}
  <2>1. /\ ToSet(request[p].input) \cap ItemsByID = {}
        /\ \A o \in Requests \ {p} :
             ToSet(request[p].input) \cap Mentioned(request[o]) = {}
    BY <1>3 DEF InputIsOwn
  <2>2. ToSet(request[p].input) \cap NewItemIDs = {}
    BY <1>2 DEF Mentioned
  <2> QED BY <2>1, <2>2 DEF Adds
<1>4. ASSUME new.conversation # NoConversation
      PROVE  /\ ToSet(new.input) \cap ItemsByID = {}
             /\ \A o \in Requests \ {q} :
                  ToSet(new.input) \cap Mentioned(request[o]) = {}
  BY <1>2, <1>4 DEF Adds, InputIsOwn
<1>5. ASSUME NEW p \in Requests PROVE InputIsOwn(p)'
  <2>1. CASE p = q
    BY <1>1, <1>4, <2>1 DEF InputIsOwn, Mentioned
  <2>2. CASE p # q
    BY <1>1, <1>3, <2>2 DEF InputIsOwn, Mentioned
  <2> QED BY <2>1, <2>2
<1> QED BY <1>5

\* The steps of a handler that call no method of the store that writes.
HandlerAlone(q) ==
  \/ ReceiveAlone(q)
  \/ ReceiveNewConversation(q)
  \/ ReadContext(q)
  \/ CallUpstream(q)
  \/ EndWithoutSave(q)
  \/ \E c \in ConversationIDs : ReceiveInConversation(q, c)
  \/ \E r \in ResponseIDs : ReceiveWithPrevious(q, r)
  \/ \E id \in ItemIDs : AddOwnItem(q, id) \/ AddReferencedItem(q, id)

Prepares(q, new) ==
  /\ new \in PreparedRequests
  /\ request' = [request EXCEPT ![q] = new]
  /\ Sound(new)
  /\ ~ResentItems => Adds(request[q], new)

LEMMA IdleIsSound ==
  ASSUME TypeOK
  PROVE  /\ Sound(Idle) /\ Mentioned(Idle) = {} /\ Idle.conversation = NoConversation
         /\ Idle.previous = NoResponse /\ Idle.phase = "idle"
         /\ NoConversation \notin DOMAIN Conversations /\ NoResponse \notin DOMAIN Responses
PROOF
<1>1. NoConversation \notin DOMAIN Conversations /\ NoResponse \notin DOMAIN Responses
  BY StoreAssumption, ResponsesAPIAssumption
     DEF TypeOK, StoreAssumption, ResponsesAPIAssumption
<1>2. ToSet(<<>>) = {}
  BY DEF ToSet
<1> QED BY <1>1, <1>2 DEF Sound, Idle, Mentioned

LEMMA HandlerAlonePrepares ==
  ASSUME APIInv, NEW q \in Requests, HandlerAlone(q)
  PROVE  UNCHANGED vars /\ \E new : Prepares(q, new)
PROOF
<1> DEFINE p == request[q]
<1>1. /\ RequestsTypeOK /\ TypeOK /\ p \in PreparedRequests /\ Sound(p)
  BY APIInvFacts DEF APIInv, RequestsTypeOK
<1>2. UNCHANGED vars
  BY DEF HandlerAlone, ReceiveAlone, ReceiveNewConversation, ReadContext, CallUpstream,
         EndWithoutSave, ReceiveInConversation, ReceiveWithPrevious, AddOwnItem,
         AddReferencedItem, AddItem
<1> HIDE DEF p
<1>3. CASE ReceiveAlone(q) \/ ReceiveNewConversation(q)
  <2>1. PICK phase \in {"input", "items"} : request' = [request EXCEPT ![q].phase = phase]
    BY <1>3 DEF ReceiveAlone, ReceiveNewConversation
  <2>2. p = Idle
    BY <1>1, <1>3 DEF ReceiveAlone, ReceiveNewConversation, Sound, p
  <2> DEFINE new == [p EXCEPT !.phase = phase]
  <2>3. request' = [request EXCEPT ![q] = new]
    BY <2>1 DEF p
  <2>4. new \in PreparedRequests
    BY <1>1 DEF PreparedRequests, Phases
  <2>5. /\ new.conversation = NoConversation /\ new.previous = NoResponse
        /\ new.phase \in {"input", "items"} /\ new.context = p.context /\ new.input = p.input
    BY <2>2 DEF Idle
  <2> HIDE DEF new
  <2>6. Sound(new)
    BY <1>1, <2>5, IdleIsSound DEF Sound
  <2>7. Adds(p, new)
    BY <2>5 DEF Adds, Mentioned
  <2> QED BY <1>2, <2>3, <2>4, <2>6, <2>7 DEF Prepares, p
<1>4. CASE CallUpstream(q)
  <2> DEFINE new == [p EXCEPT !.phase = "upstream"]
  <2>1. p.phase = "input" /\ request' = [request EXCEPT ![q] = new]
    BY <1>4 DEF CallUpstream, p
  <2>2. new \in PreparedRequests
    BY <1>1 DEF PreparedRequests, Phases
  <2>3. /\ new.conversation = p.conversation /\ new.previous = p.previous
        /\ new.phase = "upstream" /\ new.context = p.context /\ new.input = p.input
    BY <1>1 DEF PreparedRequests
  <2> HIDE DEF new
  <2>4. Sound(new)
    BY <1>1, <2>1, <2>3 DEF Sound
  <2>5. Adds(p, new)
    BY <2>3 DEF Adds, Mentioned
  <2> QED BY <1>2, <2>1, <2>2, <2>4, <2>5 DEF Prepares, p
<1>5. CASE EndWithoutSave(q)
  <2>1. request' = [request EXCEPT ![q] = Idle]
    BY <1>5 DEF EndWithoutSave
  <2>2. Adds(p, Idle)
    BY <1>1, IdleIsSound DEF Adds
  <2> QED BY <1>1, <1>2, <2>1, <2>2, IdleType, IdleIsSound DEF Prepares, p
<1>6. CASE ReadContext(q)
  <2> DEFINE r == p.previous
             context == IF r \in DOMAIN ResponseContextItems
                        THEN ResponseContextItems[r] ELSE <<>>
             new == [[p EXCEPT !.phase = "input"] EXCEPT !.context = context]
  <2>1. p.phase = "previous" /\ p.conversation = NoConversation
    BY <1>1, <1>6 DEF ReadContext, Sound, p
  <2>2. context \in Seq(ItemIDs)
    BY <1>1 DEF TypeOK
  <2>3. /\ ToSet(context) \subseteq ItemsByID
        /\ r \in DOMAIN Responses => context = ResponseContextItems[r]
    <3>1. DOMAIN ResponseContextItems = DOMAIN Responses
      BY <1>1 DEF TypeOK
    <3>2. CASE r \in DOMAIN Responses
      BY <3>1, <3>2, APIInvFacts
    <3>3. CASE r \notin DOMAIN Responses
      <4>1. context = <<>>
        BY <3>1, <3>3
      <4> QED BY <3>3, <4>1 DEF ToSet
    <3> QED BY <3>2, <3>3
  <2>4. request' = [request EXCEPT ![q].phase = "input", ![q].context = context]
    BY <1>6 DEF ReadContext, p
  <2> HIDE DEF context
  <2>5. request' = [request EXCEPT ![q] = new]
    BY <1>1, <2>4 DEF RequestsTypeOK, p
  <2>6. new \in PreparedRequests
    BY <1>1, <2>2 DEF PreparedRequests, Phases
  <2>7. /\ new.conversation = NoConversation /\ new.previous = r
        /\ new.phase = "input" /\ new.context = context /\ new.input = p.input
    BY <1>1, <2>1 DEF PreparedRequests
  <2> HIDE DEF new
  <2>8. Sound(new)
    BY <1>1, <2>3, <2>7, IdleIsSound DEF Sound
  <2>9. Adds(p, new)
    BY <2>3, <2>7 DEF Adds, Mentioned
  <2> QED BY <1>2, <2>5, <2>6, <2>8, <2>9 DEF Prepares, p
<1>7. ASSUME NEW c \in ConversationIDs, ReceiveInConversation(q, c)
      PROVE  \E new : Prepares(q, new)
  <2> DEFINE new == [Idle EXCEPT !.phase = "input", !.conversation = c,
                                 !.context = ItemsOf(c)]
  <2>1. c \in DOMAIN Conversations /\ request' = [request EXCEPT ![q] = new]
    BY <1>7 DEF ReceiveInConversation
  <2>2. /\ ItemsOf(c) \in Seq(ItemIDs) /\ ToSet(ItemsOf(c)) \subseteq ItemsByID
        /\ ItemsOf(c) = ConversationItems[c]
    BY <1>1, <2>1, APIInvFacts DEF TypeOK, ItemsOf
  <2>3. new \in PreparedRequests
    BY <2>2, IdleType DEF PreparedRequests, Phases
  <2>4. /\ new.conversation = c /\ new.previous = NoResponse
        /\ new.phase = "input" /\ new.context = ItemsOf(c) /\ new.input = <<>>
    BY DEF Idle
  <2> HIDE DEF new
  <2>5. Sound(new)
    BY <1>1, <2>1, <2>2, <2>4, IdleIsSound, PrefixOfItself DEF Sound
  <2>6. Adds(p, new)
    BY <2>2, <2>4 DEF Adds, Mentioned, ToSet
  <2> QED BY <2>1, <2>3, <2>5, <2>6 DEF Prepares, p
<1>8. ASSUME NEW r \in ResponseIDs, ReceiveWithPrevious(q, r)
      PROVE  \E new : Prepares(q, new)
  <2> DEFINE new == [Idle EXCEPT !.phase = "previous", !.previous = r]
  <2>1. request' = [request EXCEPT ![q] = new]
    BY <1>8 DEF ReceiveWithPrevious
  <2>2. new \in PreparedRequests
    BY IdleType DEF PreparedRequests, Phases
  <2>3. /\ new.conversation = NoConversation
        /\ new.phase = "previous" /\ new.context = Idle.context /\ new.input = Idle.input
    BY DEF Idle
  <2> HIDE DEF new
  <2>4. Sound(new)
    BY <1>1, <2>3, IdleIsSound DEF Sound
  <2>5. Adds(p, new)
    BY <1>1, <2>3, IdleIsSound DEF Adds, Mentioned
  <2> QED BY <2>1, <2>2, <2>4, <2>5 DEF Prepares, p
<1>9. ASSUME NEW id \in ItemIDs, AddOwnItem(q, id) \/ AddReferencedItem(q, id)
      PROVE  \E new : Prepares(q, new)
  <2> DEFINE new == [p EXCEPT !.input = Append(@, id)]
  <2>1. p.phase \in {"input", "items"} /\ request' = [request EXCEPT ![q] = new]
    BY <1>9 DEF AddOwnItem, AddReferencedItem, AddItem, p
  <2>2. /\ Append(p.input, id) \in Seq(ItemIDs)
        /\ ToSet(Append(p.input, id)) = ToSet(p.input) \cup {id}
    <3>1. p.input \in Seq(ItemIDs)
      BY <1>1 DEF PreparedRequests
    <3>2. ToSet(Append(p.input, id)) = ToSet(p.input) \cup {id}
      BY <3>1, AppendProperties, LenProperties DEF ToSet
    <3> QED BY <3>1, <3>2, AppendProperties
  <2>3. new \in PreparedRequests
    BY <1>1, <2>2 DEF PreparedRequests
  <2>4. /\ new.conversation = p.conversation /\ new.previous = p.previous
        /\ new.phase = p.phase /\ new.context = p.context
        /\ new.input = Append(p.input, id)
    BY <1>1 DEF PreparedRequests
  <2>5. ~ResentItems => \/ id \in NewItemIDs
                        \/ id \in ItemsByID /\ p.conversation = NoConversation
    BY <1>9 DEF AddOwnItem, AddReferencedItem, p
  <2> HIDE DEF new
  <2>6. Sound(new)
    <3>1. p.phase # "idle" /\ p.phase # "previous"
      BY <2>1
    <3> QED BY <1>1, <2>4, <3>1 DEF Sound
  <2>7. ~ResentItems => Adds(p, new)
    BY <2>2, <2>4, <2>5 DEF Adds, Mentioned
  <2> QED BY <2>1, <2>3, <2>6, <2>7 DEF Prepares, p
<1> QED BY <1>2, <1>3, <1>4, <1>5, <1>6, <1>7, <1>8, <1>9 DEF HandlerAlone

------------------------------------------------------------------------------
(* Every step keeps the invariant.                                         *)

LEMMA SoundAfterWrite ==
  ASSUME NEW p \in PreparedRequests, Sound(p), TypeOK, TypeOK',
         NEW newResponses, ResponsesKept(newResponses), p.previous \notin newResponses,
         NEW newConversations, ConversationsKept(newConversations),
         p.conversation \notin newConversations,
         ~LateAppends => p.conversation \in DOMAIN Conversations' \cup {NoConversation}
  PROVE  Sound(p)'
PROOF
<1>1. p.context \in Seq(ItemIDs)
  BY DEF PreparedRequests
<1>2. ASSUME p.conversation \in DOMAIN Conversations'
      PROVE  IsPrefix(p.context, ConversationItems'[p.conversation])
  <2> DEFINE c == p.conversation
  <2>1. c \in DOMAIN Conversations /\ IsPrefix(ConversationItems[c], ConversationItems'[c])
    BY <1>2 DEF ConversationsKept
  <2>2. ConversationItems[c] \in Seq(ItemIDs) /\ ConversationItems'[c] \in Seq(ItemIDs)
    BY <1>2, <2>1 DEF TypeOK
  <2>3. IsPrefix(p.context, ConversationItems[c])
    BY <2>1 DEF Sound
  <2> QED BY <1>1, <2>1, <2>2, <2>3, PrefixOfPrefix
<1>3. ASSUME p.previous \in DOMAIN Responses', p.phase \in {"input", "upstream"}
      PROVE  p.context = ResponseContextItems'[p.previous]
  BY <1>3 DEF ResponsesKept, Sound
<1> QED BY <1>2, <1>3 DEF Sound

LEMMA OwnAfterWrite ==
  ASSUME NEW o \in Requests, InputIsOwn(o), NEW done \in SUBSET Requests, TypeOK,
         request' = [q \in Requests |-> IF q \in done THEN Idle ELSE request[q]],
         NEW added, ItemsByID' \subseteq ItemsByID \cup added,
         o \notin done /\ request[o].conversation # NoConversation =>
           ToSet(request[o].input) \cap added = {}
  PROVE  InputIsOwn(o)'
PROOF
<1>1. CASE o \in done
  <2>1. request'[o].conversation = NoConversation
    BY <1>1, IdleIsSound
  <2> QED BY <2>1 DEF InputIsOwn
<1>2. CASE o \notin done
  <2>1. request'[o] = request[o]
    BY <1>2
  <2>2. \A p \in Requests : Mentioned(request'[p]) \subseteq Mentioned(request[p])
    <3>1. \A p \in Requests : request'[p] = Idle \/ request'[p] = request[p]
      OBVIOUS
    <3> QED BY <3>1, IdleIsSound
  <2>3. request[o].conversation # NoConversation =>
          /\ ToSet(request[o].input) \cap ItemsByID' = {}
          /\ \A p \in Requests \ {o} : ToSet(request[o].input) \cap Mentioned(request'[p]) = {}
    BY <1>2, <2>2 DEF InputIsOwn
  <2> QED BY <2>1, <2>3 DEF InputIsOwn, Mentioned
<1> QED BY <1>1, <1>2

\* A write that ends some requests, stores what no request continues and indexes
\* nothing of the other requests.
Disturbs(done, newResponses, newConversations, added) ==
  /\ request' = [q \in Requests |-> IF q \in done THEN Idle ELSE request[q]]
  /\ ResponsesKept(newResponses) /\ ConversationsKept(newConversations)
  /\ \A q \in Requests : /\ request[q].previous \notin newResponses
                          /\ request[q].conversation \notin newConversations
  /\ ConversationsInUseKept
  /\ ItemsByID' \subseteq ItemsByID \cup added
  /\ ~ResentItems =>
       \A q \in Requests \ done : request[q].conversation # NoConversation =>
         ToSet(request[q].input) \cap added = {}

LEMMA RequestsAfterWrite ==
  ASSUME APIInv, TypeOK', NEW done \in SUBSET Requests,
         NEW newResponses, NEW newConversations, NEW added,
         Disturbs(done, newResponses, newConversations, added)
  PROVE  /\ RequestsTypeOK'
         /\ \A q \in Requests : Sound(request[q])'
         /\ ~ResentItems => \A q \in Requests : InputIsOwn(q)'
PROOF
<1>1. RequestsTypeOK /\ TypeOK
  BY APIInvFacts
<1>2. /\ request' = [q \in Requests |-> IF q \in done THEN Idle ELSE request[q]]
      /\ ResponsesKept(newResponses) /\ ConversationsKept(newConversations)
      /\ \A q \in Requests : /\ request[q].previous \notin newResponses
                              /\ request[q].conversation \notin newConversations
      /\ ConversationsInUseKept
      /\ ItemsByID' \subseteq ItemsByID \cup added
      /\ ~ResentItems =>
           \A q \in Requests \ done : request[q].conversation # NoConversation =>
             ToSet(request[q].input) \cap added = {}
  BY DEF Disturbs
<1>3. RequestsTypeOK'
  BY <1>1, <1>2, IdleType DEF RequestsTypeOK
<1>4. ASSUME NEW q \in Requests PROVE Sound(request[q])'
  <2>1. CASE q \in done
    <3>1. request'[q] = Idle
      BY <1>2, <2>1
    <3>2. Sound(Idle)'
      <4>1. /\ NoConversation \notin DOMAIN Conversations'
            /\ NoResponse \notin DOMAIN Responses'
        BY StoreAssumption, ResponsesAPIAssumption
           DEF TypeOK, StoreAssumption, ResponsesAPIAssumption
      <4> QED BY <4>1 DEF Sound, Idle
    <3> QED BY <3>1, <3>2 DEF Sound
  <2>2. CASE q \notin done
    <3>1. PICK p : p = request[q]
      OBVIOUS
    <3>2. p \in PreparedRequests /\ Sound(p) /\ request'[q] = p
      BY <1>1, <1>2, <2>2, <3>1 DEF RequestsTypeOK, APIInv
    <3>3. ~LateAppends => p.conversation \in DOMAIN Conversations' \cup {NoConversation}
      BY <1>2, <3>1 DEF ConversationsInUseKept
    <3>4. p.previous \notin newResponses /\ p.conversation \notin newConversations
      BY <1>2, <3>1
    <3>5. Sound(p)'
      BY <1>1, <1>2, <3>2, <3>3, <3>4, SoundAfterWrite
    <3> QED BY <3>2, <3>5 DEF Sound
  <2> QED BY <2>1, <2>2
<1>5. ASSUME ~ResentItems, NEW q \in Requests PROVE InputIsOwn(q)'
  <2>1. InputIsOwn(q)
    BY <1>5 DEF APIInv
  <2> QED BY <1>1, <1>5, <1>2, <2>1, OwnAfterWrite
<1> QED BY <1>3, <1>4, <1>5

LEMMA HandlerAloneKeeps ==
  ASSUME APIInv, NEW q \in Requests, HandlerAlone(q)
  PROVE  APIInv'
PROOF
<1>1. UNCHANGED vars
  BY HandlerAlonePrepares
<1>2. PICK new : Prepares(q, new)
  BY HandlerAlonePrepares
<1>3. /\ new \in PreparedRequests /\ Sound(new)
      /\ request' = [request EXCEPT ![q] = new]
      /\ ~ResentItems => Adds(request[q], new)
  BY <1>2 DEF Prepares
<1>4. RequestsTypeOK /\ IInv(~ResentItems) /\ (~ResentItems) \in BOOLEAN
  BY APIInvFacts DEF APIInv
<1>5. RequestsTypeOK'
  BY <1>3, <1>4, RequestSet
<1>6. IInv(~ResentItems)'
  BY <1>1, <1>4, StoreUnchanged
<1>7. UNCHANGED <<Responses, ResponseContextItems, Conversations, ConversationItems,
                  ItemsByID>>
  BY <1>1 DEF vars, responseVars, conversationVars, itemVars
<1>8. ASSUME NEW o \in Requests PROVE Sound(request[o])'
  <2>1. request'[o] = new \/ request'[o] = request[o]
    BY <1>3, <1>4 DEF RequestsTypeOK
  <2>2. Sound(request[o])
    BY DEF APIInv
  <2> QED BY <1>3, <1>7, <2>1, <2>2 DEF Sound
<1>9. ~ResentItems => \A o \in Requests : InputIsOwn(o)'
  BY <1>3, <1>4, <1>7, LocalStepKeepsOwn DEF APIInv
<1> QED BY <1>5, <1>6, <1>8, <1>9 DEF APIInv

LEMMA SaveAnswerKeeps ==
  ASSUME APIInv, NEW q \in Requests, NEW status \in SavedStatuses, NEW output \in Outputs,
         NEW store \in BOOLEAN, SaveAnswer(q, status, output, store)
  PROVE  APIInv'
PROOF
<1> DEFINE prepared == request[q]
           context == prepared.context \o prepared.input
           input == prepared.input
           c == prepared.conversation
           added == ToSet(context) \cup ToSet(output) \cup ToSet(input)
<1>1. /\ prepared.context \in Seq(ItemIDs) /\ input \in Seq(ItemIDs)
      /\ c \in ConversationIDs \cup {NoConversation}
      /\ output \in Seq(ItemIDs)
      /\ status \in Statuses
  BY OutputType, StoreAssumption DEF APIInv, RequestsTypeOK, PreparedRequests,
                                     StoreAssumption, Statuses
<1>2. PICK r \in NewResponseIDs :
        SaveResponse(r, status, context, output, store, c, input)
  BY DEF SaveAnswer
<1>3. ToSet(output) \subseteq NewItemIDs /\ request' = [request EXCEPT ![q] = Idle]
  BY DEF SaveAnswer
<1>4. /\ r \in ResponseIDs \ DOMAIN Responses
      /\ \A o \in Requests : request[o].previous # r
  BY DEF NewResponseIDs
<1>5. /\ RequestsTypeOK /\ TypeOK /\ IInv(~ResentItems) /\ (~ResentItems) \in BOOLEAN
      /\ Sound(prepared)
      /\ c # NoConversation => ToSet(ItemsOf(c)) \subseteq ItemsByID
  BY <1>1, APIInvFacts DEF APIInv
<1>6. /\ context \in Seq(ItemIDs)
      /\ ToSet(context) = ToSet(prepared.context) \cup ToSet(input)
      /\ ToSet(input \o output) = ToSet(input) \cup ToSet(output)
  BY <1>1, ItemsOfConcat
<1>7. NewItemIDs \cap (ItemsByID \cup UNION {Mentioned(request[o]) : o \in Requests}) = {}
  BY DEF NewItemIDs, Mentioned
<1>8. Extends(~ResentItems, c, input \o output)
  <2>1. ASSUME c # NoConversation PROVE LateAppends \/ c \in DOMAIN Conversations
    BY <1>5, <2>1 DEF Sound
  <2>2. ASSUME c # NoConversation, ~ResentItems
        PROVE  ToSet(input \o output) \cap ToSet(ItemsOf(c)) = {}
    <3>1. ToSet(input) \cap ItemsByID = {}
      BY <2>2 DEF APIInv, InputIsOwn
    <3> HIDE DEF context, input, c, prepared
    <3> QED BY <1>3, <1>5, <1>6, <1>7, <2>2, <3>1
  <2> HIDE DEF c, input
  <2> QED BY <2>1, <2>2 DEF Extends
<1>9. ~ResentItems =>
        \A o \in Requests \ {q} : request[o].conversation # NoConversation =>
          ToSet(request[o].input) \cap added = {}
  <2> SUFFICES ASSUME ~ResentItems, NEW o \in Requests \ {q},
                      request[o].conversation # NoConversation
               PROVE  ToSet(request[o].input) \cap added = {}
    OBVIOUS
  <2>1. ToSet(request[o].input) \cap Mentioned(prepared) = {}
    BY DEF APIInv, InputIsOwn
  <2>2. ToSet(request[o].input) \subseteq Mentioned(request[o])
    BY DEF Mentioned
  <2>3. ToSet(request[o].input) \cap ToSet(output) = {}
    BY <1>3, <1>7, <2>2
  <2> HIDE DEF context, input
  <2>4. added \subseteq Mentioned(prepared) \cup ToSet(output)
    BY <1>6 DEF Mentioned, input
  <2> QED BY <2>1, <2>3, <2>4
<1> HIDE DEF context, input, c, prepared
<1>10. IInv(~ResentItems)'
  <2> DEFINE exact == ~ResentItems
  <2>1. exact \in BOOLEAN /\ IInv(exact) /\ Extends(exact, c, input \o output)
    BY <1>5, <1>8
  <2>2. r \in ResponseIDs /\ context \in Seq(ItemIDs)
    BY <1>4, <1>6
  <2> HIDE DEF exact
  <2>3. IInv(exact)'
    BY <1>1, <1>2, <2>1, <2>2, SaveResponseKeeps
  <2> QED BY <2>3 DEF exact
<1>11. TypeOK'
  BY <1>10 DEF IInv
<1>12. /\ ResponsesKept({r}) /\ ConversationsKept({}) /\ Conversations' = Conversations
       /\ ItemsByID' \subseteq ItemsByID \cup added
  <2>1. AddsResponse(r, context, output, input)
    <3>1. TypeOK /\ r \in ResponseIDs \ DOMAIN Responses /\ context \in Seq(ItemIDs)
      BY <1>4, <1>5, <1>6
    <3> QED BY <1>1, <1>2, <3>1, SaveResponseWrites
  <2> QED BY <2>1 DEF AddsResponse
<1> HIDE DEF added
<1>13. request' = [o \in Requests |-> IF o \in {q} THEN Idle ELSE request[o]]
  BY <1>3, <1>5 DEF RequestsTypeOK
<1>14. ConversationsInUseKept
  BY <1>12 DEF ConversationsInUseKept, APIInv, Sound
<1>15. \A o \in Requests : request[o].previous \notin {r} /\ request[o].conversation \notin {}
  BY <1>4
<1>16. /\ RequestsTypeOK'
       /\ \A o \in Requests : Sound(request[o])'
       /\ ~ResentItems => \A o \in Requests : InputIsOwn(o)'
  <2>1. Disturbs({q}, {r}, {}, added)
    BY <1>9, <1>12, <1>13, <1>14, <1>15 DEF Disturbs
  <2> QED BY <1>11, <2>1, RequestsAfterWrite
<1> QED BY <1>10, <1>16 DEF APIInv

LEMMA SaveNewConversationKeeps ==
  ASSUME APIInv, NEW q \in Requests, NEW metadata \in Metadata,
         SaveNewConversation(q, metadata)
  PROVE  APIInv'
PROOF
<1> DEFINE input == request[q].input
           added == ToSet(input)
<1>1. PICK c \in NewConversationIDs : SaveConversation(c, metadata, input)
  BY DEF SaveNewConversation
<1>2. ConversationsInUseKept /\ request' = [request EXCEPT ![q] = Idle]
  BY DEF SaveNewConversation
<1>3. /\ RequestsTypeOK /\ TypeOK /\ IInv(~ResentItems) /\ (~ResentItems) \in BOOLEAN
  BY APIInvFacts DEF APIInv
<1>4. /\ c \in ConversationIDs \ DOMAIN ConversationItems
      /\ \A o \in Requests : request[o].conversation # c
      /\ input \in Seq(ItemIDs)
  BY <1>3 DEF NewConversationIDs, RequestsTypeOK, PreparedRequests
<1>5. ~ResentItems =>
        \A o \in Requests \ {q} : request[o].conversation # NoConversation =>
          ToSet(request[o].input) \cap added = {}
  BY DEF APIInv, InputIsOwn, Mentioned
<1> HIDE DEF input
<1>6. IInv(~ResentItems)'
  BY <1>1, <1>3, <1>4, SaveConversationKeeps
<1>7. TypeOK'
  BY <1>6 DEF IInv
<1>8. /\ ResponsesKept({}) /\ ConversationsKept({c}) /\ ItemsByID' \subseteq ItemsByID \cup added
  BY <1>1, <1>3, <1>4, SaveConversationWrites
<1> HIDE DEF added
<1>9. request' = [o \in Requests |-> IF o \in {q} THEN Idle ELSE request[o]]
  BY <1>2, <1>3 DEF RequestsTypeOK
<1>10. \A o \in Requests : request[o].previous \notin {} /\ request[o].conversation \notin {c}
  BY <1>4
<1>11. /\ RequestsTypeOK'
       /\ \A o \in Requests : Sound(request[o])'
       /\ ~ResentItems => \A o \in Requests : InputIsOwn(o)'
  <2>1. Disturbs({q}, {}, {c}, added)
    BY <1>2, <1>5, <1>8, <1>9, <1>10 DEF Disturbs
  <2> QED BY <1>7, <2>1, RequestsAfterWrite
<1> QED BY <1>6, <1>11 DEF APIInv

LEMMA StoredObjectKeeps ==
  ASSUME APIInv, StoredResponse \/ StoredConversation, UNCHANGED request
  PROVE  APIInv'
PROOF
<1>1. /\ RequestsTypeOK /\ TypeOK /\ IInv(~ResentItems) /\ (~ResentItems) \in BOOLEAN
  BY APIInvFacts DEF APIInv
<1>2. \/ \E r \in ResponseIDs : DeleteResponse(r) \/ CancelResponse(r)
      \/ \E c \in ConversationIDs, metadata \in Metadata \cup {Nil} :
           UpdateConversation(c, metadata)
      \/ \E c \in ConversationIDs : DeleteConversation(c)
  BY DEF StoredResponse, StoredConversation
<1>3. IInv(~ResentItems)'
  BY <1>1, <1>2, DeleteResponseKeeps, CancelResponseKeeps, UpdateConversationKeeps,
     DeleteConversationKeeps
<1>4. TypeOK'
  BY <1>3 DEF IInv
<1>5. ResponsesKept({}) /\ ConversationsKept({}) /\ ItemsByID' \subseteq ItemsByID \cup {}
  BY <1>1, <1>2, StoredObjectWrites
<1>6. ConversationsInUseKept
  <2>1. ASSUME NEW r \in ResponseIDs, DeleteResponse(r) \/ CancelResponse(r)
        PROVE  DOMAIN Conversations' = DOMAIN Conversations
    BY <2>1 DEF DeleteResponse, CancelResponse, conversationVars
  <2>2. ASSUME NEW c \in ConversationIDs, NEW metadata \in Metadata \cup {Nil},
               UpdateConversation(c, metadata)
        PROVE  DOMAIN Conversations' = DOMAIN Conversations
    BY <1>1, <2>2 DEF UpdateConversation
  <2>3. DOMAIN Conversations' = DOMAIN Conversations => ConversationsInUseKept
    BY DEF ConversationsInUseKept, APIInv, Sound
  <2> QED BY <2>1, <2>2, <2>3 DEF StoredResponse, StoredConversation
<1>7. request' = [o \in Requests |-> IF o \in {} THEN Idle ELSE request[o]]
  BY <1>1 DEF RequestsTypeOK
<1>8. /\ RequestsTypeOK'
      /\ \A o \in Requests : Sound(request[o])'
      /\ ~ResentItems => \A o \in Requests : InputIsOwn(o)'
  <2>1. Disturbs({}, {}, {}, {})
    BY <1>5, <1>6, <1>7 DEF Disturbs
  <2> QED BY <1>4, <2>1, RequestsAfterWrite
<1> QED BY <1>3, <1>8 DEF APIInv

LEMMA APIInduction == APIInv /\ [APINext]_apiVars => APIInv'
PROOF
<1> SUFFICES ASSUME APIInv, [APINext]_apiVars PROVE APIInv'
  OBVIOUS
<1>1. ASSUME NEW q \in Requests, HandlerAlone(q) PROVE APIInv'
  BY <1>1, HandlerAloneKeeps
<1>2. ASSUME NEW q \in Requests, NEW status \in SavedStatuses, NEW output \in Outputs,
             NEW store \in BOOLEAN, SaveAnswer(q, status, output, store)
      PROVE  APIInv'
  BY <1>2, SaveAnswerKeeps
<1>3. ASSUME NEW q \in Requests, NEW metadata \in Metadata, SaveNewConversation(q, metadata)
      PROVE  APIInv'
  BY <1>3, SaveNewConversationKeeps
<1>4. ASSUME StoredResponse \/ StoredConversation, UNCHANGED request PROVE APIInv'
  BY <1>4, StoredObjectKeeps
<1>5. CASE UNCHANGED apiVars
  <2>1. UNCHANGED vars /\ UNCHANGED request
    BY <1>5 DEF apiVars
  <2>2. (~ResentItems) \in BOOLEAN /\ IInv(~ResentItems)
    BY APIInvFacts DEF APIInv
  <2>3. IInv(~ResentItems)'
    BY <2>1, <2>2, StoreUnchanged
  <2>4. UNCHANGED <<Responses, ResponseContextItems, Conversations, ConversationItems,
                    ItemsByID>>
    BY <2>1 DEF vars, responseVars, conversationVars, itemVars
  <2> QED BY <2>1, <2>3, <2>4 DEF APIInv, RequestsTypeOK, Sound, InputIsOwn, Mentioned
<1> QED BY <1>1, <1>2, <1>3, <1>4, <1>5 DEF APINext, HandlerAlone

\* The invariant holds under the concurrent handlers, whether or not conversations
\* vanish while requests extend them and whether or not items are sent again.
THEOREM APIInvariant == APISpec => []APIInv
PROOF
<1>1. APIInit => APIInv
  <2> SUFFICES ASSUME APIInit PROVE APIInv
    OBVIOUS
  <2>1. \A q \in Requests : request[q] = Idle
    BY DEF APIInit
  <2>2. RequestsTypeOK
    BY IdleType DEF APIInit, RequestsTypeOK
  <2>3. IInv(~ResentItems)
    <3> DEFINE exact == ~ResentItems
    <3>1. exact \in BOOLEAN /\ Init
      BY StoreAssumption DEF StoreAssumption, APIInit
    <3> HIDE DEF exact
    <3>2. IInv(exact)
      BY <3>1, InitialState
    <3> QED BY <3>2 DEF exact
  <2>4. TypeOK
    BY <2>3 DEF IInv
  <2> QED BY <2>1, <2>2, <2>3, <2>4, IdleIsSound DEF APIInv, InputIsOwn
<1> QED BY <1>1, APIInduction, PTL DEF APISpec

------------------------------------------------------------------------------
(* What follows from it.                                                   *)

\* The maps of the store have their types under the concurrent handlers, and what
\* a handler has prepared is always well formed.
THEOREM RequestsTypeCorrect == APISpec => [](TypeOK /\ RequestsTypeOK)
PROOF
<1>1. APIInv => TypeOK /\ RequestsTypeOK
  BY APIInvFacts
<1> QED BY <1>1, APIInvariant, PTL

\* However the handlers interleave, the counts cover every list that is kept.
THEOREM CountsCoverUnderHandlers == APISpec => []RefsCoverHolds
PROOF
<1>1. APIInv => RefsCoverHolds
  BY APIInvFacts
<1> QED BY <1>1, APIInvariant, PTL

\* However the handlers interleave, an item that a stored response or
\* conversation holds can be referenced.
THEOREM ItemsNeverDangleUnderHandlers == APISpec => []NoDanglingItems
PROOF
<1>1. APIInv => NoDanglingItems
  <2>1. (~ResentItems) \in BOOLEAN
    BY StoreAssumption DEF StoreAssumption
  <2> QED BY <2>1, InvariantNeverDangles DEF APIInv
<1> QED BY <1>1, APIInvariant, PTL

\* However many requests extend a conversation at once, none of them works from
\* anything but a beginning of it, and no turn of it is lost.
THEOREM RequestsSeeHistory == APISpec => []ContextsAreHistory
PROOF
<1>1. APIInv => ContextsAreHistory
  BY DEF APIInv, Sound, ContextsAreHistory
<1> QED BY <1>1, APIInvariant, PTL

\* Where no client sends an item again, the handlers never make the counts differ
\* from the number of lists: each request brings its conversation items that
\* nobody else has, which takes the ids of all other requests to show.
THEOREM CountsAreExactUnderHandlers ==
  ASSUME ~ResentItems PROVE APISpec => []RefsAreExact
PROOF
<1>1. APIInv => RefsAreExact
  BY DEF APIInv, IInv
<1> QED BY <1>1, APIInvariant, PTL

\* And then an item outlives what holds it only in a list whose conversation has
\* gone.
THEOREM OnlyOrphansLeak == ASSUME ~ResentItems PROVE APISpec => []LeaksAreOrphans
PROOF
<1>1. APIInv => LeaksAreOrphans
  <2> SUFFICES ASSUME APIInv PROVE LeaksAreOrphans
    OBVIOUS
  <2>1. IInv(TRUE)
    BY DEF APIInv, IInv
  <2> QED BY <2>1, ExactIsHeld DEF LeaksAreOrphans
<1> QED BY <1>1, APIInvariant, PTL

\* Where, besides, no conversation goes while a request extends it, nothing leaks:
\* the assumption that each of the two violations drops one half of.
THEOREM NothingLeaksUnderHandlers ==
  ASSUME Exact PROVE APISpec => []NoLeakedItems
PROOF
<1>1. APIInv => NoLeakedItems
  <2> SUFFICES ASSUME APIInv PROVE NoLeakedItems
    OBVIOUS
  <2>1. IInv(TRUE) /\ NoOrphanLists
    BY DEF APIInv, IInv, Exact
  <2> QED BY <2>1, ExactIsHeld DEF NoLeakedItems, NoOrphanLists, HeldItems
<1> QED BY <1>1, APIInvariant, PTL

\* What a step may do to the lists of what stays stored.
HistoriesKept ==
  /\ \A r \in DOMAIN Responses \cap DOMAIN Responses' :
       /\ ResponseInputItems'[r] = ResponseInputItems[r]
       /\ ResponseContextItems'[r] = ResponseContextItems[r]
  /\ \A c \in DOMAIN Conversations \cap DOMAIN Conversations' :
       IsPrefix(ConversationItems[c], ConversationItems'[c])

LEMMA KeptAreHistories ==
  ASSUME NEW newResponses, newResponses \cap DOMAIN Responses = {},
         ResponsesKept(newResponses),
         NEW newConversations, newConversations \cap DOMAIN Conversations = {},
         ConversationsKept(newConversations)
  PROVE  HistoriesKept
PROOF
  BY DEF HistoriesKept, ResponsesKept, ConversationsKept

LEMMA UnchangedHistories == TypeOK /\ UNCHANGED vars => HistoriesKept
PROOF
<1> SUFFICES ASSUME TypeOK, UNCHANGED vars PROVE HistoriesKept
  OBVIOUS
<1>1. UNCHANGED <<Responses, ResponseInputItems, ResponseContextItems,
                  Conversations, ConversationItems>>
  BY DEF vars, responseVars, conversationVars
<1>2. \A c \in DOMAIN Conversations : ConversationItems[c] \in Seq(ItemIDs)
  BY DEF TypeOK
<1> QED BY <1>1, <1>2, PrefixOfItself DEF HistoriesKept

\* No step of any handler rewrites a list: the lists of a response are written
\* once, under a new id, and a conversation's list is only appended to.
THEOREM HistoriesAreKept == APISpec => HistoriesOnlyGrow
PROOF
<1>1. APIInv /\ [APINext]_apiVars => [HistoriesKept]_apiVars
  <2> SUFFICES ASSUME APIInv, APINext PROVE HistoriesKept
    OBVIOUS
  <2>1. RequestsTypeOK /\ TypeOK
    BY APIInvFacts
  <2>2. ASSUME NEW q \in Requests, HandlerAlone(q) PROVE HistoriesKept
    BY <2>1, <2>2, HandlerAlonePrepares, UnchangedHistories
  <2>3. ASSUME NEW q \in Requests, NEW status \in SavedStatuses, NEW output \in Outputs,
               NEW store \in BOOLEAN, SaveAnswer(q, status, output, store)
        PROVE  HistoriesKept
    <3> DEFINE context == request[q].context \o request[q].input
               input == request[q].input
               c == request[q].conversation
    <3>1. PICK r \in NewResponseIDs :
            SaveResponse(r, status, context, output, store, c, input)
      BY <2>3 DEF SaveAnswer
    <3>2. /\ context \in Seq(ItemIDs) /\ input \in Seq(ItemIDs)
          /\ output \in Seq(ItemIDs) /\ c \in ConversationIDs \cup {NoConversation}
          /\ r \in ResponseIDs \ DOMAIN Responses
      BY <2>1, OutputType, ItemsOfConcat
         DEF RequestsTypeOK, PreparedRequests, NewResponseIDs
    <3> HIDE DEF context, input, c
    <3>3. AddsResponse(r, context, output, input)
      BY <2>1, <3>1, <3>2, SaveResponseWrites
    <3> QED BY <3>2, <3>3, KeptAreHistories DEF AddsResponse
  <2>4. ASSUME NEW q \in Requests, NEW metadata \in Metadata,
               SaveNewConversation(q, metadata)
        PROVE  HistoriesKept
    <3> DEFINE input == request[q].input
    <3>1. PICK c \in NewConversationIDs : SaveConversation(c, metadata, input)
      BY <2>4 DEF SaveNewConversation
    <3>2. c \in ConversationIDs \ DOMAIN ConversationItems /\ input \in Seq(ItemIDs)
      BY <2>1 DEF NewConversationIDs, RequestsTypeOK, PreparedRequests
    <3> HIDE DEF input
    <3>3. ResponsesKept({}) /\ ConversationsKept({c})
      BY <2>1, <3>1, <3>2, SaveConversationWrites
    <3>4. c \notin DOMAIN Conversations
      BY <2>1, <3>2 DEF TypeOK
    <3> QED BY <3>3, <3>4, KeptAreHistories
  <2>5. ASSUME StoredResponse \/ StoredConversation PROVE HistoriesKept
    <3>1. \/ \E r \in ResponseIDs : DeleteResponse(r) \/ CancelResponse(r)
          \/ \E c \in ConversationIDs, metadata \in Metadata \cup {Nil} :
               UpdateConversation(c, metadata)
          \/ \E c \in ConversationIDs : DeleteConversation(c)
      BY <2>5 DEF StoredResponse, StoredConversation
    <3>2. ResponsesKept({}) /\ ConversationsKept({})
      BY <2>1, <3>1, StoredObjectWrites
    <3> QED BY <3>2, KeptAreHistories
  <2> QED BY <2>2, <2>3, <2>4, <2>5 DEF APINext, HandlerAlone
<1> QED BY <1>1, APIInvariant, PTL DEF APISpec, HistoriesOnlyGrow, HistoriesKept

==============================================================================
