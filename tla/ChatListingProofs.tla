------------------------- MODULE ChatListingProofs -------------------------
(***************************************************************************)
(* Proofs about the stored chat completions and about a client that lists  *)
(* them page by page, for any ids, answers, page sizes and limits.         *)
(***************************************************************************)
EXTENDS ChatListing, ListProofs

------------------------------------------------------------------------------
(* The store: its invariant.                                               *)

\* Completions and messages are kept under ids.
ChatTypes ==
  /\ chatCompletionOrder \in Seq(ChatIDs)
  /\ DOMAIN ChatCompletions \subseteq ChatIDs
  /\ ChatCompletions \in [DOMAIN ChatCompletions -> Completions]
  /\ ChatCompletionMessages \in [DOMAIN ChatCompletionMessages -> MessageLists]

ChatInv == ChatTypes /\ ChatOrderInStep

LEMMA MetadataStored ==
  ASSUME NEW metadata \in Metadata \cup {Nil}
  PROVE  MetadataOrEmpty(metadata) \in Metadata
BY ChatStoreAssumption DEF ChatStoreAssumption, MetadataOrEmpty

LEMMA SaveKeepsInvariant ==
  ASSUME ChatInv, NEW id \in ChatIDs, NEW completion \in Completions,
         NEW messages \in MessageLists, SaveChatCompletion(id, completion, messages)
  PROVE  ChatInv'
PROOF
<1> DEFINE completions == Put(ChatCompletions, id, completion)
           lists == Put(ChatCompletionMessages, id, messages)
           longer == Remember(chatCompletionOrder, id)
           keys == DOMAIN completions
           gone == Evicted(longer, keys, MaxChatCompletions)
           left == keys \ gone
           rest == AfterEviction(longer, keys, MaxChatCompletions)
<1>1. /\ ChatCompletions' = Restrict(completions, left)
      /\ ChatCompletionMessages' = Restrict(lists, DOMAIN lists \ gone)
      /\ chatCompletionOrder' = rest
  BY DEF SaveChatCompletion
<1>2. /\ keys = DOMAIN ChatCompletions \cup {id}
      /\ DOMAIN lists = keys
      /\ \A k \in keys : completions[k] \in Completions /\ lists[k] \in MessageLists
  BY DEF Put, ChatInv, ChatTypes, ChatOrderInStep
<1>3. /\ longer \in Seq(ChatIDs) /\ InStep(longer, keys)
  BY <1>2, RememberInStep DEF ChatInv, ChatTypes, ChatOrderInStep
<1> HIDE DEF completions, lists, longer, keys
<1>4. rest \in Seq(ChatIDs) /\ InStep(rest, left)
  BY <1>3, EvictionInStep, ChatStoreAssumption DEF ChatStoreAssumption
<1> HIDE DEF gone, rest
<1>5. /\ ChatCompletions' = [k \in left |-> completions[k]]
      /\ ChatCompletionMessages' = [k \in left |-> lists[k]]
  BY <1>1, <1>2 DEF Restrict
<1>6. /\ left \subseteq ChatIDs
      /\ \A k \in left : completions[k] \in Completions /\ lists[k] \in MessageLists
  BY <1>2 DEF ChatInv, ChatTypes
<1> HIDE DEF left
<1>7. DOMAIN ChatCompletions' = left /\ DOMAIN ChatCompletionMessages' = left
  BY <1>5
<1>8. /\ ChatCompletions' \in [left -> Completions]
      /\ ChatCompletionMessages' \in [left -> MessageLists]
  BY <1>5, <1>6
<1> QED BY <1>1, <1>4, <1>6, <1>7, <1>8 DEF ChatInv, ChatTypes, ChatOrderInStep

LEMMA UpdateKeepsInvariant ==
  ASSUME ChatInv, NEW id \in ChatIDs, NEW metadata \in Metadata \cup {Nil},
         UpdateChatCompletion(id, metadata)
  PROVE  ChatInv'
PROOF
<1> DEFINE new == MetadataOrEmpty(metadata)
<1>1. new \in Metadata
  BY MetadataStored
<1> HIDE DEF new
<1>2. /\ id \in DOMAIN ChatCompletions
      /\ ChatCompletions' = [ChatCompletions EXCEPT ![id].metadata = new]
      /\ UNCHANGED <<ChatCompletionMessages, chatCompletionOrder>>
  BY DEF UpdateChatCompletion, new
<1>3. /\ DOMAIN ChatCompletions' = DOMAIN ChatCompletions
      /\ ChatCompletions' \in [DOMAIN ChatCompletions -> Completions]
  BY <1>1, <1>2 DEF ChatInv, ChatTypes, Completions
<1> QED BY <1>2, <1>3 DEF ChatInv, ChatTypes, ChatOrderInStep

LEMMA DeleteKeepsInvariant ==
  ASSUME ChatInv, NEW id \in ChatIDs, DeleteChatCompletion(id)
  PROVE  ChatInv'
PROOF
<1> DEFINE keys == DOMAIN ChatCompletions
           left == keys \ {id}
           rest == Forget(chatCompletionOrder, id)
<1>1. /\ ChatCompletions' = [k \in left |-> ChatCompletions[k]]
      /\ ChatCompletionMessages' = [k \in left |-> ChatCompletionMessages[k]]
      /\ chatCompletionOrder' = rest
  BY DEF DeleteChatCompletion, Restrict, ChatInv, ChatOrderInStep
<1>2. rest \in Seq(ChatIDs) /\ InStep(rest, left)
  BY ForgetInStep DEF ChatInv, ChatTypes, ChatOrderInStep
<1>3. \A k \in left : /\ k \in ChatIDs
                      /\ ChatCompletions[k] \in Completions
                      /\ ChatCompletionMessages[k] \in MessageLists
  BY DEF ChatInv, ChatTypes, ChatOrderInStep
<1> HIDE DEF left, rest
<1>4. DOMAIN ChatCompletions' = left /\ DOMAIN ChatCompletionMessages' = left
  BY <1>1
<1>5. /\ left \subseteq ChatIDs
      /\ ChatCompletions' \in [left -> Completions]
      /\ ChatCompletionMessages' \in [left -> MessageLists]
  BY <1>1, <1>3
<1> QED BY <1>1, <1>2, <1>4, <1>5 DEF ChatInv, ChatTypes, ChatOrderInStep

LEMMA InitialStore == Init => ChatInv
PROOF
<1> SUFFICES ASSUME Init PROVE ChatInv
  OBVIOUS
<1>1. /\ chatCompletionOrder = <<>> /\ chatCompletionOrder \in Seq(ChatIDs)
      /\ Len(chatCompletionOrder) = 0
      /\ DOMAIN ChatCompletions = {} /\ DOMAIN ChatCompletionMessages = {}
      /\ DOMAIN chatCompletionOrder = {}
  BY EmptySeq DEF Init
<1>2. ChatTypes
  BY <1>1 DEF Init, ChatTypes
<1>3. ChatOrderInStep
  BY <1>1 DEF ChatOrderInStep, InStep, ToSet
<1> QED BY <1>2, <1>3 DEF ChatInv

LEMMA StepKeepsStore == ChatInv /\ [Next]_vars => ChatInv'
PROOF
<1> SUFFICES ASSUME ChatInv, [Next]_vars PROVE ChatInv'
  OBVIOUS
<1>1. CASE Next
  <2>1. PICK id \in ChatIDs :
          \/ \E completion \in Completions, messages \in MessageLists :
               SaveChatCompletion(id, completion, messages)
          \/ \E metadata \in Metadata \cup {Nil} : UpdateChatCompletion(id, metadata)
          \/ DeleteChatCompletion(id)
    BY <1>1 DEF Next
  <2> QED BY <2>1, SaveKeepsInvariant, UpdateKeepsInvariant, DeleteKeepsInvariant
<1>2. CASE UNCHANGED vars
  BY <1>2 DEF vars, ChatInv, ChatTypes, ChatOrderInStep
<1> QED BY <1>1, <1>2

\* The inductive invariant of the stored completions.
THEOREM ChatStoreInvariant == Spec => []ChatInv
BY InitialStore, StepKeepsStore, PTL DEF Spec

\* The order slice names every stored completion once and no other, and no message
\* list is kept without its completion, for any limit.
THEOREM ChatOrderStaysInStep == Spec => []ChatOrderInStep
PROOF
<1>1. ChatInv => ChatOrderInStep
  BY DEF ChatInv
<1> QED BY <1>1, ChatStoreInvariant, PTL

------------------------------------------------------------------------------
(* The store keeps a table of the most recently saved completions.         *)

\* A completion with its messages, as the table has them.
Stored ==
  [id \in DOMAIN ChatCompletions |-> <<ChatCompletions[id], ChatCompletionMessages[id]>>]

StoredValues == Completions \X MessageLists

SavesEntry(new, k, v) ==
  new = NewestOf(Append(WithoutKey(ChatTable, k), [key |-> k, value |-> v]),
                 MaxChatCompletions)

LEMMA SaveSaves ==
  ASSUME ChatInv, NEW id \in ChatIDs, NEW completion, NEW messages,
         SaveChatCompletion(id, completion, messages)
  PROVE  SavesEntry(ChatTable', id, <<completion, messages>>)
PROOF
<1> DEFINE completions == Put(ChatCompletions, id, completion)
           lists == Put(ChatCompletionMessages, id, messages)
           longer == Remember(chatCompletionOrder, id)
           keys == DOMAIN completions
           gone == Evicted(longer, keys, MaxChatCompletions)
           old == Stored
           new == Stored'
           value == <<completion, messages>>
           put == Put(old, id, value)
<1>1. /\ ChatCompletions' = [k \in keys \ gone |-> completions[k]]
      /\ ChatCompletionMessages' = [k \in DOMAIN lists \ gone |-> lists[k]]
      /\ chatCompletionOrder' = AfterEviction(longer, keys, MaxChatCompletions)
  BY DEF SaveChatCompletion, Restrict
<1>2. /\ keys = DOMAIN ChatCompletions \cup {id}
      /\ DOMAIN lists = keys
      /\ DOMAIN old = DOMAIN ChatCompletions
  BY DEF Put, ChatInv, ChatOrderInStep, Stored
<1>3. \A k \in keys : put[k] = <<completions[k], lists[k]>>
  BY DEF Put, Stored, ChatInv, ChatOrderInStep
<1> HIDE DEF completions, lists, keys, gone, longer, put, old
<1>4. Agree(put, new, keys, gone)
  BY <1>1, <1>2, <1>3 DEF Agree, Stored
<1> HIDE DEF new, value
<1>5. /\ chatCompletionOrder \in Seq(ChatIDs) /\ InStep(chatCompletionOrder, DOMAIN old)
      /\ MaxChatCompletions \in Nat
  BY <1>2, ChatStoreAssumption DEF ChatInv, ChatTypes, ChatOrderInStep, ChatStoreAssumption
<1>6. Entries(AfterEviction(longer, keys, MaxChatCompletions), new)
        = NewestOf(Append(WithoutKey(Entries(chatCompletionOrder, old), id),
                          [key |-> id, value |-> value]), MaxChatCompletions)
  BY <1>2, <1>4, <1>5, EntriesSaveAndEvict DEF gone, longer, put
<1>7. ChatTable' = Entries(chatCompletionOrder', new) /\ ChatTable = Entries(chatCompletionOrder, old)
  BY DEF ChatTable, new, old, Stored
<1> QED BY <1>1, <1>6, <1>7 DEF SavesEntry, value

DeletesEntry(new, k) ==
  /\ \E i \in 1 .. Len(ChatTable) : ChatTable[i].key = k
  /\ new = WithoutKey(ChatTable, k)

LEMMA DeleteDeletes ==
  ASSUME ChatInv, NEW id \in ChatIDs, DeleteChatCompletion(id)
  PROVE  DeletesEntry(ChatTable', id)
PROOF
<1> DEFINE old == Stored
           new == Stored'
<1>1. /\ id \in DOMAIN ChatCompletions
      /\ ChatCompletions' = [k \in DOMAIN ChatCompletions \ {id} |-> ChatCompletions[k]]
      /\ ChatCompletionMessages' =
           [k \in DOMAIN ChatCompletions \ {id} |-> ChatCompletionMessages[k]]
      /\ chatCompletionOrder' = Forget(chatCompletionOrder, id)
  BY DEF DeleteChatCompletion, Restrict, ChatInv, ChatOrderInStep
<1>2. /\ DOMAIN old = DOMAIN ChatCompletions
      /\ Agree(old, new, DOMAIN old, {id})
  BY <1>1 DEF Agree, Stored
<1>3. ChatTable' = Entries(chatCompletionOrder', new) /\ ChatTable = Entries(chatCompletionOrder, old)
  BY DEF ChatTable, Stored
<1> HIDE DEF old, new
<1>4. /\ chatCompletionOrder \in Seq(ChatIDs) /\ InStep(chatCompletionOrder, DOMAIN old)
  BY <1>2 DEF ChatInv, ChatTypes, ChatOrderInStep
<1>5. ChatTable' = WithoutKey(ChatTable, id)
  BY <1>1, <1>2, <1>3, <1>4, EntriesForget
<1>6. HasEntry(ChatTable, id, old[id])
  BY <1>1, <1>2, <1>3, <1>4, EntriesHave
<1> QED BY <1>5, <1>6 DEF DeletesEntry, HasEntry

\* The value v replaces one of which it is an update.
UpdatesEntry(new, k, v) ==
  /\ \E i \in 1 .. Len(ChatTable) :
       ChatTable[i].key = k /\ <<ChatTable[i].value, v>> \in MetadataUpdates
  /\ new = WithEntry(ChatTable, k, v)

LEMMA UpdateUpdates ==
  ASSUME ChatInv, NEW id \in ChatIDs, NEW metadata \in Metadata \cup {Nil},
         UpdateChatCompletion(id, metadata)
  PROVE  \E v \in StoredValues : UpdatesEntry(ChatTable', id, v)
PROOF
<1> DEFINE old == Stored
           new == Stored'
           given == MetadataOrEmpty(metadata)
           changed == [ChatCompletions[id] EXCEPT !.metadata = given]
           value == <<changed, ChatCompletionMessages[id]>>
<1>1. given \in Metadata
  BY MetadataStored
<1>2. /\ id \in DOMAIN ChatCompletions
      /\ ChatCompletions' = [ChatCompletions EXCEPT ![id].metadata = given]
      /\ ChatCompletionMessages' = ChatCompletionMessages
      /\ chatCompletionOrder' = chatCompletionOrder
  BY DEF UpdateChatCompletion
<1> HIDE DEF given
<1>3. /\ ChatCompletions[id] \in Completions
      /\ ChatCompletionMessages[id] \in MessageLists
      /\ ChatCompletions \in [DOMAIN ChatCompletions -> Completions]
  BY <1>2 DEF ChatInv, ChatTypes, ChatOrderInStep
<1>4. changed \in Completions /\ changed.answer = ChatCompletions[id].answer
  BY <1>1, <1>3 DEF Completions
<1>5. ChatCompletions' = [k \in DOMAIN ChatCompletions |->
                            IF k = id THEN changed ELSE ChatCompletions[k]]
  BY <1>2, <1>3
<1>6. /\ DOMAIN old = DOMAIN ChatCompletions
      /\ old[id] = <<ChatCompletions[id], ChatCompletionMessages[id]>>
  BY <1>2 DEF Stored
<1>7. value \in StoredValues /\ <<old[id], value>> \in MetadataUpdates
  <2> DEFINE before == <<ChatCompletions[id], ChatCompletionMessages[id]>>
  <2>1. /\ before \in StoredValues /\ value \in StoredValues
        /\ value[1].answer = before[1].answer /\ value[2] = before[2]
    <3> HIDE DEF changed
    <3> QED BY <1>3, <1>4 DEF StoredValues
  <2> HIDE DEF before, value
  <2>2. <<before, value>> \in MetadataUpdates
    <3> DEFINE update == <<before, value>>
    <3>1. update \in StoredValues \X StoredValues
      BY <2>1
    <3> QED BY <2>1, <3>1 DEF MetadataUpdates, StoredValues
  <2> QED BY <1>6, <2>1, <2>2 DEF before
<1>8. Updates(old, new, id, value)
  <2> HIDE DEF changed
  <2> QED BY <1>2, <1>5 DEF Updates, Stored
<1>9. ChatTable' = Entries(chatCompletionOrder', new) /\ ChatTable = Entries(chatCompletionOrder, old)
  BY DEF ChatTable, Stored
<1> HIDE DEF old, new, value
<1>10. /\ chatCompletionOrder \in Seq(ChatIDs) /\ InStep(chatCompletionOrder, DOMAIN old)
       /\ id \in DOMAIN old
  BY <1>2, <1>6 DEF ChatInv, ChatTypes, ChatOrderInStep
<1>11. HasEntry(ChatTable, id, old[id])
  BY <1>9, <1>10, EntriesHave
<1>12. ChatTable' = WithEntry(ChatTable, id, value)
  BY <1>2, <1>8, <1>9, <1>10, EntriesUpdate
<1> QED BY <1>7, <1>11, <1>12 DEF UpdatesEntry, HasEntry

\* A step of the store is a step of the table, or leaves it alone.
LEMMA StepIsRecent == ChatInv /\ [Next]_vars => [Recent!Next]_ChatTable
PROOF
<1> SUFFICES ASSUME ChatInv, [Next]_vars, ChatTable' # ChatTable
             PROVE  Recent!Next
  OBVIOUS
<1>1. ~UNCHANGED vars
  BY DEF vars, ChatTable, Entries
<1>2. \A k : Recent!Without(k) = WithoutKey(ChatTable, k)
  BY DEF Recent!Without, Recent!Has, Recent!Place, Recent!RemoveAt, RemoveAt, WithoutKey
<1>3. ASSUME NEW id \in ChatIDs, NEW v \in StoredValues, SavesEntry(ChatTable', id, v)
      PROVE  Recent!Next
  <2>1. Recent!Save(id, v)
    BY <1>2, <1>3 DEF SavesEntry, Recent!Save, Recent!Newest, NewestOf
  <2> QED BY <2>1 DEF Recent!Next, StoredValues
<1>4. ASSUME NEW id \in ChatIDs, DeletesEntry(ChatTable', id)
      PROVE  Recent!Next
  <2>1. Recent!Delete(id)
    BY <1>2, <1>4 DEF DeletesEntry, Recent!Delete, Recent!Has
  <2> QED BY <2>1 DEF Recent!Next
<1>5. ASSUME NEW id \in ChatIDs, NEW v \in StoredValues, UpdatesEntry(ChatTable', id, v)
      PROVE  Recent!Next
  <2>1. Recent!Update(id, v)
    BY <1>5 DEF UpdatesEntry, WithEntry, Recent!Update
  <2> QED BY <2>1 DEF Recent!Next, StoredValues
<1>6. PICK id \in ChatIDs :
        \/ \E completion \in Completions, messages \in MessageLists :
             SaveChatCompletion(id, completion, messages)
        \/ \E metadata \in Metadata \cup {Nil} : UpdateChatCompletion(id, metadata)
        \/ DeleteChatCompletion(id)
  BY <1>1 DEF Next
<1>7. ASSUME NEW completion \in Completions, NEW messages \in MessageLists,
             SaveChatCompletion(id, completion, messages)
      PROVE  Recent!Next
  <2>1. <<completion, messages>> \in StoredValues
    BY DEF StoredValues
  <2>2. SavesEntry(ChatTable', id, <<completion, messages>>)
    BY <1>7, SaveSaves
  <2> QED BY <1>3, <2>1, <2>2
<1>8. ASSUME NEW metadata \in Metadata \cup {Nil}, UpdateChatCompletion(id, metadata)
      PROVE  Recent!Next
  BY <1>5, <1>8, UpdateUpdates
<1>9. ASSUME DeleteChatCompletion(id) PROVE Recent!Next
  BY <1>4, <1>9, DeleteDeletes
<1> QED BY <1>6, <1>7, <1>8, <1>9

LEMMA InitIsRecent == Init => Recent!Init
BY DEF Init, Recent!Init, ChatTable, Entries

\* The stored completions with their messages implement a table of the most recently
\* saved ones: each method is one step of the table.
THEOREM ChatCompletionsAreRecent == Spec => ImplementsRecentMap
BY InitIsRecent, StepIsRecent, ChatStoreInvariant, PTL
   DEF Spec, ImplementsRecentMap, Recent!Spec

------------------------------------------------------------------------------
(* The listing: its invariant.                                             *)

\* i comes before j in the client's order.
Comes(completions, i, j) ==
  IF order = "asc" THEN CreatedThenID(completions, i, j) ELSE CreatedThenID(completions, j, i)

ListingTypes ==
  /\ limit \in Nat /\ order \in {"asc", "desc"}
  /\ seen \in Seq(ChatIDs)
  /\ hasMore \in BOOLEAN /\ lost \in BOOLEAN
  /\ unmoved \subseteq Matching(ChatCompletions)

\* The cursor is the last id seen; without one nothing has been listed.
CursorIsLast ==
  /\ seen = <<>> => after = {} /\ unmoved = {}
  /\ seen # <<>> => after = {seen[Len(seen)]}

\* Of the entries u that stay, those of the pages s are in order and come before all
\* others.
InOrder(s, u, completions) ==
  \A j, k \in 1 .. Len(s) :
    j < k /\ s[j] \in u /\ s[k] \in u => Comes(completions, s[j], s[k])

ComeFirst(s, u, completions) ==
  \A x, y \in u : x \in ToSet(s) /\ y \notin ToSet(s) => Comes(completions, x, y)

PagesInv ==
  /\ InOrder(seen, unmoved, ChatCompletions)
  /\ ComeFirst(seen, unmoved, ChatCompletions)
  /\ hasMore \/ unmoved \subseteq ToSet(seen)

ListingInv ==
  /\ ChatInv /\ ListingTypes /\ CursorIsLast
  /\ lost \/ PagesInv

------------------------------------------------------------------------------
(* A finite set has one sorted list: each element at the place that is one *)
(* more than the number of elements before it.                             *)

\* R orders S strictly and totally.
Orders(R, S) ==
  /\ \A i \in S : <<i, i>> \notin R
  /\ \A i, j, k \in S : <<i, j>> \in R /\ <<j, k>> \in R => <<i, k>> \in R
  /\ \A i, j \in S : i = j \/ <<i, j>> \in R \/ <<j, i>> \in R

Below(R, S, i) == {j \in S : <<j, i>> \in R}

LEMMA BelowGrows ==
  ASSUME NEW S, IsFiniteSet(S), NEW R, Orders(R, S), NEW i \in S, NEW j \in S,
         <<i, j>> \in R
  PROVE  /\ Cardinality(Below(R, S, i)) \in Nat
         /\ Cardinality(Below(R, S, j)) \in Nat
         /\ Cardinality(Below(R, S, i)) < Cardinality(Below(R, S, j))
PROOF
<1> DEFINE I == Below(R, S, i)
           J == Below(R, S, j)
<1>1. I \subseteq S /\ J \subseteq S /\ I \subseteq J /\ i \in J /\ i \notin I
  BY DEF Below, Orders
<1> HIDE DEF I, J
<1>2. IsFiniteSet(J)
  BY <1>1, FS_Subset
<1>3. IsFiniteSet(I) /\ Cardinality(I) <= Cardinality(J) /\ Cardinality(I) # Cardinality(J)
  BY <1>1, <1>2, FS_Subset
<1>4. Cardinality(I) \in Nat /\ Cardinality(J) \in Nat
  BY <1>2, <1>3, FS_CardinalityType
<1> QED BY <1>3, <1>4 DEF I, J

LEMMA SortedListExists ==
  ASSUME NEW S, IsFiniteSet(S), NEW R, Orders(R, S)
  PROVE  \E list \in [1 .. Cardinality(S) -> S] :
           \A j, k \in 1 .. Cardinality(S) : j < k => <<list[j], list[k]>> \in R
PROOF
<1> DEFINE n == Cardinality(S)
           rank == [i \in S |-> Cardinality(Below(R, S, i)) + 1]
<1>1. n \in Nat
  BY FS_CardinalityType
<1>2. ASSUME NEW i \in S PROVE rank[i] \in 1 .. n
  <2> DEFINE others == S \ {i}
             before == Below(R, S, i)
  <2>1. IsFiniteSet(others) /\ Cardinality(others) = n - 1
    BY FS_RemoveElement
  <2>2. before \subseteq others
    BY DEF Below, Orders
  <2>3. rank[i] = Cardinality(before) + 1
    OBVIOUS
  <2> HIDE DEF others, before, rank, n
  <2>4. IsFiniteSet(before) /\ Cardinality(before) <= Cardinality(others)
    BY <2>1, <2>2, FS_Subset
  <2>5. Cardinality(before) \in Nat
    BY <2>4, FS_CardinalityType
  <2> QED BY <1>1, <2>1, <2>3, <2>4, <2>5
<1>3. ASSUME NEW i \in S, NEW j \in S, <<i, j>> \in R PROVE rank[i] < rank[j]
  BY <1>3, BelowGrows
<1>4. rank \in [S -> 1 .. n]
  BY <1>2
<1> HIDE DEF rank, n
<1>5. rank \in Injection(S, 1 .. n)
  <2>1. ASSUME NEW i \in S, NEW j \in S, rank[i] = rank[j] PROVE i = j
    <3>1. rank[i] \in 1 .. n
      BY <1>2
    <3>2. ~(rank[i] < rank[j]) /\ ~(rank[j] < rank[i])
      BY <1>1, <2>1, <3>1
    <3> QED BY <1>3, <3>2 DEF Orders
  <2> QED BY <1>4, <2>1 DEF Injection, IsInjective
<1>6. rank \in Surjection(S, 1 .. n)
  <2>1. IsFiniteSet(1 .. n) /\ Cardinality(1 .. n) = n
    BY <1>1, FS_Interval
  <2>2. Cardinality(S) = Cardinality(1 .. n)
    BY <2>1 DEF n
  <2> QED BY <1>5, <2>1, <2>2, FS_Injection
<1> DEFINE list == [k \in 1 .. n |-> CHOOSE i \in S : rank[i] = k]
<1>7. ASSUME NEW k \in 1 .. n PROVE list[k] \in S /\ rank[list[k]] = k
  <2>1. \E i \in S : rank[i] = k
    BY <1>6 DEF Surjection
  <2> QED BY <2>1
<1>8. list \in [1 .. n -> S]
  BY <1>7
<1> HIDE DEF list
<1>9. ASSUME NEW j \in 1 .. n, NEW k \in 1 .. n, j < k PROVE <<list[j], list[k]>> \in R
  <2>1. /\ list[j] \in S /\ list[k] \in S
        /\ rank[list[j]] = j /\ rank[list[k]] = k
    BY <1>7
  <2>2. ~(rank[list[k]] < rank[list[j]]) /\ list[j] # list[k]
    BY <1>1, <1>9, <2>1
  <2> QED BY <1>3, <2>1, <2>2 DEF Orders
<1> QED BY <1>8, <1>9 DEF n

------------------------------------------------------------------------------
(* The list of the completions that match, in the client's order.          *)

\* What the store keeps, of a function of its own type.
Kept(completions) ==
  /\ IsFiniteSet(DOMAIN completions) /\ DOMAIN completions \subseteq ChatIDs
  /\ completions \in [DOMAIN completions -> Completions]

LEMMA ChatInvKeeps == ChatInv => Kept(ChatCompletions)
PROOF
<1> SUFFICES ASSUME ChatInv PROVE Kept(ChatCompletions)
  OBVIOUS
<1> DEFINE n == Len(chatCompletionOrder)
           keys == DOMAIN ChatCompletions
<1>1. /\ n \in Nat /\ DOMAIN chatCompletionOrder = 1 .. n
      /\ keys = ToSet(chatCompletionOrder)
      /\ chatCompletionOrder \in [1 .. n -> keys]
  BY LenProperties, ElementOfSeq DEF ChatInv, ChatTypes, ChatOrderInStep, InStep, ToSet
<1>2. chatCompletionOrder \in Surjection(1 .. n, keys)
  BY <1>1 DEF Surjection, ToSet
<1>3. IsFiniteSet(1 .. n)
  BY <1>1, FS_Interval
<1>4. IsFiniteSet(keys)
  BY <1>2, <1>3, FS_Surjection
<1> QED BY <1>4 DEF Kept, ChatInv, ChatTypes

LEMMA TimesAreNumbers ==
  ASSUME NEW C, Kept(C), NEW id \in DOMAIN C
  PROVE  CreatedOf(C, id) \in Nat /\ id \in Nat
PROOF
<1>1. C[id] \in Completions
  BY DEF Kept
<1>2. C[id].answer \in Answers
  BY <1>1 DEF Completions
<1> QED BY <1>2, ChatListingAssumption DEF ChatListingAssumption, CreatedOf, Kept

\* By time and then by id is a strict total order, so Comes is one too.
LEMMA CreatedThenIDOrders ==
  ASSUME NEW C, Kept(C)
  PROVE  /\ \A i \in DOMAIN C : ~CreatedThenID(C, i, i)
         /\ \A i, j, k \in DOMAIN C :
              CreatedThenID(C, i, j) /\ CreatedThenID(C, j, k) => CreatedThenID(C, i, k)
         /\ \A i, j \in DOMAIN C :
              i = j \/ CreatedThenID(C, i, j) \/ CreatedThenID(C, j, i)
PROOF
<1>1. \A id \in DOMAIN C : CreatedOf(C, id) \in Nat /\ id \in Nat
  BY TimesAreNumbers
<1>2. \A i \in DOMAIN C : ~CreatedThenID(C, i, i)
  BY <1>1 DEF CreatedThenID
<1>3. \A i, j, k \in DOMAIN C :
        CreatedThenID(C, i, j) /\ CreatedThenID(C, j, k) => CreatedThenID(C, i, k)
  BY <1>1 DEF CreatedThenID
<1>4. \A i, j \in DOMAIN C : i = j \/ CreatedThenID(C, i, j) \/ CreatedThenID(C, j, i)
  BY <1>1 DEF CreatedThenID
<1> QED BY <1>2, <1>3, <1>4

LEMMA ComesOrders ==
  ASSUME NEW C, Kept(C)
  PROVE  /\ \A i \in DOMAIN C : ~Comes(C, i, i)
         /\ \A i, j, k \in DOMAIN C : Comes(C, i, j) /\ Comes(C, j, k) => Comes(C, i, k)
BY CreatedThenIDOrders DEF Comes

LEMMA SortedList ==
  ASSUME NEW C, Kept(C), NEW ids, ids \subseteq DOMAIN C
  PROVE  /\ SortByCreatedThenID(C, ids) \in [1 .. Cardinality(ids) -> ids]
         /\ \A j, k \in 1 .. Cardinality(ids) :
              j < k => CreatedThenID(C, SortByCreatedThenID(C, ids)[j],
                                        SortByCreatedThenID(C, ids)[k])
PROOF
<1> DEFINE R == {pair \in ids \X ids : CreatedThenID(C, pair[1], pair[2])}
<1>1. IsFiniteSet(ids)
  BY FS_Subset DEF Kept
<1>2. \A i, j \in ids : <<i, j>> \in R <=> CreatedThenID(C, i, j)
  OBVIOUS
<1> HIDE DEF R
<1>3. Orders(R, ids)
  BY <1>2, CreatedThenIDOrders DEF Orders
<1>4. PICK list \in [1 .. Cardinality(ids) -> ids] :
        \A j, k \in 1 .. Cardinality(ids) : j < k => <<list[j], list[k]>> \in R
  BY <1>1, <1>3, SortedListExists
<1>5. \A j, k \in 1 .. Cardinality(ids) : j < k => CreatedThenID(C, list[j], list[k])
  BY <1>2, <1>4
<1> QED BY <1>4, <1>5 DEF SortByCreatedThenID

\* A list of the entries of C that match, as it is sorted and as the client has it.
ListedBy(list, C) ==
  /\ list \in Seq(ChatIDs)
  /\ ToSet(list) = Matching(C)
  /\ \A j, k \in 1 .. Len(list) : j < k => CreatedThenID(C, list[j], list[k])

ListedFor(list, C) ==
  /\ list \in Seq(ChatIDs)
  /\ ToSet(list) = Matching(C)
  /\ \A j, k \in 1 .. Len(list) : j < k => Comes(C, list[j], list[k])

LEMMA ListIsSorted ==
  ASSUME NEW C, Kept(C)
  PROVE  ListedBy(ListChatCompletions(C), C)
PROOF
<1> DEFINE ids == Matching(C)
           n == Cardinality(ids)
           list == ListChatCompletions(C)
<1>1. ids \subseteq DOMAIN C /\ ids \subseteq ChatIDs
  BY DEF Matching, Kept
<1>2. list = SortByCreatedThenID(C, ids)
  BY DEF ListChatCompletions
<1> HIDE DEF ids, list
<1>3. IsFiniteSet(ids) /\ n \in Nat
  BY <1>1, FS_Subset, FS_CardinalityType DEF Kept
<1> HIDE DEF n
<1>4. /\ list \in [1 .. n -> ids]
      /\ \A j, k \in 1 .. n : j < k => CreatedThenID(C, list[j], list[k])
  BY <1>1, <1>2, SortedList DEF n
<1>5. list \in Seq(ChatIDs) /\ Len(list) = n /\ DOMAIN list = 1 .. n
  BY <1>1, <1>3, <1>4
<1>6. list \in Injection(1 .. n, ids)
  <2>1. ASSUME NEW j \in 1 .. n, NEW k \in 1 .. n, list[j] = list[k] PROVE j = k
    <3>1. list[j] \in DOMAIN C /\ list[k] \in DOMAIN C
      BY <1>1, <1>4
    <3>2. ~(j < k) /\ ~(k < j)
      BY <1>4, <2>1, <3>1, CreatedThenIDOrders
    <3> QED BY <1>3, <3>2
  <2> QED BY <1>4, <2>1 DEF Injection, IsInjective
<1>7. list \in Surjection(1 .. n, ids)
  <2>1. IsFiniteSet(1 .. n) /\ Cardinality(1 .. n) = n
    BY <1>3, FS_Interval
  <2>2. Cardinality(1 .. n) = Cardinality(ids)
    BY <2>1 DEF n
  <2> QED BY <1>3, <1>6, <2>1, <2>2, FS_Injection
<1>8. ToSet(list) = ids
  BY <1>4, <1>5, <1>7 DEF Surjection, ToSet
<1> QED BY <1>4, <1>5, <1>8 DEF ListedBy, ids, list

LEMMA OrderedListIsSorted ==
  ASSUME NEW C, Kept(C)
  PROVE  ListedFor(Ordered(ListChatCompletions(C)), C)
PROOF
<1> DEFINE list == ListChatCompletions(C)
           n == Len(list)
<1>1. ListedBy(list, C)
  BY ListIsSorted
<1> HIDE DEF list
<1>2. n \in Nat /\ DOMAIN list = 1 .. n /\ \A k \in 1 .. n : list[k] \in ChatIDs
  BY <1>1, LenProperties, ElementOfSeq DEF ListedBy
<1>3. CASE order = "asc"
  BY <1>1, <1>3 DEF ListedBy, ListedFor, Ordered, Comes, list
<1>4. CASE order # "asc"
  <2> DEFINE back == Reverse(list)
  <2>1. /\ back \in Seq(ChatIDs) /\ Len(back) = n /\ DOMAIN back = 1 .. n
        /\ \A k \in 1 .. n : back[k] = list[n - k + 1]
    BY <1>2 DEF Reverse
  <2> HIDE DEF back
  <2>2. ToSet(back) = ToSet(list)
    <3>1. ASSUME NEW k \in 1 .. n PROVE back[k] \in ToSet(list) /\ list[k] \in ToSet(back)
      <4>1. n - k + 1 \in 1 .. n /\ n - (n - k + 1) + 1 = k
        BY <1>2
      <4> QED BY <1>2, <2>1, <4>1 DEF ToSet
    <3> QED BY <1>2, <2>1, <3>1 DEF ToSet
  <2>3. ASSUME NEW j \in 1 .. n, NEW k \in 1 .. n, j < k PROVE Comes(C, back[j], back[k])
    <3>1. n - j + 1 \in 1 .. n /\ n - k + 1 \in 1 .. n /\ n - k + 1 < n - j + 1
      BY <1>2, <2>3
    <3>2. CreatedThenID(C, back[k], back[j])
      BY <1>1, <2>1, <3>1 DEF ListedBy
    <3> QED BY <1>4, <3>2 DEF Comes
  <2>4. Ordered(list) = back
    BY <1>4 DEF Ordered, back
  <2> QED BY <1>1, <2>1, <2>2, <2>3, <2>4 DEF ListedBy, ListedFor, list
<1> QED BY <1>3, <1>4

------------------------------------------------------------------------------
(* A page.                                                                 *)

\* The places p + 1 to q of a list.
IsCut(page, list, p, q) ==
  /\ p \in 0 .. Len(list) /\ q \in p .. Len(list)
  /\ page \in Seq(ChatIDs) /\ Len(page) = q - p
  /\ \A i \in 1 .. q - p : page[i] = list[p + i]

\* What GetPage gives of what is left of the list.
PageOf(rest) == SubSeq(rest, 1, IF HasMore(rest) THEN Clamped(limit) ELSE Len(rest))

LEMMA RestIsCut ==
  ASSUME NEW list \in Seq(ChatIDs),
         after = {} \/ \E a : after = {a} /\ a \in ToSet(list)
  PROVE  \E p \in 0 .. Len(list) :
           /\ IsCut(Rest(list), list, p, Len(list))
           /\ after = {} => p = 0
           /\ after # {} => p > 0 /\ after = {list[p]}
PROOF
<1>1. Len(list) \in Nat /\ DOMAIN list = 1 .. Len(list)
  BY LenProperties
<1>2. CASE after = {}
  <2>1. Rest(list) = list
    BY <1>2 DEF Rest
  <2>2. IsCut(list, list, 0, Len(list))
    BY <1>1 DEF IsCut
  <2> QED BY <1>1, <1>2, <2>1, <2>2
<1>3. CASE after # {}
  <2>1. PICK a : after = {a} /\ a \in ToSet(list)
    BY <1>3
  <2> DEFINE p == CursorAt(list)
             rest == SubSeq(list, p + 1, Len(list))
  <2>2. p \in 1 .. Len(list) /\ list[p] \in after
    <3>1. \E k \in 1 .. Len(list) : list[k] \in after
      BY <1>1, <2>1 DEF ToSet
    <3> QED BY <3>1 DEF CursorAt
  <2>3. Rest(list) = rest
    BY <1>3, <2>1 DEF Rest
  <2> HIDE DEF p
  <2>4. p \in 0 .. Len(list)
    BY <1>1, <2>2
  <2>5. /\ rest \in Seq(ChatIDs) /\ Len(rest) = Len(list) - p
        /\ \A i \in 1 .. Len(list) - p : rest[i] = list[p + i]
    BY <2>4, SuffixProperties
  <2> HIDE DEF rest
  <2>6. IsCut(rest, list, p, Len(list))
    BY <1>1, <2>4, <2>5 DEF IsCut
  <2> QED BY <1>1, <1>3, <2>1, <2>2, <2>3, <2>4, <2>6
<1> QED BY <1>2, <1>3

LEMMA ClampedIsPositive ==
  ASSUME ListingTypes PROVE Clamped(limit) \in Nat \ {0}
BY ChatListingAssumption DEF ChatListingAssumption, ListingTypes, Clamped

LEMMA PageIsCut ==
  ASSUME ListingTypes, NEW list \in Seq(ChatIDs), NEW p \in 0 .. Len(list),
         NEW rest, IsCut(rest, list, p, Len(list))
  PROVE  \E q \in p .. Len(list) :
           /\ IsCut(PageOf(rest), list, p, q)
           /\ HasMore(rest) \/ q = Len(list)
           /\ q = p => p = Len(list)
PROOF
<1> DEFINE n == Len(list)
           m == IF HasMore(rest) THEN Clamped(limit) ELSE Len(rest)
           page == SubSeq(rest, 1, m)
<1>1. /\ n \in Nat /\ p \in Nat
      /\ rest \in Seq(ChatIDs) /\ Len(rest) = n - p
      /\ \A i \in 1 .. n - p : rest[i] = list[p + i]
  BY LenProperties DEF IsCut
<1>2. Clamped(limit) \in Nat \ {0}
  BY ClampedIsPositive
<1>3. /\ m \in 0 .. n - p
      /\ HasMore(rest) \/ m = n - p
      /\ m = 0 => n - p = 0
  BY <1>1, <1>2 DEF HasMore
<1> HIDE DEF n, m
<1>4. \A i \in 1 .. m : rest[i] \in ChatIDs
  BY <1>1, <1>3, ElementOfSeq
<1>5. /\ page \in Seq(ChatIDs) /\ Len(page) = m
      /\ \A i \in 1 .. m : page[i] = rest[i]
  BY <1>1, <1>3, <1>4, SubSeqProperties
<1> HIDE DEF page
<1>6. p + m \in p .. n /\ (p + m) - p = m
  BY <1>1, <1>3
<1>7. ASSUME NEW i \in 1 .. m PROVE page[i] = list[p + i]
  <2>1. i \in 1 .. n - p
    BY <1>1, <1>3
  <2> QED BY <1>1, <1>5, <2>1
<1>8. IsCut(page, list, p, p + m)
  BY <1>5, <1>6, <1>7 DEF IsCut, n
<1>9. PageOf(rest) = page
  BY DEF PageOf, page, m
<1> QED BY <1>1, <1>3, <1>6, <1>8, <1>9 DEF n

\* A page taken with a cursor that is still in the list, or with none.
LEMMA PageFromCursor ==
  ASSUME ListingInv, after \subseteq Matching(ChatCompletions),
         NEW list, ListedFor(list, ChatCompletions)
  PROVE  \E p \in 0 .. Len(list), q \in 0 .. Len(list) :
           /\ IsCut(PageOf(Rest(list)), list, p, q)
           /\ HasMore(Rest(list)) \/ q = Len(list)
           /\ q = p => p = Len(list)
           /\ seen = <<>> => p = 0
           /\ seen # <<>> => p > 0 /\ seen[Len(seen)] = list[p]
PROOF
<1>1. /\ list \in Seq(ChatIDs) /\ ToSet(list) = Matching(ChatCompletions)
      /\ Len(list) \in Nat
  BY LenProperties DEF ListedFor
<1>2. after = {} \/ \E a : after = {a} /\ a \in ToSet(list)
  BY <1>1 DEF ListingInv, CursorIsLast
<1>3. PICK p \in 0 .. Len(list) :
        /\ IsCut(Rest(list), list, p, Len(list))
        /\ after = {} => p = 0
        /\ after # {} => p > 0 /\ after = {list[p]}
  BY <1>1, <1>2, RestIsCut
<1>4. PICK q \in p .. Len(list) :
        /\ IsCut(PageOf(Rest(list)), list, p, q)
        /\ HasMore(Rest(list)) \/ q = Len(list)
        /\ q = p => p = Len(list)
  BY <1>1, <1>3, PageIsCut DEF ListingInv
<1>5. q \in 0 .. Len(list)
  BY <1>1
<1>6. /\ seen = <<>> => p = 0
      /\ seen # <<>> => p > 0 /\ seen[Len(seen)] = list[p]
  <2>1. CASE seen = <<>>
    BY <1>3, <2>1 DEF ListingInv, CursorIsLast
  <2>2. CASE seen # <<>>
    <3>1. after = {seen[Len(seen)]}
      BY <2>2 DEF ListingInv, CursorIsLast
    <3>2. p > 0 /\ after = {list[p]}
      BY <1>3, <3>1
    <3>3. seen[Len(seen)] = list[p]
      BY <3>1, <3>2
    <3> QED BY <2>2, <3>2, <3>3
  <2> QED BY <2>1, <2>2
<1> QED BY <1>4, <1>5, <1>6

\* The places of two lists put together.
Joins(st, s, t) ==
  /\ st \in Seq(ChatIDs) /\ Len(st) = Len(s) + Len(t)
  /\ Len(s) \in Nat /\ Len(t) \in Nat
  /\ \A i \in 1 .. Len(s) : st[i] = s[i]
  /\ \A i \in Len(s) + 1 .. Len(s) + Len(t) : st[i] = t[i - Len(s)]
  /\ ToSet(st) = ToSet(s) \cup ToSet(t)

LEMMA Concatenated ==
  ASSUME NEW s \in Seq(ChatIDs), NEW t \in Seq(ChatIDs)
  PROVE  Joins(s \o t, s, t)
PROOF
<1> DEFINE st == s \o t
<1>1. /\ st \in Seq(ChatIDs)
      /\ Len(st) = Len(s) + Len(t)
      /\ \A i \in 1 .. Len(s) + Len(t) :
           st[i] = IF i <= Len(s) THEN s[i] ELSE t[i - Len(s)]
  BY ConcatProperties, Zenon
<1>2. /\ Len(s) \in Nat /\ DOMAIN s = 1 .. Len(s)
      /\ Len(t) \in Nat /\ DOMAIN t = 1 .. Len(t)
      /\ DOMAIN st = 1 .. Len(st)
  BY <1>1, LenProperties
<1> HIDE DEF st
<1>3. ASSUME NEW i \in 1 .. Len(s) PROVE i \in DOMAIN st /\ st[i] = s[i]
  BY <1>1, <1>2
<1>4. ASSUME NEW i \in Len(s) + 1 .. Len(s) + Len(t)
      PROVE  i \in DOMAIN st /\ i - Len(s) \in DOMAIN t /\ st[i] = t[i - Len(s)]
  BY <1>1, <1>2
<1>5. ASSUME NEW i \in DOMAIN t
      PROVE  i + Len(s) \in DOMAIN st /\ st[i + Len(s)] = t[i]
  <2>1. i + Len(s) \in Len(s) + 1 .. Len(s) + Len(t) /\ (i + Len(s)) - Len(s) = i
    BY <1>2
  <2> QED BY <1>4, <2>1
<1>6. ASSUME NEW i \in DOMAIN st PROVE st[i] \in ToSet(s) \cup ToSet(t)
  <2>1. i \in 1 .. Len(s) \/ i \in Len(s) + 1 .. Len(s) + Len(t)
    BY <1>1, <1>2
  <2> QED BY <1>2, <1>3, <1>4, <2>1 DEF ToSet
<1>7. ToSet(st) = ToSet(s) \cup ToSet(t)
  <2>1. ToSet(st) \subseteq ToSet(s) \cup ToSet(t)
    BY <1>6 DEF ToSet
  <2>2. ToSet(s) \subseteq ToSet(st)
    BY <1>2, <1>3 DEF ToSet
  <2>3. ToSet(t) \subseteq ToSet(st)
    BY <1>5 DEF ToSet
  <2> QED BY <2>1, <2>2, <2>3
<1>8. Joins(st, s, t)
  BY <1>1, <1>2, <1>3, <1>4, <1>7 DEF Joins
<1> QED BY <1>8 DEF st

\* A page that begins after the last entry seen keeps the pages in order.
LEMMA PageExtends ==
  ASSUME NEW C, Kept(C), NEW list, ListedFor(list, C),
         NEW s \in Seq(ChatIDs), NEW u, u \subseteq Matching(C),
         NEW page, NEW p, NEW q, IsCut(page, list, p, q),
         InOrder(s, u, C), ComeFirst(s, u, C),
         s = <<>> => p = 0,
         s # <<>> => p > 0 /\ s[Len(s)] = list[p] /\ list[p] \in u,
         NEW longer, longer = s \o page
  PROVE  /\ InOrder(longer, u, C) /\ ComeFirst(longer, u, C)
         /\ q = Len(list) => u \subseteq ToSet(longer)
PROOF
<1> DEFINE n == Len(s)
           m == Len(page)
<1>1. /\ list \in Seq(ChatIDs) /\ Len(list) \in Nat /\ DOMAIN list = 1 .. Len(list)
      /\ p \in Nat /\ q \in Nat /\ p <= q /\ q <= Len(list)
      /\ page \in Seq(ChatIDs) /\ m = q - p
      /\ \A i \in 1 .. m : page[i] = list[p + i]
  BY LenProperties DEF IsCut, ListedFor
<1>2. /\ n \in Nat /\ m \in Nat /\ Len(longer) = n + m
      /\ \A i \in 1 .. n : longer[i] = s[i]
      /\ \A i \in n + 1 .. n + m : longer[i] = page[i - n]
      /\ ToSet(longer) = ToSet(s) \cup ToSet(page)
  <2>1. page \in Seq(ChatIDs)
    BY <1>1
  <2>2. Joins(longer, s, page)
    BY <2>1, Concatenated
  <2> QED BY <2>2 DEF Joins
<1>3. DOMAIN s = 1 .. n /\ DOMAIN page = 1 .. m /\ (s = <<>> <=> n = 0)
  BY <1>1, LenProperties, EmptySeq
<1>4. \A i \in 1 .. Len(list) : list[i] \in DOMAIN C
  BY <1>1 DEF ListedFor, ToSet, Matching
<1> HIDE DEF n, m
<1>5. ASSUME NEW i \in n + 1 .. n + m
      PROVE  /\ p + (i - n) \in p + 1 .. q
             /\ longer[i] = list[p + (i - n)]
  <2> DEFINE k == i - n
  <2>1. k \in 1 .. m
    BY <1>1, <1>2
  <2>2. longer[i] = page[k]
    BY <1>2
  <2> HIDE DEF k
  <2>3. page[k] = list[p + k] /\ p + k \in p + 1 .. q
    BY <1>1, <2>1 DEF m
  <2> QED BY <2>2, <2>3 DEF k
\* What has been seen does not come after the cursor.
<1>6. ASSUME NEW j \in 1 .. n, s[j] \in u
      PROVE  p \in 1 .. Len(list) /\ (s[j] = list[p] \/ Comes(C, s[j], list[p]))
  <2>1. n > 0 /\ p > 0 /\ s[n] = list[p] /\ s[n] \in u
    BY <1>2, <1>3 DEF n
  <2>2. j < n => Comes(C, s[j], s[n])
    BY <1>2, <1>6, <2>1 DEF InOrder, n
  <2> QED BY <1>1, <1>2, <2>1, <2>2
\* What has not been seen comes after the cursor.
<1>7. ASSUME NEW y \in u, y \notin ToSet(s)
      PROVE  \E r \in p + 1 .. Len(list) : list[r] = y
  <2>1. PICK r \in 1 .. Len(list) : list[r] = y
    BY <1>1 DEF ListedFor, ToSet
  <2>2. CASE n = 0
    BY <1>1, <1>3, <2>1, <2>2
  <2>3. CASE n # 0
    <3>1. p \in 1 .. Len(list) /\ list[p] = s[n] /\ list[p] \in u
      BY <1>1, <1>3, <2>3 DEF n
    <3>2. list[p] \in ToSet(s)
      BY <1>2, <1>3, <2>3, <3>1 DEF ToSet
    <3>3. Comes(C, list[p], y)
      BY <1>7, <3>1, <3>2 DEF ComeFirst
    <3>4. r # p
      BY <1>7, <2>1, <3>2
    <3>5. ~(r < p)
      <4>1. SUFFICES ASSUME r < p PROVE FALSE
        OBVIOUS
      <4>2. Comes(C, y, list[p])
        BY <2>1, <3>1, <4>1 DEF ListedFor
      <4> QED BY <1>4, <2>1, <3>1, <3>3, <4>2, ComesOrders
    <3> QED BY <1>1, <2>1, <3>1, <3>4, <3>5
  <2> QED BY <2>2, <2>3
<1>8. InOrder(longer, u, C)
  <2>1. ASSUME NEW j \in 1 .. n + m, NEW k \in 1 .. n + m, j < k,
               longer[j] \in u, longer[k] \in u
        PROVE  Comes(C, longer[j], longer[k])
    <3>1. CASE k \in 1 .. n
      <4>1. j \in 1 .. n
        BY <1>2, <2>1, <3>1
      <4> QED BY <1>2, <2>1, <3>1, <4>1 DEF InOrder, n
    <3>2. CASE j \in 1 .. n /\ k \in n + 1 .. n + m
      <4>1. /\ p \in 1 .. Len(list)
            /\ longer[j] = list[p] \/ Comes(C, longer[j], list[p])
        BY <1>2, <1>6, <2>1, <3>2
      <4>2. p + (k - n) \in 1 .. Len(list) /\ p < p + (k - n) /\ longer[k] = list[p + (k - n)]
        <5>1. p + (k - n) \in p + 1 .. q /\ longer[k] = list[p + (k - n)]
          BY <1>5, <3>2
        <5> DEFINE r == p + (k - n)
        <5> HIDE DEF r
        <5>2. r \in p + 1 .. q => r \in 1 .. Len(list) /\ p < r
          BY <1>1
        <5> QED BY <5>1, <5>2 DEF r
      <4>3. Comes(C, list[p], longer[k])
        BY <4>1, <4>2 DEF ListedFor
      <4>4. longer[j] \in DOMAIN C /\ longer[k] \in DOMAIN C /\ list[p] \in DOMAIN C
        BY <1>4, <2>1, <4>1, <4>2 DEF Matching
      <4> QED BY <4>1, <4>3, <4>4, ComesOrders
    <3>3. CASE j \in n + 1 .. n + m /\ k \in n + 1 .. n + m
      <4>1. /\ p + (j - n) \in p + 1 .. q /\ longer[j] = list[p + (j - n)]
            /\ p + (k - n) \in p + 1 .. q /\ longer[k] = list[p + (k - n)]
        BY <1>5, <3>3
      <4>2. p + (j - n) < p + (k - n)
        BY <1>1, <1>2, <2>1, <3>3
      <4> DEFINE r == p + (j - n)
                 t == p + (k - n)
      <4>3. /\ r \in p + 1 .. q /\ longer[j] = list[r]
            /\ t \in p + 1 .. q /\ longer[k] = list[t]
            /\ r < t
        BY <4>1, <4>2
      <4> HIDE DEF r, t
      <4>4. r \in 1 .. Len(list) /\ t \in 1 .. Len(list)
        BY <1>1, <4>3
      <4> QED BY <4>3, <4>4 DEF ListedFor
    <3> QED BY <1>2, <2>1, <3>1, <3>2, <3>3
  <2> QED BY <1>2, <2>1 DEF InOrder, n, m
<1>9. ASSUME NEW y \in u, y \notin ToSet(longer)
      PROVE  \E r \in q + 1 .. Len(list) : list[r] = y
  <2>1. PICK r \in p + 1 .. Len(list) : list[r] = y
    BY <1>2, <1>7, <1>9
  <2>2. ~(r <= q)
    <3>1. SUFFICES ASSUME r <= q PROVE FALSE
      OBVIOUS
    <3>2. r - p \in 1 .. m /\ p + (r - p) = r
      BY <1>1, <2>1, <3>1 DEF m
    <3>3. page[r - p] = y
      BY <1>1, <2>1, <3>2 DEF m
    <3>4. y \in ToSet(page)
      BY <1>3, <3>2, <3>3 DEF ToSet
    <3> QED BY <1>2, <1>9, <3>4
  <2>3. r \in q + 1 .. Len(list)
    BY <1>1, <2>1, <2>2
  <2> QED BY <2>1, <2>3
<1>10. ComeFirst(longer, u, C)
  <2>1. ASSUME NEW x \in u, NEW y \in u, x \in ToSet(longer), y \notin ToSet(longer)
        PROVE  Comes(C, x, y)
    <3>1. CASE x \in ToSet(s)
      BY <1>2, <2>1, <3>1 DEF ComeFirst
    <3>2. CASE x \in ToSet(page)
      <4>1. PICK i \in 1 .. m : x = page[i]
        BY <1>3, <3>2 DEF ToSet
      <4>2. p + i \in 1 .. q /\ p + i \in 1 .. Len(list) /\ x = list[p + i]
        BY <1>1, <4>1 DEF m
      <4>3. PICK r \in q + 1 .. Len(list) : list[r] = y
        BY <1>9, <2>1
      <4>4. r \in 1 .. Len(list) /\ p + i < r
        BY <1>1, <4>2, <4>3
      <4> QED BY <4>2, <4>3, <4>4 DEF ListedFor
    <3> QED BY <1>2, <2>1, <3>1, <3>2
  <2> QED BY <2>1 DEF ComeFirst
<1>11. q = Len(list) => u \subseteq ToSet(longer)
  BY <1>1, <1>9
<1> QED BY <1>8, <1>10, <1>11

------------------------------------------------------------------------------
(* The invariant of the listing.                                           *)

\* What stays of the list when a page is read.
Staying(list) == IF after = {} THEN ToSet(list) ELSE unmoved

LEMMA PageRead ==
  ASSUME GetPage
  PROVE  LET list == ListChatCompletions(ChatCompletions)
             page == PageOf(Rest(Ordered(list)))
         IN /\ hasMore
            /\ seen' = seen \o page
            /\ after' = IF page = <<>> THEN after ELSE {page[Len(page)]}
            /\ hasMore' = HasMore(Rest(Ordered(list)))
            /\ unmoved' = Staying(list)
            /\ lost' = (lost \/ ~(after \subseteq unmoved))
            /\ UNCHANGED <<vars, limit, order>>
BY DEF GetPage, PageOf, Staying

\* With a cursor that is gone the page is empty.
LEMMA NoPageWithoutCursor ==
  ASSUME ListingInv, NEW list \in Seq(ChatIDs), ~(after \subseteq ToSet(list))
  PROVE  Rest(list) = <<>> /\ PageOf(<<>>) = <<>> /\ ~HasMore(<<>>)
PROOF
<1>1. Rest(list) = <<>>
  BY DEF Rest
<1>2. Clamped(limit) \in Nat \ {0}
  BY ClampedIsPositive DEF ListingInv
<1>3. ~HasMore(<<>>)
  BY <1>2, EmptySeq DEF HasMore
<1>4. SubSeq(<<>>, 1, 0) = <<>>
  OBVIOUS
<1>5. PageOf(<<>>) = <<>>
  BY <1>3, <1>4, EmptySeq DEF PageOf
<1> QED BY <1>1, <1>3, <1>5

LEMMA GetPageKeeps == ListingInv /\ GetPage => ListingInv'
PROOF
<1> SUFFICES ASSUME ListingInv, GetPage PROVE ListingInv'
  OBVIOUS
<1> DEFINE C == ChatCompletions
           plain == ListChatCompletions(C)
           list == Ordered(plain)
           rest == Rest(list)
           page == PageOf(rest)
           u == Staying(plain)
<1>1. /\ hasMore
      /\ seen' = seen \o page
      /\ after' = IF page = <<>> THEN after ELSE {page[Len(page)]}
      /\ hasMore' = HasMore(rest)
      /\ unmoved' = u
      /\ lost' = (lost \/ ~(after \subseteq unmoved))
      /\ UNCHANGED <<vars, limit, order>>
  BY PageRead
<1>2. Kept(C)
  BY ChatInvKeeps DEF ListingInv
<1>3. ListedBy(plain, C)
  BY <1>2, ListIsSorted
<1>4. ListedFor(list, C)
  BY <1>2, OrderedListIsSorted
<1>5. ToSet(plain) = Matching(C) /\ ToSet(list) = Matching(C) /\ list \in Seq(ChatIDs)
  BY <1>3, <1>4 DEF ListedBy, ListedFor
<1>6. /\ unmoved \subseteq Matching(C) /\ u \subseteq Matching(C)
      /\ after # {} => u = unmoved
      /\ after = {} => u = Matching(C)
  BY <1>5 DEF ListingInv, ListingTypes, Staying
<1>7. seen \in Seq(ChatIDs) /\ (seen = <<>> => after = {}) /\ (after = {} => seen = <<>>)
      /\ (seen # <<>> => after = {seen[Len(seen)]})
  BY DEF ListingInv, ListingTypes, CursorIsLast
<1> HIDE DEF u, plain, list, rest
<1>8. page \in Seq(ChatIDs) /\ HasMore(rest) \in BOOLEAN
  <2>1. HasMore(rest) \in BOOLEAN
    BY DEF HasMore
  <2>2. CASE after \subseteq Matching(C)
    BY <1>4, <2>1, <2>2, PageFromCursor DEF IsCut, rest
  <2>3. CASE ~(after \subseteq Matching(C))
    BY <1>5, <2>1, <2>3, NoPageWithoutCursor, EmptySeq DEF rest
  <2> QED BY <2>2, <2>3
<1>9. ListingTypes'
  <2>1. seen' \in Seq(ChatIDs)
    BY <1>1, <1>7, <1>8, Concatenated DEF Joins
  <2>2. unmoved' \subseteq Matching(ChatCompletions')
    BY <1>1, <1>6 DEF vars
  <2>3. lost' \in BOOLEAN
    BY <1>1
  <2> QED BY <1>1, <1>8, <2>1, <2>2, <2>3 DEF ListingInv, ListingTypes
<1>10. CursorIsLast'
  <2>1. CASE page = <<>>
    <3>1. seen' = seen /\ after' = after
      BY <1>1, <1>7, <2>1
    <3>2. CASE seen = <<>>
      <4>1. after = {} /\ unmoved' = Matching(C)
        BY <1>1, <1>6, <1>7, <3>2
      <4>2. Len(list) = 0
        <5>1. PICK p \in 0 .. Len(list), q \in 0 .. Len(list) :
                /\ IsCut(page, list, p, q)
                /\ q = p => p = Len(list)
                /\ p = 0
          BY <1>4, <3>2, <4>1, PageFromCursor DEF rest
        <5>2. Len(page) = 0 /\ Len(page) = q - p
          BY <2>1, <5>1, EmptySeq DEF IsCut
        <5> QED BY <1>5, <5>1, <5>2, LenProperties
      <4>3. Matching(C) = {}
        BY <1>5, <4>2, LenProperties DEF ToSet
      <4> QED BY <3>1, <3>2, <4>1, <4>3 DEF CursorIsLast
    <3>3. CASE seen # <<>>
      BY <1>7, <3>1, <3>3 DEF CursorIsLast
    <3> QED BY <3>2, <3>3
  <2>2. CASE page # <<>>
    <3>1. /\ seen' \in Seq(ChatIDs) /\ Len(seen') = Len(seen) + Len(page)
          /\ Len(seen) \in Nat /\ Len(page) \in Nat
          /\ \A i \in Len(seen) + 1 .. Len(seen) + Len(page) : seen'[i] = page[i - Len(seen)]
      BY <1>1, <1>7, <1>8, Concatenated DEF Joins
    <3>2. Len(page) > 0
      BY <1>8, <2>2, <3>1, EmptySeq
    <3>3. /\ seen' # <<>>
          /\ seen'[Len(seen')] = page[Len(page)]
      <4> DEFINE n == Len(seen)
                 m == Len(page)
      <4>1. n + m \in n + 1 .. n + m /\ (n + m) - n = m /\ n + m > 0
        BY <3>1, <3>2
      <4> QED BY <3>1, <4>1, EmptySeq
    <3>4. after' = {page[Len(page)]}
      BY <1>1, <2>2
    <3> QED BY <3>3, <3>4 DEF CursorIsLast
  <2> QED BY <2>1, <2>2
<1>11. ChatInv'
  BY <1>1 DEF ListingInv, ChatInv, ChatTypes, ChatOrderInStep, vars
<1>12. ASSUME ~lost' PROVE PagesInv'
  <2>1. ~lost /\ after \subseteq unmoved /\ PagesInv
    BY <1>1, <1>12 DEF ListingInv
  <2>2. PICK p \in 0 .. Len(list), q \in 0 .. Len(list) :
          /\ IsCut(page, list, p, q)
          /\ HasMore(rest) \/ q = Len(list)
          /\ seen = <<>> => p = 0
          /\ seen # <<>> => p > 0 /\ seen[Len(seen)] = list[p]
    BY <1>4, <1>6, <2>1, PageFromCursor DEF rest
  <2>3. seen # <<>> => list[p] \in u
    BY <1>6, <1>7, <2>1, <2>2
  <2>4. InOrder(seen, u, C) /\ ComeFirst(seen, u, C)
    <3>1. CASE seen = <<>>
      BY <3>1, EmptySeq DEF InOrder, ComeFirst, ToSet
    <3>2. CASE seen # <<>>
      BY <1>6, <1>7, <2>1, <3>2 DEF PagesInv
    <3> QED BY <3>1, <3>2
  <2>5. /\ InOrder(seen', u, C) /\ ComeFirst(seen', u, C)
        /\ q = Len(list) => u \subseteq ToSet(seen')
    BY <1>1, <1>2, <1>4, <1>6, <1>7, <2>2, <2>3, <2>4, PageExtends
  <2>6. /\ InOrder(seen', unmoved', C) /\ ComeFirst(seen', unmoved', C)
        /\ hasMore' \/ unmoved' \subseteq ToSet(seen')
    BY <1>1, <2>2, <2>5
  <2>7. /\ ChatCompletions' = C
        /\ \A i, j : Comes(C, i, j)' <=> Comes(C, i, j)
    BY <1>1 DEF vars, Comes, CreatedThenID, CreatedOf
  <2> QED BY <2>6, <2>7 DEF PagesInv, InOrder, ComeFirst
<1> QED BY <1>9, <1>10, <1>11, <1>12 DEF ListingInv

\* What others do keeps what stays in its place.
LEMMA ElsewhereKeeps == ListingInv /\ Elsewhere => ListingInv'
PROOF
<1> SUFFICES ASSUME ListingInv, Elsewhere PROVE ListingInv'
  OBVIOUS
<1> DEFINE C == ChatCompletions
           D == ChatCompletions'
<1>1. ChatInv'
  BY StepKeepsStore DEF ListingInv, Elsewhere
<1>2. Kept(C) /\ Kept(D)
  <2>1. Kept(C)
    BY ChatInvKeeps DEF ListingInv
  <2>2. (ChatInv => Kept(ChatCompletions))'
    BY ChatInvKeeps, PTL
  <2> QED BY <1>1, <2>1, <2>2 DEF Kept
<1>3. /\ unmoved' \subseteq unmoved /\ unmoved' \subseteq ToSet(ListChatCompletions(D))
      /\ \A id \in unmoved' : CreatedOf(D, id) = CreatedOf(C, id)
      /\ UNCHANGED <<clientVars, lost>>
  BY DEF Elsewhere
<1>4. ToSet(ListChatCompletions(D)) = Matching(D)
  BY <1>2, ListIsSorted DEF ListedBy
<1>5. ListingTypes'
  BY <1>3, <1>4 DEF ListingInv, ListingTypes, clientVars
<1>6. CursorIsLast'
  BY <1>3 DEF ListingInv, CursorIsLast, clientVars
<1>7. ASSUME ~lost' PROVE PagesInv'
  <2>1. PagesInv
    BY <1>3, <1>7 DEF ListingInv
  <2>2. \A i, j \in unmoved' : Comes(C, i, j) => Comes(C, i, j)'
    BY <1>3 DEF Comes, CreatedThenID, clientVars
  <2>3. seen' = seen /\ hasMore' = hasMore
    BY <1>3 DEF clientVars
  <2>4. InOrder(seen, unmoved, C)'
    BY <1>3, <2>1, <2>2, <2>3 DEF PagesInv, InOrder
  <2>5. ComeFirst(seen, unmoved, C)'
    BY <1>3, <2>1, <2>2, <2>3 DEF PagesInv, ComeFirst
  <2> QED BY <1>3, <2>1, <2>3, <2>4, <2>5 DEF PagesInv
<1> QED BY <1>1, <1>5, <1>6, <1>7 DEF ListingInv

LEMMA ListingInitially == ListingInit => ListingInv
PROOF
<1> SUFFICES ASSUME ListingInit PROVE ListingInv
  OBVIOUS
<1>1. ChatInv
  BY InitialStore DEF ListingInit
<1>2. ListingTypes /\ CursorIsLast
  BY ChatListingAssumption, EmptySeq
     DEF ChatListingAssumption, ListingInit, ListingTypes, CursorIsLast
<1>3. PagesInv
  BY DEF ListingInit, PagesInv, InOrder, ComeFirst
<1> QED BY <1>1, <1>2, <1>3 DEF ListingInv

LEMMA ListingStepKeeps == ListingInv /\ [ListingNext]_listingVars => ListingInv'
PROOF
<1>1. ASSUME ListingInv, UNCHANGED listingVars PROVE ListingInv'
  <2>1. UNCHANGED <<vars, clientVars, unmoved, lost>>
    BY <1>1 DEF listingVars
  <2>2. ChatInv'
    BY <1>1, <2>1, StepKeepsStore DEF ListingInv
  <2>3. ListingTypes'
    BY <1>1, <2>1 DEF vars, clientVars, ListingInv, ListingTypes, Matching
  <2>4. CursorIsLast'
    BY <1>1, <2>1 DEF clientVars, ListingInv, CursorIsLast
  <2>5. \A i, j : Comes(ChatCompletions, i, j)' <=> Comes(ChatCompletions, i, j)
    BY <2>1 DEF vars, clientVars, Comes, CreatedThenID, CreatedOf
  <2>6. PagesInv => PagesInv'
    BY <2>1, <2>5 DEF vars, clientVars, PagesInv, InOrder, ComeFirst
  <2> QED BY <1>1, <2>1, <2>2, <2>3, <2>4, <2>6 DEF ListingInv
<1> QED BY <1>1, GetPageKeeps, ElsewhereKeeps DEF ListingNext

\* While others save, update and delete, what a client has been given of the entries
\* that stay where they are is an initial part of them in the order of the list, and
\* its cursor is the last entry it was given.  (Paginate, Store.ListChatCompletions)
THEOREM ListingInvariant == ListingSpec => []ListingInv
PROOF
<1> QED BY ListingInitially, ListingStepKeeps, PTL DEF ListingSpec

\* A client that lists is given the list: each entry that stays once, in order, none
\* skipped, and all of them with the last page.  (PagesAreTheList, as the run checks it)
THEOREM PagesGiveTheList == ListingSpec => []PagesAreTheList
PROOF
<1>1. ListingInv => PagesAreTheList
  <2> SUFFICES ASSUME ListingInv, ~lost PROVE PagesAreTheList
    BY DEF PagesAreTheList
  <2> DEFINE C == ChatCompletions
             list == Ordered(ListChatCompletions(C))
  <2>1. Kept(C) /\ ListedFor(list, C) /\ PagesInv
    BY ChatInvKeeps, OrderedListIsSorted DEF ListingInv
  <2> HIDE DEF list
  <2>2. /\ Len(list) \in Nat /\ DOMAIN list = 1 .. Len(list)
        /\ ToSet(list) = Matching(C)
        /\ unmoved \subseteq ToSet(list) /\ Matching(C) \subseteq DOMAIN C
        /\ DOMAIN seen = 1 .. Len(seen)
    BY <2>1, LenProperties DEF ListedFor, ListingInv, ListingTypes, Matching
  <2>3. ASSUME NEW j \in 1 .. Len(seen), NEW k \in 1 .. Len(seen), j < k,
               seen[j] \in unmoved, seen[k] \in unmoved
        PROVE  \E m, n \in 1 .. Len(list) : m < n /\ list[m] = seen[j] /\ list[n] = seen[k]
    <3>1. Comes(C, seen[j], seen[k])
      BY <2>1, <2>3 DEF PagesInv, InOrder
    <3>2. PICK m \in 1 .. Len(list), n \in 1 .. Len(list) :
            list[m] = seen[j] /\ list[n] = seen[k]
      BY <2>2, <2>3 DEF ToSet
    <3>3. list[m] \in DOMAIN C /\ list[n] \in DOMAIN C
      BY <2>2, <2>3, <3>2
    <3>4. ~(n < m)
      BY <2>1, <3>1, <3>2, <3>3, ComesOrders DEF ListedFor
    <3>5. m # n
      BY <2>1, <3>1, <3>2, <3>3, ComesOrders
    <3> QED BY <2>2, <3>2, <3>4, <3>5
  <2>4. ASSUME NEW m \in 1 .. Len(list), NEW n \in 1 .. Len(list), m < n,
               list[m] \in unmoved, list[n] \in unmoved, list[n] \in ToSet(seen)
        PROVE  list[m] \in ToSet(seen)
    <3>1. SUFFICES ASSUME list[m] \notin ToSet(seen) PROVE FALSE
      OBVIOUS
    <3>2. Comes(C, list[n], list[m])
      BY <2>1, <2>4, <3>1 DEF PagesInv, ComeFirst
    <3>3. Comes(C, list[m], list[n])
      BY <2>1, <2>4 DEF ListedFor
    <3>4. list[m] \in DOMAIN C /\ list[n] \in DOMAIN C
      BY <2>2, <2>4
    <3> QED BY <2>1, <3>2, <3>3, <3>4, ComesOrders
  <2>5. ~hasMore => unmoved \subseteq ToSet(seen)
    BY <2>1 DEF PagesInv
  <2> QED BY <2>3, <2>4, <2>5 DEF PagesAreTheList, list
<1> QED BY <1>1, ListingInvariant, PTL

\* A client that lists takes nothing from the store: under it the store is still the
\* table of the most recent completions, step by step.  (GetPage, Elsewhere)
THEOREM ListingKeepsTheStore ==
  ListingSpec => []ChatOrderInStep /\ ImplementsRecentMap
PROOF
<1>1. ListingInv => ChatInv /\ ChatOrderInStep
  BY DEF ListingInv, ChatInv
<1>2. ListingInit => Recent!Init
  BY InitIsRecent DEF ListingInit
<1>3. [ListingNext]_listingVars => [Next]_vars
  BY DEF ListingNext, GetPage, Elsewhere, listingVars
<1>4. ListingInv /\ [ListingNext]_listingVars => [Recent!Next]_ChatTable
  BY <1>1, <1>3, StepIsRecent
<1>5. ListingSpec => [][Recent!Next]_ChatTable
  BY <1>4, ListingInvariant, PTL DEF ListingSpec
<1> QED BY <1>1, <1>2, <1>5, ListingInvariant, PTL DEF ListingSpec, ImplementsRecentMap, Recent!Spec

=============================================================================
