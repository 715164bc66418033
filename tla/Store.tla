------------------------------- MODULE Store -------------------------------
(***************************************************************************)
(* The Responses and Conversations of internal/state/state.go, with the    *)
(* item index they share.  Every method that writes is one action, because *)
(* it holds the write lock from its first line to its last.                *)
(*                                                                         *)
(* A stored response is abstracted to its status, a stored conversation to *)
(* its metadata.  Maps are functions whose domain is the set of keys.      *)
(***************************************************************************)
EXTENDS BoundedOrder, ItemIndex, Functions

CONSTANTS ResponseIDs,
          ConversationIDs,
          NoConversation,         \* the empty conversationID argument
          Metadata, EmptyMetadata,
          Nil,                    \* the metadata of a request that has none
          Batches,                \* the item lists a caller may pass
          SavedStatuses,          \* the statuses a caller may save
          MaxResponses, MaxConversations,     \* the limits; 0 is no limit
          MaxConversationLength,  \* bound: the longest list an append builds
          MaxItemRefs,            \* bound: no append counts an item above it
          ResentItems,            \* may a batch repeat ids its conversation has?
          LateAppends             \* may a save name a conversation that is gone?

\* The handlers save only finished responses (StatusFromFinishReason).
ASSUME StoreAssumption ==
  /\ IsFiniteSet(ResponseIDs) /\ IsFiniteSet(ConversationIDs)
  /\ NoConversation \notin ConversationIDs
  /\ EmptyMetadata \in Metadata
  /\ Nil \notin Metadata
  /\ Batches \subseteq Seq(ItemIDs)
  /\ MaxResponses \in Nat /\ MaxConversations \in Nat
  /\ SavedStatuses \subseteq {"completed", "incomplete"}
  /\ ResentItems \in BOOLEAN /\ LateAppends \in BOOLEAN

VARIABLES Responses, ResponseInputItems, ResponseContextItems, responseOrder,
          Conversations, ConversationItems, conversationOrder,
          ItemsByID, itemRefCount

responseVars == <<Responses, ResponseInputItems, ResponseContextItems,
                  responseOrder>>
conversationVars == <<Conversations, ConversationItems, conversationOrder>>
itemVars == <<ItemsByID, itemRefCount>>
vars == <<responseVars, conversationVars, itemVars>>

Statuses == {"queued", "in_progress", "completed", "incomplete", "cancelled"}

Index == [byID |-> ItemsByID, refs |-> itemRefCount]

TypeOK ==
  /\ Responses \in [DOMAIN Responses -> Statuses]
  /\ DOMAIN Responses \subseteq ResponseIDs
  /\ ResponseInputItems \in [DOMAIN ResponseInputItems -> Seq(ItemIDs)]
  /\ DOMAIN ResponseInputItems = DOMAIN Responses
  /\ ResponseContextItems \in [DOMAIN ResponseContextItems -> Seq(ItemIDs)]
  /\ DOMAIN ResponseContextItems = DOMAIN Responses
  /\ responseOrder \in Seq(ResponseIDs)
  /\ Conversations \in [DOMAIN Conversations -> Metadata]
  /\ DOMAIN Conversations \subseteq DOMAIN ConversationItems
  /\ ConversationItems \in [DOMAIN ConversationItems -> Seq(ItemIDs)]
  /\ DOMAIN ConversationItems \subseteq ConversationIDs
  /\ conversationOrder \in Seq(ConversationIDs)
  /\ ItemsByID \subseteq ItemIDs
  /\ itemRefCount \in [ItemIDs -> Nat]

Init ==
  /\ Responses = <<>> /\ ResponseInputItems = <<>>
  /\ ResponseContextItems = <<>> /\ responseOrder = <<>>
  /\ Conversations = <<>> /\ ConversationItems = <<>>
  /\ conversationOrder = <<>>
  /\ ItemsByID = {} /\ itemRefCount = [id \in ItemIDs |-> 0]

------------------------------------------------------------------------------

\* deleteResponseLocked, on the index, for a set of stored responses: both lists
\* of each are released.
ReleaseOnlyContexts(index, ids, inputs, contexts) ==
  ReleaseItemRefs(index, Times(ids, contexts))

ReleaseResponses(index, ids, inputs, contexts) ==
  ReleaseItemRefs(ReleaseItemRefs(index, Times(ids, inputs)),
                  Times(ids, contexts))

\* The part of SaveResponse under "if store": replace what is stored under the
\* id, count both lists, then evict.
StoreResponse(r, status, contextItems, outputItems) ==
  LET full      == contextItems \o outputItems
      replaced  == {r} \cap DOMAIN Responses
      released  == ReleaseResponses(Index, replaced, ResponseInputItems,
                                    ResponseContextItems)
      counted   == AddItemRefs(AddItemRefs(RegisterItems(released, full), full),
                               contextItems)
      responses == Put(Responses, r, status)
      inputs    == Put(ResponseInputItems, r, contextItems)
      contexts  == Put(ResponseContextItems, r, full)
      order     == Remember(responseOrder, r)
      evicted   == Evicted(order, DOMAIN responses, MaxResponses)
      kept      == DOMAIN responses \ evicted
  IN [responses |-> Restrict(responses, kept),
      inputs    |-> Restrict(inputs, kept),
      contexts  |-> Restrict(contexts, kept),
      order     |-> AfterEviction(order, DOMAIN responses, MaxResponses),
      index     |-> ReleaseResponses(counted, evicted, inputs, contexts)]

NothingStored ==
  [responses |-> Responses, inputs |-> ResponseInputItems,
   contexts |-> ResponseContextItems, order |-> responseOrder, index |-> Index]

\* The list a conversation has, also one that has no entry.
ItemsOf(c) == IF c \in DOMAIN ConversationItems THEN ConversationItems[c] ELSE <<>>

\* SaveResponse.  A response that is not stored still extends its conversation;
\* the map Conversations is not consulted.
SaveResponse(r, status, contextItems, outputItems, store, c, currentInputItems) ==
  LET saved    == IF store THEN StoreResponse(r, status, contextItems, outputItems)
                           ELSE NothingStored
      newItems == currentInputItems \o outputItems
      index    == IF c = NoConversation THEN saved.index
                  ELSE AddItemRefs(RegisterItems(saved.index, newItems), newItems)
  IN /\ Responses' = saved.responses
     /\ ResponseInputItems' = saved.inputs
     /\ ResponseContextItems' = saved.contexts
     /\ responseOrder' = saved.order
     /\ ConversationItems' =
          IF c = NoConversation THEN ConversationItems
          ELSE Put(ConversationItems, c, ItemsOf(c) \o newItems)
     /\ ItemsByID' = index.byID
     /\ itemRefCount' = index.refs
     /\ UNCHANGED <<Conversations, conversationOrder>>

\* DeleteResponse.
DeleteResponse(r) ==
  /\ r \in DOMAIN Responses
  /\ LET kept  == DOMAIN Responses \ {r}
         index == ReleaseResponses(Index, {r}, ResponseInputItems,
                                   ResponseContextItems)
     IN /\ Responses' = Restrict(Responses, kept)
        /\ ResponseInputItems' = Restrict(ResponseInputItems, kept)
        /\ ResponseContextItems' = Restrict(ResponseContextItems, kept)
        /\ ItemsByID' = index.byID
        /\ itemRefCount' = index.refs
  /\ responseOrder' = Forget(responseOrder, r)
  /\ UNCHANGED conversationVars

\* UpdateResponse with the function the cancel endpoint passes.
CancelStatus(status) ==
  IF status \in {"queued", "in_progress"} THEN "cancelled" ELSE status

CancelResponse(r) ==
  /\ r \in DOMAIN Responses
  /\ Responses' = [Responses EXCEPT ![r] = CancelStatus(@)]
  /\ UNCHANGED <<ResponseInputItems, ResponseContextItems, responseOrder,
                 conversationVars, itemVars>>

------------------------------------------------------------------------------

\* SaveConversation: replace what is stored under the id, count the list, evict.
SaveConversation(c, metadata, items) ==
  LET replaced      == {c} \cap DOMAIN Conversations
      released      == ReleaseItemRefs(Index, Times(replaced, ConversationItems))
      counted       == AddItemRefs(RegisterItems(released, items), items)
      conversations == Put(Conversations, c, metadata)
      lists         == Put(ConversationItems, c, items)
      order         == Remember(conversationOrder, c)
      evicted       == Evicted(order, DOMAIN conversations, MaxConversations)
      index         == ReleaseItemRefs(counted, Times(evicted, lists))
  IN /\ Conversations' = Restrict(conversations, DOMAIN conversations \ evicted)
     /\ ConversationItems' = Restrict(lists, DOMAIN lists \ evicted)
     /\ conversationOrder' =
          AfterEviction(order, DOMAIN conversations, MaxConversations)
     /\ ItemsByID' = index.byID
     /\ itemRefCount' = index.refs
     /\ UNCHANGED responseVars

\* UpdateConversation: only the metadata changes; nil is stored as empty.
KeepNil(metadata) == metadata

MetadataOrEmpty(metadata) == IF metadata = Nil THEN EmptyMetadata ELSE metadata

UpdateConversation(c, metadata) ==
  /\ c \in DOMAIN Conversations
  /\ Conversations' = [Conversations EXCEPT ![c] = MetadataOrEmpty(metadata)]
  /\ UNCHANGED <<responseVars, ConversationItems, conversationOrder, itemVars>>

\* DeleteConversation.
DeleteKeepingItems(c) ==
  /\ c \in DOMAIN Conversations
  /\ LET index == ReleaseItemRefs(Index, Times({c}, ConversationItems))
     IN /\ Conversations' = Restrict(Conversations, DOMAIN Conversations \ {c})
        /\ ItemsByID' = index.byID
        /\ itemRefCount' = index.refs
  /\ conversationOrder' = Forget(conversationOrder, c)
  /\ UNCHANGED <<responseVars, ConversationItems>>

DeleteConversation(c) ==
  /\ c \in DOMAIN Conversations
  /\ LET index == ReleaseItemRefs(Index, Times({c}, ConversationItems))
     IN /\ Conversations' = Restrict(Conversations, DOMAIN Conversations \ {c})
        /\ ConversationItems' =
             Restrict(ConversationItems, DOMAIN ConversationItems \ {c})
        /\ ItemsByID' = index.byID
        /\ itemRefCount' = index.refs
  /\ conversationOrder' = Forget(conversationOrder, c)
  /\ UNCHANGED responseVars

------------------------------------------------------------------------------

\* What the callers of SaveResponse append to a conversation.  The handlers look
\* the conversation up when they prepare the request, so without LateAppends it is
\* still stored when they save; without ResentItems every request brings items of
\* its own.
MayAppend(c, newItems) ==
  \/ c = NoConversation
  \/ /\ LateAppends \/ c \in DOMAIN Conversations
     /\ ResentItems \/ ToSet(newItems) \cap ToSet(ItemsOf(c)) = {}

AppendWithinBounds(c, newItems) ==
  \/ c = NoConversation
  \/ /\ Len(ItemsOf(c)) + Len(newItems) <= MaxConversationLength
     /\ \A id \in ToSet(newItems) : itemRefCount[id] < MaxItemRefs

Next ==
  \/ \E r \in ResponseIDs, status \in SavedStatuses,
        context \in Batches, input \in Batches, output \in Batches,
        store \in BOOLEAN, c \in ConversationIDs \cup {NoConversation} :
       /\ MayAppend(c, input \o output) /\ AppendWithinBounds(c, input \o output)
       /\ SaveResponse(r, status, context \o input, output, store, c, input)
  \/ \E r \in ResponseIDs : DeleteResponse(r)
  \/ \E r \in ResponseIDs : CancelResponse(r)
  \/ \E c \in ConversationIDs, metadata \in Metadata, items \in Batches :
       SaveConversation(c, metadata, items)
  \/ \E c \in ConversationIDs, metadata \in Metadata \cup {Nil} :
       UpdateConversation(c, metadata)
  \/ \E c \in ConversationIDs : DeleteConversation(c)

Spec == Init /\ [][Next]_vars

------------------------------------------------------------------------------

\* Each order slice names every key of its map exactly once and nothing else;
\* otherwise an entry would never be evicted, or evicted in place of an older
\* one.  (rememberID, forgetID, the eviction loops)
ResponsesInStep == InStep(responseOrder, DOMAIN Responses)
ConversationsInStep == InStep(conversationOrder, DOMAIN Conversations)
OrdersInStep == ResponsesInStep /\ ConversationsInStep

\* After every method the maps respect their limits.
\* (evictResponsesLocked, evictConversationsLocked)
WithinLimits ==
  /\ MaxResponses > 0 => Cardinality(DOMAIN Responses) <= MaxResponses
  /\ MaxConversations > 0 => Cardinality(DOMAIN Conversations) <= MaxConversations

\* The ids in the lists of a response, and in the list of a conversation.
ResponseHolds(r) ==
  ToSet(ResponseInputItems[r]) \cup ToSet(ResponseContextItems[r])

HeldItems ==
  (UNION {ResponseHolds(r) : r \in DOMAIN Responses})
    \cup (UNION {ToSet(ConversationItems[c]) : c \in DOMAIN Conversations})

\* No method drops an item that a stored response or conversation still holds,
\* whatever order responses and conversations that share items are saved,
\* replaced, evicted and deleted in: an item_reference to it always resolves.
\* (addItemRefsLocked, releaseItemRefsLocked and all their callers)
NoDanglingItems == HeldItems \subseteq ItemsByID

\* An item nobody holds any more is gone, which the store's tests check case by
\* case ("unreferenced shared item still indexed").
NoLeakedItems == ItemsByID \subseteq HeldItems

\* How many of the lists the store keeps hold an id.
HoldCount(id) ==
  Times(DOMAIN ResponseInputItems, ResponseInputItems)[id]
    + Times(DOMAIN ResponseContextItems, ResponseContextItems)[id]
    + Times(DOMAIN ConversationItems, ConversationItems)[id]

\* Why no item dangles: an id is counted at least once for each list that holds
\* it, and is indexed exactly while it has a count.
RefsCoverHolds ==
  /\ \A id \in ItemIDs : itemRefCount[id] >= HoldCount(id)
  /\ ItemsByID = {id \in ItemIDs : itemRefCount[id] > 0}

\* Without appends to missing conversations, no list outlives its conversation.
NoOrphanLists == DOMAIN ConversationItems \subseteq DOMAIN Conversations

\* Why no item leaks when no save names a missing conversation and no request
\* repeats ids its conversation has: the counts are exact.
RefsAreExact == \A id \in ItemIDs : itemRefCount[id] = HoldCount(id)

\* The tables of RecentMap that the maps and their order slices represent.
ResponseTable == Entries(responseOrder, Responses)
ConversationTable == Entries(conversationOrder, Conversations)

RecentResponses ==
  INSTANCE RecentMap
    WITH Keys <- ResponseIDs, Values <- Statuses, Limit <- MaxResponses,
         Updates <- {<<status, CancelStatus(status)>> : status \in Statuses},
         table <- ResponseTable

RecentConversations ==
  INSTANCE RecentMap
    WITH Keys <- ConversationIDs, Values <- Metadata, Limit <- MaxConversations,
         Updates <- Metadata \X Metadata,
         table <- ConversationTable

\* The stored responses are the ones saved most recently, and so are the stored
\* conversations: the eviction in the middle of a save, a cancel, a metadata
\* update or an append never removes or revives another entry.
ImplementsRecentResponses == RecentResponses!Spec
ImplementsRecentConversations == RecentConversations!Spec

==============================================================================
