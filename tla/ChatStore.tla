------------------------------ MODULE ChatStore ------------------------------
(***************************************************************************)
(* The stored Chat Completions of internal/state/state.go: the maps        *)
(* ChatCompletions and ChatCompletionMessages and the slice                *)
(* chatCompletionOrder, under one lock.  Each method that writes is one    *)
(* action.  A completion is the pair of what the upstream answered         *)
(* (a member of Answers) and the metadata UpdateChatCompletion replaces.   *)
(***************************************************************************)
EXTENDS BoundedOrder, Functions

CONSTANTS ChatIDs,              \* ids of completions, chosen by the upstream
          Answers,              \* what the upstream may answer
          Metadata, EmptyMetadata,
          Nil,                  \* the metadata of a request that has none
          MessageLists,         \* message lists of a request and its answer
          MaxChatCompletions    \* the limit; 0 is no limit

ASSUME ChatStoreAssumption ==
  /\ MaxChatCompletions \in Nat
  /\ EmptyMetadata \in Metadata
  /\ Nil \notin Metadata

VARIABLES ChatCompletions, ChatCompletionMessages, chatCompletionOrder

vars == <<ChatCompletions, ChatCompletionMessages, chatCompletionOrder>>

Completions == [answer : Answers, metadata : Metadata]

Init ==
  /\ ChatCompletions = <<>>
  /\ ChatCompletionMessages = <<>>
  /\ chatCompletionOrder = <<>>

------------------------------------------------------------------------------

\* SaveChatCompletion, with the trailing eviction.
SaveChatCompletion(id, completion, messages) ==
  LET completions == Put(ChatCompletions, id, completion)
      lists       == Put(ChatCompletionMessages, id, messages)
      order       == Remember(chatCompletionOrder, id)
      evicted     == Evicted(order, DOMAIN completions, MaxChatCompletions)
  IN /\ ChatCompletions' = Restrict(completions, DOMAIN completions \ evicted)
     /\ ChatCompletionMessages' = Restrict(lists, DOMAIN lists \ evicted)
     /\ chatCompletionOrder' =
          AfterEviction(order, DOMAIN completions, MaxChatCompletions)

\* A nil metadata value is stored as an empty object.
MetadataOrEmpty(metadata) == IF metadata = Nil THEN EmptyMetadata ELSE metadata

\* UpdateChatCompletion: only the metadata changes, and not the order.
UpdateChatCompletion(id, metadata) ==
  /\ id \in DOMAIN ChatCompletions
  /\ ChatCompletions' =
       [ChatCompletions EXCEPT ![id].metadata = MetadataOrEmpty(metadata)]
  /\ UNCHANGED <<ChatCompletionMessages, chatCompletionOrder>>

\* DeleteChatCompletion.
DeleteChatCompletion(id) ==
  /\ id \in DOMAIN ChatCompletions
  /\ ChatCompletions' = Restrict(ChatCompletions, DOMAIN ChatCompletions \ {id})
  /\ ChatCompletionMessages' =
       Restrict(ChatCompletionMessages, DOMAIN ChatCompletionMessages \ {id})
  /\ chatCompletionOrder' = Forget(chatCompletionOrder, id)

Next ==
  \E id \in ChatIDs :
    \/ \E completion \in Completions, messages \in MessageLists :
         SaveChatCompletion(id, completion, messages)
    \/ \E metadata \in Metadata \cup {Nil} : UpdateChatCompletion(id, metadata)
    \/ DeleteChatCompletion(id)

Spec == Init /\ [][Next]_vars

------------------------------------------------------------------------------

\* The order slice, which alone drives eviction, names every stored completion
\* exactly once and nothing else, and the two maps have the same keys: a key the
\* slice misses could never be evicted, one it names twice or too long would
\* evict a newer completion in its place, and messages without a completion
\* would never be freed.  (rememberID, forgetID, evictChatCompletionsLocked,
\* deleteChatCompletionLocked)
ChatOrderInStep ==
  /\ InStep(chatCompletionOrder, DOMAIN ChatCompletions)
  /\ DOMAIN ChatCompletionMessages = DOMAIN ChatCompletions

\* The table of RecentMap that the two maps and the slice represent.
ChatTable ==
  Entries(chatCompletionOrder,
          [id \in DOMAIN ChatCompletions |->
             <<ChatCompletions[id], ChatCompletionMessages[id]>>])

\* An update replaces the metadata and leaves the answer and the messages.
MetadataUpdates ==
  {update \in (Completions \X MessageLists) \X (Completions \X MessageLists) :
     LET old == update[1]
         new == update[2]
     IN old[1].answer = new[1].answer /\ old[2] = new[2]}

Recent == INSTANCE RecentMap
            WITH Keys <- ChatIDs, Values <- Completions \X MessageLists,
                 Updates <- MetadataUpdates, Limit <- MaxChatCompletions,
                 table <- ChatTable

\* The stored completions, with their messages, are those of a table that keeps
\* the most recently saved ones: no save, update, eviction or deletion drops,
\* keeps or mixes up an entry it should not.  (all the chat methods of Store)
ImplementsRecentMap == Recent!Spec

==============================================================================
