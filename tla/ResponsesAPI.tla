---------------------------- MODULE ResponsesAPI ----------------------------
(***************************************************************************)
(* The handlers of the Responses and Conversations endpoints over the      *)
(* store (internal/httpapi/endpoints_openai.go, sse_openai.go, and Prepare *)
(* in internal/adapters/openai/responses/responses.go).  The server runs   *)
(* one goroutine per request; a handler holds the store's lock only inside *)
(* a method of Store, so between two of its calls any other handler may    *)
(* run.  Each action is one call of a method of Store, with what the       *)
(* handler computes on its own around it.                                  *)
(*                                                                         *)
(* What a client puts in a request is chosen at the step that reads it.    *)
(* ResentItems says whether clients send or reference items their          *)
(* conversation holds; LateAppends whether a conversation may be deleted   *)
(* or evicted while a request uses it.                                     *)
(***************************************************************************)
EXTENDS Store

CONSTANTS Requests,           \* the requests the server works on at a time
          NoResponse,         \* a request without previous_response_id
          MaxInputItems,      \* bound: items in a request's input
          MaxOutputItems,     \* bound: items the upstream's answer becomes
          MaxContextLength    \* bound: items in the context of a stored response

ASSUME ResponsesAPIAssumption ==
  /\ NoResponse \notin ResponseIDs
  /\ MaxInputItems \in Nat /\ MaxOutputItems \in Nat

VARIABLE request

apiVars == <<vars, request>>

\* Where a handler is: it has looked previous_response_id up but not read its
\* context; it normalizes the input, or the items of a new conversation; it waits
\* for the upstream.
Phases == {"idle", "previous", "input", "items", "upstream"}

Idle == [phase |-> "idle", previous |-> NoResponse, conversation |-> NoConversation,
         context |-> <<>>, input |-> <<>>]

\* Prepared, with its phase.
PreparedRequests == [phase        : Phases,
                     previous     : ResponseIDs \cup {NoResponse},
                     conversation : ConversationIDs \cup {NoConversation},
                     context      : Seq(ItemIDs),
                     input        : Seq(ItemIDs)]

\* The type invariant of what handlers hold outside the store.
RequestsTypeOK == request \in [Requests -> PreparedRequests]

APIInit == Init /\ request = [q \in Requests |-> Idle]

------------------------------------------------------------------------------

\* shared.NewID: random ids, which nothing stored and no request has.
AnyResponseIDs == ResponseIDs

NewResponseIDs ==
  ResponseIDs \ (DOMAIN Responses \cup {request[q].previous : q \in Requests})

NewConversationIDs ==
  ConversationIDs
    \ (DOMAIN ConversationItems \cup {request[q].conversation : q \in Requests})

NewItemIDs ==
  ItemIDs \ (ItemsByID \cup UNION {ToSet(request[q].context) \cup ToSet(request[q].input) :
                                     q \in Requests})

ConversationsInUseKept ==
  LateAppends \/ \A q \in Requests :
                   request[q].conversation \in DOMAIN Conversations' \cup {NoConversation}

------------------------------------------------------------------------------

\* Prepare of a request that continues nothing.
ReceiveAlone(q) ==
  /\ request[q].phase = "idle"
  /\ request' = [request EXCEPT ![q].phase = "input"]
  /\ UNCHANGED vars

\* Prepare of a request in a conversation, up to ConversationItemsFor; a missing
\* conversation ends the request at once.
ReceiveInConversation(q, c) ==
  /\ request[q].phase = "idle"
  /\ c \in DOMAIN Conversations
  /\ request' = [request EXCEPT ![q] = [Idle EXCEPT !.phase = "input",
                                                    !.conversation = c,
                                                    !.context = ItemsOf(c)]]
  /\ UNCHANGED vars

\* Prepare of a request with previous_response_id, up to Store.Response.
ReceiveWithPrevious(q, r) ==
  /\ request[q].phase = "idle"
  /\ r \in DOMAIN Responses
  /\ request' = [request EXCEPT ![q] = [Idle EXCEPT !.phase = "previous",
                                                    !.previous = r]]
  /\ UNCHANGED vars

\* Store.ResponseContext, a second acquisition of the lock.  The code ignores
\* whether the response is still there: the context is then empty.
ReadInputsOnly(q) ==
  /\ request[q].phase = "previous"
  /\ LET r == request[q].previous
         context == IF r \in DOMAIN ResponseInputItems
                    THEN ResponseInputItems[r]
                    ELSE <<>>
     IN request' = [request EXCEPT ![q].phase = "input", ![q].context = context]
  /\ UNCHANGED vars

ReadContext(q) ==
  /\ request[q].phase = "previous"
  /\ LET r == request[q].previous
         context == IF r \in DOMAIN ResponseContextItems
                    THEN ResponseContextItems[r]
                    ELSE <<>>
     IN request' = [request EXCEPT ![q].phase = "input", ![q].context = context]
  /\ UNCHANGED vars

\* handleConversations, up to the normalization of its items.
ReceiveNewConversation(q) ==
  /\ request[q].phase = "idle"
  /\ request' = [request EXCEPT ![q].phase = "items"]
  /\ UNCHANGED vars

\* The next element of the list NormalizeInputItems reads.
AddItem(q, id) ==
  /\ request[q].phase \in {"input", "items"}
  /\ Len(request[q].input) < MaxInputItems
  /\ request' = [request EXCEPT ![q].input = Append(@, id)]
  /\ UNCHANGED vars

\* An element with an id the code makes or the client brings.
AddOwnItem(q, id) ==
  /\ id \in NewItemIDs \/ ResentItems
  /\ AddItem(q, id)

\* An item_reference that Store.Item resolves.
AddReferencedItem(q, id) ==
  /\ id \in ItemsByID
  /\ ResentItems \/ request[q].conversation = NoConversation
  /\ AddItem(q, id)

\* Prepare is done, the upstream is called.  (Instructions may stand in for items.)
CallUpstream(q) ==
  /\ request[q].phase = "input"
  /\ request' = [request EXCEPT ![q].phase = "upstream"]
  /\ UNCHANGED vars

\* The handler answers without a save: an unknown item_reference, nothing to send,
\* an upstream error, a client gone, or an endpoint that saves nothing
\* (handleCompact, handleInputTokens).
EndWithoutSave(q) ==
  /\ request[q].phase \in {"input", "items", "upstream"}
  /\ request' = [request EXCEPT ![q] = Idle]
  /\ UNCHANGED vars

\* The upstream's answer, plain or streamed, is saved.
SaveAnswer(q, status, output, store) ==
  LET prepared == request[q] IN
  /\ prepared.phase = "upstream"
  /\ ToSet(output) \subseteq NewItemIDs
  /\ \E r \in NewResponseIDs :
       SaveResponse(r, status, prepared.context \o prepared.input, output, store,
                    prepared.conversation, prepared.input)
  /\ request' = [request EXCEPT ![q] = Idle]

\* handleConversations, its save.
SaveNewConversation(q, metadata) ==
  /\ request[q].phase = "items"
  /\ \E c \in NewConversationIDs : SaveConversation(c, metadata, request[q].input)
  /\ ConversationsInUseKept
  /\ request' = [request EXCEPT ![q] = Idle]

\* The items an answer becomes: new ids, each once.
Outputs == {output \in UNION {[1 .. n -> ItemIDs] : n \in 0 .. MaxOutputItems} :
              \A i, j \in DOMAIN output : output[i] = output[j] => i = j}

\* The endpoints of stored objects that write, each one call of the store.
StoredResponse ==
  \E r \in ResponseIDs : DeleteResponse(r) \/ CancelResponse(r)

StoredConversation ==
  \E c \in ConversationIDs :
    \/ \E metadata \in Metadata \cup {Nil} : UpdateConversation(c, metadata)
    \/ DeleteConversation(c) /\ ConversationsInUseKept

APINext ==
  \/ \E q \in Requests :
       \/ ReceiveAlone(q) \/ ReceiveNewConversation(q)
       \/ ReadContext(q) \/ CallUpstream(q) \/ EndWithoutSave(q)
       \/ \E c \in ConversationIDs : ReceiveInConversation(q, c)
       \/ \E r \in ResponseIDs : ReceiveWithPrevious(q, r)
       \/ \E id \in ItemIDs : AddOwnItem(q, id) \/ AddReferencedItem(q, id)
       \/ \E status \in SavedStatuses, output \in Outputs, store \in BOOLEAN :
            /\ AppendWithinBounds(request[q].conversation, request[q].input \o output)
            /\ Len(request[q].context) + Len(request[q].input) + Len(output)
                 <= MaxContextLength
            /\ SaveAnswer(q, status, output, store)
       \/ \E metadata \in Metadata : SaveNewConversation(q, metadata)
  \/ (StoredResponse \/ StoredConversation) /\ UNCHANGED request

APISpec == APIInit /\ [][APINext]_apiVars

------------------------------------------------------------------------------

\* What a request works from is what its conversation was when it started, and no
\* turn has been lost from the conversation since, however many requests extend
\* it at once; and what a response was built from is the whole context of the one
\* it continues, unless that one has gone.  (Prepare, SaveResponse)
ContextsAreHistory ==
  \A q \in Requests :
    LET c == request[q].conversation
        r == request[q].previous
    IN /\ c \in DOMAIN Conversations =>
            IsPrefix(request[q].context, ConversationItems[c])
       /\ r \in DOMAIN Responses /\ request[q].phase \in {"input", "upstream"} =>
            request[q].context = ResponseContextItems[r]

\* While they are stored, the lists of a response never change and the list of a
\* conversation only gets longer at its end.  (SaveResponse, shared.NewID)
HistoriesOnlyGrow ==
  [][/\ \A r \in DOMAIN Responses \cap DOMAIN Responses' :
          /\ ResponseInputItems'[r] = ResponseInputItems[r]
          /\ ResponseContextItems'[r] = ResponseContextItems[r]
     /\ \A c \in DOMAIN Conversations \cap DOMAIN Conversations' :
          IsPrefix(ConversationItems[c], ConversationItems'[c])]_apiVars

\* Without repeated items only lists that outlived their conversation keep an item
\* alive that nothing else holds.  (deleteConversationLocked, SaveResponse)
LeaksAreOrphans ==
  ItemsByID \subseteq HeldItems
                        \cup UNION {ToSet(ConversationItems[c]) :
                                      c \in DOMAIN ConversationItems}

==============================================================================
