# Kimi-Compatible: specifications, model checks and proofs

Kimi-Compatible is an HTTP server in Go that offers the OpenAI, Anthropic and
Gemini APIs on top of one upstream, Kimi Chat Completions. Each request is
translated, sent upstream, and the answer translated back, at once or as a stream
of events. The server keeps its own store of responses, conversations and chat
completions in memory, because the upstream has none. What is hard in it is that
store (three bounded maps that share a reference-counted index of items), the
handlers that use it (one goroutine per request, which hold its lock only inside
single calls), and the event streams (a state machine per request, between an
upstream that may break and a client that may leave). Around these are pure
translations of what clients keep and send again: turns, blocks, tools and names.

## 1. Inventory

| Component | State | Operations | Interacts with |
| --- | --- | --- | --- |
| Store, `internal/state/state.go` | maps of responses, their input and context lists, chat completions and messages, conversations and their lists; an order slice per map; `ItemsByID`, `itemRefCount` | save, update, delete of each kind, with eviction; lookups; statistics | every handler calls it; one read-write lock covers each method |
| Responses and Conversations handlers, `httpapi/endpoints_openai.go` | what `Prepare` returns, held while the upstream works | create, retrieve, cancel, delete, compact, count tokens; create, update, delete conversations | the adapter, the store, the upstream |
| Responses adapter, `adapters/openai/responses` | none | `Prepare` (context lookup, input normalisation), items to chat messages, tools, output items | reads the store |
| Responses event stream, `httpapi/sse_openai.go` | which items have started, their indices, the text so far, tool calls by index | the callback on each upstream chunk, closing, saving | upstream client, store, client connection |
| Upstream client, `upstream/kimi` | one connection per call | `Chat`, `StreamChat`, `EstimateTokens` | calls the handler's callback |
| Anthropic Messages, `httpapi/sse_anthropic.go`, `endpoints_anthropic.go`, `adapters/anthropic` | block indices, stop reason, usage, tool calls | the stream; contents to messages and back, tools | upstream client |
| Gemini Generate Content, `httpapi/*_gemini.go`, `adapters/gemini` | none | the same; each chunk of a stream is translated alone | upstream client |
| Chat Completions, `endpoints_openai.go`, `sse_openai.go`, `adapters/openai/chat` | none | relay each chunk; tools; save, list, update, delete completions | upstream client, store |
| Kimi pass-through, `endpoints_kimi.go` | none | forward a chat or a token estimate, with the model filled in | upstream client |
| Shared helpers, `adapters/openai/shared` | none | tool names, pagination, ids, clones | all handlers |
| Router, authorization, JSON | none | dispatch, token check, body limit, error answers | all handlers |
| Configuration, debug log, start-up | flags | parsing, redaction, wiring | - |

What makes each of them correct:

- *Store.* An entry is evicted exactly when enough newer ones were saved. An item
  that a stored object holds can be resolved; an item nobody holds is gone.
- *Handlers.* A request works from a history its conversation really had, and its
  turn is neither lost nor written over by a concurrent one.
- *Responses stream.* Events are well formed and carry the indices of the final
  output, the client gets exactly one end, and what is stored is what was sent.
- *Anthropic stream.* Blocks are numbered one after the other, each started and
  stopped once; the message ends once, with the stop reason and the usage of the
  plain answer.
- *Forwarding endpoints.* Whatever refuses a request on its way, the client gets one
  answer; a stream carries the upstream's chunks and says that it is whole only if
  it is; a completion is stored exactly when it was asked for.
- *Adapters.* The items of a turn, or the blocks of a content, become the messages
  they came from in their order, and none is lost; results stand behind the calls
  they answer.
- *Tools and helpers.* Tool names stay distinct and lead back to the client's tool; a
  tool that is forced or allowed is sent; pages neither repeat nor skip what stays in
  the list.

The hazards behind these properties, each at its line, are in `PROJECT.json`.

## 2. Modules

| Module | Models | Checked / proved in |
| --- | --- | --- |
| `BoundedOrder` | `rememberID`, `forgetID` and the eviction loop, as operators on sequences | `ListProofs` |
| `ItemIndex` | `registerItemsLocked`, `addItemRefsLocked`, `releaseItemRefsLocked`, as operators on an index value | through `Store` |
| `RecentMap` | abstract: a table of the most recently saved entries | implemented by `ChatStore` and twice by `Store` |
| `ChatStore` | the stored chat completions | through `ChatListing`; `ChatListingProofs` |
| `ChatListing` | a client that pages through them, over `ChatStore` | `ChatListing.cfg` (module `MCChatListing`); `ChatListingProofs` |
| `Store` | responses, conversations and the item index | `StoreRecent.cfg` (module `MCStore`), and under handlers in `API*.cfg`; `ResponsesAPIProofs` |
| `ResponsesAPI` | concurrent handlers over `Store` | `API*.cfg` (module `MCResponsesAPI`); `ResponsesAPIProofs` |
| `KimiStream` | `StreamChat`: the upstream connection | through the three below |
| `EventStream` | a client's connection and the events written to it; what it means that events are in order | `EventStreamProofs`; through the three below |
| `ResponseStream` | `streamResponse` over `KimiStream` and `EventStream` | `ResponseStream.cfg`; `ResponseStreamProofs` |
| `AnthropicStream` | `streamAnthropicMessage` over the same two | `AnthropicStream.cfg`; `AnthropicStreamProofs` |
| `Endpoints` | a request to an endpoint that forwards, from the router to the answer, with the streams that relay chunk by chunk, over the same two | `Endpoints.cfg`; `EndpointsProofs` |
| `GeminiAnswers` | what the Gemini adapter makes of an answer, whole or chunk by chunk, and how chunks are put together | through `Endpoints`; `EndpointsProofs` |
| `Conversation` | what the next two have in common: their bounds, and what is gathered from a list | through these; `AdapterProofs` |
| `TurnRebuild` | `InputItemsToChatMessages` of Responses, and the items turns are stored as | `TurnRebuild.cfg`; `AdapterProofs` |
| `BlockTurns` | `ContentToChatMessages` of Anthropic and Gemini, and the blocks of their answers | `BlockTurns.cfg`; `AdapterProofs` |
| `ToolNames` | Responses: `UniqueToolName`, the tool map, `tool_choice`, `allowed_tools` | through `AdapterTools`; `AdapterProofs` |
| `AdapterTools` | Chat, Anthropic and Gemini: tools, functions, forced and allowed ones, over the definitions of `ToolNames` | `ToolNames.cfg` (module `MCToolNames`); `AdapterProofs` |

### Store

Every writing method takes the lock on its first line and gives it back on its
last, so each is one action, with the release of what it replaces and the trailing
eviction inside. Variables have the names of the fields. A map is a function whose
domain is its set of keys, an item list a sequence of item ids. `ItemsByID` is the
set of ids with an entry: the body of an item is not modelled, so the fact that the
last registration of an id decides its body is outside the model. A response is
its status, a conversation its metadata, a chat completion the pair of an answer
and metadata. `SaveResponse` follows the code: it does not look at `Conversations`,
and it appends even when the response itself is not stored.

Two constants say what callers do. `LateAppends`: a save may name a conversation
that is gone. `ResentItems`: the items a save appends may repeat ids the
conversation has. `Next` restricts calls accordingly, and the properties that hold
in each of the four cases differ (section 4). The store is checked under the handlers
of `ResponsesAPI`, which make all its calls; `StoreRecent.cfg` runs it alone, for what
needs more keys than items.

### Handlers

`ResponsesAPI` has one record per request, the `Prepared` value and where the
handler is. One action is one call of a store method, with the handler's own work
around it, so between any two calls other handlers run: between
`Store.Response` and `Store.ResponseContext` of one `Prepare`; between the
resolution of one `item_reference` and the next; between `Prepare` and
`SaveResponse`, which is the whole time the upstream takes. What a client sends is
chosen where it is read. Ids made by `NewID` are fresh: 128 random bits. The
upstream's answer is a list of new items. Endpoints that end without a save
(`compact`, `input_tokens`, errors, a client gone) are `EndWithoutSave`.

### Event streams

`KimiStream` is the loop of `StreamChat`: it may be refused, deliver chunks, end,
or break (reset, over-long line, timeout, context cancelled). A line that the code
skips is no step. A body that ends without `[DONE]` is a regular end, as in the
code. `EventStream` is the other side: the events written, and whether a write has
failed. Each step that writes chooses how many of its events reach the client; once
a write has failed none succeeds. `ResponseStream` and `AnthropicStream` extend both
with a handler: its local variables, by name; one action per call of the callback
(`Chunk`), which stops at the first write that fails and so makes `StreamChat`
return an error; the failure path; and what comes after the stream, the items'
closing, one action per tool call of the loop (`EmitCall`), the save and the end. A
chunk says whether it has a reasoning and a text delta, which tool-call indices it
has pieces for and which finish reason. The two or three events that open an item in
a Responses stream are one event of the model, and so are those that close it. Left
out are the text of deltas, the arguments of tool calls, a `tool_calls` list that is
present and empty, and, in `ResponseStream`, usage. `AnthropicStream` keeps of usage
whether it was given, was made zero by a chunk without it, or was never set.

### Forwarded requests

`Endpoints` follows one request to any endpoint that forwards to the upstream, and to
those that only report. What
the request brings is chosen where the code looks at it: the method, the token, the
path below `/models/`, the body, the payload. `stage` is the place in the code: the
router, `authorize`, the handler before and after `readJSON` and `BuildKimiPayload`,
the call, the stream. A plain answer is one event with its status. The boolean that
`handleGeminiModels` returns, on which the router answers 404 itself, is the stage
`unhandled`; so an answer too many, or none, is a state the model can reach. A streamed message is `AnthropicStream`, and the
Responses endpoints are `ResponsesAPI` and `ResponseStream`.

Of the three streams here only Gemini's looks at what a chunk holds: a delta of
reasoning, text and calls, and perhaps a finish reason, or no choice at all where the
upstream reports its usage. `GeminiAnswers` has the translation: `ResponseFromKimi` for
an answer that is not streamed, `StreamChunkFromKimi`, which has it treat a delta as if
it were a message, for a chunk. Two history variables follow both ways at once. `whole`
is the upstream's answer, the chunks merged before translation; `Unstreamed(whole)` is what
the client would have been answered without a stream. `got` is what the client makes of
the responses it was sent, each translated on its own. A text is the sequence of its
fragments. The calls of a chunk are pieces of consecutive calls of the answer, which go
on or begin; the id is in a piece that begins a call, and arguments are JSON only once
all their pieces are together. Pieces that make no JSON, and calls of which only the
first piece came, are possible too. Names and the text of arguments are left out.

### Turns, blocks, names and pages

`TurnRebuild` builds a conversation turn by turn and input by input, and evaluates
`InputItemsToChatMessages` on its items in every state. Its reference is not another
scan of the items: `expected` grows with the messages as they are exchanged. Texts
are tags. Items come from the store, with the hidden fields `_upstream_turn_id` and
`_upstream_reasoning_content`, or from a client that sends them again without
these, possibly with the calls before the text.

`BlockTurns` has a client that keeps all contents and sends them with each request, as
clients of these two APIs do. In a turn of the client any list of up to three blocks
is tried: text, media, blocks that are only described, thinking, results of the calls
before. The lists that wait for a flush (`textParts`, `contentParts`) are fields of
the state of the pass. Gemini clients may or may not keep the ids of calls; Anthropic
clients have to.

`ToolNames` takes the definitions of a request one by one, as the code does. The
strings `UniqueToolName` tries for a raw name are an arbitrary list per raw name
that begins with its sanitised form, chosen in `Init`; so digests collide with each
other and with names that clients chose. A search through a Go map is the set of
all entries it may find. An entry of `allowed_tools` is an object that may leave out
type, name or namespace, or a string; the tools that `allowed_tools` leaves are the
places they have in the list. `AdapterTools` looks at the same definitions through the other
three endpoints, which keep no map: each property is evaluated, in every state, for
each tool a client could force and each set it could allow.

`ChatListing` adds a reader to `ChatStore`. Each page is one action: the lock is held
once, for `ListChatCompletions`. Two history variables record which entries have
stayed in the list unchanged and whether a cursor was gone when it was used.

## 3. Runs

| Run | Instance | Shows |
| --- | --- | --- |
| `store_recent` | 3 responses, 3 conversations, limits 2, 1 item that is never saved | both maps implement `RecentMap` although appends and updates interleave; orders in step, limits kept |
| `api_open` | 2 requests, 2 items, 2 responses over 1, 1 conversation, anything allowed | counts cover holds; no dangling items; contexts are history; histories only grow |
| `api_races` | 2 requests, 2 conversations over 1, items never repeated, conversations may go while in use | counts exact; only orphaned lists leak |
| `api_resent` | 1 conversation, which stays while in use; clients may resend items | violation: a resent item leaks |
| `api_late` | as `api_races` | violation: a conversation deleted while in use leaks |
| `response_stream` | 3 chunks, 3 tool-call indices | six safety properties and `ClientIsAnswered` |
| `anthropic_stream` | 3 chunks, 2 tool-call indices, 5 finish reasons, usage | blocks followed and numbered; stopped messages whole; stop reason and usage as unstreamed; `ClientIsAnswered` |
| `endpoints` | 15 kinds of path; 3 chunks of at most 2 pieces; a word, 2 calls | one answer; whole streams; completions saved as asked for; what a Gemini stream keeps of the unstreamed answer; `ClientIsAnswered` |
| `turn_rebuild` | 4 steps, up to 3 of them turns, 2 calls a turn | nothing is lost; calls of a turn stay together; regular turns are rebuilt |
| `block_turns` | 4 contents, 3 blocks each, 2 calls an answer, two adapters | said in order; answers come back; results follow their calls |
| `chat_listing` | 3 ids, limit 2, 2 answers of different age, 2 metadata values, pages of 1 or 2 | `ChatStore` implements `RecentMap`; order in step; pages are the list |
| `tool_names` | 4 definitions out of 5, 3 raw names, 4 strings | names unique; calls map back; choices find their tool; forced and allowed tools are sent |

Why the bounds suffice. Eviction, replacement and re-insertion all happen with one
key more than the limit. A count goes wrong with one item held by two lists, and an
orphan needs two conversations over a limit of one, or one and a deletion. The
races need two requests: one that waits and one that acts. In the streams, three
chunks allow each order of reasoning and text, a delta after both have started,
and tool calls that come in a later chunk, out of order or with a gap; the failure
of a write or of the upstream is possible at each point. Four steps hold
a question, an answer with two calls, and both outputs; three turns in a row are the
fewest in which a text may come by the calls of two other turns. A block needs a neighbour on each side, which three blocks have, and a
result needs the answer before it and something after. Three raw names need three
tries each. In `endpoints` every refusal is one step, so only the streams need depth:
with three chunks a piece can come first, between and last, and the chunk that finishes
may have one before and one after it. Two calls and two pieces in a chunk give a call in
one chunk, one cut over two or three, two in one chunk, and one that goes on after the next
began. `MaxConversationLength`,
`MaxContextLength`, `MaxInputItems`, `MaxOutputItems`, `MaxItemRefs`, `MaxChunks`,
`MaxTurns`, `MaxSteps`, `MaxBlocks`, `MaxCalls`, `MaxPieces`, `MaxTools` and `MaxSeen` bound what would grow
for ever; each is a guard on the step that would exceed it. Items, responses, conversations and requests are symmetric
in the runs that declare it; no liveness property is checked under symmetry.

Deadlock is checked in every run. A handler ends in a step `Over`, a conversation in
`Done` and a list of tools in `Normalized`, which change nothing.

Types are checked where they can go wrong through a sequence of calls, in `api_open`
(a metadata that is nil), and proved for the store, alone and under its handlers, the
two streams and the forwarded request. The modules about turns, blocks, names and pages have variables
that only grow by what their guards allow; a type invariant would say no more.

Fairness. Only the handlers that end need it: weak fairness of their next-state relation;
in `Endpoints` of every step but the relaying of a chunk (`Proceed`), since no chunk need come
while the end of the stream, by the upstream or by the timeout, must. The handler's goroutine is scheduled, an upstream that falls silent is cut off by
the HTTP client's timeout, which covers the body and which the configuration
requires to be positive, and a write ends when the client reads or its
connection fails (the server sets no write timeout, so a client that neither reads
nor closes can hold a handler; this is assumed away).

## 4. What leaks, and when

`NoLeakedItems` says that an item no stored object holds is gone. The store's tests
assert it case by case. It depends on the callers:

| | items never resent | items resent |
| --- | --- | --- |
| conversations in use stay | holds (`NothingLeaksUnderHandlers`) | fails (`api_resent`) |
| conversations may go | fails (`api_late`); leaks are orphan lists (`OnlyOrphansLeak`) | fails |

The first column is proved, for the handlers as they interleave (`ResponsesAPIProofs`):
that nothing leaks in the upper case, and in both that no count is ever off and that
each leak is the list of a conversation that is gone, which the run `api_races` shows
on a small instance.

`api_resent`: a conversation holds item `i`; a request in it sends `i` again (with
its id, or as an `item_reference`). `SaveResponse` counts `i` a second time for the
same list; deleting the conversation releases it once. `i` stays indexed.

`api_late`: a request in conversation `c` waits for the upstream; `c` is deleted or
evicted; `SaveResponse` then creates `ConversationItems[c]` anew. No endpoint can
reach that list: lookup and deletion ask `Conversations`, eviction the order slice.

Neither drops anything that is held: `NoDanglingItems` holds in all four cases.

Two more observations that no run counts as a violation, since nothing in the
repository contradicts them. A response deleted between the two lookups of
`Prepare` lets the request continue with an empty context. `CancelResponse` never
finds a response to cancel, since only finished ones are stored. And one about a
document: the README lists `POST /v1/conversations/{conversation_id}` as "Append to
or update a local Conversation", while the handler only replaces the metadata.
In the stream, tool calls after a gap in the upstream's indices are lost;
`NoCallLost` says that none is lost without a gap.

Three of the Anthropic stream, which the properties exclude by a condition they
name (`BlocksAreFollowed`, `StreamEndsAsUnstreamed`). Thinking that begins after text changes `textIndex` while the text block is
open, so later text and the block's stop carry an index that was never started
(`ReasonedFirst`). When the upstream ends tool calls with a finish reason other
than `tool_calls`, the streamed stop reason depends on whether the reason or the
calls came in the later chunk. And
`UsageFromKimi` returns zeros where there is no usage, never nil, so a chunk without
usage overwrites what an earlier one reported with zeros: the usage is right only if
it comes last, where the upstream sends it.

Of the forwarding endpoints: a chat completion that is streamed is not stored, even if
the request says `store` (`SavedAsAnswered`); a Gemini stream that ends well ends
without a mark. `GeminiStreamAsUnstreamed` says exactly where a Gemini stream differs from
the same answer unstreamed. Each piece of a call becomes a call of its own, and pieces
that are no JSON become the `input` of one, so the calls are the same if and only if each came in one
chunk. Every chunk has a `finishReason`, `STOP` where the upstream gave none: the last
one a client sees is right if and only if the chunk that finishes comes last or says
`STOP` itself; a chunk of usage behind one that says `MAX_TOKENS` turns it into `STOP`.
Thoughts and text are always the same.

Of the adapters and helpers:

- A streamed turn whose reasoning begins after its text is stored as message,
  reasoning, calls; the scan stops at the reasoning item, and the turn becomes two
  messages, both with the reasoning. Two turns without an input between them may
  swap text. `TurnsAreRebuilt` excludes both by `regular`; nothing is lost in either.
- A text that is stored without a turn, since its turn had no calls, takes along the
  calls of all turns that follow it until an input or another text comes
  (`responses.go:266-273`): the calls of several turns may end up in one message. So
  `CallsStayTogether` says that a turn's calls are never spread over messages, and that
  a message with the calls of two turns has a text, which is of neither. With two turns
  this does not show; three are needed.
- Responses: two definitions whose namespace and name join to one string, or a function and a
  custom tool of one name, get one upstream name, and the later one's entry in the
  map (`Distinguished`).
- The thinking, the text and the calls of one Anthropic or Gemini answer come back to
  the upstream as a message each (`AnswersComeBack` asks for all of them and their
  order, not for one message). A Gemini call that has no id gets one that is made up
  for the request, while the response to it names none (`keepsIDs`).
- Chat, Anthropic and Gemini send sanitised tool names and keep no map back: a client
  whose tool name has other characters is called by a name it did not define.
  `allowed_tools` that match no tool leave none to send beside a choice that requires
  one, while Responses then sends all. `ChoicesAreSent` speaks of tools that the
  request defines.
- A `tool_choice` that fits two tools picks either, as Go orders the map
  (`Unambiguous`).
- A cursor that was deleted, evicted or filtered out ends the listing with an empty
  page that says there is no more (`lost`). The list of input items may name an item
  twice; the cursor then always finds the first (not modelled).

## 5. Proofs

All theorems hold for every value of the constants that satisfies the named
assumptions (finite sets of ids, natural limits, batches that are sequences of item
ids). No theorem uses a bound of a run.

### The store

`ListProofs` shows what the operators on order slices do: `Forget` and
`Remember` keep a slice in step with its map, the eviction loop exists, leaves the
map within its limit, and keeps the rest in step. Its second part is about
`Entries`, the table that a map and its slice represent: what a save, an update, a
deletion and an eviction make of the map and the slice is what `RecentMap` makes of
the table. The other parts are about lists in general and serve the adapters (see Blocks).
None of these lemmas says anything about responses or conversations.

The first part of `ResponsesAPIProofs` proves the inductive invariant `IInv` of `Store`. `NoDanglingItems`
alone is not inductive: to delete a response is safe only if the items of other
lists have counts of their own. The strengthening is `RefsCoverHolds`, with types,
with the domains of the three response maps, and with orders in step (without
which an eviction could release a list whose key is not in the map). Two parts are
conditional: no list outlives its conversation, unless `LateAppends`; and each count
equals the number of lists, if what is saved is new to its conversation. That second
condition is the parameter of `IInv`: the store alone guarantees it only under
`Exact`, the handlers guarantee it in more cases. There is one lemma
per action and conjunct, and from the invariant follow `TypeCorrect`,
`OrdersStayInStep`, `LimitsHold`, `CountsCover`, `ItemsNeverDangle`, and, assuming
neither `LateAppends` nor `ResentItems`, `ItemsNeverLeak` and `CountsAreExact`.

`ResponsesAreRecent` and `ConversationsAreRecent` are the two refinements: `Init` is
the empty table, and each method is, by its key, one `Save`, `Update` or `Delete` of
`RecentMap`, or leaves the table alone. Types and orders in step are all that this
needs of the invariant, and `ListProofs` does the rest. (In `RecentMap`, a
table without a key is given by `RemoveAt`, because the provers know nothing of
`SelectSeq`.)

### Chat completions

`ChatListingProofs` proves three things about the chat completions, for any ids, answers,
limits and page sizes. `ChatStoreInvariant`: slice and messages stay in step with the map.
`ChatCompletionsAreRecent`: the store is the table of `RecentMap`, each method one
step of it.

The third is about a client that lists page by page while others write.
`PagesAreTheList` is not inductive: it compares what the client has seen with the list as it
is now, and the next page depends on the cursor alone. The strengthening `ListingInv` says
that the cursor is the last entry seen (`CursorIsLast`), and that of the entries that
stay in place, those of the pages are in order and come before all others
(`InOrder`, `ComeFirst`), where "before" is the order by time and id itself, which no
write to another entry changes. That a page keeps this (`PageExtends`) needs the list
to be sorted: `SortByCreatedThenID` is the sorted list of a set, and that any finite set has
one is proved by counting for each entry those that come before it (`SortedListExists`).
`PagesGiveTheList` turns it back into places of the list. Writes by others
(`ElsewhereKeeps`) only make fewer entries stay. Without the condition `~lost` none of this
holds: a cursor that moved points elsewhere.

### The handlers

The second part of `ResponsesAPIProofs` carries the invariant over to the concurrent handlers. A
handler's save is a step of `Store` with other arguments, so `IInv(~ResentItems)` is
inductive under `APINext`, given what each request holds:

- `RequestsTypeOK`, the types;
- `Sound`: a request without a conversation or a previous response holds nothing of
  them; what it holds of a conversation is a beginning of the list, as long as that is
  stored; what it holds of a previous response is its context. This is
  `ContextsAreHistory` with the phases it needs, and it is preserved by the steps of
  *other* requests because `SaveResponse` only appends and `NewID` gives a response an
  id that no other request has;
- `InputIsOwn`, if nothing is resent: the items a request will append are in no index
  and in no other request. That is why an append never counts an item twice, and with
  two requests at once it cannot be said of the store alone.

From it follow, for any number of requests, `RequestsTypeCorrect`,
`CountsCoverUnderHandlers`, `ItemsNeverDangleUnderHandlers`, `RequestsSeeHistory` and
the action property `HistoriesAreKept`; assuming `~ResentItems`,
`CountsAreExactUnderHandlers` and `OnlyOrphansLeak`; and, assuming besides that
conversations in use stay, `NothingLeaksUnderHandlers`. The assumptions are the two
that the violations of section 4 each drop.

### The streams

`EventStreamProofs` has the lemmas on which any event stream rests: a write only
extends what was sent, by a prefix of the events; a list of events that is in order
on top of what was sent stays so when it is cut short; and the lists the handlers
write (opening and delta, opening and closing) are in order if the item is new, or
open at that index. It also has what such a list is made of (`DeltaEventsShape`) and
what a write adds to what was sent (`WriteAdds`).

`ResponseStreamProofs` proves `IInv` of `ResponseStream`, for any number of chunks
and any tool-call indices. Order of events is not inductive alone, nor is the place
of an item in the output: one must know that a started item has been opened at the
index the flags give (`OpenedInv`), that the two indices differ (`IndexInv`), that
before the stream ends every event is about a started item and none is closed
(`DeltasInv`), that a tool call in the output has an index below the loop's
(`CallsInv`, so that it is opened once), and how the phase relates to upstream,
client and store (`PhaseInv`). One lemma per action. From it follow `TypeCorrect`,
`EventsAreInOrder`, `IndicesArePlaces`, `ResponseEndsOnce` and `SavedIffCompleted`.
Two more invariants are proved on top of it: `OutputInv`, that the output has the tool
calls the loop has come by, each once; and `SeenInv`, that the text held is as much as
the deltas sent, and that the items a client has seen opened and closed are those of
the output. From these follow `CallsAreKept` and `StoredIsSeen`.

`AnthropicStreamProofs` proves `IInv` of `AnthropicStream`, for the same generality.
Here an index is not stored but counted again from the flags when blocks are closed,
so the invariant has the numbers given out so far: without a gap, as many as blocks
have started, and during the loop as many as `nextIndex` says (`NumberInv`), if the
upstream reasons before it answers. That a stopped message is whole needs what a client
knows that has missed nothing (`WholeInv`), and the stop reason that it is the one of
the chunks so far (`ReasonInv`). From it follow `TypeCorrect`, `BlocksAreInOrder`,
`StoppedIsWhole` and `EndsAsUnstreamed`.

`EndpointsProofs` proves `IInv` of `Endpoints`, for any number of chunks. That a client
gets one answer needs that nothing is sent, and no connection used, before the answer
or the stream (`QuietInv`); that `[DONE]` means a whole stream needs that as long as
`StreamChat` has not failed as many events were sent as chunks delivered (`RelayInv`);
what is stored needs that a request on the plain path is not a stream (`SaveInv`).
From it follow `TypeCorrect`, `RequestsAnsweredOnce`, `StreamsRelayWhole` and
`CompletionsSavedAsAnswered`.

`GeminiStreamsAreWhole` needs two more invariants on top, for any number of chunks,
calls and pieces. `WholeInv` keeps the types of the upstream's answer, that each call has at least
one piece, and that it was finished by a chunk that was delivered. `HeardInv` is what
the property becomes if it must be inductive: while no delivery has failed the client
has the thoughts and text of the answer; its calls are their translations if every call
is whole, and it has more of them than the answer if one is not; and the last
`finishReason` is that of the last chunk. That a client has too many calls is the form in which "different" is kept by
a step: merging a piece into a call only makes it longer (`MergeCallsWhole`,
`MergeUnheard`), while the client gets a call more.

### Names of tools

The first part of `AdapterProofs` proves `IInv` of `ToolNames`, for any tools, any number of them and
any candidates. The invariant is that each name is the first candidate of its string
that no other string has (`NamesInv`), not only when it is given but ever after: a name
that was taken stays taken. So a string that comes again gets its name again. That the
loop of `UniqueToolName` ends with a free name is a counting argument (`SomeFree`): the
other strings have one name each, and there are fewer of them than candidates. And a
name maps to a tool that is sent under it (`MapInv`). From these follow
`ToolNamesAreUnique` and `ToolCallsMapBack`; `ToolChoicesFindTheirTools` takes the four
forms of a choice or an entry one by one. `AdapterChoicesAreSent` is about the three
adapters that sanitise only: a filter keeps some places of the list of names and leaves gaps,
so what is kept has the name of the tool at that place (`KeepsSome`), and of several
functions with one name the first is kept (a least place, by `LeastNumber`). The one assumption on the tools is that a
definition is a function or a custom tool and has a name, since the code drops others.

### Blocks

The second part of `AdapterProofs` proves the three properties of `BlockTurns`, for any
number of contents, blocks and calls. As a statement about states the invariant is
short (`TurnsInvariant`): questions and answers take turns; an answer's content is what
`ContentBlocksFromMessage` makes of the upstream's message; a client makes no calls, and
its results are of calls of the answer before. What is long is what one pass of
`ContentToChatMessages` makes of a list of any length. The pass is a recursive function
`after`, and that such a function exists has to be proved first (`Iteration`,
`PassExists`). Then:

- what the messages tell, together with what waits in `textParts` and `contentParts`,
  grows with every block by what the block tells (`PassAdds`) and is unchanged by a
  flush (`FlushKeepsValue`). So nothing can be lost or overtaken, and a content is told as it
  was given (`ContentTold`). One lemma serves texts, calls and reasoning alike: what
  is gathered of a message is a parameter (`Reads`). `AllIsSaidInOrder` and
  `AnswersAlwaysComeBack` follow;
- a run of blocks that are messages of their own becomes a run of messages (`OwnRun`),
  and before and after it only texts are added (`PassGrows`). So the calls of an answer
  are its last messages (`CallsComeLast`), results that are given first are the first
  (`ResultsComeFirst`), and side by side they are what `ResultsAlwaysFollow` says.

The lemmas about lists that this takes are those of `ListProofs`. An induction over a
list is one over its places, and one over numbers up to `n` is `UpTo`: a set that has 0, and the next of each number it has, has them all, since
otherwise there is a least number that it has not (`LeastNumber`, from the
well-foundedness of one fixed relation). This takes a set where the library's theorem
takes an operator. `FlattenFollows` and the lemmas after it say the same of
`FlattenSeq`, from its definition by a recursive function.

### Turns as items

The third part of `AdapterProofs` proves the three properties of `TurnRebuild`, for any
number of turns, calls and inputs. The invariant of the items is `ItemsInv`: their types
(`RebuildTypeOK`, which tells items of the store from those a client sends again),
every item is older than what comes next (`TagsInv`), the stored calls of a turn lie
side by side (`TogetherInv`), and a stored text that names no turn is of a turn without
calls (`TextsInv`). That each of the forms in which `OutputItems` gives a turn keeps it
is `NewItemsFacts`.

The scan is a recursive function that is defined from the end of the list: what it
makes of the items from a place on is the message of the item there and what it makes
of them from `next` on, where `next` depends on the items. That such a function exists
is `Filling` and `ScanExists`, and an induction over it goes downwards (`DownTo`). Each
step takes one of three forms (`StepTaken`): an item alone, a text with the calls
after it, calls with the texts after them. Then:

- for `NothingIsEverLost`, what a field of the messages holds is related to what a field
  of the items holds, by equality for calls and outputs, and by equality but for the
  order for texts. Either relation is kept by joining lists (`Joinable`), so it holds of
  a scan if it holds of each form of a step (`ScanGathers`, `KeptByScan`);
- for `CallsAlwaysStayTogether`, a message has calls of the items it stands for only, and
  of no turn that has calls further on (`StepApart`, from `TogetherInv`), so no later
  message can have any of them (`AddApart`);
- for `TurnsAreAlwaysRebuilt`, a list may be cut where the item before the cut or the one
  after it is neither a call nor an assistant's text: the scan of the whole is then the
  scan of the first part followed by the scan of the second (`CleanCut`). An input is such
  a place, and so is the beginning of a turn that comes after an input, which is what
  `regular` asks for. So what a step adds to the items adds its own messages and changes
  none before, and it remains to scan the items of one turn (`TurnScan`).

### Only model-checked

- The liveness properties (`ClientIsAnswered` of the three streams): liveness under
  fairness is out of the proof system's reach.

Every invariant and action property of the passing runs is also proved.

## 6. Not modelled, and the plan

Not modelled, because nothing but the shape of data is at stake:

- settings that are copied or looked up in a table (`MapReasoning`, `MapThinking`,
  `MapOutputFormat`, `generationConfig`, temperatures, response formats), schemas of
  tools, media types, and the wording of blocks that are described;
- ids, times and model names that an answer gets if the upstream gave none, and the
  details of usage;
- what the reports contain (`/v1/models`, `/healthz/memory`, `/debug`), response headers,
  and the way a bearer token is found in the headers;
- configuration, start-up and the debug log. The configuration's checks are the
  assumptions of the modules: limits are natural numbers, the timeout is positive.

Seven hazards in the list have no property. Two items that a client gives one id share
one body (`state.go:94`): items are their ids here. An answer that is cut short
without an error counts as complete (`client.go:134`): the code takes it for a regular
end, and so does the model. A list of input items that names an item twice is paged
through for ever (`shared.go:298`): the listing that is modelled has unique ids. Of the
settings that all become `user`, either may be sent (`messages.go:51`): nothing in the
program depends on which. A response may go between the lookup and the reading of its
context (`responses.go:79`), and the request continues from an empty one: the step is in
`ResponsesAPI`, but nothing in the code or its docs says what should happen. A Gemini call
without an id (`generate.go:171`), and allowed names no tool has (`chat.go:549`), are
outside the conditions of `ResultsFollowTheirCalls` and `ChoicesAreSent`. Where another
property holds only on a condition, the note of its hazard in `PROJECT.json` names it.
