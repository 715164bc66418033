-------------------------- MODULE AnthropicStream --------------------------
(***************************************************************************)
(* streamAnthropicMessage of internal/httpapi/sse_anthropic.go: a streamed *)
(* Messages request.  Deltas become content blocks for the client; nothing *)
(* is stored.  A text or thinking delta is abstracted to its presence, a   *)
(* streamed tool call to its index, usage to whether it was given.         *)
(***************************************************************************)
EXTENDS KimiStream, EventStream, FiniteSets

CONSTANT CallIndices       \* the indices the upstream gives tool calls

ASSUME AnthropicStreamAssumption ==
  CallIndices \subseteq Nat /\ IsFiniteSet(CallIndices)

VARIABLES phase,                  \* how far the handler is
          textStarted, thinkingStarted, textIndex,
          toolCalls,              \* the indices that have an entry
          stopReason, usage,
          nextIndex,
          callIndex,              \* the loop variable i over toolCalls
          finish,                 \* history: the finish reason of the whole answer
          usageLast               \* history: the last chunk had the usage

handlerVars == <<textStarted, thinkingStarted, textIndex, toolCalls,
                 stopReason, usage, finish, usageLast>>
loopVars == <<nextIndex, callIndex>>
vars == <<streamVars, phase, clientVars, handlerVars, loopVars>>

FinishReasons == {"", "stop", "length", "tool_calls", "content_filter"}

\* A chunk with tool calls has at least one.
Chunks == [reasoning : BOOLEAN, text : BOOLEAN, calls : SUBSET CallIndices,
           finish : FinishReasons, usage : BOOLEAN]

Thinking == Item("thinking")
Text == Item("text")
MessageItem == Item("message")
Blocks == {Thinking, Text} \cup {Call(i) : i \in CallIndices}

Events == [type : {"start", "delta", "stop"}, item : Blocks, index : Nat]
            \cup [type : {"message_start", "message_delta", "message_stop", "error"},
                  item : {MessageItem}, index : {0}]

TypeOK ==
  /\ StreamTypeOK
  /\ phase \in {"opening", "streaming", "calling", "stopped", "failed"}
  /\ sent \in Seq(Events)
  /\ gone \in BOOLEAN
  /\ textStarted \in BOOLEAN /\ thinkingStarted \in BOOLEAN
  /\ textIndex \in {0, 1}
  /\ toolCalls \in SUBSET CallIndices
  /\ stopReason \in {"end_turn", "max_tokens", "tool_use", "content_filter"}
  /\ nextIndex \in 0 .. Cardinality(CallIndices) + 2
  /\ callIndex \in 0 .. Cardinality(toolCalls)
  /\ usage \in {"unset", "zero", "given"}
  /\ finish \in FinishReasons /\ usageLast \in BOOLEAN

Init ==
  /\ StreamInit
  /\ phase = "opening"
  /\ Nobody
  /\ textStarted = FALSE /\ thinkingStarted = FALSE /\ textIndex = 0
  /\ toolCalls = {} /\ stopReason = "end_turn"
  /\ nextIndex = 0 /\ callIndex = 0
  /\ usage = "unset" /\ usageLast = FALSE
  /\ finish = ""

------------------------------------------------------------------------------

\* The shell of the message; a write that fails ends the handler.
Open ==
  /\ phase = "opening"
  /\ WriteAll(<<Event("message_start", MessageItem, 0)>>)
  /\ phase' = IF gone' THEN "failed" ELSE "streaming"
  /\ UNCHANGED <<streamVars, handlerVars, loopVars>>

Upstream ==
  /\ phase = "streaming"
  /\ StreamStep
  /\ UNCHANGED <<phase, clientVars, handlerVars, loopVars>>

\* The first reasoning moves the text behind it, whether or not text has started.
TextIndexKept(chunk) == textIndex

TextIndex(chunk) ==
  IF chunk.reasoning /\ ~thinkingStarted THEN 1 ELSE textIndex

\* StopReason of messages.go, of an answer with or without tool calls.
StopReason(reason, hasCalls) ==
  IF hasCalls THEN "tool_use"
  ELSE CASE reason = "length" -> "max_tokens"
         [] reason = "tool_calls" -> "tool_use"
         [] reason \in {"stop", ""} -> "end_turn"
         [] OTHER -> reason

\* The callback gives the last word to tool calls, then to the finish reason of the
\* chunk, then to the chunks before.
StopReasonAfter(chunk) ==
  IF chunk.calls # {} THEN "tool_use"
  ELSE IF chunk.finish # "" THEN StopReason(chunk.finish, FALSE)
  ELSE stopReason

\* UsageFromKimi makes zeros of a chunk without usage, and is never nil.
UsageOnce(chunk) == IF chunk.usage /\ usage = "unset" THEN "given" ELSE "zero"

UsageFromKimi(chunk) == IF chunk.usage THEN "given" ELSE "zero"

\* One call of the callback.  It stops at the first write that fails; what it has
\* set by then is never read, so nothing is changed here.
Chunk(chunk) ==
  LET events ==
        DeltaEvents(chunk.reasoning, thinkingStarted, "start", Thinking, 0)
          \o DeltaEvents(chunk.text, textStarted, "start", Text, TextIndex(chunk))
      Callback ==
        /\ thinkingStarted' = (thinkingStarted \/ chunk.reasoning)
        /\ textStarted' = (textStarted \/ chunk.text)
        /\ textIndex' = TextIndex(chunk)
        /\ toolCalls' = toolCalls \cup chunk.calls
        /\ stopReason' = StopReasonAfter(chunk)
        /\ usage' = UsageFromKimi(chunk)
        /\ usageLast' = chunk.usage
        /\ finish' = IF chunk.finish # "" THEN chunk.finish ELSE finish
  IN /\ phase = "streaming"
     /\ \E n \in 0 .. Len(events) :
          /\ Write(events, n)
          /\ Deliver(n = Len(events))
          /\ IF n = Len(events) THEN Callback ELSE UNCHANGED handlerVars
     /\ UNCHANGED <<phase, loopVars>>

\* StreamChat returned an error.
FailSilently ==
  /\ phase = "streaming" /\ connection = "failed"
  /\ phase' = "failed"
  /\ UNCHANGED <<streamVars, clientVars, handlerVars, loopVars>>

Fail ==
  /\ phase = "streaming" /\ connection = "failed"
  /\ WriteAll(<<Event("error", MessageItem, 0)>>)
  /\ phase' = "failed"
  /\ UNCHANGED <<streamVars, handlerVars, loopVars>>

------------------------------------------------------------------------------

\* StreamChat returned nil.  Errors of the writes from here on are ignored.
StopTextOnly ==
  IF textStarted THEN <<Event("stop", Text, textIndex)>> ELSE <<>>

StopEvents ==
  (IF thinkingStarted THEN <<Event("stop", Thinking, 0)>> ELSE <<>>)
    \o (IF textStarted THEN <<Event("stop", Text, textIndex)>> ELSE <<>>)

\* The number of blocks started, which is the index of the first tool call.
BlocksStarted ==
  (IF thinkingStarted THEN 1 ELSE 0) + (IF textStarted THEN 1 ELSE 0)

Close ==
  /\ phase = "streaming" /\ connection = "ended"
  /\ WriteAll(StopEvents)
  /\ nextIndex' = BlocksStarted
  /\ phase' = "calling"
  /\ UNCHANGED <<streamVars, handlerVars, callIndex>>

\* One round of the loop that counts to len(toolCalls) and skips an index that has
\* no entry.
LoopStops == callIndex >= Cardinality(toolCalls)

EmitCall ==
  /\ phase = "calling" /\ ~LoopStops
  /\ callIndex' = callIndex + 1
  /\ IF callIndex \in toolCalls
     THEN /\ WriteAll(<<Event("start", Call(callIndex), nextIndex),
                        Event("stop", Call(callIndex), nextIndex)>>)
          /\ nextIndex' = nextIndex + 1
     ELSE UNCHANGED <<clientVars, nextIndex>>
  /\ UNCHANGED <<streamVars, phase, handlerVars>>

\* message_delta carries stopReason and usage, which nothing changes afterwards.
Stop ==
  /\ phase = "calling" /\ LoopStops
  /\ WriteAll(<<Event("message_delta", MessageItem, 0),
                Event("message_stop", MessageItem, 0)>>)
  /\ phase' = "stopped"
  /\ UNCHANGED <<streamVars, handlerVars, loopVars>>

Over == phase \in {"stopped", "failed"} /\ UNCHANGED vars

Next ==
  \/ Open \/ Upstream \/ Fail \/ Close \/ EmitCall \/ Stop
  \/ \E chunk \in Chunks : Chunk(chunk)
  \/ Over

Spec == Init /\ [][Next]_vars

\* As for the other streams: the HTTP client's timeout ends a silent upstream.
FairSpec == Spec /\ WF_vars(Next)

------------------------------------------------------------------------------

\* The upstream never reasoned for the first time after it had begun the text.
ReasonedFirst ==
  \A j, k \in 1 .. Len(sent) :
    sent[j] = Event("start", Thinking, 0) /\ sent[k].item = Text => j < k

\* An upstream that reasons before it answers gets blocks the client can put into
\* one content list: each is started once at an index of its own, its deltas and its
\* stop carry that index and come in between, and the indices are 0, 1, 2 and so on.
\* Otherwise the text's index changes under an open block.  (textIndex and nextIndex
\* of streamAnthropicMessage)
BlocksAreFollowed ==
  ReasonedFirst =>
    /\ EventsFollow("start", "stop")
    /\ {sent[k].index : k \in Positions("start")}
         = 0 .. (Cardinality(Positions("start")) - 1)

\* message_stop and error exclude each other and come last.  A client told of
\* message_stop has seen every block stopped, the text and the thinking it got deltas
\* of, and every tool call, if the upstream numbered them without gaps; and the
\* upstream's stream ended well.  (streamAnthropicMessage, the loop over toolCalls)
StoppedMessageIsWhole ==
  /\ LastOf({"message_stop", "error"})
  /\ Told({"message_stop", "message_delta"}) => connection = "ended"
  /\ Told({"message_stop"}) =>
       /\ ItemsIn("start") = ItemsIn("stop")
       /\ ItemsIn("delta") \subseteq ItemsIn("start")
       /\ toolCalls = 0 .. (Cardinality(toolCalls) - 1) =>
            {i \in CallIndices : Call(i) \in ItemsIn("start")} = toolCalls

\* A streamed answer ends with what the same answer has when it is not streamed: the
\* stop reason, unless the upstream ends tool calls with another finish reason than
\* tool_calls (there only the order of the chunks decides); and the usage, if the
\* upstream sends it in its last chunk.  (stopReason and usage of
\* streamAnthropicMessage against ResponseFromKimi)
StreamEndsAsUnstreamed ==
  phase = "stopped" =>
    /\ (toolCalls # {} => finish \in {"", "tool_calls"}) =>
         stopReason = StopReason(finish, toolCalls # {})
    /\ usageLast => usage = "given"

\* A client that stays is told how its message ended.
ClientIsAnswered ==
  <>(gone \/ Told({"message_stop", "error"}))

=============================================================================
