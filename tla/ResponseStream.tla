--------------------------- MODULE ResponseStream ---------------------------
(***************************************************************************)
(* streamResponse of internal/httpapi/sse_openai.go: a streamed Responses  *)
(* request.  The callback of StreamChat turns the deltas of the upstream's *)
(* chunks into events for the client; the handler then closes the items,   *)
(* emits the tool calls, saves the response and completes.  The client may *)
(* go at any write, the upstream fail at any chunk.                        *)
(*                                                                         *)
(* A text or reasoning delta is abstracted to its presence, a streamed     *)
(* tool call to its index.  The events an item is opened with              *)
(* (output_item.added and a part.added), and those it is closed with, are  *)
(* each one event here.                                                    *)
(***************************************************************************)
EXTENDS KimiStream, EventStream, FiniteSets, SequencesExt

CONSTANT CallIndices       \* the indices the upstream gives tool calls

ASSUME ResponseStreamAssumption ==
  CallIndices \subseteq Nat /\ IsFiniteSet(CallIndices)

VARIABLES phase,                  \* how far the handler is
          textStarted, reasoningStarted, textOutputIndex, reasoningOutputIndex,
          contentBuilder,         \* how many text deltas it holds
          finishReason,
          toolCalls,              \* the indices that have an entry
          outputItems,
          callIndex,              \* the loop variable i over toolCalls
          saved                   \* what SaveResponse was called with

handlerVars == <<textStarted, reasoningStarted, textOutputIndex,
                 reasoningOutputIndex, contentBuilder, finishReason, toolCalls>>
vars == <<streamVars, phase, handlerVars, clientVars, outputItems, callIndex, saved>>

FinishReasons == {"", "stop", "length"}

Chunks == [reasoning : BOOLEAN, text : BOOLEAN, calls : SUBSET CallIndices,
           finish : FinishReasons]

Reasoning == Item("reasoning")
Message == Item("message")
Response == Item("response")
Items == {Reasoning, Message} \cup {Call(i) : i \in CallIndices}

Events == [type : {"added", "delta", "done"}, item : Items, index : Nat]
            \cup [type : {"created", "in_progress", "completed", "failed"},
                  item : {Response}, index : {0}]

Unsaved == [status |-> "none", output |-> <<>>, text |-> 0]

TypeOK ==
  /\ StreamTypeOK
  /\ phase \in {"opening", "streaming", "calling", "completing", "over"}
  /\ sent \in Seq(Events)
  /\ gone \in BOOLEAN
  /\ textStarted \in BOOLEAN /\ reasoningStarted \in BOOLEAN
  /\ textOutputIndex \in {0, 1} /\ reasoningOutputIndex \in {0, 1}
  /\ contentBuilder \in 0 .. delivered
  /\ finishReason \in FinishReasons
  /\ toolCalls \in SUBSET CallIndices
  /\ outputItems \in Seq(Items)
  /\ callIndex \in 0 .. Cardinality(toolCalls)
  /\ saved \in [status : {"none", "completed", "incomplete"},
                output : Seq(Items), text : Nat]

Init ==
  /\ StreamInit
  /\ phase = "opening"
  /\ Nobody
  /\ textStarted = FALSE /\ reasoningStarted = FALSE
  /\ textOutputIndex = 0 /\ reasoningOutputIndex = 0
  /\ contentBuilder = 0 /\ finishReason = "" /\ toolCalls = {}
  /\ outputItems = <<>> /\ callIndex = 0 /\ saved = Unsaved

------------------------------------------------------------------------------

\* The shell of the response; a write that fails ends the handler before it asks
\* the upstream.
Open ==
  LET opening == <<Event("created", Response, 0), Event("in_progress", Response, 0)>>
  IN /\ phase = "opening"
     /\ \E n \in 0 .. 2 :
          /\ Write(opening, n)
          /\ phase' = IF n = 2 THEN "streaming" ELSE "over"
     /\ UNCHANGED <<streamVars, handlerVars, outputItems, callIndex, saved>>

Upstream ==
  /\ phase = "streaming"
  /\ StreamStep
  /\ UNCHANGED <<phase, handlerVars, clientVars, outputItems, callIndex, saved>>

\* The index the reasoning item gets when it starts, and the message when it does.
ReasoningIndex(chunk) ==
  IF chunk.reasoning /\ ~reasoningStarted
  THEN IF textStarted THEN 1 ELSE 0
  ELSE reasoningOutputIndex

TextIndexShifted(chunk) ==
  IF reasoningStarted \/ chunk.reasoning THEN 1 ELSE 0

TextIndex(chunk) ==
  IF ~textStarted /\ (reasoningStarted \/ chunk.reasoning)
  THEN 1
  ELSE textOutputIndex

\* One call of the callback, reasoning before text before tool calls.  It stops at
\* the first write that fails; what it has set by then is never read, so nothing
\* is changed here.
Chunk(chunk) ==
  LET events ==
        DeltaEvents(chunk.reasoning, reasoningStarted, "added", Reasoning,
                    ReasoningIndex(chunk))
          \o DeltaEvents(chunk.text, textStarted, "added", Message, TextIndex(chunk))
      Callback ==
        /\ reasoningStarted' = (reasoningStarted \/ chunk.reasoning)
        /\ textStarted' = (textStarted \/ chunk.text)
        /\ reasoningOutputIndex' = ReasoningIndex(chunk)
        /\ textOutputIndex' = TextIndex(chunk)
        /\ contentBuilder' = contentBuilder + (IF chunk.text THEN 1 ELSE 0)
        /\ finishReason' = IF chunk.finish # "" THEN chunk.finish ELSE finishReason
        /\ toolCalls' = toolCalls \cup chunk.calls
  IN /\ phase = "streaming"
     /\ \E n \in 0 .. Len(events) :
          /\ Write(events, n)
          /\ Deliver(n = Len(events))
          /\ IF n = Len(events) THEN Callback ELSE UNCHANGED handlerVars
     /\ UNCHANGED <<phase, outputItems, callIndex, saved>>

\* StreamChat returned an error: response.failed, and nothing is saved.
FailWithoutReturn ==
  /\ phase = "streaming" /\ connection = "failed"
  /\ WriteAll(<<Event("failed", Response, 0)>>)
  /\ phase' = "calling"
  /\ UNCHANGED <<streamVars, handlerVars, outputItems, callIndex, saved>>

FailSilently ==
  /\ phase = "streaming" /\ connection = "failed"
  /\ phase' = "over"
  /\ UNCHANGED <<streamVars, handlerVars, clientVars, outputItems, callIndex, saved>>

Fail ==
  /\ phase = "streaming" /\ connection = "failed"
  /\ WriteAll(<<Event("failed", Response, 0)>>)
  /\ phase' = "over"
  /\ UNCHANGED <<streamVars, handlerVars, outputItems, callIndex, saved>>

------------------------------------------------------------------------------

\* The items before the tool calls, by output index.
ReasoningAlwaysFirst ==
  (IF reasoningStarted THEN <<Reasoning>> ELSE <<>>)
    \o (IF textStarted THEN <<Message>> ELSE <<>>)

TextItems ==
  (IF reasoningStarted /\ (~textStarted \/ reasoningOutputIndex < textOutputIndex)
   THEN <<Reasoning>> ELSE <<>>)
    \o (IF textStarted THEN <<Message>> ELSE <<>>)
    \o (IF reasoningStarted /\ textStarted /\ reasoningOutputIndex > textOutputIndex
        THEN <<Reasoning>> ELSE <<>>)

\* Closing the items that deltas opened.
ClosingOneItem ==
  IF textStarted THEN <<Event("done", Message, textOutputIndex)>>
  ELSE IF reasoningStarted THEN <<Event("done", Reasoning, reasoningOutputIndex)>>
  ELSE <<>>

ClosingEvents ==
  (IF reasoningStarted
   THEN <<Event("done", Reasoning, reasoningOutputIndex)>> ELSE <<>>)
    \o (IF textStarted
        THEN <<Event("done", Message, textOutputIndex)>> ELSE <<>>)

\* StreamChat returned nil.  Errors of the writes from here on are ignored.
Close ==
  /\ phase = "streaming" /\ connection = "ended"
  /\ WriteAll(ClosingEvents)
  /\ outputItems' = TextItems
  /\ phase' = "calling"
  /\ UNCHANGED <<streamVars, handlerVars, callIndex, saved>>

\* One round of the loop that counts to len(toolCalls) and skips an index that has
\* no entry.
LoopStopsEarly == callIndex + 1 >= Cardinality(toolCalls)

LoopStops == callIndex >= Cardinality(toolCalls)

EmitCall ==
  LET index == Len(outputItems)
  IN /\ phase = "calling" /\ ~LoopStops
     /\ callIndex' = callIndex + 1
     /\ IF callIndex \in toolCalls
        THEN /\ WriteAll(<<Event("added", Call(callIndex), index),
                          Event("done", Call(callIndex), index)>>)
             /\ outputItems' = Append(outputItems, Call(callIndex))
        ELSE UNCHANGED <<clientVars, outputItems>>
     /\ UNCHANGED <<streamVars, phase, handlerVars, saved>>

\* StatusFromFinishReason.
StatusFromFinishReason(finish) ==
  IF finish = "length" THEN "incomplete" ELSE "completed"

\* Store.SaveResponse, whether or not the client is still there.
Save ==
  /\ phase = "calling" /\ LoopStops
  /\ saved' = [status |-> StatusFromFinishReason(finishReason),
               output |-> outputItems, text |-> contentBuilder]
  /\ phase' = "completing"
  /\ UNCHANGED <<streamVars, handlerVars, clientVars, outputItems, callIndex>>

Complete ==
  /\ phase = "completing"
  /\ WriteAll(<<Event("completed", Response, 0)>>)
  /\ phase' = "over"
  /\ UNCHANGED <<streamVars, handlerVars, outputItems, callIndex, saved>>

Over == phase = "over" /\ UNCHANGED vars

Next ==
  \/ Open \/ Upstream \/ Fail \/ Close \/ EmitCall \/ Save \/ Complete
  \/ \E chunk \in Chunks : Chunk(chunk)
  \/ Over

Spec == Init /\ [][Next]_vars

\* The handler's goroutine runs on; a silent upstream is ended by the timeout of
\* the HTTP client, which the configuration requires to be positive, and a write
\* ends when the client reads or its connection fails.
FairSpec == Spec /\ WF_vars(Next)

------------------------------------------------------------------------------

TerminalTypes == {"completed", "failed"}

\* An item is opened once, at an output index no other item has, and every event
\* about it comes after that, carries that index, and is not preceded by the
\* event that closes it, whatever order the upstream mixes reasoning, text and
\* tool calls in and wherever it breaks off.  (the callback of streamResponse)
EventsFollowTheirItem == EventsFollow("added", "done")

\* The index events carry, chosen as the deltas come, is the place their item has
\* in the output that is saved and sent in the end, which the code works out from
\* the flags a second time.  (streamResponse, the order of outputItems)
IndexIsPlaceInOutput ==
  saved # Unsaved =>
    \A k \in 1 .. Len(sent) :
      sent[k].item \in Items =>
        /\ sent[k].index < Len(saved.output)
        /\ saved.output[sent[k].index + 1] = sent[k].item

\* What is stored is what the client was sent: every text delta, however early the
\* client goes, and if it stays, an opening and a closing event of every item of
\* the output.  (streamResponse)
ClientSawWhatIsStored ==
  saved # Unsaved =>
    /\ saved.text = Cardinality({k \in Positions("delta") : sent[k].item = Message})
    /\ ~gone => /\ ItemsIn("added") = ToSet(saved.output)
                /\ ItemsIn("done") = ToSet(saved.output)

\* response.completed and response.failed exclude each other, come once, and
\* nothing comes after them.  (streamResponse)
OneTerminalEvent == LastOf(TerminalTypes)

\* A response is stored only when the upstream's stream ended without an error and
\* the client had taken every event until then; the client that is told it is
\* complete can read it back, the one told it failed cannot.  (streamResponse)
OnlyFinishedAnswersAreSaved ==
  /\ saved # Unsaved => connection = "ended"
  /\ \A k \in 1 .. Len(sent) :
       sent[k].type \in TerminalTypes =>
         (saved # Unsaved <=> sent[k].type = "completed")

\* When the upstream numbered its tool calls without gaps, in whatever order their
\* deltas came, every call is in the output once.  (the loop over toolCalls, which
\* loses calls after a gap)
NoCallLost ==
  saved # Unsaved /\ toolCalls = 0 .. (Cardinality(toolCalls) - 1) =>
    /\ {i \in CallIndices : Call(i) \in ToSet(saved.output)} = toolCalls
    /\ Cardinality(ToSet(saved.output)) = Len(saved.output)

\* A client that stays is told how its response ended, whatever the upstream does.
\* (streamResponse, StreamChat)
ClientIsAnswered ==
  <>(gone \/ Told(TerminalTypes))

=============================================================================
