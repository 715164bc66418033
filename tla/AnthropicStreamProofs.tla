------------------------ MODULE AnthropicStreamProofs ------------------------
(***************************************************************************)
(* Proofs about the streamed Messages request, for any number of chunks    *)
(* and any indices of tool calls: the blocks a client gets can be followed *)
(* and are numbered, a stopped message is whole, and the answer ends as    *)
(* the one that is not streamed.                                           *)
(***************************************************************************)
EXTENDS AnthropicStream, EventStreamProofs, FiniteSetTheorems

LEMMA BlocksDiffer ==
  /\ Thinking \in Blocks /\ Text \in Blocks /\ MessageItem \notin Blocks
  /\ Thinking # Text /\ Thinking # MessageItem /\ Text # MessageItem
  /\ \A i : Call(i) # Thinking /\ Call(i) # Text /\ Call(i) # MessageItem
  /\ \A i, j : Call(i) = Call(j) => i = j
  /\ \A i \in CallIndices : Call(i) \in Blocks
PROOF BY DEF Blocks, Thinking, Text, MessageItem, Item, Call

LEMMA EventTypes ==
  /\ \A type \in {"start", "delta", "stop"}, item \in Blocks, index \in Nat :
       Event(type, item, index) \in Events
  /\ \A type \in {"message_start", "message_delta", "message_stop", "error"} :
       Event(type, MessageItem, 0) \in Events
PROOF BY DEF Events, Event

LEMMA CallsCounted ==
  ASSUME NEW S \in SUBSET CallIndices
  PROVE  Cardinality(S) \in Nat /\ Cardinality(S) <= Cardinality(CallIndices)
PROOF BY AnthropicStreamAssumption, FS_Subset, FS_CardinalityType

------------------------------------------------------------------------------
(* The inductive invariant.                                                *)

\* How far the handler is against the upstream and the client.
PhaseInv ==
  /\ phase = "opening" => sent = <<>> /\ ~gone
  /\ phase \in {"opening", "streaming"} => callIndex = 0 /\ nextIndex = 0
  /\ phase \in {"calling", "stopped"} => connection = "ended"
  /\ phase = "streaming" /\ gone => connection = "failed"
  /\ phase = "stopped" => LoopStops

\* The text is behind the thinking, if there is any; so many indices are given out.
IndexInv ==
  /\ textIndex = IF thinkingStarted THEN 1 ELSE 0
  /\ nextIndex <= BlocksStarted + callIndex

\* A block that has started has been opened.
OpenedInv ==
  /\ thinkingStarted => Event("start", Thinking, 0) \in Sent
  /\ textStarted => \E i \in {0, 1} : Event("start", Text, i) \in Sent

\* While the upstream answers, the client knows the started blocks and no end.
OfStartedBlock(event) ==
  \/ event.item = MessageItem /\ event.type = "message_start"
  \/ /\ event.type \in {"start", "delta"}
     /\ \/ thinkingStarted /\ event.item = Thinking /\ event.index = 0
        \/ textStarted /\ event.item = Text

DeltasInv ==
  phase = "streaming" /\ connection # "failed" =>
    \A event \in Sent :
      /\ OfStartedBlock(event)
      /\ ReasonedFirst /\ event.item = Text => event.index = textIndex

\* The indices given to blocks have no gap, and the next one is free.
BlockIndices == {event.index : event \in {e \in Sent : e.type = "start"}}

NumberInv ==
  ReasonedFirst =>
    \E m \in Nat :
      /\ BlockIndices = 0 .. (m - 1)
      /\ ~gone => /\ phase \in {"opening", "streaming"} => m = BlocksStarted
                  /\ phase = "calling" => m = nextIndex

CallsInv ==
  phase = "calling" =>
    \A event \in Sent, i \in Nat : event.item = Call(i) => i < callIndex

\* What a client knows that has missed nothing.
WholeInv ==
  (phase = "calling" /\ ~gone) \/ Told({"message_stop"}) =>
    /\ ItemsIn("start") = ItemsIn("stop")
    /\ ItemsIn("delta") \subseteq ItemsIn("start")
    /\ \A i \in CallIndices :
         Call(i) \in ItemsIn("start") <=> i \in toolCalls /\ i < callIndex

EndInv ==
  /\ \A event \in Sent :
       /\ event.type \in {"message_delta", "message_stop"} => phase = "stopped"
       /\ event.type = "error" => phase = "failed"
  /\ LastOf({"message_stop", "error"})

\* The stop reason and the usage, whether the message has been stopped or not.
ReasonInv ==
  /\ (toolCalls # {} => finish \in {"", "tool_calls"}) =>
       stopReason = StopReason(finish, toolCalls # {})
  /\ usageLast => usage = "given"

OrderInv == ReasonedFirst => EventsFollow("start", "stop")

IInv ==
  /\ TypeOK /\ PhaseInv /\ IndexInv /\ OpenedInv /\ DeltasInv /\ NumberInv /\ CallsInv
  /\ WholeInv /\ EndInv /\ ReasonInv /\ OrderInv

LEMMA InitIInv == Init => IInv
PROOF
<1> SUFFICES ASSUME Init PROVE IInv
  OBVIOUS
<1>1. sent = <<>> /\ ~gone /\ phase = "opening"
  BY DEF Init, Nobody
<1>2. /\ connection = "requesting" /\ delivered = 0 /\ ~textStarted /\ ~thinkingStarted
      /\ textIndex = 0 /\ nextIndex = 0 /\ callIndex = 0 /\ stopReason = "end_turn"
      /\ usage = "unset" /\ ~usageLast
  BY DEF Init, StreamInit
<1>3. Len(sent) = 0 /\ Sent = {}
  BY <1>1 DEF Sent
<1>4. TypeOK
  <2>1. /\ sent \in Seq(Events) /\ gone \in BOOLEAN /\ textStarted \in BOOLEAN
        /\ thinkingStarted \in BOOLEAN /\ usageLast \in BOOLEAN
        /\ toolCalls \in SUBSET CallIndices
    BY EmptySeq DEF Init, Nobody
  <2>2. StreamTypeOK
    BY <1>2, KimiStreamAssumption DEF StreamTypeOK
  <2>3. Cardinality(toolCalls) = 0 /\ Cardinality(CallIndices) \in Nat
    BY FS_EmptySet, CallsCounted DEF Init
  <2>4. nextIndex \in 0 .. Cardinality(CallIndices) + 2 /\ callIndex \in 0 .. Cardinality(toolCalls)
    BY <1>2, <2>3
  <2>5. finish \in FinishReasons
    BY DEF Init, FinishReasons
  <2> QED BY <1>1, <1>2, <2>1, <2>2, <2>4, <2>5 DEF TypeOK
<1>5. PhaseInv /\ IndexInv /\ OpenedInv
  BY <1>1, <1>2 DEF PhaseInv, IndexInv, OpenedInv, BlocksStarted
<1>6. DeltasInv /\ CallsInv /\ WholeInv
  BY <1>1, <1>3 DEF DeltasInv, CallsInv, WholeInv, Told
<1>7. NumberInv
  <2>1. BlockIndices = 0 .. (0 - 1) /\ BlocksStarted = 0
    BY <1>2, <1>3 DEF BlockIndices, BlocksStarted
  <2> QED BY <1>1, <2>1 DEF NumberInv
<1>8. EndInv
  BY <1>3, NoneIsLast DEF EndInv
<1>9. ReasonInv
  <2>1. toolCalls = {} /\ finish = ""
    BY DEF Init
  <2> QED BY <1>2, <2>1 DEF ReasonInv, StopReason
<1>10. OrderInv
  BY <1>3 DEF OrderInv, EventsFollow, InOrder
<1> QED BY <1>4, <1>5, <1>6, <1>7, <1>8, <1>9, <1>10 DEF IInv

------------------------------------------------------------------------------
(* The steps.                                                              *)

\* What has happened in the wrong order stays so.
LEMMA ReasonedFirstBefore ==
  ASSUME NEW S, sent \in Seq(S), gone \in BOOLEAN,
         NEW events \in Seq(S), NEW n \in 0 .. Len(events), Write(events, n), ReasonedFirst'
  PROVE  ReasonedFirst
PROOF
<1>1. /\ Len(sent') = Len(sent) + n /\ Len(sent) \in Nat /\ n \in Nat
      /\ \A k \in 1 .. Len(sent) : sent'[k] = sent[k]
  BY WriteExtends, LenProperties
<1>2. \A k \in 1 .. Len(sent) : k \in 1 .. Len(sent')
  BY <1>1
<1> QED BY <1>1, <1>2 DEF ReasonedFirst

LEMMA OpenIInv == IInv /\ Open => IInv'
PROOF
<1> SUFFICES ASSUME IInv, Open PROVE IInv'
  OBVIOUS
<1> DEFINE shell == <<Event("message_start", MessageItem, 0)>>
<1>1. /\ phase = "opening" /\ sent \in Seq(Events) /\ gone \in BOOLEAN
      /\ sent = <<>> /\ ~gone /\ callIndex = 0 /\ nextIndex = 0
  BY DEF IInv, TypeOK, PhaseInv, Open
<1>2. /\ phase' = IF gone' THEN "failed" ELSE "streaming"
      /\ UNCHANGED <<streamVars, handlerVars, loopVars>>
  BY DEF Open
<1>3. /\ shell \in Seq(Events) /\ Len(shell) = 1
      /\ shell[1] = Event("message_start", MessageItem, 0)
  BY EventTypes
<1>4. InOrder(shell, Sent, "start", "stop")
  BY <1>3 DEF InOrder, Follows, Event
<1> HIDE DEF shell
<1>5. PICK n \in 0 .. Len(shell) : Write(shell, n)
  BY DEF Open, WriteAll, shell
<1>6. /\ sent' \in Seq(Events) /\ gone' \in BOOLEAN /\ Sent \subseteq Sent'
      /\ \A event \in Sent' :
           event \in Sent \/ \E k \in 1 .. Len(shell) : k <= n /\ event = shell[k]
  BY <1>1, <1>3, <1>5, WriteAdds, Zenon
<1>7. \A event \in Sent' : event.item = MessageItem /\ event.type = "message_start"
  <2>1. Sent = {}
    BY <1>1 DEF Sent
  <2> QED BY <1>3, <1>6, <2>1, EventFields
<1>8. TypeOK'
  BY <1>2, <1>6 DEF IInv, TypeOK, StreamTypeOK, streamVars, handlerVars, loopVars
<1>9. PhaseInv' /\ IndexInv' /\ OpenedInv'
  BY <1>1, <1>2, <1>6 DEF IInv, PhaseInv, IndexInv, OpenedInv, BlocksStarted, streamVars,
                          handlerVars, loopVars
<1>10. DeltasInv' /\ CallsInv' /\ WholeInv'
  BY <1>2, <1>7, BlocksDiffer DEF DeltasInv, OfStartedBlock, CallsInv, WholeInv, Told
<1>11. NumberInv'
  <2>1. BlockIndices' = BlockIndices
    BY <1>1, <1>7 DEF BlockIndices, Sent
  <2>2. BlocksStarted' = BlocksStarted
    BY <1>2 DEF BlocksStarted, handlerVars
  <2>3. ReasonedFirst' => ReasonedFirst
    BY <1>1, <1>3, <1>5, ReasonedFirstBefore
  <2> QED BY <1>1, <1>2, <2>1, <2>2, <2>3 DEF IInv, NumberInv
<1>12. EndInv'
  <2>1. LastOf({"message_stop", "error"})'
    BY <1>7 DEF LastOf, Sent
  <2> QED BY <1>7, <2>1 DEF EndInv
<1>13. ReasonInv'
  BY <1>2 DEF IInv, ReasonInv, handlerVars
<1>14. OrderInv'
  BY <1>1, <1>3, <1>4, <1>5, ReasonedFirstBefore, WriteInOrder DEF IInv, OrderInv
<1> QED BY <1>8, <1>9, <1>10, <1>11, <1>12, <1>13, <1>14 DEF IInv

\* A step that sends nothing keeps what is said of the events and the flags.
LEMMA UpstreamIInv == IInv /\ Upstream => IInv'
PROOF
<1> SUFFICES ASSUME IInv, Upstream PROVE IInv'
  OBVIOUS
<1>1. /\ phase = "streaming" /\ connection \in {"requesting", "reading"}
      /\ UNCHANGED <<phase, clientVars, handlerVars, loopVars>>
      /\ connection' \in {"reading", "ended", "failed"} /\ UNCHANGED delivered
  BY DEF Upstream, StreamStep, Accept, Refuse, EndOfStream, Break
<1>2. Sent' = Sent /\ (ReasonedFirst <=> ReasonedFirst')
  BY <1>1 DEF Sent, ReasonedFirst, clientVars
<1>3. TypeOK'
  BY <1>1 DEF IInv, TypeOK, StreamTypeOK, handlerVars, clientVars, loopVars
<1>4. PhaseInv' /\ IndexInv' /\ OpenedInv'
  BY <1>1, <1>2 DEF IInv, PhaseInv, IndexInv, OpenedInv, BlocksStarted, handlerVars,
                    clientVars, loopVars
<1>5. DeltasInv' /\ CallsInv' /\ WholeInv'
  BY <1>1, <1>2 DEF IInv, DeltasInv, OfStartedBlock, CallsInv, WholeInv, Told, EndInv, handlerVars
<1>6. NumberInv'
  BY <1>1, <1>2 DEF IInv, NumberInv, BlockIndices, BlocksStarted, handlerVars, clientVars
<1>7. EndInv' /\ ReasonInv' /\ OrderInv'
  BY <1>1, <1>2 DEF IInv, EndInv, LastOf, ReasonInv, OrderInv, EventsFollow, clientVars,
                    handlerVars
<1> QED BY <1>3, <1>4, <1>5, <1>6, <1>7 DEF IInv

\* What the callback writes for a chunk.
ThinkingEvents(chunk) == DeltaEvents(chunk.reasoning, thinkingStarted, "start", Thinking, 0)
TextEvents(chunk) == DeltaEvents(chunk.text, textStarted, "start", Text, TextIndex(chunk))
ChunkEvents(chunk) == ThinkingEvents(chunk) \o TextEvents(chunk)

OfChunk(event, chunk) ==
  /\ event.type \in {"start", "delta"}
  /\ \/ /\ chunk.reasoning /\ event.item = Thinking /\ event.index = 0
        /\ event.type = "start" => ~thinkingStarted
     \/ /\ chunk.text /\ event.item = Text /\ event.index = TextIndex(chunk)
        /\ event.type = "start" => ~textStarted

LEMMA ChunkEventsShape ==
  ASSUME TypeOK, NEW chunk \in Chunks
  PROVE  /\ ThinkingEvents(chunk) \in Seq(Events) /\ TextEvents(chunk) \in Seq(Events)
         /\ ChunkEvents(chunk) \in Seq(Events)
         /\ \A k \in 1 .. Len(ThinkingEvents(chunk)) : ThinkingEvents(chunk)[k].item = Thinking
         /\ \A k \in 1 .. Len(ChunkEvents(chunk)) : OfChunk(ChunkEvents(chunk)[k], chunk)
         /\ chunk.reasoning /\ ~thinkingStarted =>
              /\ 1 \in 1 .. Len(ChunkEvents(chunk))
              /\ ChunkEvents(chunk)[1] = Event("start", Thinking, 0)
         /\ chunk.text /\ ~textStarted =>
              \E k \in 1 .. Len(ChunkEvents(chunk)) :
                ChunkEvents(chunk)[k] = Event("start", Text, TextIndex(chunk))
PROOF
<1> DEFINE r == ThinkingEvents(chunk)
           t == TextEvents(chunk)
           index == TextIndex(chunk)
<1>1. /\ chunk.reasoning \in BOOLEAN /\ chunk.text \in BOOLEAN /\ thinkingStarted \in BOOLEAN
      /\ textStarted \in BOOLEAN /\ index \in {0, 1}
  BY DEF TypeOK, Chunks, TextIndex
<1>2. /\ r \in Seq({Event("start", Thinking, 0), Event("delta", Thinking, 0)})
      /\ \A k \in 1 .. Len(r) :
           /\ chunk.reasoning
           /\ \/ r[k] = Event("delta", Thinking, 0)
              \/ ~thinkingStarted /\ r[k] = Event("start", Thinking, 0)
      /\ chunk.reasoning /\ ~thinkingStarted =>
           1 \in 1 .. Len(r) /\ r[1] = Event("start", Thinking, 0)
  <2>1. r = DeltaEvents(chunk.reasoning, thinkingStarted, "start", Thinking, 0)
    BY DEF ThinkingEvents
  <2> HIDE DEF r
  <2> QED BY <1>1, <2>1, DeltaEventsShape
<1>3. /\ t \in Seq({Event("start", Text, index), Event("delta", Text, index)})
      /\ \A k \in 1 .. Len(t) :
           /\ chunk.text
           /\ \/ t[k] = Event("delta", Text, index)
              \/ ~textStarted /\ t[k] = Event("start", Text, index)
      /\ chunk.text /\ ~textStarted =>
           1 \in 1 .. Len(t) /\ t[1] = Event("start", Text, index)
  <2>1. t = DeltaEvents(chunk.text, textStarted, "start", Text, index)
    BY DEF TextEvents
  <2> HIDE DEF t, index
  <2> QED BY <1>1, <2>1, DeltaEventsShape, Z3
<1> HIDE DEF r, t, index
<1>4. r \in Seq(Events) /\ t \in Seq(Events)
  <2>1. {Event("start", Thinking, 0), Event("delta", Thinking, 0)} \subseteq Events
    BY EventTypes, BlocksDiffer
  <2>2. {Event("start", Text, index), Event("delta", Text, index)} \subseteq Events
    BY <1>1, EventTypes, BlocksDiffer
  <2> QED BY <1>2, <1>3, <2>1, <2>2, SeqMonotonic
<1>5. /\ r \o t \in Seq(Events)
      /\ \A k \in 1 .. Len(r) : k \in 1 .. Len(r \o t) /\ (r \o t)[k] = r[k]
      /\ \A k \in 1 .. Len(t) : Len(r) + k \in 1 .. Len(r \o t) /\ (r \o t)[Len(r) + k] = t[k]
      /\ \A k \in 1 .. Len(r \o t) :
           \/ k \in 1 .. Len(r) /\ (r \o t)[k] = r[k]
           \/ k - Len(r) \in 1 .. Len(t) /\ (r \o t)[k] = t[k - Len(r)]
  BY <1>4, ConcatElements
<1>6. \A k \in 1 .. Len(r) : r[k].item = Thinking /\ OfChunk(r[k], chunk)
  BY <1>2, EventFields DEF OfChunk
<1>7. \A k \in 1 .. Len(t) : OfChunk(t[k], chunk)
  BY <1>3, EventFields DEF OfChunk, index
<1>8. \A k \in 1 .. Len(r \o t) : OfChunk((r \o t)[k], chunk)
  BY <1>5, <1>6, <1>7, Zenon
<1>9. chunk.reasoning /\ ~thinkingStarted =>
        1 \in 1 .. Len(r \o t) /\ (r \o t)[1] = Event("start", Thinking, 0)
  <2> SUFFICES ASSUME chunk.reasoning /\ ~thinkingStarted
               PROVE  1 \in 1 .. Len(r \o t) /\ (r \o t)[1] = Event("start", Thinking, 0)
    OBVIOUS
  <2> QED BY <1>2, <1>5
<1>10. chunk.text /\ ~textStarted =>
         \E k \in 1 .. Len(r \o t) : (r \o t)[k] = Event("start", Text, index)
  <2> SUFFICES ASSUME chunk.text /\ ~textStarted
               PROVE  \E k \in 1 .. Len(r \o t) : (r \o t)[k] = Event("start", Text, index)
    OBVIOUS
  <2>1. Len(r) + 1 \in 1 .. Len(r \o t) /\ (r \o t)[Len(r) + 1] = t[1] /\ t[1] = Event("start", Text, index)
    BY <1>3, <1>5
  <2> QED BY <2>1
<1> QED BY <1>4, <1>5, <1>6, <1>8, <1>9, <1>10 DEF ChunkEvents, r, t, index

\* They are in order unless the first thinking comes after the text has begun.
LEMMA ChunkEventsInOrder ==
  ASSUME IInv, NEW chunk \in Chunks, phase = "streaming", connection # "failed", ReasonedFirst,
         chunk.reasoning /\ ~thinkingStarted => ~textStarted
  PROVE  InOrder(ChunkEvents(chunk), Sent, "start", "stop")
PROOF
<1> DEFINE r == ThinkingEvents(chunk)
           t == TextEvents(chunk)
           index == TextIndex(chunk)
           B == Sent \cup {r[j] : j \in 1 .. Len(r)}
<1>1. /\ chunk.reasoning \in BOOLEAN /\ chunk.text \in BOOLEAN /\ thinkingStarted \in BOOLEAN
      /\ textStarted \in BOOLEAN /\ TypeOK
  BY DEF IInv, TypeOK, Chunks
<1>2. \A event \in Sent :
        OfStartedBlock(event) /\ (event.item = Text => event.index = textIndex)
  BY DEF IInv, DeltasInv
<1>3. /\ textStarted => index = textIndex
      /\ thinkingStarted \/ chunk.reasoning => index = 1
      /\ ~thinkingStarted => textIndex = 0
      /\ ~thinkingStarted /\ ~chunk.reasoning => index = 0
  BY <1>1 DEF IInv, IndexInv, TextIndex
<1> HIDE DEF index
<1>4. InOrder(r, Sent, "start", "stop")
  <2>1. Event("stop", Thinking, 0) \notin Sent
    BY <1>2, EventFields DEF OfStartedBlock
  <2>2. thinkingStarted => Event("start", Thinking, 0) \in Sent
    BY DEF IInv, OpenedInv
  <2>3. chunk.reasoning /\ ~thinkingStarted =>
          \A b \in Sent : b.type = "start" => b.item # Thinking /\ b.index # 0
    BY <1>2 DEF OfStartedBlock
  <2> QED BY <1>1, <2>1, <2>2, <2>3, DeltaEventsInOrder DEF ThinkingEvents
<1>5. r \in Seq(Events) /\ t \in Seq(Events) /\ \A k \in 1 .. Len(r) : OfChunk(r[k], chunk)
  <2>1. \A k \in 1 .. Len(ChunkEvents(chunk)) : OfChunk(ChunkEvents(chunk)[k], chunk)
    BY <1>1, ChunkEventsShape
  <2>2. r \in Seq(Events) /\ t \in Seq(Events)
    BY <1>1, ChunkEventsShape
  <2> HIDE DEF r, t
  <2>3. \A k \in 1 .. Len(r) : k \in 1 .. Len(r \o t) /\ (r \o t)[k] = r[k]
    BY <2>2, ConcatElements
  <2> QED BY <2>1, <2>2, <2>3 DEF ChunkEvents, r, t
<1>6. \A k \in 1 .. Len(r) : r[k].item = Thinking
  BY <1>1, ChunkEventsShape
<1>7. \A b \in B : b \in Sent \/ (OfChunk(b, chunk) /\ b.item = Thinking)
  BY <1>5, <1>6
<1>8. InOrder(t, B, "start", "stop")
  <2>1. Event("stop", Text, index) \notin B
    BY <1>2, <1>7, EventFields DEF OfStartedBlock, OfChunk
  <2>2. textStarted => Event("start", Text, index) \in B
    <3>1. textStarted => \E i \in {0, 1} : Event("start", Text, i) \in Sent
      BY DEF IInv, OpenedInv
    <3> QED BY <1>2, <1>3, <3>1, EventFields
  <2>3. ASSUME chunk.text /\ ~textStarted, NEW b \in B, b.type = "start"
        PROVE  b.item # Text /\ b.index # index
    <3>1. CASE b \in Sent
      <4>1. OfStartedBlock(b)
        BY <1>2, <3>1
      <4> QED BY <1>3, <2>3, <4>1, BlocksDiffer DEF OfStartedBlock
    <3>2. CASE OfChunk(b, chunk) /\ b.item = Thinking
      BY <1>3, <3>2, BlocksDiffer DEF OfChunk
    <3> QED BY <1>7, <3>1, <3>2
  <2> HIDE DEF B
  <2> QED BY <1>1, <2>1, <2>2, <2>3, DeltaEventsInOrder DEF TextEvents, index
<1> QED BY <1>4, <1>5, <1>8, ConcatInOrder DEF ChunkEvents

\* The flags after a callback that has written everything.
Flags(chunk) ==
  /\ thinkingStarted' = (thinkingStarted \/ chunk.reasoning)
  /\ textStarted' = (textStarted \/ chunk.text)
  /\ textIndex' = TextIndex(chunk)
  /\ toolCalls' = toolCalls \cup chunk.calls

\* How the answer will end.
Ending(chunk) ==
  /\ stopReason' = StopReasonAfter(chunk)
  /\ usage' = UsageFromKimi(chunk)
  /\ usageLast' = chunk.usage
  /\ finish' = IF chunk.finish # "" THEN chunk.finish ELSE finish

LEMMA EndingInv ==
  ASSUME IInv, NEW chunk \in Chunks, Ending(chunk), toolCalls' = toolCalls \cup chunk.calls
  PROVE  /\ ReasonInv'
         /\ stopReason' \in {"end_turn", "max_tokens", "tool_use", "content_filter"}
         /\ usage' \in {"unset", "zero", "given"}
         /\ finish' \in FinishReasons /\ usageLast' \in BOOLEAN
PROOF
<1>1. /\ chunk.finish \in FinishReasons /\ chunk.usage \in BOOLEAN
      /\ finish \in FinishReasons
      /\ stopReason \in {"end_turn", "max_tokens", "tool_use", "content_filter"}
  BY DEF IInv, TypeOK, Chunks
<1>2. (toolCalls # {} => finish \in {"", "tool_calls"}) =>
        stopReason = StopReason(finish, toolCalls # {})
  BY DEF IInv, ReasonInv
<1>3. stopReason' \in {"end_turn", "max_tokens", "tool_use", "content_filter"}
  BY <1>1 DEF Ending, StopReasonAfter, StopReason, FinishReasons
<1>4. ASSUME toolCalls' # {} => finish' \in {"", "tool_calls"}
      PROVE  stopReason' = StopReason(finish', toolCalls' # {})
  <2>1. CASE chunk.calls # {}
    BY <2>1 DEF Ending, StopReasonAfter, StopReason
  <2>2. CASE chunk.calls = {} /\ chunk.finish # ""
    BY <1>4, <2>2 DEF Ending, StopReasonAfter, StopReason
  <2>3. CASE chunk.calls = {} /\ chunk.finish = ""
    <3>1. toolCalls' = toolCalls /\ finish' = finish /\ stopReason' = stopReason
      BY <2>3 DEF Ending, StopReasonAfter
    <3> QED BY <1>2, <1>4, <3>1
  <2> QED BY <2>1, <2>2, <2>3
<1>5. usageLast' => usage' = "given"
  BY DEF Ending, UsageFromKimi
<1>6. usage' \in {"unset", "zero", "given"} /\ finish' \in FinishReasons /\ usageLast' \in BOOLEAN
  BY <1>1 DEF Ending, UsageFromKimi
<1> QED BY <1>3, <1>4, <1>5, <1>6 DEF ReasonInv

LEMMA ChunkIInv ==
  ASSUME IInv, NEW chunk \in Chunks, Chunk(chunk)
  PROVE  IInv'
PROOF
<1> DEFINE events == ChunkEvents(chunk)
           index == TextIndex(chunk)
           first == chunk.reasoning /\ ~thinkingStarted
<1>1. /\ phase = "streaming" /\ connection = "reading" /\ ~gone
      /\ callIndex = 0 /\ nextIndex = 0
      /\ UNCHANGED <<phase, loopVars>>
  BY DEF IInv, PhaseInv, Chunk, Deliver
<1>2. PICK n \in 0 .. Len(events) :
        /\ Write(events, n)
        /\ Deliver(n = Len(events))
        /\ n = Len(events) => Flags(chunk) /\ Ending(chunk)
        /\ n # Len(events) => UNCHANGED handlerVars
  BY DEF Chunk, ChunkEvents, ThinkingEvents, TextEvents, Flags, Ending
<1>3. /\ chunk.reasoning \in BOOLEAN /\ chunk.text \in BOOLEAN /\ chunk.calls \in SUBSET CallIndices
      /\ thinkingStarted \in BOOLEAN /\ textStarted \in BOOLEAN /\ gone \in BOOLEAN
      /\ sent \in Seq(Events) /\ toolCalls \in SUBSET CallIndices /\ TypeOK
      /\ delivered \in 0 .. MaxChunks
  BY DEF IInv, TypeOK, StreamTypeOK, Chunks
<1>4. /\ events \in Seq(Events) /\ Len(events) \in Nat
      /\ \A k \in 1 .. Len(events) : OfChunk(events[k], chunk)
      /\ first => 1 \in 1 .. Len(events) /\ events[1] = Event("start", Thinking, 0)
      /\ chunk.text /\ ~textStarted =>
           \E k \in 1 .. Len(events) : events[k] = Event("start", Text, index)
  BY <1>3, ChunkEventsShape, LenProperties
<1>5. \A event \in Sent : OfStartedBlock(event) /\ (ReasonedFirst /\ event.item = Text => event.index = textIndex)
  BY <1>1 DEF IInv, DeltasInv
\* The index of the text, before and after.
<1>6. /\ index \in {0, 1} /\ textIndex = (IF thinkingStarted THEN 1 ELSE 0)
      /\ index = (IF thinkingStarted \/ chunk.reasoning THEN 1 ELSE 0)
  BY <1>3 DEF IInv, IndexInv, TextIndex
<1> HIDE DEF events, index
\* What the client has then.
<1>7. /\ sent' \in Seq(Events) /\ gone' \in BOOLEAN /\ Sent \subseteq Sent'
      /\ \A event \in Sent' :
           event \in Sent \/ \E k \in 1 .. Len(events) : k <= n /\ event = events[k]
      /\ \A k \in 1 .. n : events[k] \in Sent'
      /\ n = 0 => sent' = sent /\ Sent' = Sent
      /\ ~gone' => n = Len(events)
      /\ n = Len(events) => ~gone'
  BY <1>1, <1>2, <1>3, <1>4, WriteAdds, Zenon
<1>8. \A event \in Sent' : event \in Sent \/ (n > 0 /\ OfChunk(event, chunk))
  <2>1. \A k \in 1 .. Len(events) : k <= n => n > 0
    BY <1>4
  <2> QED BY <1>4, <1>7, <2>1
<1>9. ReasonedFirst' => ReasonedFirst
  BY <1>2, <1>3, <1>4, ReasonedFirstBefore
\* The first thinking comes before the text, or is too late.
<1>10. n > 0 /\ first => Event("start", Thinking, 0) \in Sent' /\ (textStarted => ~ReasonedFirst')
  <2> SUFFICES ASSUME n > 0, first
               PROVE  Event("start", Thinking, 0) \in Sent' /\ (textStarted => ~ReasonedFirst')
    OBVIOUS
  <2>1. 1 \in 1 .. n /\ events[1] = Event("start", Thinking, 0)
    BY <1>4
  <2>2. /\ Len(sent') = Len(sent) + n /\ Len(sent) \in Nat
        /\ \A k \in 1 .. Len(sent) : sent'[k] = sent[k]
        /\ sent'[Len(sent) + 1] = Event("start", Thinking, 0)
    BY <1>2, <1>3, <1>4, <2>1, WriteExtends, LenProperties
  <2>3. ASSUME textStarted, ReasonedFirst' PROVE FALSE
    <3>1. PICK i \in {0, 1} : Event("start", Text, i) \in Sent
      BY <2>3 DEF IInv, OpenedInv
    <3>2. PICK k \in 1 .. Len(sent) : sent[k].item = Text
      BY <3>1, EventFields DEF Sent
    <3>3. /\ Len(sent) + 1 \in 1 .. Len(sent') /\ k \in 1 .. Len(sent') /\ sent'[k].item = Text
          /\ ~(Len(sent) + 1 < k)
      BY <2>2, <3>2
    <3> QED BY <2>2, <2>3, <3>3 DEF ReasonedFirst
  <2> QED BY <1>7, <2>1, <2>3
<1>11. /\ n = Len(events) => connection' = "reading"
       /\ n # Len(events) => connection' = "failed"
       /\ connection' \in {"reading", "failed"} /\ delivered' = delivered + 1
       /\ delivered < MaxChunks
  <2>1. Deliver(n = Len(events))
    BY <1>2
  <2> QED BY <2>1 DEF Deliver
<1>12. TypeOK'
  <2>1. toolCalls' \in SUBSET CallIndices
    BY <1>2, <1>3 DEF Flags, handlerVars
  <2>2. textStarted' \in BOOLEAN /\ thinkingStarted' \in BOOLEAN /\ textIndex' \in {0, 1}
    <3>1. CASE n = Len(events)
      BY <1>2, <1>3, <1>6, <3>1 DEF Flags, index
    <3>2. CASE n # Len(events)
      BY <1>2, <1>3, <3>2 DEF TypeOK, handlerVars
    <3> QED BY <3>1, <3>2
  <2>3. /\ stopReason' \in {"end_turn", "max_tokens", "tool_use", "content_filter"}
        /\ usage' \in {"unset", "zero", "given"}
        /\ finish' \in FinishReasons /\ usageLast' \in BOOLEAN
    <3>1. CASE n = Len(events)
      BY <1>2, <3>1, EndingInv DEF Flags
    <3>2. CASE n # Len(events)
      BY <1>2, <1>3, <3>2 DEF TypeOK, handlerVars
    <3> QED BY <3>1, <3>2
  <2>4. StreamTypeOK'
    BY <1>3, <1>11, KimiStreamAssumption DEF StreamTypeOK
  <2>5. callIndex' \in 0 .. Cardinality(toolCalls') /\ nextIndex' \in 0 .. Cardinality(CallIndices) + 2
    <3>1. callIndex' = 0 /\ nextIndex' = 0
      BY <1>1 DEF loopVars
    <3> QED BY <2>1, <3>1, CallsCounted
  <2> QED BY <1>1, <1>3, <1>7, <2>1, <2>2, <2>3, <2>4, <2>5 DEF TypeOK
<1>13. PhaseInv'
  <2>1. phase' = "streaming" /\ callIndex' = 0 /\ nextIndex' = 0
    BY <1>1 DEF loopVars
  <2>2. gone' => connection' = "failed"
    BY <1>7, <1>11
  <2> QED BY <2>1, <2>2 DEF PhaseInv
<1>14. CallsInv' /\ WholeInv' /\ EndInv'
  <2>1. \A event \in Sent' : event.type \in {"message_start", "start", "delta"}
    BY <1>5, <1>8 DEF OfStartedBlock, OfChunk
  <2>2. EndInv'
    BY <2>1 DEF EndInv, LastOf, Sent
  <2> QED BY <1>1, <2>1, <2>2 DEF CallsInv, WholeInv, Told
<1>15. ReasonInv'
  <2>1. CASE n = Len(events)
    BY <1>2, <2>1, EndingInv DEF Flags
  <2>2. CASE n # Len(events)
    <3>1. UNCHANGED <<toolCalls, finish, stopReason, usage, usageLast>>
      BY <1>2, <2>2 DEF handlerVars
    <3> QED BY <3>1, Zenon DEF IInv, ReasonInv
  <2> QED BY <2>1, <2>2
<1>16. IndexInv' /\ OpenedInv'
  <2>1. nextIndex' = 0 /\ callIndex' = 0
    BY <1>1 DEF loopVars
  <2>2. CASE n = Len(events)
    <3>1. Flags(chunk)
      BY <1>2, <2>2
    <3>2. textIndex' = IF thinkingStarted' THEN 1 ELSE 0
      BY <1>6, <3>1 DEF Flags, index
    <3>3. nextIndex' <= BlocksStarted' + callIndex'
      BY <2>1 DEF BlocksStarted
    <3>4. \A k \in 1 .. Len(events) : events[k] \in Sent'
      BY <1>7, <2>2
    <3>5. thinkingStarted' => Event("start", Thinking, 0) \in Sent'
      BY <1>3, <1>4, <1>7, <3>1, <3>4 DEF IInv, OpenedInv, Flags
    <3>6. textStarted' => \E i \in {0, 1} : Event("start", Text, i) \in Sent'
      BY <1>3, <1>4, <1>6, <1>7, <3>1, <3>4 DEF IInv, OpenedInv, Flags
    <3> QED BY <3>2, <3>3, <3>5, <3>6 DEF IndexInv, OpenedInv
  <2>3. CASE n # Len(events)
    <3>1. UNCHANGED handlerVars
      BY <1>2, <2>3
    <3> QED BY <1>1, <1>7, <2>1, <3>1 DEF IInv, IndexInv, OpenedInv, BlocksStarted, handlerVars
  <2> QED BY <2>2, <2>3
<1>17. DeltasInv'
  <2> SUFFICES ASSUME n = Len(events), NEW event \in Sent'
               PROVE  /\ OfStartedBlock(event)'
                      /\ ReasonedFirst' /\ event.item = Text => event.index = textIndex'
    BY <1>11 DEF DeltasInv
  <2>1. Flags(chunk)
    BY <1>2
  <2>2. textIndex' = index
    BY <2>1 DEF Flags, index
  <2>3. CASE event \in Sent
    <3>1. OfStartedBlock(event)
      BY <1>5, <2>3
    <3>2. OfStartedBlock(event)'
      BY <2>1, <3>1 DEF OfStartedBlock, Flags
    <3>3. ASSUME ReasonedFirst', event.item = Text PROVE event.index = textIndex'
      <4>1. event.index = textIndex /\ textStarted
        BY <1>5, <1>9, <2>3, <3>1, <3>3, BlocksDiffer DEF OfStartedBlock
      <4>2. ~first
        BY <1>4, <1>10, <3>3, <4>1
      <4> QED BY <1>3, <1>6, <2>2, <4>1, <4>2
    <3> QED BY <3>2, <3>3
  <2>4. CASE OfChunk(event, chunk)
    BY <2>1, <2>2, <2>4, BlocksDiffer DEF OfChunk, OfStartedBlock, Flags, index
  <2> QED BY <1>8, <2>3, <2>4
<1>18. OrderInv'
  <2> SUFFICES ASSUME ReasonedFirst' PROVE EventsFollow("start", "stop")'
    BY DEF OrderInv
  <2>1. EventsFollow("start", "stop")
    BY <1>9 DEF IInv, OrderInv
  <2>2. CASE n = 0
    BY <1>7, <2>1, <2>2 DEF EventsFollow
  <2>3. CASE n > 0
    <3>1. first => ~textStarted
      BY <1>10, <2>3
    <3>2. InOrder(events, Sent, "start", "stop")
      BY <1>1, <1>9, <3>1, ChunkEventsInOrder DEF events
    <3> QED BY <1>2, <1>3, <1>4, <2>1, <3>2, WriteInOrder
  <2> QED BY <1>4, <2>2, <2>3
<1>19. NumberInv'
  <2> DEFINE Opens(event) == event.type = "start" /\ event.item = Text /\ event.index = index
             opens == \E event \in Sent' : Opens(event) /\ OfChunk(event, chunk)
  <2> SUFFICES ASSUME ReasonedFirst'
               PROVE  \E m \in Nat : BlockIndices' = 0 .. (m - 1) /\ (~gone' => m = BlocksStarted')
    BY <1>1 DEF NumberInv
  <2>1. PICK m \in Nat : BlockIndices = 0 .. (m - 1) /\ m = BlocksStarted
    BY <1>1, <1>9 DEF IInv, NumberInv
  <2>2. /\ \A x : x \in BlockIndices <=> \E event \in Sent : event.type = "start" /\ x = event.index
        /\ \A x : x \in BlockIndices' <=> \E event \in Sent' : event.type = "start" /\ x = event.index
    BY DEF BlockIndices
  <2>3. n = Len(events) => BlocksStarted' = (IF thinkingStarted \/ chunk.reasoning THEN 1 ELSE 0)
                                              + (IF textStarted \/ chunk.text THEN 1 ELSE 0)
    BY <1>2 DEF Flags, BlocksStarted
  <2>4. BlocksStarted = (IF thinkingStarted THEN 1 ELSE 0) + (IF textStarted THEN 1 ELSE 0)
    BY DEF BlocksStarted
  <2>5. CASE n = 0
    <3>1. BlockIndices' = BlockIndices
      BY <1>7, <2>2, <2>5
    <3>2. n = Len(events) => BlocksStarted' = BlocksStarted
      <4>1. n = Len(events) => ~first /\ (chunk.text => textStarted)
        BY <1>4, <2>5
      <4> QED BY <1>3, <2>3, <2>4, <4>1
    <3> QED BY <1>7, <2>1, <3>1, <3>2
  <2>6. \A event \in Sent' :
          event.type = "start" =>
            \/ event \in Sent
            \/ first /\ event.index = 0
            \/ Opens(event) /\ OfChunk(event, chunk) /\ chunk.text /\ ~textStarted
    BY <1>8 DEF OfChunk, index
  <2>7. opens => index \in BlockIndices'
    BY <2>2
  <2>8. opens => chunk.text /\ ~textStarted
    BY BlocksDiffer DEF OfChunk
  <2>9. n = Len(events) /\ chunk.text /\ ~textStarted => opens
    <3> SUFFICES ASSUME n = Len(events), chunk.text, ~textStarted PROVE opens
      OBVIOUS
    <3>1. PICK k \in 1 .. Len(events) : events[k] = Event("start", Text, index)
      BY <1>4
    <3>2. events[k] \in Sent' /\ OfChunk(events[k], chunk)
      BY <1>4, <1>7
    <3> QED BY <3>1, <3>2, EventFields
  <2>10. BlockIndices \subseteq BlockIndices'
    BY <1>7, <2>2
  <2>11. CASE n > 0 /\ first
    <3>1. ~textStarted /\ m = 0 /\ index = 1
      BY <1>3, <1>6, <1>10, <2>1, <2>4, <2>11
    <3>2. 0 \in BlockIndices'
      BY <1>10, <2>2, <2>11, EventFields
    <3>3. BlockIndices' \subseteq {0} \cup (IF opens THEN {1} ELSE {})
      <4>1. BlockIndices = {}
        BY <2>1, <3>1
      <4> HIDE DEF Opens
      <4>2. \A event : Opens(event) => event.index = 1
        BY <3>1 DEF Opens
      <4> QED BY <2>2, <2>6, <4>1, <4>2
    <3> HIDE DEF opens
    <3>4. BlockIndices' = 0 .. ((IF opens THEN 2 ELSE 1) - 1)
      <4>1. CASE opens
        <5>1. BlockIndices' \subseteq {0, 1} /\ {0, 1} \subseteq BlockIndices'
          BY <2>7, <3>1, <3>2, <3>3, <4>1
        <5>2. 0 .. (2 - 1) = {0, 1}
          OBVIOUS
        <5> QED BY <4>1, <5>1, <5>2
      <4>2. CASE ~opens
        <5>1. BlockIndices' \subseteq {0} /\ {0} \subseteq BlockIndices'
          BY <3>2, <3>3, <4>2
        <5>2. 0 .. (1 - 1) = {0}
          OBVIOUS
        <5> QED BY <4>2, <5>1, <5>2
      <4> QED BY <4>1, <4>2
    <3>5. n = Len(events) => BlocksStarted' = (IF opens THEN 2 ELSE 1)
      BY <1>3, <2>3, <2>8, <2>9, <2>11, <3>1
    <3> QED BY <1>7, <3>4, <3>5
  <2>12. CASE n > 0 /\ ~first
    <3>1. BlockIndices' \subseteq BlockIndices \cup (IF opens THEN {index} ELSE {})
      <4> HIDE DEF Opens
      <4>1. \A event : Opens(event) => event.index = index
        BY DEF Opens
      <4> QED BY <2>2, <2>6, <2>12, <4>1
    <3> HIDE DEF opens
    <3>2. opens => index = m
      BY <1>3, <1>6, <2>1, <2>4, <2>8, <2>12
    <3>3. BlockIndices' = 0 .. ((IF opens THEN m + 1 ELSE m) - 1)
      <4>1. CASE opens
        <5>1. BlockIndices' = (0 .. (m - 1)) \cup {m}
          BY <2>1, <2>7, <2>10, <3>1, <3>2, <4>1
        <5>2. (0 .. (m - 1)) \cup {m} = 0 .. ((m + 1) - 1)
          OBVIOUS
        <5> QED BY <4>1, <5>1, <5>2
      <4>2. CASE ~opens
        <5>1. BlockIndices' = 0 .. (m - 1)
          BY <2>1, <2>10, <3>1, <4>2
        <5> QED BY <4>2, <5>1
      <4> QED BY <4>1, <4>2
    <3>4. n = Len(events) => BlocksStarted' = (IF opens THEN m + 1 ELSE m)
      BY <1>3, <2>1, <2>3, <2>4, <2>8, <2>9, <2>12
    <3> QED BY <1>7, <3>3, <3>4
  <2> QED BY <1>4, <2>5, <2>11, <2>12
<1> QED BY <1>12, <1>13, <1>14, <1>15, <1>16, <1>17, <1>18, <1>19 DEF IInv

\* The last events of a message are about none of its blocks.
LEMMA LastEvents ==
  ASSUME IInv, NEW events \in Seq(Events), NEW n \in 0 .. Len(events), Write(events, n),
         \A k \in 1 .. Len(events) :
           events[k].item = MessageItem /\ events[k].type \notin {"start", "delta", "stop"},
         UNCHANGED <<streamVars, handlerVars, loopVars>>, phase' \in {"stopped", "failed"}
  PROVE  /\ TypeOK' /\ IndexInv' /\ OpenedInv' /\ DeltasInv' /\ NumberInv' /\ CallsInv'
         /\ ReasonInv' /\ OrderInv'
         /\ \A type \in {"start", "delta", "stop"} : ItemsIn(type)' = ItemsIn(type)
PROOF
<1>1. sent \in Seq(Events) /\ gone \in BOOLEAN
  BY DEF IInv, TypeOK
<1>2. /\ sent' \in Seq(Events) /\ gone' \in BOOLEAN /\ Sent \subseteq Sent'
      /\ \A event \in Sent' :
           event \in Sent \/ \E k \in 1 .. Len(events) : k <= n /\ event = events[k]
  BY <1>1, WriteAdds, Zenon
<1>3. \A event \in Sent' :
        \/ event \in Sent
        \/ event.item = MessageItem /\ event.type \notin {"start", "delta", "stop"}
  BY <1>2
<1>4. ReasonedFirst' => ReasonedFirst
  BY <1>1, ReasonedFirstBefore
<1>5. \A type \in {"start", "delta", "stop"} : ItemsIn(type)' = ItemsIn(type)
  BY <1>2, <1>3 DEF ItemsIn
<1>6. TypeOK'
  BY <1>2 DEF IInv, TypeOK, StreamTypeOK, streamVars, handlerVars, loopVars
<1>7. IndexInv' /\ OpenedInv' /\ ReasonInv'
  <2>1. UNCHANGED <<toolCalls, finish, stopReason, usage, usageLast>>
    BY DEF handlerVars
  <2>2. ReasonInv'
    BY <2>1, Zenon DEF IInv, ReasonInv
  <2> QED BY <1>2, <2>2 DEF IInv, IndexInv, OpenedInv, BlocksStarted, handlerVars, loopVars
<1>8. DeltasInv' /\ CallsInv'
  BY DEF DeltasInv, CallsInv
<1>9. NumberInv'
  <2>1. BlockIndices' = BlockIndices
    BY <1>2, <1>3 DEF BlockIndices
  <2> QED BY <1>4, <2>1 DEF IInv, NumberInv
<1>10. OrderInv'
  <2>1. InOrder(events, Sent, "start", "stop")
    BY DEF InOrder, Follows
  <2> QED BY <1>1, <1>4, <2>1, WriteInOrder DEF IInv, OrderInv
<1> QED BY <1>5, <1>6, <1>7, <1>8, <1>9, <1>10

LEMMA FailIInv == IInv /\ Fail => IInv'
PROOF
<1> SUFFICES ASSUME IInv, Fail PROVE IInv'
  OBVIOUS
<1> DEFINE events == <<Event("error", MessageItem, 0)>>
<1>1. /\ phase = "streaming" /\ phase' = "failed" /\ WriteAll(events)
      /\ UNCHANGED <<streamVars, handlerVars, loopVars>>
  BY DEF Fail
<1>2. /\ events \in Seq(Events) /\ Len(events) = 1
      /\ events[1] = Event("error", MessageItem, 0)
  BY EventTypes
<1> HIDE DEF events
<1>3. PICK n \in 0 .. Len(events) : Write(events, n)
  BY <1>1 DEF WriteAll
<1>4. \A k \in 1 .. Len(events) : events[k].item = MessageItem /\ events[k].type = "error"
  BY <1>2, EventFields
<1>5. /\ TypeOK' /\ IndexInv' /\ OpenedInv' /\ DeltasInv' /\ NumberInv' /\ CallsInv'
      /\ ReasonInv' /\ OrderInv'
  BY <1>1, <1>2, <1>3, <1>4, LastEvents
<1>6. sent \in Seq(Events) /\ gone \in BOOLEAN /\ n \in {0, 1} /\ Len(sent) \in Nat
  BY <1>2, <1>3, LenProperties DEF IInv, TypeOK
<1>7. /\ Len(sent') = Len(sent) + n
      /\ \A k \in 1 .. Len(sent) : sent'[k] = sent[k]
      /\ \A k \in 1 .. Len(sent') :
           \/ k \in 1 .. Len(sent) /\ sent'[k] = sent[k]
           \/ k - Len(sent) \in 1 .. n /\ sent'[k] = events[k - Len(sent)]
  BY <1>2, <1>3, <1>6, WriteExtends, Zenon
<1>8. \A event \in Sent : event.type \notin {"message_delta", "message_stop", "error"}
  BY <1>1 DEF IInv, EndInv
<1>9. \A k \in 1 .. Len(sent') :
        \/ sent'[k].type \notin {"message_delta", "message_stop", "error"}
        \/ k = Len(sent') /\ sent'[k].type = "error"
  BY <1>4, <1>6, <1>7, <1>8 DEF Sent
<1>10. EndInv' /\ WholeInv'
  BY <1>1, <1>9 DEF EndInv, LastOf, Sent, WholeInv, Told
<1>11. PhaseInv'
  BY <1>1 DEF PhaseInv
<1> QED BY <1>5, <1>10, <1>11 DEF IInv

LEMMA StopIInv == IInv /\ Stop => IInv'
PROOF
<1> SUFFICES ASSUME IInv, Stop PROVE IInv'
  OBVIOUS
<1> DEFINE events == <<Event("message_delta", MessageItem, 0), Event("message_stop", MessageItem, 0)>>
<1>1. /\ phase = "calling" /\ phase' = "stopped" /\ LoopStops /\ WriteAll(events)
      /\ UNCHANGED <<streamVars, handlerVars, loopVars>>
  BY DEF Stop
<1>2. /\ events \in Seq(Events) /\ Len(events) = 2
      /\ events[1] = Event("message_delta", MessageItem, 0)
      /\ events[2] = Event("message_stop", MessageItem, 0)
  BY EventTypes
<1> HIDE DEF events
<1>3. PICK n \in 0 .. Len(events) : Write(events, n)
  BY <1>1 DEF WriteAll
<1>4. \A k \in 1 .. Len(events) :
        /\ events[k].item = MessageItem
        /\ events[k].type \in {"message_delta", "message_stop"}
        /\ events[k].type = "message_stop" => k = 2
  BY <1>2, EventFields
<1>5. /\ TypeOK' /\ IndexInv' /\ OpenedInv' /\ DeltasInv' /\ NumberInv' /\ CallsInv'
      /\ ReasonInv' /\ OrderInv'
      /\ \A type \in {"start", "delta", "stop"} : ItemsIn(type)' = ItemsIn(type)
  BY <1>1, <1>2, <1>3, <1>4, LastEvents
<1>6. sent \in Seq(Events) /\ gone \in BOOLEAN /\ n \in 0 .. 2 /\ Len(sent) \in Nat
  BY <1>2, <1>3, LenProperties DEF IInv, TypeOK
<1>7. /\ Len(sent') = Len(sent) + n /\ (gone => n = 0)
      /\ \A k \in 1 .. Len(sent') :
           \/ k \in 1 .. Len(sent) /\ sent'[k] = sent[k]
           \/ k - Len(sent) \in 1 .. n /\ sent'[k] = events[k - Len(sent)]
  <2>1. /\ Len(sent') = Len(sent) + n /\ (gone => n = 0)
        /\ \A k \in 1 .. Len(sent') :
             \/ k \in 1 .. Len(sent) /\ sent'[k] = sent[k]
             \/ /\ k - Len(sent) \in 1 .. n
                /\ sent'[k] = events[k - Len(sent)]
    <3>1. events \in Seq(Events) /\ sent \in Seq(Events) /\ gone \in BOOLEAN
      BY <1>2, <1>6
    <3> QED BY <1>3, <3>1, WriteExtends, Zenon
  <2> QED BY <2>1
<1>8. \A event \in Sent : event.type \notin {"message_delta", "message_stop", "error"}
  BY <1>1 DEF IInv, EndInv
<1>9. \A k \in 1 .. Len(sent') :
        /\ sent'[k].type # "error"
        /\ sent'[k].type = "message_stop" => k = Len(sent') /\ ~gone
  <2> SUFFICES ASSUME NEW k \in 1 .. Len(sent')
               PROVE  /\ sent'[k].type # "error"
                      /\ sent'[k].type = "message_stop" => k = Len(sent') /\ ~gone
    OBVIOUS
  <2>1. CASE k \in 1 .. Len(sent) /\ sent'[k] = sent[k]
    BY <1>8, <2>1 DEF Sent
  <2>2. CASE k - Len(sent) \in 1 .. n /\ sent'[k] = events[k - Len(sent)]
    <3>1. k - Len(sent) \in 1 .. Len(events)
      BY <1>2, <1>6, <2>2
    <3>2. sent'[k].type # "error" /\ (sent'[k].type = "message_stop" => k - Len(sent) = 2)
      BY <1>4, <2>2, <3>1
    <3> QED BY <1>6, <1>7, <2>2, <3>2
  <2> QED BY <1>7, <2>1, <2>2
<1>10. EndInv'
  BY <1>1, <1>9 DEF EndInv, LastOf, Sent
<1>11. WholeInv'
  <2> SUFFICES ASSUME Told({"message_stop"})' PROVE WholeInv'
    BY <1>1 DEF WholeInv
  <2>1. ~gone
    BY <1>9 DEF Told, Sent
  <2>2. /\ ItemsIn("start") = ItemsIn("stop")
        /\ ItemsIn("delta") \subseteq ItemsIn("start")
        /\ \A i \in CallIndices :
             Call(i) \in ItemsIn("start") <=> i \in toolCalls /\ i < callIndex
    BY <1>1, <2>1 DEF IInv, WholeInv
  <2>3. UNCHANGED <<toolCalls, callIndex>>
    BY <1>1 DEF handlerVars, loopVars
  <2> QED BY <1>5, <2>2, <2>3 DEF WholeInv
<1>12. PhaseInv'
  BY <1>1 DEF IInv, PhaseInv, LoopStops, streamVars, handlerVars, loopVars
<1> QED BY <1>5, <1>10, <1>11, <1>12 DEF IInv

LEMMA StutterIInv == IInv /\ UNCHANGED vars => IInv'
PROOF
<1> SUFFICES ASSUME IInv, UNCHANGED vars PROVE IInv'
  OBVIOUS
<1>1. UNCHANGED <<streamVars, phase, clientVars, handlerVars, loopVars>>
  BY DEF vars
<1>2. Sent' = Sent /\ (ReasonedFirst' <=> ReasonedFirst)
  BY <1>1 DEF Sent, ReasonedFirst, clientVars
<1>3. TypeOK'
  BY <1>1 DEF IInv, TypeOK, StreamTypeOK, streamVars, clientVars, handlerVars, loopVars
<1>4. PhaseInv' /\ IndexInv' /\ OpenedInv'
  BY <1>1, <1>2 DEF IInv, PhaseInv, IndexInv, OpenedInv, BlocksStarted, LoopStops, streamVars,
                    clientVars, handlerVars, loopVars
<1>5. DeltasInv' /\ CallsInv' /\ WholeInv'
  BY <1>1, <1>2 DEF IInv, DeltasInv, OfStartedBlock, CallsInv, WholeInv, Told, ItemsIn,
                    streamVars, clientVars, handlerVars, loopVars
<1>6. NumberInv' /\ EndInv' /\ OrderInv'
  BY <1>1, <1>2 DEF IInv, NumberInv, BlockIndices, BlocksStarted, EndInv, LastOf, OrderInv,
                    EventsFollow, clientVars, handlerVars, loopVars
<1>7. ReasonInv'
  <2>1. UNCHANGED <<toolCalls, finish, stopReason, usage, usageLast>>
    BY <1>1 DEF handlerVars
  <2> QED BY <2>1, Zenon DEF IInv, ReasonInv
<1> QED BY <1>3, <1>4, <1>5, <1>6, <1>7 DEF IInv

\* Each started block is stopped once.
LEMMA StopEventsInOrder ==
  ASSUME IInv, phase = "streaming", connection = "ended"
  PROVE  /\ StopEvents \in Seq(Events)
         /\ ReasonedFirst => InOrder(StopEvents, Sent, "start", "stop")
         /\ \A k \in 1 .. Len(StopEvents) :
              \/ thinkingStarted /\ StopEvents[k] = Event("stop", Thinking, 0)
              \/ textStarted /\ StopEvents[k] = Event("stop", Text, textIndex)
         /\ thinkingStarted =>
              \E k \in 1 .. Len(StopEvents) : StopEvents[k] = Event("stop", Thinking, 0)
         /\ textStarted =>
              \E k \in 1 .. Len(StopEvents) : StopEvents[k] = Event("stop", Text, textIndex)
PROOF
<1> DEFINE rStop == Event("stop", Thinking, 0)
           tStop == Event("stop", Text, textIndex)
           r == IF thinkingStarted THEN <<rStop>> ELSE <<>>
           t == IF textStarted THEN <<tStop>> ELSE <<>>
           InR == {r[j] : j \in 1 .. Len(r)}
<1>1. rStop \in Events /\ tStop \in Events
  BY EventTypes, BlocksDiffer DEF IInv, TypeOK
<1>2. \A event \in Sent :
        event.type # "stop" /\ (ReasonedFirst /\ event.item = Text => event.index = textIndex)
  BY DEF IInv, DeltasInv, OfStartedBlock
<1>3. rStop \notin Sent /\ tStop \notin Sent /\ rStop # tStop
  BY <1>2, EventFields, BlocksDiffer
<1>4. /\ r \in Seq(Events)
      /\ InOrder(r, Sent, "start", "stop")
      /\ \A k \in 1 .. Len(r) : thinkingStarted /\ r[k] = rStop
      /\ thinkingStarted => 1 \in 1 .. Len(r) /\ r[1] = rStop
  <2>1. CASE thinkingStarted
    <3>1. InOrder(<<rStop>>, Sent, "start", "stop")
      BY <1>3, <2>1, ClosingInOrder DEF IInv, OpenedInv
    <3>2. r = <<rStop>>
      BY <2>1
    <3> HIDE DEF r, rStop
    <3> QED BY <1>1, <2>1, <3>1, <3>2
  <2>2. CASE ~thinkingStarted
    BY <2>2 DEF InOrder
  <2> QED BY <2>1, <2>2
<1>5. InR \subseteq {rStop}
  BY <1>4
<1>6. /\ t \in Seq(Events)
      /\ ReasonedFirst => InOrder(t, Sent \cup InR, "start", "stop")
      /\ \A k \in 1 .. Len(t) : textStarted /\ t[k] = tStop
      /\ textStarted => 1 \in 1 .. Len(t) /\ t[1] = tStop
  <2>1. CASE textStarted
    <3> DEFINE B == Sent \cup InR
    <3>1. ReasonedFirst => Event("start", Text, textIndex) \in B
      <4>1. PICK i \in {0, 1} : Event("start", Text, i) \in Sent
        BY <2>1 DEF IInv, OpenedInv
      <4> QED BY <1>2, <4>1, EventFields
    <3>2. tStop \notin B
      BY <1>3, <1>5
    <3> HIDE DEF B
    <3>3. ReasonedFirst => InOrder(<<tStop>>, B, "start", "stop")
      BY <3>1, <3>2, ClosingInOrder
    <3>4. t = <<tStop>>
      BY <2>1
    <3> HIDE DEF t, tStop
    <3> QED BY <1>1, <2>1, <3>3, <3>4 DEF B
  <2>2. CASE ~textStarted
    BY <2>2 DEF InOrder
  <2> QED BY <2>1, <2>2
<1>7. StopEvents = r \o t
  BY DEF StopEvents
<1> HIDE DEF r, t, rStop, tStop
<1>8. StopEvents \in Seq(Events) /\ (ReasonedFirst => InOrder(StopEvents, Sent, "start", "stop"))
  BY <1>4, <1>6, <1>7, ConcatInOrder, ConcatProperties
<1>9. /\ \A k \in 1 .. Len(r) : k \in 1 .. Len(r \o t) /\ (r \o t)[k] = r[k]
      /\ \A k \in 1 .. Len(t) : Len(r) + k \in 1 .. Len(r \o t) /\ (r \o t)[Len(r) + k] = t[k]
      /\ \A k \in 1 .. Len(r \o t) :
           \/ k \in 1 .. Len(r) /\ (r \o t)[k] = r[k]
           \/ k - Len(r) \in 1 .. Len(t) /\ (r \o t)[k] = t[k - Len(r)]
  BY <1>4, <1>6, ConcatElements
<1>10. \A k \in 1 .. Len(r \o t) :
         (thinkingStarted /\ (r \o t)[k] = rStop) \/ (textStarted /\ (r \o t)[k] = tStop)
  BY <1>4, <1>6, <1>9, Zenon
<1>11. thinkingStarted => \E k \in 1 .. Len(r \o t) : (r \o t)[k] = rStop
  BY <1>4, <1>9, Zenon
<1>12. textStarted => \E k \in 1 .. Len(r \o t) : (r \o t)[k] = tStop
  <2>1. textStarted => /\ Len(r) + 1 \in 1 .. Len(r \o t)
                       /\ (r \o t)[Len(r) + 1] = t[1] /\ t[1] = tStop
    BY <1>6, <1>9
  <2> QED BY <2>1
<1> QED BY <1>7, <1>8, <1>10, <1>11, <1>12 DEF rStop, tStop

LEMMA CloseIInv == IInv /\ Close => IInv'
PROOF
<1> SUFFICES ASSUME IInv, Close PROVE IInv'
  OBVIOUS
<1>1. /\ phase = "streaming" /\ connection = "ended" /\ phase' = "calling"
      /\ nextIndex' = BlocksStarted /\ callIndex = 0 /\ nextIndex = 0
      /\ UNCHANGED <<streamVars, handlerVars, callIndex>>
  BY DEF Close, IInv, PhaseInv
<1>2. PICK n \in 0 .. Len(StopEvents) : Write(StopEvents, n)
  BY DEF Close, WriteAll
<1>3. /\ sent \in Seq(Events) /\ gone \in BOOLEAN /\ thinkingStarted \in BOOLEAN
      /\ textStarted \in BOOLEAN /\ toolCalls \in SUBSET CallIndices /\ ~gone
  BY <1>1 DEF IInv, TypeOK, PhaseInv
<1>4. /\ StopEvents \in Seq(Events)
      /\ ReasonedFirst => InOrder(StopEvents, Sent, "start", "stop")
      /\ \A k \in 1 .. Len(StopEvents) :
           \/ thinkingStarted /\ StopEvents[k] = Event("stop", Thinking, 0)
           \/ textStarted /\ StopEvents[k] = Event("stop", Text, textIndex)
      /\ thinkingStarted =>
           \E k \in 1 .. Len(StopEvents) : StopEvents[k] = Event("stop", Thinking, 0)
      /\ textStarted =>
           \E k \in 1 .. Len(StopEvents) : StopEvents[k] = Event("stop", Text, textIndex)
  BY <1>1, StopEventsInOrder
<1>5. /\ sent' \in Seq(Events) /\ gone' \in BOOLEAN /\ Sent \subseteq Sent'
      /\ \A event \in Sent' :
           event \in Sent \/ \E k \in 1 .. Len(StopEvents) : k <= n /\ event = StopEvents[k]
      /\ \A k \in 1 .. n : StopEvents[k] \in Sent'
      /\ ~gone' => n = Len(StopEvents)
  BY <1>2, <1>3, <1>4, WriteAdds, Zenon
<1>6. \A event \in Sent : OfStartedBlock(event)
  BY <1>1 DEF IInv, DeltasInv
<1>7. \A event \in Sent' :
        \/ event \in Sent
        \/ thinkingStarted /\ event = Event("stop", Thinking, 0)
        \/ textStarted /\ event = Event("stop", Text, textIndex)
  BY <1>4, <1>5
<1>8. ReasonedFirst' => ReasonedFirst
  BY <1>2, <1>3, <1>4, ReasonedFirstBefore
<1>9. BlocksStarted \in 0 .. 2
  BY DEF BlocksStarted
<1>10. TypeOK'
  <2>1. nextIndex' \in 0 .. Cardinality(CallIndices) + 2
    BY <1>1, <1>9, CallsCounted
  <2> QED BY <1>1, <1>5, <2>1 DEF IInv, TypeOK, StreamTypeOK, streamVars, handlerVars
<1>11. PhaseInv' /\ IndexInv' /\ OpenedInv'
  <2>1. BlocksStarted' = BlocksStarted
    BY <1>1 DEF BlocksStarted, handlerVars
  <2>2. nextIndex' <= BlocksStarted' + callIndex'
    BY <1>1, <1>9, <2>1
  <2> QED BY <1>1, <1>5, <2>2 DEF IInv, PhaseInv, IndexInv, OpenedInv, streamVars, handlerVars
<1>12. DeltasInv' /\ CallsInv'
  <2>1. \A event \in Sent' : event.item \in {MessageItem, Thinking, Text}
    BY <1>6, <1>7, EventFields DEF OfStartedBlock
  <2> QED BY <1>1, <2>1, BlocksDiffer DEF DeltasInv, CallsInv
<1>13. NumberInv'
  <2>1. BlockIndices' = BlockIndices
    BY <1>5, <1>7, EventFields DEF BlockIndices
  <2> QED BY <1>1, <1>3, <1>8, <2>1 DEF IInv, NumberInv
<1>14. EndInv'
  <2>1. \A event \in Sent' : event.type \in {"message_start", "start", "delta", "stop"}
    BY <1>6, <1>7, EventFields DEF OfStartedBlock
  <2> QED BY <2>1 DEF EndInv, LastOf, Sent
<1>15. WholeInv'
  <2> DEFINE Started(item) == (thinkingStarted /\ item = Thinking) \/ (textStarted /\ item = Text)
  <2> SUFFICES ASSUME ~gone'
               PROVE  /\ ItemsIn("start")' = ItemsIn("stop")'
                      /\ ItemsIn("delta")' \subseteq ItemsIn("start")'
                      /\ \A i \in CallIndices :
                           Call(i) \notin ItemsIn("start")' /\ ~(i < callIndex')
    <3>1. ~Told({"message_stop"})'
      BY <1>6, <1>7, EventFields DEF OfStartedBlock, Told
    <3> QED BY <3>1 DEF WholeInv
  <2>1. \A k \in 1 .. Len(StopEvents) : StopEvents[k] \in Sent'
    BY <1>5
  <2>2. \A item : item \in ItemsIn("stop")' <=> Started(item)
    <3>1. ASSUME NEW item, item \in ItemsIn("stop")' PROVE Started(item)
      <4>1. PICK event \in Sent' : event.type = "stop" /\ event.item = item
        BY <3>1 DEF ItemsIn
      <4> QED BY <1>6, <1>7, <4>1, EventFields DEF OfStartedBlock
    <3>2. thinkingStarted => Event("stop", Thinking, 0) \in Sent'
      BY <1>4, <2>1
    <3>3. textStarted => Event("stop", Text, textIndex) \in Sent'
      BY <1>4, <2>1
    <3>4. ASSUME NEW item, Started(item) PROVE item \in ItemsIn("stop")'
      BY <3>2, <3>3, <3>4, EventFields DEF ItemsIn
    <3> QED BY <3>1, <3>4
  <2>3. \A item : item \in ItemsIn("start")' <=> Started(item)
    <3>1. ASSUME NEW item, item \in ItemsIn("start")' PROVE Started(item)
      <4>1. PICK event \in Sent' : event.type = "start" /\ event.item = item
        BY <3>1 DEF ItemsIn
      <4> QED BY <1>6, <1>7, <4>1, EventFields DEF OfStartedBlock
    <3>2. thinkingStarted => Event("start", Thinking, 0) \in Sent'
      BY <1>5 DEF IInv, OpenedInv
    <3>3. textStarted => \E i \in {0, 1} : Event("start", Text, i) \in Sent'
      BY <1>5 DEF IInv, OpenedInv
    <3>4. ASSUME NEW item, Started(item) PROVE item \in ItemsIn("start")'
      BY <3>2, <3>3, <3>4, EventFields DEF ItemsIn
    <3> QED BY <3>1, <3>4
  <2>4. \A item : item \in ItemsIn("delta")' => Started(item)
    <3> SUFFICES ASSUME NEW item, item \in ItemsIn("delta")' PROVE Started(item)
      OBVIOUS
    <3>1. PICK event \in Sent' : event.type = "delta" /\ event.item = item
      BY DEF ItemsIn
    <3> QED BY <1>6, <1>7, <3>1, EventFields DEF OfStartedBlock
  <2>5. \A i \in CallIndices : ~Started(Call(i)) /\ ~(i < callIndex')
    BY <1>1, AnthropicStreamAssumption, BlocksDiffer
  <2> HIDE DEF Started
  <2> QED BY <2>2, <2>3, <2>4, <2>5
<1>16. ReasonInv'
  <2>1. UNCHANGED <<toolCalls, finish, stopReason, usage, usageLast>>
    BY <1>1 DEF handlerVars
  <2> QED BY <2>1, Zenon DEF IInv, ReasonInv
<1>17. OrderInv'
  BY <1>2, <1>3, <1>4, <1>8, WriteInOrder DEF IInv, OrderInv
<1> QED BY <1>10, <1>11, <1>12, <1>13, <1>14, <1>15, <1>16, <1>17 DEF IInv

LEMMA EmitCallIInv == IInv /\ EmitCall => IInv'
PROOF
<1> SUFFICES ASSUME IInv, EmitCall PROVE IInv'
  OBVIOUS
<1> DEFINE call == Call(callIndex)
           starting == Event("start", call, nextIndex)
           stopping == Event("stop", call, nextIndex)
           events == <<starting, stopping>>
<1>1. /\ phase = "calling" /\ ~LoopStops /\ callIndex' = callIndex + 1
      /\ UNCHANGED <<streamVars, phase, handlerVars>>
  BY DEF EmitCall
<1>2. /\ sent \in Seq(Events) /\ gone \in BOOLEAN /\ toolCalls \in SUBSET CallIndices
      /\ Cardinality(toolCalls) \in Nat /\ Cardinality(CallIndices) \in Nat
      /\ Cardinality(toolCalls) <= Cardinality(CallIndices)
      /\ callIndex \in Nat /\ callIndex + 1 \in 0 .. Cardinality(toolCalls)
      /\ nextIndex \in Nat /\ nextIndex <= BlocksStarted + callIndex
      /\ BlocksStarted \in 0 .. 2
  <2>1. toolCalls \in SUBSET CallIndices
    BY DEF IInv, TypeOK
  <2> QED BY <1>1, <2>1, CallsCounted DEF IInv, TypeOK, LoopStops, IndexInv, BlocksStarted
<1>3. \A event \in Sent, i \in Nat : event.item = Call(i) => i < callIndex
  BY <1>1 DEF IInv, CallsInv
<1>4. /\ BlocksStarted' = BlocksStarted /\ ReasonInv'
      /\ UNCHANGED <<connection, phase, toolCalls, thinkingStarted, textStarted, textIndex>>
  <2>1. UNCHANGED <<toolCalls, finish, stopReason, usage, usageLast>>
    BY <1>1 DEF handlerVars
  <2>2. ReasonInv'
    BY <2>1, Zenon DEF IInv, ReasonInv
  <2> QED BY <1>1, <2>2 DEF BlocksStarted, handlerVars, streamVars
<1>5. \A event \in Sent : event.type \notin {"message_delta", "message_stop", "error"}
  BY <1>1 DEF IInv, EndInv
<1>6. CASE callIndex \notin toolCalls
  <2>1. UNCHANGED <<clientVars, nextIndex>>
    BY <1>6 DEF EmitCall
  <2>2. Sent' = Sent /\ (ReasonedFirst' <=> ReasonedFirst)
    BY <2>1 DEF Sent, ReasonedFirst, clientVars
  <2>3. TypeOK'
    BY <1>1, <1>2, <2>1 DEF IInv, TypeOK, StreamTypeOK, streamVars, handlerVars, clientVars
  <2>4. PhaseInv' /\ IndexInv' /\ OpenedInv'
    BY <1>1, <1>2, <1>4, <2>1, <2>2 DEF IInv, PhaseInv, IndexInv, OpenedInv
  <2>5. CallsInv'
    BY <1>1, <1>2, <1>3, <2>2 DEF CallsInv
  <2>6. WholeInv'
    <3>1. \A i \in CallIndices :
            i \in toolCalls /\ i < callIndex + 1 <=> i \in toolCalls /\ i < callIndex
      BY <1>2, <1>6, AnthropicStreamAssumption
    <3> QED BY <1>1, <1>4, <2>1, <2>2, <3>1 DEF IInv, WholeInv, Told, ItemsIn, clientVars
  <2>7. DeltasInv' /\ NumberInv'
    BY <1>1, <1>4, <2>1, <2>2 DEF IInv, DeltasInv, NumberInv, BlockIndices, clientVars
  <2>8. EndInv' /\ OrderInv'
    BY <1>1, <2>1, <2>2 DEF IInv, EndInv, LastOf, OrderInv, EventsFollow, clientVars
  <2> QED BY <1>4, <2>3, <2>4, <2>5, <2>6, <2>7, <2>8 DEF IInv
<1>7. CASE callIndex \in toolCalls
  <2>1. WriteAll(events) /\ nextIndex' = nextIndex + 1
    BY <1>7 DEF EmitCall
  <2>2. starting \in Events /\ stopping \in Events
    BY <1>2, <1>7, BlocksDiffer, EventTypes
  <2>3. /\ starting.type = "start" /\ starting.item = call /\ starting.index = nextIndex
        /\ stopping.type = "stop" /\ stopping.item = call /\ stopping.index = nextIndex
    BY EventFields
  <2>4. /\ events \in Seq(Events) /\ Len(events) = 2
        /\ events[1] = starting /\ events[2] = stopping
    BY <2>2
\* No event is about this call, and no block has its index.
  <2>5. \A event \in Sent : event.item # call
    BY <1>2, <1>3
  <2>6. ReasonedFirst /\ ~gone =>
          /\ BlockIndices = 0 .. (nextIndex - 1)
          /\ InOrder(events, Sent, "start", "stop")
    <3> SUFFICES ASSUME ReasonedFirst, ~gone
                 PROVE  /\ BlockIndices = 0 .. (nextIndex - 1)
                        /\ InOrder(events, Sent, "start", "stop")
      OBVIOUS
    <3>1. BlockIndices = 0 .. (nextIndex - 1)
      BY <1>1 DEF IInv, NumberInv
    <3>2. stopping \notin Sent
      BY <2>3, <2>5
    <3>3. ASSUME NEW b \in Sent, b.type = "start" PROVE b.item # call /\ b.index # nextIndex
      <4>1. b.index \in 0 .. (nextIndex - 1)
        BY <3>1, <3>3 DEF BlockIndices
      <4> QED BY <1>2, <2>5, <4>1
    <3> HIDE DEF call
    <3> QED BY <3>1, <3>2, <3>3, OpeningInOrder
  <2> HIDE DEF events
  <2>7. PICK n \in 0 .. Len(events) : Write(events, n)
    BY <2>1 DEF WriteAll
  <2>8. /\ sent' \in Seq(Events) /\ gone' \in BOOLEAN /\ Sent \subseteq Sent'
        /\ \A event \in Sent' :
             event \in Sent \/ \E k \in 1 .. Len(events) : k <= n /\ event = events[k]
        /\ \A k \in 1 .. n : events[k] \in Sent'
        /\ n = 0 => sent' = sent /\ Sent' = Sent
        /\ gone => gone' /\ n = 0
        /\ ~gone' => ~gone /\ n = Len(events)
    BY <1>2, <2>4, <2>7, WriteAdds, Zenon
  <2>9. /\ \A event \in Sent' : event \in Sent \/ event = starting \/ event = stopping
        /\ n > 0 => starting \in Sent'
        /\ ~gone' => starting \in Sent' /\ stopping \in Sent'
    <3>1. n \in 0 .. 2 /\ \A k \in 1 .. Len(events) : k \in {1, 2}
      BY <2>4, <2>7
    <3> QED BY <2>4, <2>8, <3>1
  <2> HIDE DEF starting, stopping
  <2>10. ReasonedFirst' => ReasonedFirst
    BY <1>2, <2>4, <2>7, ReasonedFirstBefore
  <2>11. TypeOK'
    <3>1. nextIndex' \in 0 .. Cardinality(CallIndices) + 2
      BY <1>2, <2>1
    <3> QED BY <1>1, <1>2, <2>8, <3>1 DEF IInv, TypeOK, StreamTypeOK, streamVars, handlerVars
  <2>12. PhaseInv' /\ IndexInv' /\ OpenedInv'
    <3>1. nextIndex' <= BlocksStarted' + callIndex'
      BY <1>1, <1>2, <1>4, <2>1
    <3> QED BY <1>1, <1>4, <2>8, <3>1 DEF IInv, PhaseInv, IndexInv, OpenedInv
  <2>13. DeltasInv'
    BY <1>1 DEF DeltasInv
  <2>14. CallsInv'
    <3> SUFFICES ASSUME NEW event \in Sent', NEW i \in Nat, event.item = Call(i)
                 PROVE  i < callIndex'
      BY DEF CallsInv
    <3>1. event \in Sent => i < callIndex
      BY <1>3
    <3>2. event \notin Sent => i = callIndex
      BY <2>3, <2>9, BlocksDiffer
    <3> QED BY <1>1, <1>2, <3>1, <3>2
  <2>15. EndInv'
    <3>1. \A event \in Sent' : event.type \notin {"message_delta", "message_stop", "error"}
      BY <1>5, <2>3, <2>9
    <3> QED BY <3>1 DEF EndInv, LastOf, Sent
  <2>16. WholeInv'
    <3> SUFFICES ASSUME ~gone' PROVE WholeInv'
      <4>1. ~Told({"message_stop"})'
        BY <1>5, <2>3, <2>9 DEF Told
      <4> QED BY <4>1 DEF WholeInv
    <3>1. /\ ItemsIn("start") = ItemsIn("stop")
          /\ ItemsIn("delta") \subseteq ItemsIn("start")
          /\ \A i \in CallIndices :
               Call(i) \in ItemsIn("start") <=> i \in toolCalls /\ i < callIndex
      BY <1>1, <2>8 DEF IInv, WholeInv
    <3>2. /\ ItemsIn("start")' = ItemsIn("start") \cup {call}
          /\ ItemsIn("stop")' = ItemsIn("stop") \cup {call}
          /\ ItemsIn("delta")' = ItemsIn("delta")
      BY <2>3, <2>8, <2>9 DEF ItemsIn
    <3>3. ASSUME NEW i \in CallIndices
          PROVE  Call(i) \in ItemsIn("start")' <=> i \in toolCalls /\ i < callIndex + 1
      <4>1. Call(i) = call <=> i = callIndex
        BY BlocksDiffer
      <4> HIDE DEF call
      <4>2. i \in Nat /\ (i < callIndex + 1 <=> i < callIndex \/ i = callIndex)
        BY <1>2, AnthropicStreamAssumption
      <4> QED BY <1>7, <3>1, <3>2, <4>1, <4>2
    <3> QED BY <1>1, <1>4, <3>1, <3>2, <3>3 DEF WholeInv
  <2>17. NumberInv'
    <3> SUFFICES ASSUME ReasonedFirst'
                 PROVE  \E m \in Nat : BlockIndices' = 0 .. (m - 1) /\ (~gone' => m = nextIndex')
      BY <1>1 DEF NumberInv
    <3>1. PICK m \in Nat : BlockIndices = 0 .. (m - 1)
      BY <2>10 DEF IInv, NumberInv
    <3>2. CASE n = 0
      <4>1. gone' /\ BlockIndices' = BlockIndices
        BY <2>4, <2>8, <3>2 DEF BlockIndices
      <4> QED BY <3>1, <4>1
    <3>3. CASE n > 0
      <4>1. ~gone
        BY <2>8, <3>3
      <4>2. BlockIndices' = BlockIndices \cup {nextIndex}
        BY <2>3, <2>8, <2>9, <3>3 DEF BlockIndices
      <4>3. (0 .. (nextIndex - 1)) \cup {nextIndex} = 0 .. ((nextIndex + 1) - 1)
        BY <1>2
      <4>4. BlockIndices' = 0 .. ((nextIndex + 1) - 1) /\ nextIndex + 1 \in Nat
        BY <1>2, <2>6, <2>10, <4>1, <4>2, <4>3
      <4> QED BY <2>1, <4>4
    <3> QED BY <2>4, <2>7, <3>2, <3>3
  <2>18. OrderInv'
    <3> SUFFICES ASSUME ReasonedFirst' PROVE EventsFollow("start", "stop")'
      BY DEF OrderInv
    <3>1. EventsFollow("start", "stop")
      BY <2>10 DEF IInv, OrderInv
    <3>2. CASE gone
      BY <2>8, <3>1, <3>2 DEF EventsFollow
    <3>3. CASE ~gone
      BY <1>2, <2>4, <2>6, <2>7, <2>10, <3>1, <3>3, WriteInOrder
    <3> QED BY <3>2, <3>3
  <2> QED BY <1>4, <2>11, <2>12, <2>13, <2>14, <2>15, <2>16, <2>17, <2>18 DEF IInv
<1> QED BY <1>6, <1>7

\* Blocks in order have as many indices as there are of them.
LEMMA BlocksCounted ==
  ASSUME sent \in Seq(Events), EventsFollow("start", "stop")
  PROVE  Cardinality(Positions("start")) = Cardinality(BlockIndices)
PROOF
<1> DEFINE P == Positions("start")
           f == [k \in P |-> sent[k].index]
<1>1. Len(sent) \in Nat /\ IsFiniteSet(P)
  <2>1. Len(sent) \in Nat /\ IsFiniteSet(1 .. Len(sent))
    BY FS_Interval, LenProperties
  <2>2. P \in SUBSET (1 .. Len(sent))
    BY DEF Positions
  <2> QED BY <2>1, <2>2, FS_Subset
<1>2. \A k \in P : k \in 1 .. Len(sent) /\ sent[k].type = "start" /\ sent[k] \in Sent
  BY DEF Positions, Sent
<1>3. ASSUME NEW j \in P, NEW k \in P, j < k PROVE sent[j].index # sent[k].index
  <2>1. Follows(sent[k], {} \cup Before(sent, k), "start", "stop")
    BY <1>2 DEF EventsFollow, InOrder
  <2>2. j \in 1 .. (k - 1)
    BY <1>1, <1>2, <1>3
  <2>3. sent[j] \in Before(sent, k)
    BY <2>2 DEF Before
  <2> QED BY <1>2, <2>1, <2>3 DEF Follows
<1>4. \A j, k \in P : f[j] = f[k] => j = k
  <2>1. \A j, k \in P : j < k \/ k < j \/ j = k
    BY <1>1, <1>2
  <2> QED BY <1>3, <2>1
<1>5. f \in [P -> BlockIndices]
  BY <1>2 DEF BlockIndices
<1>6. \A x \in BlockIndices : \E k \in P : f[k] = x
  BY DEF BlockIndices, Sent, Positions
<1>7. f \in Surjection(P, BlockIndices) /\ f \in Injection(P, BlockIndices)
  BY <1>4, <1>5, <1>6 DEF Surjection, Injection, IsInjective
<1> QED BY <1>1, <1>7, FS_Surjection

------------------------------------------------------------------------------
(* The theorems.                                                           *)

\* The inductive invariant: flags, indices and phase agree with what the client has.
THEOREM StreamInvariant == Spec => []IInv
PROOF
<1>1. Init => IInv
  BY InitIInv
<1>2. IInv /\ [Next]_vars => IInv'
  <2> SUFFICES ASSUME IInv, [Next]_vars PROVE IInv'
    OBVIOUS
  <2>1. CASE Open
    BY <2>1, OpenIInv
  <2>2. CASE Upstream
    BY <2>2, UpstreamIInv
  <2>3. CASE Fail
    BY <2>3, FailIInv
  <2>4. CASE Close
    BY <2>4, CloseIInv
  <2>5. CASE EmitCall
    BY <2>5, EmitCallIInv
  <2>6. CASE Stop
    BY <2>6, StopIInv
  <2>7. ASSUME NEW chunk \in Chunks, Chunk(chunk) PROVE IInv'
    BY <2>7, ChunkIInv
  <2>8. CASE Over \/ UNCHANGED vars
    BY <2>8, StutterIInv DEF Over
  <2> QED BY <2>1, <2>2, <2>3, <2>4, <2>5, <2>6, <2>7, <2>8 DEF Next
<1> QED BY <1>1, <1>2, PTL DEF Spec

\* streamAnthropicMessage keeps the types of its variables.
THEOREM TypeCorrect == Spec => []TypeOK
PROOF BY StreamInvariant, PTL DEF IInv

\* Wherever the upstream or the client breaks off, the blocks of an upstream that
\* reasons before it answers are in order and numbered without a gap.
THEOREM BlocksAreInOrder == Spec => []BlocksAreFollowed
PROOF
<1>1. IInv => BlocksAreFollowed
  <2> SUFFICES ASSUME IInv, ReasonedFirst
               PROVE  /\ EventsFollow("start", "stop")
                      /\ {sent[k].index : k \in Positions("start")}
                           = 0 .. (Cardinality(Positions("start")) - 1)
    BY DEF BlocksAreFollowed
  <2>1. EventsFollow("start", "stop") /\ sent \in Seq(Events)
    BY DEF IInv, OrderInv, TypeOK
  <2>2. PICK m \in Nat : BlockIndices = 0 .. (m - 1)
    BY DEF IInv, NumberInv
  <2>3. Cardinality(0 .. (m - 1)) = m
    BY FS_Interval
  <2>4. Cardinality(Positions("start")) = m
    BY <2>1, <2>2, <2>3, BlocksCounted
  <2>5. {sent[k].index : k \in Positions("start")} = BlockIndices
    BY DEF Positions, BlockIndices, Sent
  <2> QED BY <2>1, <2>2, <2>4, <2>5
<1> QED BY <1>1, StreamInvariant, PTL

\* A client told of message_stop has every block, whatever the upstream mixes.
THEOREM StoppedIsWhole == Spec => []StoppedMessageIsWhole
PROOF
<1>1. IInv => StoppedMessageIsWhole
  <2> SUFFICES ASSUME IInv PROVE StoppedMessageIsWhole
    OBVIOUS
  <2>1. LastOf({"message_stop", "error"})
    BY DEF IInv, EndInv
  <2>2. Told({"message_stop", "message_delta"}) => phase = "stopped" /\ connection = "ended"
    BY DEF IInv, EndInv, PhaseInv, Told
  <2>3. ASSUME Told({"message_stop"})
        PROVE  /\ ItemsIn("start") = ItemsIn("stop")
               /\ ItemsIn("delta") \subseteq ItemsIn("start")
               /\ toolCalls = 0 .. (Cardinality(toolCalls) - 1) =>
                    {i \in CallIndices : Call(i) \in ItemsIn("start")} = toolCalls
    <3>1. /\ ItemsIn("start") = ItemsIn("stop")
          /\ ItemsIn("delta") \subseteq ItemsIn("start")
          /\ \A i \in CallIndices :
               Call(i) \in ItemsIn("start") <=> i \in toolCalls /\ i < callIndex
      BY <2>3 DEF IInv, WholeInv
    <3>2. phase = "stopped"
      BY <2>2, <2>3 DEF Told
    <3>3. /\ callIndex >= Cardinality(toolCalls) /\ toolCalls \in SUBSET CallIndices
          /\ callIndex \in 0 .. Cardinality(toolCalls)
      BY <3>2 DEF IInv, PhaseInv, LoopStops, TypeOK
    <3>4. Cardinality(toolCalls) \in Nat
      BY <3>3, CallsCounted
    <3>5. toolCalls = 0 .. (Cardinality(toolCalls) - 1) => \A i \in toolCalls : i < callIndex
      BY <3>3, <3>4
    <3> QED BY <3>1, <3>3, <3>5
  <2> QED BY <2>1, <2>2, <2>3 DEF StoppedMessageIsWhole
<1> QED BY <1>1, StreamInvariant, PTL

\* However the chunks are cut, the stop reason is the one of the whole answer, and the
\* usage is given if the last chunk had it.
THEOREM EndsAsUnstreamed == Spec => []StreamEndsAsUnstreamed
PROOF
<1>1. IInv => StreamEndsAsUnstreamed
  BY Zenon DEF IInv, ReasonInv, StreamEndsAsUnstreamed
<1> QED BY <1>1, StreamInvariant, PTL

=============================================================================
