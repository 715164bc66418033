------------------------ MODULE ResponseStreamProofs ------------------------
(***************************************************************************)
(* Proofs about the streamed response, for any number of chunks and any    *)
(* indices of tool calls: the events a client gets are in order, carry the *)
(* place their item has in what is stored, and end once, as the response   *)
(* ended.                                                                  *)
(***************************************************************************)
EXTENDS ResponseStream, EventStreamProofs, FiniteSetTheorems

LEMMA ItemsDiffer ==
  /\ Reasoning \in Items /\ Message \in Items /\ Response \notin Items
  /\ Reasoning # Message /\ Reasoning # Response /\ Message # Response
  /\ \A i : Call(i) # Reasoning /\ Call(i) # Message /\ Call(i) # Response
  /\ \A i, j : Call(i) = Call(j) => i = j
  /\ \A i \in CallIndices : Call(i) \in Items
PROOF BY DEF Items, Reasoning, Message, Response, Item, Call

LEMMA EventTypes ==
  /\ \A type \in {"added", "delta", "done"}, item \in Items, index \in Nat :
       Event(type, item, index) \in Events
  /\ \A type \in {"created", "in_progress", "completed", "failed"} :
       Event(type, Response, 0) \in Events
PROOF BY DEF Events, Event

LEMMA CallsCounted ==
  ASSUME NEW S \in SUBSET CallIndices
  PROVE  Cardinality(S) \in Nat
PROOF BY ResponseStreamAssumption, FS_Subset, FS_CardinalityType

------------------------------------------------------------------------------
(* The inductive invariant.                                                *)

\* How far the handler is against the upstream, the client and the store.
PhaseInv ==
  /\ phase = "opening" => sent = <<>> /\ ~gone
  /\ phase \in {"opening", "streaming"} => callIndex = 0
  /\ phase \in {"opening", "streaming", "calling"} => saved = Unsaved
  /\ phase = "completing" => saved # Unsaved
  /\ phase \in {"calling", "completing"} \/ saved # Unsaved => connection = "ended"
  /\ phase = "streaming" /\ gone => connection = "failed"

IndexInv ==
  /\ ~reasoningStarted => reasoningOutputIndex = 0 /\ textOutputIndex = 0
  /\ reasoningStarted => reasoningOutputIndex # textOutputIndex
  /\ reasoningStarted /\ ~textStarted => reasoningOutputIndex = 0

\* An item that has started has been opened.
OpenedInv ==
  /\ reasoningStarted => Event("added", Reasoning, reasoningOutputIndex) \in Sent
  /\ textStarted => Event("added", Message, textOutputIndex) \in Sent

\* While the upstream answers, the client knows the started items and no end.
OfStartedItem(event) ==
  \/ event.item = Response
  \/ reasoningStarted /\ event.item = Reasoning /\ event.index = reasoningOutputIndex
  \/ textStarted /\ event.item = Message /\ event.index = textOutputIndex

DeltasInv ==
  phase = "streaming" /\ connection # "failed" =>
    \A event \in Sent : event.type # "done" /\ OfStartedItem(event)

\* From then on the client's events agree with the output.
InPlace(event) ==
  \/ event.item = Response
  \/ event.index < Len(outputItems) /\ outputItems[event.index + 1] = event.item

PlaceInv ==
  /\ phase \in {"calling", "completing"} \/ saved # Unsaved =>
       \A event \in Sent : InPlace(event)
  /\ saved # Unsaved => saved.output = outputItems

CallsInv == \A k \in 1 .. Len(outputItems), i \in Nat : outputItems[k] = Call(i) => i < callIndex

EndInv ==
  /\ \A event \in Sent :
       event.type \in TerminalTypes =>
         phase = "over" /\ (saved # Unsaved <=> event.type = "completed")
  /\ OneTerminalEvent

IInv ==
  /\ TypeOK /\ PhaseInv /\ IndexInv /\ OpenedInv /\ DeltasInv /\ PlaceInv /\ CallsInv
  /\ EndInv /\ EventsFollowTheirItem

LEMMA InitIInv == Init => IInv
PROOF
<1> SUFFICES ASSUME Init PROVE IInv
  OBVIOUS
<1>1. sent = <<>> /\ ~gone /\ saved = Unsaved /\ outputItems = <<>>
  BY DEF Init, Nobody
<1>2. /\ phase = "opening" /\ connection = "requesting" /\ delivered = 0
      /\ ~textStarted /\ ~reasoningStarted /\ callIndex = 0
      /\ textOutputIndex = 0 /\ reasoningOutputIndex = 0
  BY DEF Init, StreamInit
<1>3. Len(sent) = 0 /\ Len(outputItems) = 0 /\ Sent = {}
  BY <1>1 DEF Sent
<1>4. Cardinality(toolCalls) = 0
  BY FS_EmptySet DEF Init
<1>5. TypeOK
  <2>1. sent \in Seq(Events) /\ outputItems \in Seq(Items)
    BY <1>1, EmptySeq
  <2>2. saved \in [status : {"none", "completed", "incomplete"},
                   output : Seq(Items), text : Nat]
    BY <1>1, <2>1 DEF Unsaved
  <2>3. textStarted \in BOOLEAN /\ reasoningStarted \in BOOLEAN /\ gone \in BOOLEAN
    BY DEF Init, Nobody
  <2>4. StreamTypeOK
    BY <1>2, KimiStreamAssumption DEF StreamTypeOK
  <2>5. /\ contentBuilder \in 0 .. delivered /\ finishReason \in FinishReasons
        /\ toolCalls \in SUBSET CallIndices /\ callIndex \in 0 .. Cardinality(toolCalls)
    <3>1. contentBuilder = 0 /\ finishReason = "" /\ toolCalls = {}
      BY DEF Init
    <3>2. contentBuilder = 0 /\ delivered = 0 /\ callIndex = 0
      BY <1>2, <3>1
    <3>3. contentBuilder \in 0 .. delivered /\ callIndex \in 0 .. Cardinality(toolCalls)
      BY <1>4, <3>2
    <3> QED BY <3>1, <3>3 DEF FinishReasons
  <2> QED BY <1>2, <2>1, <2>2, <2>3, <2>4, <2>5 DEF TypeOK
<1>6. PhaseInv /\ IndexInv /\ OpenedInv
  BY <1>1, <1>2 DEF PhaseInv, IndexInv, OpenedInv
<1>7. DeltasInv /\ PlaceInv /\ CallsInv
  BY <1>1, <1>2, <1>3 DEF DeltasInv, PlaceInv, CallsInv
<1>8. EndInv
  BY <1>3 DEF EndInv, OneTerminalEvent, LastOf
<1>9. EventsFollowTheirItem
  BY <1>3 DEF EventsFollowTheirItem, EventsFollow, InOrder
<1> QED BY <1>5, <1>6, <1>7, <1>8, <1>9 DEF IInv

------------------------------------------------------------------------------
(* The steps.                                                              *)

LEMMA OpenIInv == IInv /\ Open => IInv'
PROOF
<1> SUFFICES ASSUME IInv, Open PROVE IInv'
  OBVIOUS
<1> DEFINE opening == <<Event("created", Response, 0), Event("in_progress", Response, 0)>>
<1>1. /\ phase = "opening" /\ sent \in Seq(Events) /\ gone \in BOOLEAN
      /\ sent = <<>> /\ ~gone /\ callIndex = 0 /\ saved = Unsaved
  BY DEF IInv, TypeOK, PhaseInv, Open
<1>2. PICK n \in 0 .. 2 : Write(opening, n) /\ phase' = IF n = 2 THEN "streaming" ELSE "over"
  BY DEF Open
<1>3. UNCHANGED <<streamVars, handlerVars, outputItems, callIndex, saved>>
  BY DEF Open
<1>4. /\ opening \in Seq(Events) /\ Len(opening) = 2
      /\ opening[1] = Event("created", Response, 0)
      /\ opening[2] = Event("in_progress", Response, 0)
  BY EventTypes
<1> HIDE DEF opening
<1>5. /\ sent' \in Seq(Events) /\ gone' \in BOOLEAN
      /\ n = 2 => ~gone'
      /\ Sent' = Sent \cup {opening[k] : k \in 1 .. n}
  BY <1>1, <1>2, <1>4, WriteExtends, WriteSent DEF Write
<1>6. \A event \in Sent' : event.item = Response /\ event.type \in {"created", "in_progress"}
  <2>1. Sent = {}
    BY <1>1 DEF Sent
  <2> QED BY <1>2, <1>4, <1>5, <2>1 DEF Event
<1>7. TypeOK'
  BY <1>2, <1>3, <1>5 DEF IInv, TypeOK, StreamTypeOK, streamVars, handlerVars
<1>8. PhaseInv' /\ IndexInv'
  BY <1>1, <1>2, <1>3, <1>5 DEF IInv, PhaseInv, IndexInv, streamVars, handlerVars
<1>9. OpenedInv'
  BY <1>3, <1>5 DEF IInv, OpenedInv, handlerVars
<1>10. DeltasInv' /\ PlaceInv' /\ CallsInv'
  BY <1>1, <1>3, <1>6 DEF IInv, DeltasInv, OfStartedItem, PlaceInv, InPlace, CallsInv
<1>11. EndInv'
  <2>1. \A event \in Sent' : event.type \notin TerminalTypes
    BY <1>6 DEF TerminalTypes
  <2> QED BY <2>1 DEF EndInv, OneTerminalEvent, LastOf, Sent
<1>12. EventsFollowTheirItem'
  <2>1. InOrder(opening, Sent, "added", "done")
    BY <1>4 DEF InOrder, Follows, Event
  <2> QED BY <1>1, <1>2, <1>4, <2>1, WriteInOrder DEF IInv, EventsFollowTheirItem
<1> QED BY <1>7, <1>8, <1>9, <1>10, <1>11, <1>12 DEF IInv

\* A step that sends nothing and changes nothing the invariant reads but how the
\* upstream is.
LEMMA UpstreamIInv == IInv /\ Upstream => IInv'
PROOF
<1> SUFFICES ASSUME IInv, Upstream PROVE IInv'
  OBVIOUS
<1>1. /\ phase = "streaming" /\ connection \in {"requesting", "reading"}
      /\ UNCHANGED <<phase, handlerVars, clientVars, outputItems, callIndex, saved>>
      /\ connection' \in {"reading", "ended", "failed"} /\ UNCHANGED delivered
  BY DEF Upstream, StreamStep, Accept, Refuse, EndOfStream, Break
<1>2. saved = Unsaved
  BY <1>1 DEF IInv, PhaseInv
<1>3. Sent' = Sent
  BY <1>1 DEF Sent, clientVars
<1>4. TypeOK'
  BY <1>1 DEF IInv, TypeOK, StreamTypeOK, handlerVars, clientVars
<1>5. PhaseInv' /\ IndexInv' /\ OpenedInv'
  BY <1>1, <1>2, <1>3 DEF IInv, PhaseInv, IndexInv, OpenedInv, handlerVars, clientVars
<1>6. DeltasInv' /\ PlaceInv' /\ CallsInv'
  BY <1>1, <1>2, <1>3 DEF IInv, DeltasInv, OfStartedItem, PlaceInv, InPlace, CallsInv, handlerVars
<1>7. EndInv' /\ EventsFollowTheirItem'
  BY <1>1, <1>3 DEF IInv, EndInv, OneTerminalEvent, LastOf, EventsFollowTheirItem,
                    EventsFollow, clientVars
<1> QED BY <1>4, <1>5, <1>6, <1>7 DEF IInv

LEMMA ChunkIInv ==
  ASSUME IInv, NEW chunk \in Chunks, Chunk(chunk)
  PROVE  IInv'
PROOF
<1> DEFINE rIndex == ReasoningIndex(chunk)
           tIndex == TextIndex(chunk)
           r == DeltaEvents(chunk.reasoning, reasoningStarted, "added", Reasoning, rIndex)
           t == DeltaEvents(chunk.text, textStarted, "added", Message, tIndex)
           events == r \o t
           rEvents == {Event("added", Reasoning, rIndex), Event("delta", Reasoning, rIndex)}
           tEvents == {Event("added", Message, tIndex), Event("delta", Message, tIndex)}
           InR == {r[k] : k \in 1 .. Len(r)}
           InT == {t[k] : k \in 1 .. Len(t)}
<1>1. /\ phase = "streaming" /\ connection = "reading" /\ ~gone
      /\ saved = Unsaved /\ callIndex = 0
      /\ UNCHANGED <<phase, outputItems, callIndex, saved>>
  BY DEF IInv, PhaseInv, Chunk, Deliver
<1>2. PICK n \in 0 .. Len(events) :
        /\ Write(events, n)
        /\ Deliver(n = Len(events))
        /\ IF n = Len(events)
           THEN /\ reasoningStarted' = (reasoningStarted \/ chunk.reasoning)
                /\ textStarted' = (textStarted \/ chunk.text)
                /\ reasoningOutputIndex' = rIndex
                /\ textOutputIndex' = tIndex
                /\ contentBuilder' = contentBuilder + (IF chunk.text THEN 1 ELSE 0)
                /\ finishReason' = IF chunk.finish # "" THEN chunk.finish ELSE finishReason
                /\ toolCalls' = toolCalls \cup chunk.calls
           ELSE UNCHANGED handlerVars
  BY DEF Chunk
<1>3. /\ chunk.reasoning \in BOOLEAN /\ chunk.text \in BOOLEAN
      /\ reasoningStarted \in BOOLEAN /\ textStarted \in BOOLEAN /\ gone \in BOOLEAN
      /\ sent \in Seq(Events) /\ reasoningOutputIndex \in {0, 1} /\ textOutputIndex \in {0, 1}
  BY DEF IInv, TypeOK, Chunks
<1>4. Sent \subseteq Events
  BY <1>3, ElementOfSeq DEF Sent
<1>5. \A event \in Sent :
        /\ event.type # "done" /\ OfStartedItem(event)
        /\ event.type = "added" => event.item # Response
  BY <1>1, <1>4, ItemsDiffer DEF IInv, DeltasInv, Events
\* The indices of the two items, before and after.
<1>6. /\ rIndex \in {0, 1} /\ tIndex \in {0, 1}
      /\ reasoningStarted => rIndex = reasoningOutputIndex
      /\ textStarted => tIndex = textOutputIndex
      /\ ~reasoningStarted /\ textStarted => textOutputIndex = 0
      /\ ~reasoningStarted /\ chunk.reasoning /\ textStarted => rIndex = 1
      /\ ~reasoningStarted /\ ~textStarted => rIndex = 0
      /\ ~textStarted /\ (reasoningStarted \/ chunk.reasoning) => tIndex = 1
      /\ ~textStarted /\ reasoningStarted => rIndex = 0 /\ reasoningOutputIndex = 0
      /\ ~reasoningStarted /\ ~chunk.reasoning => rIndex = 0 /\ tIndex = 0
      /\ reasoningStarted => reasoningOutputIndex # textOutputIndex
  BY <1>3 DEF IInv, IndexInv, ReasoningIndex, TextIndex
<1> HIDE DEF rIndex, tIndex
\* The events of the reasoning, and those of the text after them, are in order.
<1>7. /\ r \in Seq(rEvents)
      /\ InOrder(r, Sent, "added", "done")
      /\ chunk.reasoning /\ ~reasoningStarted => Event("added", Reasoning, rIndex) \in InR
      /\ ~chunk.reasoning => InR = {}
  <2>1. Event("done", Reasoning, rIndex) \notin Sent
    BY <1>5, EventFields
  <2>2. CASE ~chunk.reasoning
    <3>1. r = <<>>
      BY <2>2 DEF DeltaEvents
    <3> HIDE DEF r
    <3> QED BY <2>2, <3>1 DEF InOrder
  <2>3. CASE chunk.reasoning /\ reasoningStarted
    <3>1. r = <<Event("delta", Reasoning, rIndex)>>
      BY <2>3 DEF DeltaEvents
    <3>2. Event("added", Reasoning, rIndex) \in Sent
      BY <1>6, <2>3 DEF IInv, OpenedInv
    <3>3. InOrder(r, Sent, "added", "done")
      BY <2>1, <3>1, <3>2, DeltaInOrder
    <3> HIDE DEF r
    <3>4. r \in Seq(rEvents)
      BY <3>1
    <3> QED BY <2>3, <3>3, <3>4
  <2>4. CASE chunk.reasoning /\ ~reasoningStarted
    <3>1. r = <<Event("added", Reasoning, rIndex), Event("delta", Reasoning, rIndex)>>
      BY <2>4 DEF DeltaEvents
    <3>2. \A b \in Sent : b.type = "added" => b.item # Reasoning /\ b.index # rIndex
      BY <1>5, <1>6, <2>4, ItemsDiffer DEF OfStartedItem
    <3>3. InOrder(r, Sent, "added", "done")
      BY <2>1, <3>1, <3>2, OpeningInOrder
    <3> HIDE DEF r
    <3>4. r \in Seq(rEvents) /\ 1 \in 1 .. Len(r) /\ r[1] = Event("added", Reasoning, rIndex)
      BY <3>1
    <3>5. Event("added", Reasoning, rIndex) \in InR
      BY <3>4
    <3> QED BY <2>4, <3>3, <3>4, <3>5
  <2> QED BY <1>3, <2>2, <2>3, <2>4
<1> HIDE DEF r
<1>8. InR \subseteq rEvents /\ (~chunk.reasoning => InR = {})
  BY <1>7, ElementOfSeq
<1> HIDE DEF InR
<1>9. /\ t \in Seq(tEvents)
      /\ InOrder(t, Sent \cup InR, "added", "done")
      /\ chunk.text /\ ~textStarted => Event("added", Message, tIndex) \in InT
      /\ ~chunk.text => InT = {}
  <2> DEFINE B == Sent \cup InR
  <2>1. Event("done", Message, tIndex) \notin B
    BY <1>5, <1>8, EventFields
  <2>2. CASE ~chunk.text
    <3>1. t = <<>>
      BY <2>2 DEF DeltaEvents
    <3> HIDE DEF t
    <3> QED BY <2>2, <3>1 DEF InOrder
  <2>3. CASE chunk.text /\ textStarted
    <3>1. t = <<Event("delta", Message, tIndex)>>
      BY <2>3 DEF DeltaEvents
    <3>2. Event("added", Message, tIndex) \in B
      BY <1>6, <2>3 DEF IInv, OpenedInv
    <3> HIDE DEF B
    <3>3. InOrder(t, B, "added", "done")
      BY <2>1, <3>1, <3>2, DeltaInOrder
    <3> HIDE DEF t
    <3>4. t \in Seq(tEvents)
      BY <3>1
    <3> QED BY <2>3, <3>3, <3>4 DEF B
  <2>4. CASE chunk.text /\ ~textStarted
    <3>1. t = <<Event("added", Message, tIndex), Event("delta", Message, tIndex)>>
      BY <2>4 DEF DeltaEvents
    <3>2. ASSUME NEW b \in B, b.type = "added"
          PROVE  b.item # Message /\ b.index # tIndex
      <4>1. CASE b \in Sent
        BY <1>5, <1>6, <2>4, <3>2, <4>1, ItemsDiffer DEF OfStartedItem
      <4>2. CASE b \in InR
        <5>1. chunk.reasoning /\ b.item = Reasoning /\ b.index = rIndex
          BY <1>3, <1>8, <4>2, EventFields
        <5> QED BY <1>3, <1>6, <2>4, <5>1, ItemsDiffer
      <4> QED BY <3>2, <4>1, <4>2
    <3> HIDE DEF B
    <3>3. InOrder(t, B, "added", "done")
      BY <2>1, <3>1, <3>2, OpeningInOrder
    <3> HIDE DEF t
    <3>4. t \in Seq(tEvents) /\ 1 \in 1 .. Len(t) /\ t[1] = Event("added", Message, tIndex)
      BY <3>1
    <3>5. Event("added", Message, tIndex) \in InT
      BY <3>4
    <3> QED BY <2>4, <3>3, <3>4, <3>5 DEF B
  <2> QED BY <1>3, <2>2, <2>3, <2>4
<1> HIDE DEF t
<1>10. InT \subseteq tEvents
  BY <1>9, ElementOfSeq
<1>11. /\ r \in Seq(Events) /\ t \in Seq(Events) /\ events \in Seq(Events)
       /\ {events[k] : k \in 1 .. Len(events)} = InR \cup InT
  <2>1. rEvents \subseteq Events /\ tEvents \subseteq Events
    BY <1>6, EventTypes, ItemsDiffer
  <2>2. r \in Seq(Events) /\ t \in Seq(Events)
    BY <1>7, <1>9, <2>1, SeqMonotonic
  <2>3. /\ Len(r) \in Nat /\ Len(t) \in Nat /\ Len(events) = Len(r) + Len(t)
        /\ \A k \in 1 .. Len(events) :
             events[k] = IF k <= Len(r) THEN r[k] ELSE t[k - Len(r)]
        /\ events \in Seq(Events)
    BY <2>2, ConcatProperties, LenProperties
  <2> HIDE DEF events
  <2>4. ASSUME NEW k \in 1 .. Len(events) PROVE events[k] \in InR \cup InT
    <3>1. CASE k <= Len(r)
      BY <2>3, <3>1 DEF InR
    <3>2. CASE k > Len(r)
      <4>1. k - Len(r) \in 1 .. Len(t) /\ events[k] = t[k - Len(r)]
        BY <2>3, <3>2
      <4> QED BY <4>1
    <3> QED BY <2>3, <3>1, <3>2
  <2>5. ASSUME NEW k \in 1 .. Len(r) PROVE r[k] \in {events[j] : j \in 1 .. Len(events)}
    <3>1. k \in 1 .. Len(events) /\ events[k] = r[k]
      BY <2>3
    <3> QED BY <3>1
  <2>6. ASSUME NEW k \in 1 .. Len(t) PROVE t[k] \in {events[j] : j \in 1 .. Len(events)}
    <3>1. Len(r) + k \in 1 .. Len(events) /\ events[Len(r) + k] = t[k]
      BY <2>3
    <3> QED BY <3>1
  <2>7. {events[k] : k \in 1 .. Len(events)} \subseteq InR \cup InT
    BY <2>4
  <2>8. InR \subseteq {events[k] : k \in 1 .. Len(events)}
    BY <2>5 DEF InR
  <2>9. InT \subseteq {events[k] : k \in 1 .. Len(events)}
    BY <2>6
  <2> QED BY <2>2, <2>3, <2>7, <2>8, <2>9
<1>12. InOrder(events, Sent, "added", "done")
  BY <1>7, <1>9, <1>11, ConcatInOrder DEF InR
<1> HIDE DEF events, InT
\* What the client has then.
<1>13. /\ sent' \in Seq(Events) /\ gone' \in BOOLEAN
       /\ ~gone' => n = Len(events)
       /\ Sent \subseteq Sent' /\ Sent' = Sent \cup {events[k] : k \in 1 .. n}
  <2>1. Write(events, n) /\ events \in Seq(Events) /\ sent \in Seq(Events) /\ gone \in BOOLEAN
    BY <1>2, <1>3, <1>11
  <2>2. sent' \in Seq(Events) /\ gone' \in BOOLEAN /\ (~gone' => n = Len(events))
    BY <2>1, WriteExtends, Zenon
  <2>3. Sent \subseteq Sent' /\ Sent' = Sent \cup {events[k] : k \in 1 .. n}
    BY <2>1, WriteSent, Zenon
  <2> QED BY <2>2, <2>3
<1>14. Sent' \subseteq Sent \cup InR \cup InT /\ (n = Len(events) => InR \cup InT \subseteq Sent')
  <2>1. \A k \in 1 .. n : k \in 1 .. Len(events)
    BY <1>11, LenProperties
  <2> QED BY <1>11, <1>13, <2>1, Zenon
<1>15. EventsFollowTheirItem'
  BY <1>2, <1>3, <1>11, <1>12, WriteInOrder DEF IInv, EventsFollowTheirItem
<1>16. /\ n = Len(events) => connection' = "reading" /\ ~gone'
       /\ n # Len(events) => connection' = "failed"
       /\ connection' \in {"reading", "failed"} /\ delivered' = delivered + 1
       /\ delivered < MaxChunks
  <2>1. n = Len(events) => ~gone'
    <3>1. n = Len(events) => ~(n < Len(events))
      BY <1>11, LenProperties
    <3> QED BY <1>1, <1>2, <3>1, Zenon DEF Write
  <2>2. Deliver(n = Len(events))
    BY <1>2
  <2> QED BY <2>1, <2>2 DEF Deliver
<1>17. TypeOK'
  <2>1. /\ contentBuilder \in 0 .. delivered /\ delivered \in 0 .. MaxChunks
        /\ finishReason \in FinishReasons /\ chunk.finish \in FinishReasons
        /\ toolCalls \in SUBSET CallIndices /\ chunk.calls \in SUBSET CallIndices
    BY DEF IInv, TypeOK, StreamTypeOK, Chunks
  <2>2. toolCalls' \in SUBSET CallIndices
    BY <1>2, <2>1 DEF handlerVars
  <2>3. /\ textStarted' \in BOOLEAN /\ reasoningStarted' \in BOOLEAN
        /\ textOutputIndex' \in {0, 1} /\ reasoningOutputIndex' \in {0, 1}
        /\ finishReason' \in FinishReasons
    <3>1. CASE n = Len(events)
      BY <1>2, <1>3, <1>6, <2>1, <3>1
    <3>2. CASE n # Len(events)
      BY <1>2, <1>3, <2>1, <3>2 DEF handlerVars
    <3> QED BY <3>1, <3>2
  <2>4. contentBuilder' \in 0 .. delivered' /\ StreamTypeOK'
    <3>1. contentBuilder' \in {contentBuilder, contentBuilder + 1}
      <4>1. (IF chunk.text THEN 1 ELSE 0) \in {0, 1}
        OBVIOUS
      <4>2. CASE n = Len(events)
        <5>1. contentBuilder' = contentBuilder + (IF chunk.text THEN 1 ELSE 0)
          BY <1>2, <4>2
        <5> QED BY <2>1, <4>1, <5>1
      <4>3. CASE n # Len(events)
        BY <1>2, <4>3 DEF handlerVars
      <4> QED BY <4>2, <4>3
    <3> QED BY <1>16, <2>1, <3>1, KimiStreamAssumption DEF StreamTypeOK
  <2>5. callIndex' \in 0 .. Cardinality(toolCalls')
    BY <1>1, <2>2, CallsCounted
  <2> QED BY <1>1, <1>13, <2>2, <2>3, <2>4, <2>5 DEF IInv, TypeOK
<1>18. PhaseInv'
  <2>1. phase' = "streaming" /\ saved' = Unsaved /\ callIndex' = 0
    BY <1>1
  <2>2. gone' => connection' = "failed"
    BY <1>13, <1>16
  <2> QED BY <2>1, <2>2 DEF PhaseInv
<1>19. IndexInv' /\ OpenedInv' /\ DeltasInv'
  <2>1. CASE n = Len(events)
    <3>1. /\ reasoningStarted' = (reasoningStarted \/ chunk.reasoning)
          /\ textStarted' = (textStarted \/ chunk.text)
          /\ reasoningOutputIndex' = rIndex /\ textOutputIndex' = tIndex
      BY <1>2, <2>1
    <3>2. reasoningStarted \/ chunk.reasoning => rIndex # tIndex
      BY <1>3, <1>6
    <3>3. (reasoningStarted \/ chunk.reasoning) /\ ~(textStarted \/ chunk.text) => rIndex = 0
      BY <1>3, <1>6
    <3>4. IndexInv'
      BY <1>3, <1>6, <3>1, <3>2, <3>3 DEF IndexInv
    <3>5. reasoningStarted \/ chunk.reasoning => Event("added", Reasoning, rIndex) \in Sent'
      BY <1>3, <1>6, <1>7, <1>13, <1>14, <2>1 DEF IInv, OpenedInv, InR
    <3>6. textStarted \/ chunk.text => Event("added", Message, tIndex) \in Sent'
      BY <1>3, <1>6, <1>9, <1>13, <1>14, <2>1 DEF IInv, OpenedInv, InT
    <3>7. OpenedInv'
      BY <3>1, <3>5, <3>6 DEF OpenedInv
    <3>8. ASSUME NEW event, event \in Sent'
          PROVE  event.type # "done" /\ OfStartedItem(event)'
      <4>1. CASE event \in Sent
        <5>1. event.type # "done" /\ OfStartedItem(event)
          BY <1>5, <4>1
        <5> QED BY <1>3, <1>6, <3>1, <5>1 DEF OfStartedItem
      <4>2. CASE event \in InR
        <5>1. /\ chunk.reasoning /\ event.type # "done"
              /\ event.item = Reasoning /\ event.index = rIndex
          BY <1>3, <1>8, <4>2, EventFields
        <5> QED BY <3>1, <5>1 DEF OfStartedItem
      <4>3. CASE event \in InT
        <5>1. /\ chunk.text /\ event.type # "done"
              /\ event.item = Message /\ event.index = tIndex
          BY <1>3, <1>9, <1>10, <4>3, EventFields
        <5> QED BY <3>1, <5>1 DEF OfStartedItem
      <4> QED BY <1>14, <3>8, <4>1, <4>2, <4>3
    <3>9. DeltasInv'
      BY <3>8 DEF DeltasInv
    <3> QED BY <3>4, <3>7, <3>9
  <2>2. CASE n # Len(events)
    <3>1. UNCHANGED handlerVars /\ connection' = "failed"
      BY <1>2, <1>16, <2>2
    <3> QED BY <1>13, <3>1 DEF IInv, IndexInv, OpenedInv, DeltasInv, handlerVars
  <2> QED BY <2>1, <2>2
<1>20. PlaceInv' /\ CallsInv'
  BY <1>1 DEF IInv, PlaceInv, CallsInv
<1>21. EndInv'
  <2>1. \A event \in Sent' : event.type \notin TerminalTypes
    BY <1>1, <1>8, <1>10, <1>14, EventFields DEF IInv, EndInv, TerminalTypes
  <2> QED BY <2>1 DEF EndInv, OneTerminalEvent, LastOf, Sent
<1> QED BY <1>15, <1>17, <1>18, <1>19, <1>20, <1>21 DEF IInv

\* The two ways a response ends.
LEMMA EndsIInv ==
  ASSUME IInv, NEW type \in {"failed", "completed"}, phase # "over",
         saved # Unsaved <=> type = "completed",
         WriteAll(<<Event(type, Response, 0)>>), phase' = "over",
         UNCHANGED <<streamVars, handlerVars, outputItems, callIndex, saved>>
  PROVE  IInv'
PROOF
<1> DEFINE ending == <<Event(type, Response, 0)>>
<1>1. /\ ending \in Seq(Events) /\ Len(ending) = 1 /\ ending[1] = Event(type, Response, 0)
      /\ sent \in Seq(Events) /\ gone \in BOOLEAN /\ Len(sent) \in Nat
  BY EventTypes, LenProperties DEF IInv, TypeOK
<1>2. InOrder(ending, Sent, "added", "done")
  BY <1>1, EventFields DEF InOrder, Follows
<1> HIDE DEF ending
<1>3. PICK n \in 0 .. Len(ending) : Write(ending, n)
  BY DEF WriteAll, ending
<1>4. /\ sent' \in Seq(Events) /\ gone' \in BOOLEAN /\ Len(sent') = Len(sent) + n
      /\ \A k \in 1 .. Len(sent') :
           \/ k \in 1 .. Len(sent) /\ sent'[k] = sent[k]
           \/ k - Len(sent) \in 1 .. n /\ sent'[k] = ending[k - Len(sent)]
  BY <1>1, <1>3, WriteExtends, Zenon
<1>5. Sent \subseteq Sent' /\ Sent' = Sent \cup {ending[k] : k \in 1 .. n}
  BY <1>1, <1>3, WriteSent, Zenon
<1>6. \A event \in Sent' : event \in Sent \/ event = Event(type, Response, 0)
  BY <1>1, <1>3, <1>5
<1>7. TypeOK'
  BY <1>4 DEF IInv, TypeOK, StreamTypeOK, streamVars, handlerVars
<1>8. PhaseInv' /\ IndexInv'
  BY DEF IInv, PhaseInv, IndexInv, streamVars, handlerVars
<1>9. OpenedInv' /\ DeltasInv' /\ CallsInv'
  BY <1>5 DEF IInv, OpenedInv, DeltasInv, CallsInv, handlerVars
<1>10. PlaceInv'
  <2>1. saved # Unsaved => \A event \in Sent' : event \in Sent \/ event.item = Response
    BY <1>6, EventFields
  <2> QED BY <2>1 DEF IInv, PlaceInv, InPlace
<1>11. \A event \in Sent : event.type \notin TerminalTypes
  BY DEF IInv, EndInv
<1>12. EndInv'
  <2>1. \A event \in Sent' :
          event.type \in TerminalTypes => (saved' # Unsaved <=> event.type = "completed")
    BY <1>6, <1>11, EventFields
  <2>2. ASSUME NEW k \in 1 .. Len(sent'), sent'[k].type \in TerminalTypes
        PROVE  k = Len(sent')
    <3>1. CASE k \in 1 .. Len(sent) /\ sent'[k] = sent[k]
      BY <1>11, <2>2, <3>1 DEF Sent
    <3>2. CASE k - Len(sent) \in 1 .. n
      BY <1>1, <1>3, <1>4, <3>2
    <3> QED BY <1>4, <3>1, <3>2
  <2> QED BY <2>1, <2>2 DEF EndInv, OneTerminalEvent, LastOf
<1>13. EventsFollowTheirItem'
  BY <1>1, <1>2, <1>3, WriteInOrder DEF IInv, EventsFollowTheirItem
<1> QED BY <1>7, <1>8, <1>9, <1>10, <1>12, <1>13 DEF IInv

LEMMA FailIInv == IInv /\ Fail => IInv'
PROOF
<1> SUFFICES ASSUME IInv, Fail PROVE IInv'
  OBVIOUS
<1>1. saved = Unsaved
  BY DEF IInv, PhaseInv, Fail
<1> QED BY <1>1, EndsIInv DEF Fail

LEMMA CompleteIInv == IInv /\ Complete => IInv'
PROOF
<1> SUFFICES ASSUME IInv, Complete PROVE IInv'
  OBVIOUS
<1>1. saved # Unsaved
  BY DEF IInv, PhaseInv, Complete
<1> QED BY <1>1, EndsIInv DEF Complete

LEMMA SaveIInv == IInv /\ Save => IInv'
PROOF
<1> SUFFICES ASSUME IInv, Save PROVE IInv'
  OBVIOUS
<1>1. /\ phase = "calling" /\ phase' = "completing"
      /\ saved' = [status |-> StatusFromFinishReason(finishReason),
                   output |-> outputItems, text |-> contentBuilder]
      /\ UNCHANGED <<streamVars, handlerVars, clientVars, outputItems, callIndex>>
  BY DEF Save
<1>2. saved = Unsaved /\ connection = "ended"
  BY <1>1 DEF IInv, PhaseInv
<1>3. saved'.status \in {"completed", "incomplete"} /\ saved'.output = outputItems
  BY <1>1 DEF StatusFromFinishReason
<1>4. saved' # Unsaved
  BY <1>3 DEF Unsaved
<1>5. Sent' = Sent
  BY <1>1 DEF Sent, clientVars
<1>6. TypeOK'
  <2>1. contentBuilder \in Nat /\ outputItems \in Seq(Items)
    BY DEF IInv, TypeOK, StreamTypeOK
  <2>2. saved' \in [status : {"none", "completed", "incomplete"},
                    output : Seq(Items), text : Nat]
    BY <1>1, <2>1 DEF StatusFromFinishReason
  <2> QED BY <1>1, <2>2 DEF IInv, TypeOK, StreamTypeOK, streamVars, handlerVars, clientVars
<1>7. PhaseInv' /\ IndexInv' /\ OpenedInv'
  BY <1>1, <1>2, <1>4, <1>5 DEF IInv, PhaseInv, IndexInv, OpenedInv, streamVars, handlerVars,
                                clientVars
<1>8. DeltasInv' /\ PlaceInv' /\ CallsInv'
  BY <1>1, <1>3, <1>5 DEF IInv, DeltasInv, PlaceInv, InPlace, CallsInv
<1>9. EndInv' /\ EventsFollowTheirItem'
  BY <1>1, <1>5 DEF IInv, EndInv, OneTerminalEvent, LastOf, EventsFollowTheirItem,
                    EventsFollow, clientVars
<1> QED BY <1>6, <1>7, <1>8, <1>9 DEF IInv

\* The output items are where the flags say.
LEMMA TextItemsPlace ==
  ASSUME TypeOK, IndexInv
  PROVE  /\ TextItems \in Seq(Items)
         /\ reasoningStarted => /\ reasoningOutputIndex < Len(TextItems)
                                /\ TextItems[reasoningOutputIndex + 1] = Reasoning
         /\ textStarted => /\ textOutputIndex < Len(TextItems)
                           /\ TextItems[textOutputIndex + 1] = Message
         /\ \A k \in 1 .. Len(TextItems) :
              \/ reasoningStarted /\ TextItems[k] = Reasoning
              \/ textStarted /\ TextItems[k] = Message
         /\ \A j, k \in 1 .. Len(TextItems) : TextItems[j] = TextItems[k] => j = k
PROOF
<1> DEFINE items == TextItems
<1>1. /\ reasoningOutputIndex \in {0, 1} /\ textOutputIndex \in {0, 1}
      /\ reasoningStarted \in BOOLEAN /\ textStarted \in BOOLEAN
  BY DEF TypeOK
<1>2. <<>> \o <<Message>> = <<Message>> /\ <<Reasoning>> \o <<>> = <<Reasoning>>
      /\ <<>> \o <<>> = <<>> /\ <<Message>> \o <<>> = <<Message>>
  OBVIOUS
<1>3. /\ <<Reasoning>> \o <<Message>> = <<Reasoning, Message>>
      /\ <<Message>> \o <<Reasoning>> = <<Message, Reasoning>>
      /\ <<Reasoning, Message>> \o <<>> = <<Reasoning, Message>>
  BY PairOfConcat
<1>4. CASE ~reasoningStarted /\ ~textStarted
  <2>1. items = <<>>
    BY <1>2, <1>4 DEF TextItems
  <2> QED BY <1>4, <2>1, ItemsDiffer
<1>5. CASE ~reasoningStarted /\ textStarted
  <2>1. items = <<Message>> /\ textOutputIndex = 0
    BY <1>2, <1>5 DEF TextItems, IndexInv
  <2> QED BY <1>5, <2>1, ItemsDiffer
<1>6. CASE reasoningStarted /\ ~textStarted
  <2>1. items = <<Reasoning>> /\ reasoningOutputIndex = 0
    BY <1>2, <1>6 DEF TextItems, IndexInv
  <2> QED BY <1>6, <2>1, ItemsDiffer
<1>7. CASE reasoningStarted /\ textStarted /\ reasoningOutputIndex < textOutputIndex
  <2>1. reasoningOutputIndex = 0 /\ textOutputIndex = 1
    BY <1>1, <1>7
  <2>2. items = (<<Reasoning>> \o <<Message>>) \o <<>>
    BY <1>7, <2>1 DEF TextItems
  <2>3. items = <<Reasoning, Message>>
    BY <1>3, <2>2
  <2> QED BY <1>7, <2>1, <2>3, ItemsDiffer
<1>8. CASE reasoningStarted /\ textStarted /\ ~(reasoningOutputIndex < textOutputIndex)
  <2>1. reasoningOutputIndex = 1 /\ textOutputIndex = 0
    BY <1>1, <1>8 DEF IndexInv
  <2>2. items = <<Message, Reasoning>>
    BY <1>2, <1>3, <1>8, <2>1 DEF TextItems
  <2> QED BY <1>8, <2>1, <2>2, ItemsDiffer
<1> QED BY <1>1, <1>4, <1>5, <1>6, <1>7, <1>8

\* Each started item is closed once.
LEMMA ClosingEventsInOrder ==
  ASSUME TypeOK, IndexInv, OpenedInv, \A event \in Sent : event.type # "done"
  PROVE  /\ ClosingEvents \in Seq(Events)
         /\ InOrder(ClosingEvents, Sent, "added", "done")
         /\ \A k \in 1 .. Len(ClosingEvents) :
              ClosingEvents[k].type = "done" /\ OfStartedItem(ClosingEvents[k])
PROOF
<1> DEFINE rDone == Event("done", Reasoning, reasoningOutputIndex)
           tDone == Event("done", Message, textOutputIndex)
           r == IF reasoningStarted THEN <<rDone>> ELSE <<>>
           t == IF textStarted THEN <<tDone>> ELSE <<>>
           InR == {r[j] : j \in 1 .. Len(r)}
<1>1. rDone \in Events /\ tDone \in Events
  BY EventTypes, ItemsDiffer DEF TypeOK
<1>2. rDone \notin Sent /\ tDone \notin Sent
  BY EventFields
<1>3. /\ rDone.type = "done" /\ rDone.item = Reasoning /\ rDone.index = reasoningOutputIndex
      /\ tDone.type = "done" /\ tDone.item = Message /\ tDone.index = textOutputIndex
  BY EventFields
<1>4. r \in Seq(Events) /\ InOrder(r, Sent, "added", "done")
  <2>1. CASE reasoningStarted
    <3>1. InOrder(<<rDone>>, Sent, "added", "done")
      BY <1>2, <2>1, ClosingInOrder DEF OpenedInv
    <3> QED BY <1>1, <2>1, <3>1
  <2>2. CASE ~reasoningStarted
    BY <2>2 DEF InOrder
  <2> QED BY <2>1, <2>2
<1>5. InR \subseteq {rDone} /\ (~reasoningStarted => InR = {})
  <2>1. CASE reasoningStarted
    <3>1. r = <<rDone>> /\ Len(r) = 1
      BY <2>1
    <3> QED BY <2>1, <3>1
  <2>2. CASE ~reasoningStarted
    BY <2>2
  <2> QED BY <2>1, <2>2
<1>6. t \in Seq(Events) /\ InOrder(t, Sent \cup InR, "added", "done")
  <2>1. CASE textStarted
    <3> DEFINE B == Sent \cup InR
    <3>1. tDone \notin B
      BY <1>2, <1>3, <1>5, ItemsDiffer
    <3>2. Event("added", Message, textOutputIndex) \in B
      BY <2>1 DEF OpenedInv
    <3> HIDE DEF B
    <3>3. InOrder(<<tDone>>, B, "added", "done")
      BY <3>1, <3>2, ClosingInOrder
    <3> QED BY <1>1, <2>1, <3>3 DEF B
  <2>2. CASE ~textStarted
    BY <2>2 DEF InOrder
  <2> QED BY <2>1, <2>2
<1>7. \A k \in 1 .. Len(r) : r[k].type = "done" /\ OfStartedItem(r[k])
  BY <1>3 DEF OfStartedItem
<1>8. \A k \in 1 .. Len(t) : t[k].type = "done" /\ OfStartedItem(t[k])
  BY <1>3 DEF OfStartedItem
<1>9. ClosingEvents = r \o t
  BY DEF ClosingEvents
<1> HIDE DEF r, t
<1>10. ClosingEvents \in Seq(Events) /\ InOrder(ClosingEvents, Sent, "added", "done")
  BY <1>4, <1>6, <1>9, ConcatInOrder, ConcatProperties
<1>11. ASSUME NEW k \in 1 .. Len(ClosingEvents)
       PROVE  ClosingEvents[k].type = "done" /\ OfStartedItem(ClosingEvents[k])
  <2>1. /\ Len(r) \in Nat /\ Len(t) \in Nat /\ k \in 1 .. (Len(r) + Len(t))
        /\ ClosingEvents[k] = IF k <= Len(r) THEN r[k] ELSE t[k - Len(r)]
    BY <1>4, <1>6, <1>9, ConcatProperties, LenProperties
  <2>2. CASE k <= Len(r)
    BY <1>7, <2>1, <2>2
  <2>3. CASE k > Len(r)
    <3>1. k - Len(r) \in 1 .. Len(t) /\ ClosingEvents[k] = t[k - Len(r)]
      BY <2>1, <2>3
    <3> QED BY <1>8, <3>1
  <2> QED BY <2>1, <2>2, <2>3
<1> QED BY <1>10, <1>11

LEMMA ClosingEventsClose ==
  ASSUME TypeOK, IndexInv, NEW item,
         (reasoningStarted /\ item = Reasoning) \/ (textStarted /\ item = Message)
  PROVE  \E k \in 1 .. Len(ClosingEvents) :
           ClosingEvents[k].type = "done" /\ ClosingEvents[k].item = item
PROOF
<1> DEFINE r == IF reasoningStarted
                THEN <<Event("done", Reasoning, reasoningOutputIndex)>> ELSE <<>>
           t == IF textStarted THEN <<Event("done", Message, textOutputIndex)>> ELSE <<>>
<1>1. /\ Event("done", Reasoning, reasoningOutputIndex) \in Events
      /\ Event("done", Message, textOutputIndex) \in Events
  BY EventTypes, ItemsDiffer DEF TypeOK
<1>2. r \in Seq(Events) /\ t \in Seq(Events) /\ ClosingEvents = r \o t
  BY <1>1 DEF ClosingEvents
<1>3. /\ reasoningStarted =>
           1 \in 1 .. Len(r) /\ r[1] = Event("done", Reasoning, reasoningOutputIndex)
      /\ textStarted => 1 \in 1 .. Len(t) /\ t[1] = Event("done", Message, textOutputIndex)
  OBVIOUS
<1> HIDE DEF r, t
<1>4. /\ \A k \in 1 .. Len(r) : k \in 1 .. Len(r \o t) /\ (r \o t)[k] = r[k]
      /\ \A k \in 1 .. Len(t) : Len(r) + k \in 1 .. Len(r \o t) /\ (r \o t)[Len(r) + k] = t[k]
  BY <1>2, ConcatElements
<1>5. CASE reasoningStarted /\ item = Reasoning
  BY <1>2, <1>3, <1>4, <1>5, EventFields
<1>6. CASE textStarted /\ item = Message
  <2>1. Len(r) + 1 \in 1 .. Len(ClosingEvents) /\ ClosingEvents[Len(r) + 1] = t[1]
    BY <1>2, <1>3, <1>4, <1>6
  <2> QED BY <1>3, <1>6, <2>1, EventFields
<1> QED BY <1>5, <1>6

LEMMA CloseIInv == IInv /\ Close => IInv'
PROOF
<1> SUFFICES ASSUME IInv, Close PROVE IInv'
  OBVIOUS
<1>1. /\ phase = "streaming" /\ connection = "ended" /\ phase' = "calling"
      /\ outputItems' = TextItems
      /\ UNCHANGED <<streamVars, handlerVars, callIndex, saved>>
  BY DEF Close
<1>2. PICK n \in 0 .. Len(ClosingEvents) : Write(ClosingEvents, n)
  BY DEF Close, WriteAll
<1>3. saved = Unsaved /\ \A event \in Sent : event.type # "done" /\ OfStartedItem(event)
  BY <1>1 DEF IInv, PhaseInv, DeltasInv
<1>4. /\ ClosingEvents \in Seq(Events)
      /\ InOrder(ClosingEvents, Sent, "added", "done")
      /\ \A k \in 1 .. Len(ClosingEvents) :
           ClosingEvents[k].type = "done" /\ OfStartedItem(ClosingEvents[k])
  BY <1>3, ClosingEventsInOrder DEF IInv
<1>5. sent \in Seq(Events) /\ gone \in BOOLEAN
  BY DEF IInv, TypeOK
<1>6. /\ sent' \in Seq(Events) /\ gone' \in BOOLEAN
      /\ Sent \subseteq Sent' /\ Sent' = Sent \cup {ClosingEvents[k] : k \in 1 .. n}
  <2>1. sent' \in Seq(Events) /\ gone' \in BOOLEAN
    BY <1>2, <1>4, <1>5, WriteExtends, Zenon
  <2>2. Sent \subseteq Sent' /\ Sent' = Sent \cup {ClosingEvents[k] : k \in 1 .. n}
    BY <1>2, <1>4, <1>5, WriteSent, Zenon
  <2> QED BY <2>1, <2>2
<1>7. \A k \in 1 .. n : k \in 1 .. Len(ClosingEvents)
  BY <1>2, <1>4, LenProperties
<1>8. \A event \in Sent' : OfStartedItem(event) /\ (event \in Sent \/ event.type = "done")
  BY <1>3, <1>4, <1>6, <1>7
<1>9. /\ TextItems \in Seq(Items)
      /\ reasoningStarted => /\ reasoningOutputIndex < Len(TextItems)
                             /\ TextItems[reasoningOutputIndex + 1] = Reasoning
      /\ textStarted => /\ textOutputIndex < Len(TextItems)
                        /\ TextItems[textOutputIndex + 1] = Message
      /\ \A k \in 1 .. Len(TextItems) : TextItems[k] \in {Reasoning, Message}
  BY TextItemsPlace, Zenon DEF IInv
<1>10. TypeOK'
  BY <1>1, <1>6, <1>9 DEF IInv, TypeOK, StreamTypeOK, streamVars, handlerVars
<1>11. PhaseInv' /\ IndexInv' /\ OpenedInv'
  BY <1>1, <1>3, <1>6 DEF IInv, PhaseInv, IndexInv, OpenedInv, streamVars, handlerVars
<1>12. DeltasInv' /\ PlaceInv' /\ CallsInv'
  <2>1. \A event \in Sent' : InPlace(event)'
    BY <1>1, <1>8, <1>9 DEF OfStartedItem, InPlace
  <2>2. CallsInv'
    BY <1>1, <1>9, ItemsDiffer DEF CallsInv
  <2> QED BY <1>1, <1>3, <2>1, <2>2 DEF DeltasInv, PlaceInv
<1>13. EndInv'
  <2>1. \A event \in Sent' : event.type \notin TerminalTypes
    BY <1>1, <1>8 DEF IInv, EndInv, TerminalTypes
  <2> QED BY <2>1 DEF EndInv, OneTerminalEvent, LastOf, Sent
<1>14. EventsFollowTheirItem'
  BY <1>2, <1>4, <1>5, WriteInOrder DEF IInv, EventsFollowTheirItem
<1> QED BY <1>10, <1>11, <1>12, <1>13, <1>14 DEF IInv

LEMMA EmitCallIInv == IInv /\ EmitCall => IInv'
PROOF
<1> SUFFICES ASSUME IInv, EmitCall PROVE IInv'
  OBVIOUS
<1> DEFINE index == Len(outputItems)
           call == Call(callIndex)
           events == <<Event("added", call, index), Event("done", call, index)>>
<1>1. /\ phase = "calling" /\ ~LoopStops /\ callIndex' = callIndex + 1
      /\ UNCHANGED <<streamVars, phase, handlerVars, saved>>
  BY DEF EmitCall
<1>2. /\ saved = Unsaved /\ connection = "ended"
      /\ \A event \in Sent : InPlace(event)
  BY <1>1 DEF IInv, PhaseInv, PlaceInv
<1>3. /\ sent \in Seq(Events) /\ gone \in BOOLEAN /\ outputItems \in Seq(Items) /\ index \in Nat
      /\ toolCalls \in SUBSET CallIndices
      /\ callIndex \in Nat /\ callIndex + 1 \in 0 .. Cardinality(toolCalls)
  BY <1>1, CallsCounted, LenProperties DEF IInv, TypeOK, LoopStops
<1>4. CASE callIndex \notin toolCalls
  <2>1. UNCHANGED <<clientVars, outputItems>>
    BY <1>4 DEF EmitCall
  <2>2. Sent' = Sent
    BY <2>1 DEF Sent, clientVars
  <2>3. TypeOK'
    BY <1>1, <1>3, <2>1 DEF IInv, TypeOK, StreamTypeOK, streamVars, handlerVars, clientVars
  <2>4. PhaseInv' /\ IndexInv' /\ OpenedInv'
    BY <1>1, <1>2, <2>1, <2>2 DEF IInv, PhaseInv, IndexInv, OpenedInv, streamVars, handlerVars
  <2>5. DeltasInv' /\ PlaceInv'
    BY <1>1, <1>2, <2>1, <2>2 DEF DeltasInv, PlaceInv, InPlace
  <2>6. CallsInv'
    BY <1>1, <1>3, <2>1 DEF IInv, CallsInv
  <2>7. EndInv' /\ EventsFollowTheirItem'
    BY <1>1, <2>1, <2>2 DEF IInv, EndInv, OneTerminalEvent, LastOf, EventsFollowTheirItem,
                            EventsFollow, clientVars
  <2> QED BY <2>3, <2>4, <2>5, <2>6, <2>7 DEF IInv
<1>5. CASE callIndex \in toolCalls
  <2>1. outputItems' = Append(outputItems, call) /\ WriteAll(events)
    BY <1>5 DEF EmitCall
  <2>2. call \in Items /\ Event("added", call, index) \in Events
        /\ Event("done", call, index) \in Events
    BY <1>3, <1>5, ItemsDiffer, EventTypes
  <2>3. /\ events \in Seq(Events) /\ Len(events) = 2
        /\ events[1] = Event("added", call, index) /\ events[2] = Event("done", call, index)
    BY <2>2
\* No event is about this call, and none has its index.
  <2>4. ASSUME NEW event, event \in Sent
        PROVE  event.item # call /\ (event.item # Response => event.index # index)
    <3>1. event \in Events
      BY <1>3, <2>4, ElementOfSeq DEF Sent
    <3>2. event.index \in Nat
      BY <3>1 DEF Events
    <3>3. CASE event.item = Response
      BY <3>3, ItemsDiffer
    <3>4. CASE event.index < index /\ outputItems[event.index + 1] = event.item
      <4>1. event.index + 1 \in 1 .. Len(outputItems)
        BY <1>3, <3>2, <3>4
      <4>2. event.item # call
        BY <1>3, <3>4, <4>1 DEF IInv, CallsInv
      <4> QED BY <1>3, <3>2, <3>4, <4>2
    <3> QED BY <1>2, <2>4, <3>3, <3>4 DEF InPlace
  <2>5. InOrder(events, Sent, "added", "done")
    <3>1. Event("done", call, index) \notin Sent
      BY <2>4, EventFields
    <3>2. ASSUME NEW b \in Sent, b.type = "added" PROVE b.item # call /\ b.index # index
      <4>1. b \in Events
        BY <1>3, ElementOfSeq DEF Sent
      <4>2. b.item # Response
        BY <3>2, <4>1, ItemsDiffer DEF Events
      <4> QED BY <2>4, <4>2
    <3> HIDE DEF call, index
    <3> QED BY <3>1, <3>2, OpeningInOrder
  <2> HIDE DEF events
  <2>6. PICK n \in 0 .. Len(events) : Write(events, n)
    BY <2>1 DEF WriteAll
  <2>7. sent' \in Seq(Events) /\ gone' \in BOOLEAN
    BY <1>3, <2>3, <2>6, WriteExtends, Zenon
  <2>8. Sent \subseteq Sent' /\ Sent' = Sent \cup {events[k] : k \in 1 .. n}
    BY <1>3, <2>3, <2>6, WriteSent, Zenon
  <2>9. \A event \in Sent' :
          \/ event \in Sent
          \/ event.type \in {"added", "done"} /\ event.item = call /\ event.index = index
    <3>1. \A k \in 1 .. n : k \in {1, 2}
      BY <2>3, <2>6
    <3> QED BY <2>3, <2>8, <3>1, EventFields
  <2>10. /\ outputItems' \in Seq(Items) /\ Len(outputItems') = index + 1
         /\ \A k \in 1 .. index : outputItems'[k] = outputItems[k]
         /\ outputItems'[index + 1] = call
    BY <1>3, <2>1, <2>2, AppendProperties
  <2>11. TypeOK'
    BY <1>1, <1>3, <2>7, <2>10 DEF IInv, TypeOK, StreamTypeOK, streamVars, handlerVars
  <2>12. PhaseInv' /\ IndexInv' /\ OpenedInv'
    BY <1>1, <1>2, <2>8 DEF IInv, PhaseInv, IndexInv, OpenedInv, streamVars, handlerVars
  <2>13. DeltasInv' /\ PlaceInv'
    <3>1. ASSUME NEW event, event \in Sent' PROVE InPlace(event)'
      <4>1. CASE event \in Sent
        <5>1. event.index \in Nat
          BY <1>3, <4>1, ElementOfSeq DEF Sent, Events
        <5>2. InPlace(event)
          BY <1>2, <4>1
        <5> HIDE DEF index
        <5>3. \/ event.item = Response
              \/ event.index < index /\ outputItems[event.index + 1] = event.item
          BY <5>2 DEF InPlace, index
        <5>4. event.index < index => event.index + 1 \in 1 .. index /\ event.index < index + 1
          BY <1>3, <5>1
        <5> QED BY <2>10, <5>3, <5>4 DEF InPlace
      <4>2. CASE event.item = call /\ event.index = index
        <5> HIDE DEF index
        <5>1. event.index < index + 1
          BY <1>3, <4>2
        <5> QED BY <2>10, <4>2, <5>1 DEF InPlace
      <4> QED BY <2>9, <3>1, <4>1, <4>2
    <3> QED BY <1>1, <1>2, <3>1 DEF DeltasInv, PlaceInv
  <2>14. CallsInv'
    <3> SUFFICES ASSUME NEW k \in 1 .. Len(outputItems'), NEW i \in Nat, outputItems'[k] = Call(i)
                 PROVE  i < callIndex'
      BY DEF CallsInv
    <3>1. CASE k \in 1 .. index
      <4>1. i < callIndex
        BY <2>10, <3>1 DEF IInv, CallsInv
      <4> QED BY <1>1, <1>3, <4>1
    <3>2. CASE k = index + 1
      <4>1. i = callIndex
        BY <2>10, <3>2, ItemsDiffer
      <4> QED BY <1>1, <1>3, <4>1
    <3> QED BY <1>3, <2>10, <3>1, <3>2
  <2>15. EndInv'
    <3>1. \A event \in Sent' : event.type \notin TerminalTypes
      BY <1>1, <2>9 DEF IInv, EndInv, TerminalTypes
    <3> QED BY <3>1 DEF EndInv, OneTerminalEvent, LastOf, Sent
  <2>16. EventsFollowTheirItem'
    BY <1>3, <2>3, <2>5, <2>6, WriteInOrder DEF IInv, EventsFollowTheirItem
  <2> QED BY <2>11, <2>12, <2>13, <2>14, <2>15, <2>16 DEF IInv
<1> QED BY <1>4, <1>5

LEMMA StutterIInv == IInv /\ UNCHANGED vars => IInv'
PROOF
<1> SUFFICES ASSUME IInv, UNCHANGED vars PROVE IInv'
  OBVIOUS
<1> USE DEF vars, streamVars, handlerVars, clientVars
<1>1. Sent' = Sent
  BY DEF Sent
<1>2. TypeOK'
  BY DEF IInv, TypeOK, StreamTypeOK
<1>3. PhaseInv' /\ IndexInv' /\ OpenedInv'
  BY <1>1 DEF IInv, PhaseInv, IndexInv, OpenedInv
<1>4. DeltasInv' /\ PlaceInv' /\ CallsInv'
  BY <1>1 DEF IInv, DeltasInv, OfStartedItem, PlaceInv, InPlace, CallsInv
<1>5. EndInv' /\ EventsFollowTheirItem'
  BY <1>1 DEF IInv, EndInv, OneTerminalEvent, LastOf, EventsFollowTheirItem, EventsFollow
<1> QED BY <1>2, <1>3, <1>4, <1>5 DEF IInv

------------------------------------------------------------------------------
(* The theorems.                                                           *)

\* The inductive invariant: flags, indices and phase agree with what the client has.
THEOREM StreamInvariant == Spec => []IInv
PROOF
<1>1. Init => IInv
  BY InitIInv
<1>2. IInv /\ [Next]_vars => IInv'
  <2> SUFFICES ASSUME IInv, [Next]_vars PROVE IInv'
    OBVIOUS
  <2>1. CASE Open
    BY <2>1, OpenIInv
  <2>2. CASE Upstream
    BY <2>2, UpstreamIInv
  <2>3. CASE Fail
    BY <2>3, FailIInv
  <2>4. CASE Close
    BY <2>4, CloseIInv
  <2>5. CASE EmitCall
    BY <2>5, EmitCallIInv
  <2>6. CASE Save
    BY <2>6, SaveIInv
  <2>7. CASE Complete
    BY <2>7, CompleteIInv
  <2>8. ASSUME NEW chunk \in Chunks, Chunk(chunk) PROVE IInv'
    BY <2>8, ChunkIInv
  <2>9. CASE Over \/ UNCHANGED vars
    BY <2>9, StutterIInv DEF Over
  <2> QED BY <2>1, <2>2, <2>3, <2>4, <2>5, <2>6, <2>7, <2>8, <2>9 DEF Next
<1> QED BY <1>1, <1>2, PTL DEF Spec

\* streamResponse keeps the types of its variables.
THEOREM TypeCorrect == Spec => []TypeOK
PROOF BY StreamInvariant, PTL DEF IInv

\* Whatever the upstream mixes and wherever it or the client breaks off, events about
\* an item come between its opening and its closing, at an index of its own.
THEOREM EventsAreInOrder == Spec => []EventsFollowTheirItem
PROOF BY StreamInvariant, PTL DEF IInv

\* The index of every event is the place of its item in the stored output.
THEOREM IndicesArePlaces == Spec => []IndexIsPlaceInOutput
PROOF
<1>1. IInv => IndexIsPlaceInOutput
  <2> SUFFICES ASSUME IInv, saved # Unsaved, NEW k \in 1 .. Len(sent), sent[k].item \in Items
               PROVE  /\ sent[k].index < Len(saved.output)
                      /\ saved.output[sent[k].index + 1] = sent[k].item
    BY DEF IndexIsPlaceInOutput
  <2>1. InPlace(sent[k]) /\ saved.output = outputItems
    BY DEF IInv, PlaceInv, Sent
  <2> QED BY <2>1, ItemsDiffer DEF InPlace
<1> QED BY <1>1, StreamInvariant, PTL

\* A response ends once, and nothing follows its end.
THEOREM ResponseEndsOnce == Spec => []OneTerminalEvent
PROOF BY StreamInvariant, PTL DEF IInv, EndInv

\* The client is told its response is complete exactly when it has been saved, and
\* nothing is saved unless the upstream ended without an error.
THEOREM SavedIffCompleted == Spec => []OnlyFinishedAnswersAreSaved
PROOF
<1>1. IInv => OnlyFinishedAnswersAreSaved
  BY DEF IInv, PhaseInv, EndInv, Sent, OnlyFinishedAnswersAreSaved
<1> QED BY <1>1, StreamInvariant, PTL

------------------------------------------------------------------------------
(* The output and what the client saw of it.                               *)

\* The text deltas the client has been sent.
TextDeltas == {k \in Positions("delta") : sent[k].item = Message}

\* The output holds the tool calls the loop has come by, each item once.
OutputInv ==
  /\ phase \in {"opening", "streaming"} => outputItems = <<>>
  /\ \A j, k \in 1 .. Len(outputItems) : outputItems[j] = outputItems[k] => j = k
  /\ \A i \in CallIndices :
       Call(i) \in ToSet(outputItems) <=> i \in toolCalls /\ i < callIndex
  /\ saved # Unsaved => LoopStops

\* The text held is the text sent, and a client that stays has seen every item.
SeenInv ==
  /\ Cardinality(TextDeltas) = contentBuilder
  /\ saved # Unsaved => saved.text = contentBuilder
  /\ (phase \in {"calling", "completing"} \/ saved # Unsaved) /\ ~gone =>
       /\ ItemsIn("added") = ToSet(outputItems)
       /\ ItemsIn("done") = ToSet(outputItems)

LEMMA OutputElements ==
  ASSUME NEW s \in Seq(Items), NEW item
  PROVE  /\ item \in ToSet(s) <=> \E k \in 1 .. Len(s) : s[k] = item
         /\ ToSet(Append(s, item)) = ToSet(s) \cup {item}
PROOF
<1>1. DOMAIN s = 1 .. Len(s) /\ Len(s) \in Nat
  BY LenProperties
<1>2. item \in ToSet(s) <=> \E k \in 1 .. Len(s) : s[k] = item
  BY <1>1 DEF ToSet
<1> DEFINE t == Append(s, item)
<1>3. /\ DOMAIN t = 1 .. (Len(s) + 1) /\ t[Len(s) + 1] = item
      /\ \A k \in 1 .. Len(s) : t[k] = s[k]
  BY <1>1
<1> HIDE DEF t
<1>4. ToSet(t) \subseteq ToSet(s) \cup {item}
  <2>1. \A k \in 1 .. (Len(s) + 1) : k \in 1 .. Len(s) \/ k = Len(s) + 1
    BY <1>1
  <2> QED BY <1>1, <1>3, <2>1 DEF ToSet
<1>5. ToSet(s) \subseteq ToSet(t) /\ item \in ToSet(t)
  <2>1. Len(s) + 1 \in DOMAIN t /\ \A k \in 1 .. Len(s) : k \in DOMAIN t
    BY <1>1, <1>3
  <2> QED BY <1>1, <1>3, <2>1 DEF ToSet
<1>6. ToSet(t) = ToSet(s) \cup {item}
  BY <1>4, <1>5
<1> QED BY <1>2, <1>6 DEF t

LEMMA TextDeltasFinite == sent \in Seq(Events) => IsFiniteSet(TextDeltas)
PROOF
<1> SUFFICES ASSUME sent \in Seq(Events) PROVE IsFiniteSet(TextDeltas)
  OBVIOUS
<1>1. Len(sent) \in Nat /\ IsFiniteSet(1 .. Len(sent))
  BY LenProperties, FS_Interval
<1>2. TextDeltas \in SUBSET (1 .. Len(sent))
  BY DEF TextDeltas, Positions
<1> QED BY <1>1, <1>2, FS_Subset

\* A write adds a text delta or none.
LEMMA TextDeltasAfter ==
  ASSUME sent \in Seq(Events), gone \in BOOLEAN, NEW events \in Seq(Events),
         NEW n \in 0 .. Len(events), Write(events, n)
  PROVE  /\ (\A k \in 1 .. n : ~(events[k].type = "delta" /\ events[k].item = Message)) =>
              TextDeltas' = TextDeltas
         /\ /\ n > 0 /\ events[n].type = "delta" /\ events[n].item = Message
            /\ \A k \in 1 .. n :
                 k # n => ~(events[k].type = "delta" /\ events[k].item = Message)
            => TextDeltas' = TextDeltas \cup {Len(sent) + n} /\ Len(sent) + n \notin TextDeltas
PROOF
<1>1. /\ Len(sent') = Len(sent) + n /\ Len(sent) \in Nat /\ n \in Nat
      /\ \A k \in 1 .. Len(sent) : sent'[k] = sent[k]
      /\ \A k \in 1 .. n : sent'[Len(sent) + k] = events[k]
      /\ \A k \in 1 .. Len(sent') :
           \/ k \in 1 .. Len(sent) /\ sent'[k] = sent[k]
           \/ k - Len(sent) \in 1 .. n /\ sent'[k] = events[k - Len(sent)]
  BY WriteExtends, LenProperties
<1>2. /\ TextDeltas = {k \in 1 .. Len(sent) : sent[k].type = "delta" /\ sent[k].item = Message}
      /\ TextDeltas' = {k \in 1 .. Len(sent') : sent'[k].type = "delta" /\ sent'[k].item = Message}
  BY DEF TextDeltas, Positions
<1>3. \A k \in 1 .. Len(sent) : k \in 1 .. Len(sent')
  BY <1>1
<1>4. TextDeltas \subseteq TextDeltas'
  BY <1>1, <1>2, <1>3
<1>5. ASSUME \A k \in 1 .. n : ~(events[k].type = "delta" /\ events[k].item = Message)
      PROVE  TextDeltas' = TextDeltas
  <2>1. TextDeltas' \subseteq TextDeltas
    BY <1>1, <1>2, <1>5, Z3
  <2> QED BY <1>4, <2>1
<1>6. ASSUME /\ n > 0 /\ events[n].type = "delta" /\ events[n].item = Message
             /\ \A k \in 1 .. n :
                  k # n => ~(events[k].type = "delta" /\ events[k].item = Message)
      PROVE  TextDeltas' = TextDeltas \cup {Len(sent) + n} /\ Len(sent) + n \notin TextDeltas
  <2>1. Len(sent) + n \in 1 .. Len(sent') /\ sent'[Len(sent) + n] = events[n]
    BY <1>1, <1>6
  <2>2. Len(sent) + n \in TextDeltas'
    BY <1>2, <1>6, <2>1
  <2>3. Len(sent) + n \notin TextDeltas
    BY <1>1, <1>2, <1>6
  <2>4. ASSUME NEW k \in TextDeltas' PROVE k \in TextDeltas \/ k = Len(sent) + n
    <3>1. CASE k \in 1 .. Len(sent) /\ sent'[k] = sent[k]
      BY <1>2, <3>1, <2>4
    <3>2. CASE k - Len(sent) \in 1 .. n /\ sent'[k] = events[k - Len(sent)]
      <4>1. k - Len(sent) = n
        BY <1>2, <1>6, <2>4, <3>2
      <4> QED BY <1>1, <1>2, <2>4, <4>1
    <3> QED BY <1>1, <1>2, <2>4, <3>1, <3>2
  <2> QED BY <1>4, <2>2, <2>3, <2>4
<1> QED BY <1>5, <1>6

\* Events about the response are about none of its items.
LEMMA ShellEvents ==
  ASSUME TypeOK, NEW events \in Seq(Events), NEW n \in 0 .. Len(events), Write(events, n),
         \A k \in 1 .. Len(events) : events[k].item = Response
  PROVE  /\ TextDeltas' = TextDeltas
         /\ \A type \in {"added", "done"} : ItemsIn(type)' = ItemsIn(type)
PROOF
<1>1. sent \in Seq(Events) /\ gone \in BOOLEAN /\ \A k \in 1 .. n : k \in 1 .. Len(events)
  BY LenProperties DEF TypeOK
<1>2. TextDeltas' = TextDeltas
  <2>1. \A k \in 1 .. n : events[k].item # Message
    BY <1>1, ItemsDiffer
  <2> QED BY <1>1, <2>1, TextDeltasAfter
<1>3. /\ Sent \subseteq Sent'
      /\ \A event \in Sent' :
           event \in Sent \/ \E k \in 1 .. Len(events) : k <= n /\ event = events[k]
  BY <1>1, WriteAdds, Zenon
<1>4. \A k \in 1 .. Len(events) : events[k].type \notin {"added", "done"}
  <2>1. \A k \in 1 .. Len(events) : events[k] \in Events
    BY ElementOfSeq
  <2> QED BY <2>1, ItemsDiffer DEF Events
<1>5. \A event \in Sent' : event.type \in {"added", "done"} => event \in Sent
  BY <1>3, <1>4
<1> QED BY <1>2, <1>3, <1>5 DEF ItemsIn

LEMMA OutputUnchanged ==
  ASSUME OutputInv, UNCHANGED <<outputItems, toolCalls, callIndex>>,
         phase' \in {"opening", "streaming"} => phase \in {"opening", "streaming"},
         saved' # Unsaved => saved # Unsaved \/ LoopStops
  PROVE  OutputInv'
PROOF BY DEF OutputInv, LoopStops

LEMMA SeenUnchanged ==
  ASSUME SeenInv, UNCHANGED <<outputItems, contentBuilder>>, TextDeltas' = TextDeltas,
         \A type \in {"added", "done"} : ItemsIn(type)' = ItemsIn(type),
         gone \in BOOLEAN, gone => gone', UNCHANGED saved \/ saved'.text = contentBuilder,
         phase' \in {"calling", "completing"} \/ saved' # Unsaved =>
           phase \in {"calling", "completing"} \/ saved # Unsaved
  PROVE  SeenInv'
PROOF BY DEF SeenInv

LEMMA EmitCallOutput == IInv /\ OutputInv /\ EmitCall => OutputInv'
PROOF
<1> SUFFICES ASSUME IInv, OutputInv, EmitCall PROVE OutputInv'
  OBVIOUS
<1>1. /\ phase = "calling" /\ ~LoopStops /\ callIndex' = callIndex + 1
      /\ UNCHANGED <<phase, toolCalls, saved>>
  BY DEF EmitCall, handlerVars
<1>2. /\ saved = Unsaved /\ callIndex \in Nat /\ outputItems \in Seq(Items)
      /\ Len(outputItems) \in Nat /\ toolCalls \in SUBSET CallIndices
  BY <1>1, LenProperties, CallsCounted DEF IInv, PhaseInv, TypeOK
<1>3. CASE callIndex \notin toolCalls
  <2>1. UNCHANGED outputItems
    BY <1>3 DEF EmitCall
  <2>2. \A i \in CallIndices :
          i \in toolCalls /\ i < callIndex + 1 <=> i \in toolCalls /\ i < callIndex
    BY <1>2, <1>3, ResponseStreamAssumption
  <2> QED BY <1>1, <1>2, <2>1, <2>2 DEF OutputInv
<1>4. CASE callIndex \in toolCalls
  <2> DEFINE call == Call(callIndex)
             items == outputItems
  <2>1. items' = Append(items, call) /\ call \in Items
    BY <1>2, <1>4, ItemsDiffer DEF EmitCall
  <2>2. ToSet(items') = ToSet(items) \cup {call}
    BY <1>2, <2>1, OutputElements
  <2>3. call \notin ToSet(items)
    <3>1. ~(callIndex < callIndex)
      BY <1>2
    <3> QED BY <1>2, <1>4, <3>1 DEF OutputInv
  <2>4. /\ Len(items') = Len(items) + 1 /\ items'[Len(items) + 1] = call
        /\ \A k \in 1 .. Len(items) : items'[k] = items[k] /\ items[k] # call
    <3>1. \A k \in 1 .. Len(items) : items[k] # call
      BY <1>2, <2>3, OutputElements
    <3> QED BY <1>2, <2>1, <3>1, AppendProperties
  <2>5. \A j, k \in 1 .. Len(items') : items'[j] = items'[k] => j = k
    <3>1. \A k \in 1 .. Len(items') : k \in 1 .. Len(items) \/ k = Len(items) + 1
      BY <1>2, <2>4
    <3> QED BY <2>4, <3>1 DEF OutputInv
  <2>6. ASSUME NEW i \in CallIndices
        PROVE  Call(i) \in ToSet(items') <=> i \in toolCalls /\ i < callIndex + 1
    <3>1. Call(i) = call <=> i = callIndex
      BY ItemsDiffer
    <3>2. i < callIndex + 1 <=> i < callIndex \/ i = callIndex
      BY <1>2, ResponseStreamAssumption
    <3>3. Call(i) \in ToSet(items) <=> i \in toolCalls /\ i < callIndex
      BY DEF OutputInv
    <3> HIDE DEF call
    <3> QED BY <1>4, <2>2, <3>1, <3>2, <3>3
  <2> HIDE DEF items
  <2> QED BY <1>1, <1>2, <2>5, <2>6 DEF OutputInv, items
<1> QED BY <1>3, <1>4

LEMMA OutputStep == IInv /\ OutputInv /\ [Next]_vars => OutputInv'
PROOF
<1> SUFFICES ASSUME IInv, OutputInv, [Next]_vars PROVE OutputInv'
  OBVIOUS
<1>1. CASE Open \/ Upstream \/ Fail \/ Complete \/ Over \/ UNCHANGED vars
  <2>1. /\ UNCHANGED <<outputItems, toolCalls, callIndex, saved>>
        /\ phase' \in {"opening", "streaming"} => phase \in {"opening", "streaming"}
    BY <1>1 DEF Open, Upstream, Fail, Complete, Over, vars, handlerVars
  <2> QED BY <2>1, OutputUnchanged
<1>2. CASE Save
  <2>1. UNCHANGED <<outputItems, toolCalls, callIndex>> /\ LoopStops /\ phase' = "completing"
    BY <1>2 DEF Save, handlerVars
  <2> QED BY <2>1, OutputUnchanged
<1>3. CASE EmitCall
  BY <1>3, EmitCallOutput
<1>4. ASSUME NEW chunk \in Chunks, Chunk(chunk) PROVE OutputInv'
  <2>1. /\ phase = "streaming" /\ UNCHANGED <<phase, outputItems, callIndex, saved>>
        /\ callIndex = 0 /\ saved = Unsaved
    BY <1>4 DEF Chunk, IInv, PhaseInv
  <2>2. outputItems' = <<>> /\ callIndex' = 0
    BY <2>1 DEF OutputInv
  <2>3. \A i \in CallIndices : Call(i) \notin ToSet(outputItems') /\ ~(i < 0)
    BY <2>2, ResponseStreamAssumption DEF ToSet
  <2> QED BY <2>1, <2>2, <2>3 DEF OutputInv
<1>5. CASE Close
  <2>1. /\ phase = "streaming" /\ phase' = "calling" /\ outputItems' = TextItems
        /\ UNCHANGED <<callIndex, saved>> /\ callIndex = 0 /\ saved = Unsaved
    BY <1>5 DEF Close, IInv, PhaseInv
  <2>2. /\ TextItems \in Seq(Items)
        /\ \A k \in 1 .. Len(TextItems) : TextItems[k] \in {Reasoning, Message}
        /\ \A j, k \in 1 .. Len(TextItems) : TextItems[j] = TextItems[k] => j = k
    BY TextItemsPlace, Zenon DEF IInv
  <2>3. \A i \in CallIndices : Call(i) \notin ToSet(TextItems) /\ ~(i < 0)
    BY <2>2, OutputElements, ItemsDiffer, ResponseStreamAssumption
  <2> QED BY <2>1, <2>2, <2>3 DEF OutputInv
<1> QED BY <1>1, <1>2, <1>3, <1>4, <1>5 DEF Next

LEMMA ChunkSeen ==
  ASSUME IInv, SeenInv, NEW chunk \in Chunks, Chunk(chunk)
  PROVE  SeenInv'
PROOF
<1> DEFINE r == DeltaEvents(chunk.reasoning, reasoningStarted, "added", Reasoning,
                            ReasoningIndex(chunk))
           t == DeltaEvents(chunk.text, textStarted, "added", Message, TextIndex(chunk))
           events == r \o t
           IsText(event) == event.type = "delta" /\ event.item = Message
<1>1. /\ phase = "streaming" /\ saved = Unsaved /\ UNCHANGED <<phase, saved>>
  BY DEF IInv, PhaseInv, Chunk
<1>2. PICK n \in 0 .. Len(events) :
        /\ Write(events, n)
        /\ n = Len(events) =>
             contentBuilder' = contentBuilder + (IF chunk.text THEN 1 ELSE 0)
        /\ n # Len(events) => UNCHANGED contentBuilder
  BY DEF Chunk, handlerVars
<1>3. /\ chunk.reasoning \in BOOLEAN /\ chunk.text \in BOOLEAN /\ TypeOK
      /\ reasoningStarted \in BOOLEAN /\ textStarted \in BOOLEAN /\ gone \in BOOLEAN
      /\ sent \in Seq(Events) /\ contentBuilder \in Nat
      /\ ReasoningIndex(chunk) \in Nat /\ TextIndex(chunk) \in Nat
  BY DEF IInv, TypeOK, StreamTypeOK, Chunks, ReasoningIndex, TextIndex
<1>4. /\ r \in Seq(Events)
      /\ \A k \in 1 .. Len(r) : ~IsText(r[k])
  <2>1. /\ r \in Seq({Event("added", Reasoning, ReasoningIndex(chunk)),
                      Event("delta", Reasoning, ReasoningIndex(chunk))})
        /\ \A k \in 1 .. Len(r) : r[k] \in {Event("added", Reasoning, ReasoningIndex(chunk)),
                                            Event("delta", Reasoning, ReasoningIndex(chunk))}
    BY <1>3, DeltaEventsShape, ElementOfSeq
  <2>2. {Event("added", Reasoning, ReasoningIndex(chunk)),
         Event("delta", Reasoning, ReasoningIndex(chunk))} \subseteq Events
    BY <1>3, EventTypes, ItemsDiffer
  <2> HIDE DEF r
  <2> QED BY <2>1, <2>2, EventFields, ItemsDiffer, SeqMonotonic
<1>5. /\ t \in Seq(Events) /\ Len(t) \in Nat
      /\ \A k \in 1 .. Len(t) : chunk.text /\ (k # Len(t) => ~IsText(t[k]))
      /\ chunk.text => Len(t) \in 1 .. Len(t) /\ IsText(t[Len(t)])
  <2> DEFINE open == Event("added", Message, TextIndex(chunk))
             delta == Event("delta", Message, TextIndex(chunk))
  <2>1. /\ t \in Seq({open, delta})
        /\ \A k \in 1 .. Len(t) : chunk.text /\ (k # Len(t) => t[k] = open)
        /\ chunk.text => Len(t) \in 1 .. Len(t) /\ t[Len(t)] = delta
    <3>1. t = DeltaEvents(chunk.text, textStarted, "added", Message, TextIndex(chunk))
      OBVIOUS
    <3> HIDE DEF t
    <3> QED BY <1>3, <3>1, DeltaEventsShape
  <2>2. {open, delta} \subseteq Events /\ ~IsText(open) /\ IsText(delta)
    BY <1>3, EventTypes, EventFields, ItemsDiffer
  <2> HIDE DEF t, open, delta, IsText
  <2>3. t \in Seq(Events)
    BY <2>1, <2>2, SeqMonotonic
  <2> QED BY <2>1, <2>2, <2>3, LenProperties
<1> HIDE DEF r, t, IsText
<1>6. /\ events \in Seq(Events) /\ Len(r) \in Nat /\ Len(events) = Len(r) + Len(t)
      /\ \A k \in 1 .. Len(t) : events[Len(r) + k] = t[k]
      /\ \A k \in 1 .. Len(events) :
           \/ k \in 1 .. Len(r) /\ events[k] = r[k]
           \/ k - Len(r) \in 1 .. Len(t) /\ events[k] = t[k - Len(r)]
  BY <1>4, <1>5, ConcatElements
<1> HIDE DEF events
<1>7. \A k \in 1 .. Len(events) : IsText(events[k]) <=> k = Len(events) /\ chunk.text
  <2> SUFFICES ASSUME NEW k \in 1 .. Len(events)
               PROVE  IsText(events[k]) <=> k = Len(events) /\ chunk.text
    OBVIOUS
  <2>1. CASE k \in 1 .. Len(r) /\ events[k] = r[k]
    <3>1. ~IsText(events[k]) /\ ~(k = Len(events) /\ chunk.text)
      BY <1>4, <1>5, <1>6, <2>1
    <3> QED BY <3>1
  <2>2. CASE k - Len(r) \in 1 .. Len(t) /\ events[k] = t[k - Len(r)]
    <3>1. k - Len(r) = Len(t) <=> k = Len(events)
      BY <1>5, <1>6
    <3> QED BY <1>5, <2>2, <3>1
  <2> QED BY <1>6, <2>1, <2>2
<1>8. n \in Nat /\ \A k \in 1 .. n : k \in 1 .. Len(events)
  BY <1>6, LenProperties
<1>9. Cardinality(TextDeltas') = contentBuilder'
  <2>1. IsFiniteSet(TextDeltas) /\ Cardinality(TextDeltas) = contentBuilder
    BY <1>3, TextDeltasFinite DEF SeenInv
  <2>2. CASE n = Len(events) /\ chunk.text
    <3>1. n \in 1 .. n
      BY <1>5, <1>6, <2>2
    <3>2. /\ n > 0 /\ IsText(events[n])
          /\ \A k \in 1 .. n : k # n => ~IsText(events[k])
      BY <1>7, <1>8, <2>2, <3>1
    <3>3. TextDeltas' = TextDeltas \cup {Len(sent) + n} /\ Len(sent) + n \notin TextDeltas
      BY <1>2, <1>3, <1>6, <3>2, TextDeltasAfter DEF IsText
    <3>4. Cardinality(TextDeltas') = Cardinality(TextDeltas) + 1
      BY <2>1, <3>3, FS_AddElement
    <3> QED BY <1>2, <2>1, <2>2, <3>4
  <2>3. CASE ~(n = Len(events) /\ chunk.text)
    <3>1. \A k \in 1 .. n : ~IsText(events[k])
      BY <1>2, <1>6, <1>7, <1>8, <2>3
    <3>2. TextDeltas' = TextDeltas
      BY <1>2, <1>3, <1>6, <3>1, TextDeltasAfter DEF IsText
    <3>3. contentBuilder' = contentBuilder
      BY <1>2, <1>3, <2>3
    <3> QED BY <2>1, <3>2, <3>3
  <2> QED BY <2>2, <2>3
<1> QED BY <1>1, <1>9 DEF SeenInv

LEMMA CloseSeen == IInv /\ SeenInv /\ Close => SeenInv'
PROOF
<1> SUFFICES ASSUME IInv, SeenInv, Close PROVE SeenInv'
  OBVIOUS
<1> DEFINE Started(item) == \/ reasoningStarted /\ item = Reasoning
                            \/ textStarted /\ item = Message
<1>1. /\ phase = "streaming" /\ connection = "ended" /\ outputItems' = TextItems
      /\ UNCHANGED <<contentBuilder, reasoningStarted, textStarted, saved>>
      /\ saved = Unsaved
  BY DEF Close, IInv, PhaseInv, handlerVars
<1>2. PICK n \in 0 .. Len(ClosingEvents) : Write(ClosingEvents, n)
  BY DEF Close, WriteAll
<1>3. \A event \in Sent : event.type # "done" /\ OfStartedItem(event)
  BY <1>1 DEF IInv, DeltasInv
<1>4. /\ ClosingEvents \in Seq(Events)
      /\ \A k \in 1 .. Len(ClosingEvents) :
           ClosingEvents[k].type = "done" /\ OfStartedItem(ClosingEvents[k])
  BY <1>3, ClosingEventsInOrder DEF IInv
<1>5. \A item : Started(item) =>
        \E k \in 1 .. Len(ClosingEvents) :
          ClosingEvents[k].type = "done" /\ ClosingEvents[k].item = item
  BY <1>1, ClosingEventsClose DEF IInv
<1>6. /\ sent \in Seq(Events) /\ gone \in BOOLEAN
      /\ \A k \in 1 .. n : k \in 1 .. Len(ClosingEvents)
  BY <1>4, LenProperties DEF IInv, TypeOK
<1>7. /\ Sent \subseteq Sent'
      /\ \A event \in Sent' :
           event \in Sent \/ \E k \in 1 .. Len(ClosingEvents) : k <= n /\ event = ClosingEvents[k]
      /\ \A k \in 1 .. n : ClosingEvents[k] \in Sent'
      /\ ~gone' => n = Len(ClosingEvents)
  BY <1>2, <1>4, <1>6, WriteAdds, Zenon
<1>8. TextDeltas' = TextDeltas
  <2>1. \A k \in 1 .. n : ClosingEvents[k].type # "delta"
    BY <1>4, <1>6
  <2> QED BY <1>2, <1>4, <1>6, <2>1, TextDeltasAfter
<1>9. \A event \in Sent' :
        /\ OfStartedItem(event)
        /\ event \in Sent \/ event.type = "done"
  BY <1>3, <1>4, <1>7
<1>10. \A event \in Sent' : event.type \in {"added", "done"} => Started(event.item)
  <2>1. \A event \in Sent' : event.type \in {"added", "done"} => event.item # Response
    <3>1. \A event \in Sent : event \in Events
      BY <1>6, ElementOfSeq DEF Sent
    <3>2. \A k \in 1 .. Len(ClosingEvents) : ClosingEvents[k] \in Events
      BY <1>4, ElementOfSeq
    <3> QED BY <1>7, <3>1, <3>2, ItemsDiffer DEF Events
  <2> QED BY <1>9, <2>1 DEF OfStartedItem
<1>11. \A item : item \in ToSet(TextItems) <=> Started(item)
  <2>1. /\ TextItems \in Seq(Items)
        /\ reasoningStarted => /\ reasoningOutputIndex < Len(TextItems)
                               /\ TextItems[reasoningOutputIndex + 1] = Reasoning
        /\ textStarted => /\ textOutputIndex < Len(TextItems)
                          /\ TextItems[textOutputIndex + 1] = Message
        /\ \A k \in 1 .. Len(TextItems) :
             \/ reasoningStarted /\ TextItems[k] = Reasoning
             \/ textStarted /\ TextItems[k] = Message
    BY TextItemsPlace, Zenon DEF IInv
  <2>2. Len(TextItems) \in Nat /\ reasoningOutputIndex \in Nat /\ textOutputIndex \in Nat
    BY <2>1, LenProperties DEF IInv, TypeOK
  <2>3. /\ reasoningStarted => reasoningOutputIndex + 1 \in 1 .. Len(TextItems)
        /\ textStarted => textOutputIndex + 1 \in 1 .. Len(TextItems)
    BY <2>1, <2>2
  <2>4. \A item : Started(item) <=> \E k \in 1 .. Len(TextItems) : TextItems[k] = item
    BY <2>1, <2>3
  <2> HIDE DEF Started
  <2> QED BY <2>1, <2>4, OutputElements
<1>12. ASSUME ~gone'
       PROVE  ItemsIn("added")' = ToSet(TextItems) /\ ItemsIn("done")' = ToSet(TextItems)
  <2>1. \A item : Started(item) =>
          \E event \in Sent' : event.type = "done" /\ event.item = item
    BY <1>5, <1>7, <1>12
  <2>2. \A item : Started(item) =>
          \E event \in Sent' : event.type = "added" /\ event.item = item
    BY <1>7, EventFields DEF IInv, OpenedInv
  <2> HIDE DEF Started
  <2>3. \A item : item \in ItemsIn("added")' <=> Started(item)
    BY <1>10, <2>2 DEF ItemsIn
  <2>4. \A item : item \in ItemsIn("done")' <=> Started(item)
    BY <1>10, <2>1 DEF ItemsIn
  <2> QED BY <1>11, <2>3, <2>4
<1> QED BY <1>1, <1>8, <1>12 DEF SeenInv

LEMMA EmitCallSeen == IInv /\ OutputInv /\ SeenInv /\ EmitCall => SeenInv'
PROOF
<1> SUFFICES ASSUME IInv, SeenInv, EmitCall PROVE SeenInv'
  OBVIOUS
<1> DEFINE index == Len(outputItems)
           call == Call(callIndex)
           adding == Event("added", call, index)
           ending == Event("done", call, index)
           events == <<adding, ending>>
<1>1. /\ phase = "calling" /\ ~LoopStops
      /\ UNCHANGED <<phase, contentBuilder, saved>> /\ saved = Unsaved
  BY DEF EmitCall, handlerVars, IInv, PhaseInv
<1>2. /\ sent \in Seq(Events) /\ gone \in BOOLEAN /\ outputItems \in Seq(Items)
      /\ index \in Nat /\ toolCalls \in SUBSET CallIndices
  BY LenProperties DEF IInv, TypeOK
<1>3. CASE callIndex \notin toolCalls
  <2>1. UNCHANGED <<clientVars, outputItems>>
    BY <1>3 DEF EmitCall
  <2> QED BY <1>1, <2>1 DEF SeenInv, ItemsIn, Sent, TextDeltas, Positions, clientVars
<1>4. CASE callIndex \in toolCalls
  <2>1. outputItems' = Append(outputItems, call) /\ WriteAll(events)
    BY <1>4 DEF EmitCall
  <2>2. call \in Items /\ call # Message /\ adding \in Events /\ ending \in Events
    BY <1>2, <1>4, ItemsDiffer, EventTypes
  <2>3. /\ adding.type = "added" /\ adding.item = call
        /\ ending.type = "done" /\ ending.item = call
    BY EventFields
  <2>4. events \in Seq(Events) /\ Len(events) = 2 /\ events[1] = adding /\ events[2] = ending
    BY <2>2
  <2>5. ToSet(outputItems') = ToSet(outputItems) \cup {call}
    BY <1>2, <2>1, <2>2, OutputElements
  <2> HIDE DEF events, adding, ending, call
  <2>6. PICK n \in 0 .. Len(events) : Write(events, n)
    BY <2>1 DEF WriteAll
  <2>7. /\ Sent \subseteq Sent'
        /\ \A event \in Sent' :
             event \in Sent \/ \E k \in 1 .. Len(events) : k <= n /\ event = events[k]
        /\ \A k \in 1 .. n : events[k] \in Sent'
        /\ ~gone' => ~gone /\ n = Len(events)
    BY <1>2, <2>4, <2>6, WriteAdds, Zenon
  <2>8. \A k \in 1 .. Len(events) : events[k] = adding \/ events[k] = ending
    BY <2>4
  <2>9. TextDeltas' = TextDeltas
    <3>1. \A k \in 1 .. n : events[k].item # Message
      BY <2>2, <2>3, <2>4, <2>6, <2>8
    <3> QED BY <1>2, <2>4, <2>6, <3>1, TextDeltasAfter
  <2>10. ASSUME ~gone'
         PROVE  /\ ItemsIn("added")' = ToSet(outputItems')
                /\ ItemsIn("done")' = ToSet(outputItems')
    <3>1. ItemsIn("added") = ToSet(outputItems) /\ ItemsIn("done") = ToSet(outputItems)
      BY <1>1, <2>7, <2>10 DEF SeenInv
    <3>2. adding \in Sent' /\ ending \in Sent'
      BY <2>4, <2>7, <2>10
    <3>3. \A event \in Sent' : event \in Sent \/ event = adding \/ event = ending
      BY <2>7, <2>8
    <3>4. /\ ItemsIn("added")' = ItemsIn("added") \cup {call}
          /\ ItemsIn("done")' = ItemsIn("done") \cup {call}
      BY <2>3, <2>7, <3>2, <3>3 DEF ItemsIn
    <3> QED BY <2>5, <3>1, <3>4
  <2> QED BY <1>1, <2>9, <2>10 DEF SeenInv
<1> QED BY <1>3, <1>4

LEMMA ShellSeen ==
  ASSUME IInv, SeenInv, NEW events \in Seq(Events), NEW n \in 0 .. Len(events), Write(events, n),
         \A k \in 1 .. Len(events) : events[k].item = Response,
         UNCHANGED <<outputItems, contentBuilder, saved>>,
         phase' \in {"calling", "completing"} => phase \in {"calling", "completing"}
  PROVE  SeenInv'
PROOF
<1>1. TypeOK /\ sent \in Seq(Events) /\ gone \in BOOLEAN
  BY DEF IInv, TypeOK
<1>2. gone => gone'
  BY <1>1, WriteAdds, Zenon
<1>3. TextDeltas' = TextDeltas /\ \A type \in {"added", "done"} : ItemsIn(type)' = ItemsIn(type)
  BY <1>1, ShellEvents
<1> QED BY <1>1, <1>2, <1>3, SeenUnchanged

LEMMA SeenStep == IInv /\ OutputInv /\ SeenInv /\ [Next]_vars => SeenInv'
PROOF
<1> SUFFICES ASSUME IInv, OutputInv, SeenInv, [Next]_vars PROVE SeenInv'
  OBVIOUS
<1>1. CASE Open
  <2> DEFINE opening == <<Event("created", Response, 0), Event("in_progress", Response, 0)>>
  <2>1. /\ opening \in Seq(Events) /\ Len(opening) = 2
        /\ opening[1] = Event("created", Response, 0)
        /\ opening[2] = Event("in_progress", Response, 0)
    BY EventTypes
  <2>2. \E n \in 0 .. Len(opening) : Write(opening, n)
    BY <1>1, <2>1 DEF Open
  <2>3. /\ UNCHANGED <<outputItems, contentBuilder, saved>>
        /\ phase' \in {"streaming", "over"}
    BY <1>1 DEF Open, handlerVars
  <2> HIDE DEF opening
  <2>4. \A k \in 1 .. Len(opening) : opening[k].item = Response
    BY <2>1, EventFields
  <2> QED BY <2>1, <2>2, <2>3, <2>4, ShellSeen
<1>2. ASSUME NEW type \in {"failed", "completed"}, WriteAll(<<Event(type, Response, 0)>>),
             UNCHANGED <<outputItems, handlerVars, saved>>, phase' = "over"
      PROVE  SeenInv'
  <2> DEFINE events == <<Event(type, Response, 0)>>
  <2>1. events \in Seq(Events) /\ Len(events) = 1 /\ events[1] = Event(type, Response, 0)
    BY EventTypes
  <2> HIDE DEF events
  <2>2. \A k \in 1 .. Len(events) : events[k].item = Response
    BY <2>1, EventFields
  <2>3. \E n \in 0 .. Len(events) : Write(events, n)
    BY <1>2 DEF WriteAll, events
  <2>4. UNCHANGED <<outputItems, contentBuilder, saved>> /\ phase' = "over"
    BY <1>2 DEF handlerVars
  <2> QED BY <2>1, <2>2, <2>3, <2>4, ShellSeen
<1>3. CASE Fail \/ Complete
  BY <1>2, <1>3 DEF Fail, Complete
<1>4. CASE Save \/ Upstream \/ Over \/ UNCHANGED vars
  <2>1. /\ UNCHANGED <<clientVars, outputItems, contentBuilder>>
        /\ UNCHANGED saved \/ saved'.text = contentBuilder
        /\ phase' \in {"calling", "completing"} \/ saved' # Unsaved =>
             phase \in {"calling", "completing"} \/ saved # Unsaved
    BY <1>4 DEF Save, Upstream, Over, vars, handlerVars
  <2>2. /\ TextDeltas' = TextDeltas /\ gone' = gone
        /\ \A type \in {"added", "done"} : ItemsIn(type)' = ItemsIn(type)
    BY <2>1 DEF TextDeltas, Positions, ItemsIn, Sent, clientVars
  <2>3. gone \in BOOLEAN
    BY DEF IInv, TypeOK
  <2> QED BY <2>1, <2>2, <2>3, SeenUnchanged
<1>5. CASE Close
  BY <1>5, CloseSeen
<1>6. CASE EmitCall
  BY <1>6, EmitCallSeen
<1>7. ASSUME NEW chunk \in Chunks, Chunk(chunk) PROVE SeenInv'
  BY <1>7, ChunkSeen
<1> QED BY <1>1, <1>3, <1>4, <1>5, <1>6, <1>7 DEF Next

LEMMA OutputAndSeen == Spec => [](OutputInv /\ SeenInv)
PROOF
<1>1. Init => OutputInv /\ SeenInv
  <2> SUFFICES ASSUME Init PROVE OutputInv /\ SeenInv
    OBVIOUS
  <2>1. /\ sent = <<>> /\ outputItems = <<>> /\ phase = "opening" /\ saved = Unsaved
        /\ contentBuilder = 0 /\ callIndex = 0
    BY DEF Init, Nobody
  <2>2. Len(sent) = 0 /\ Len(outputItems) = 0 /\ ToSet(outputItems) = {}
    BY <2>1 DEF ToSet
  <2>3. TextDeltas = {} /\ Cardinality({}) = 0
    BY <2>2, FS_EmptySet DEF TextDeltas, Positions
  <2>4. \A i \in CallIndices : ~(i < 0)
    BY ResponseStreamAssumption
  <2> QED BY <2>1, <2>2, <2>3, <2>4 DEF OutputInv, SeenInv
<1>2. IInv /\ OutputInv /\ SeenInv /\ [Next]_vars => (OutputInv /\ SeenInv)'
  BY OutputStep, SeenStep
<1> QED BY <1>1, <1>2, StreamInvariant, PTL DEF Spec

\* What is stored is what the client was sent, whatever the upstream mixes: as much
\* text, and of a client that stays every item, opened and closed.
THEOREM StoredIsSeen == Spec => []ClientSawWhatIsStored
PROOF
<1>1. IInv /\ SeenInv => ClientSawWhatIsStored
  <2> SUFFICES ASSUME IInv, SeenInv, saved # Unsaved
               PROVE  /\ saved.text = Cardinality({k \in Positions("delta") : sent[k].item = Message})
                      /\ ~gone => /\ ItemsIn("added") = ToSet(saved.output)
                                  /\ ItemsIn("done") = ToSet(saved.output)
    BY DEF ClientSawWhatIsStored
  <2>1. saved.output = outputItems
    BY DEF IInv, PlaceInv
  <2> QED BY <2>1 DEF SeenInv, TextDeltas
<1> QED BY <1>1, StreamInvariant, OutputAndSeen, PTL

\* No tool call of an upstream that numbers them without gaps is lost or doubled.
THEOREM CallsAreKept == Spec => []NoCallLost
PROOF
<1>1. IInv /\ OutputInv => NoCallLost
  <2> SUFFICES ASSUME IInv, OutputInv, saved # Unsaved,
                      toolCalls = 0 .. (Cardinality(toolCalls) - 1)
               PROVE  /\ {i \in CallIndices : Call(i) \in ToSet(saved.output)} = toolCalls
                      /\ Cardinality(ToSet(saved.output)) = Len(saved.output)
    BY DEF NoCallLost
  <2>1. /\ saved.output = outputItems /\ outputItems \in Seq(Items)
        /\ Len(outputItems) \in Nat /\ toolCalls \in SUBSET CallIndices
        /\ callIndex \in 0 .. Cardinality(toolCalls) /\ callIndex >= Cardinality(toolCalls)
    BY LenProperties DEF IInv, TypeOK, PlaceInv, OutputInv, LoopStops
  <2>2. Cardinality(toolCalls) \in Nat
    BY <2>1, CallsCounted
  <2>3. \A i \in toolCalls : i < callIndex
    BY <2>1, <2>2
  <2>4. {i \in CallIndices : Call(i) \in ToSet(outputItems)} = toolCalls
    BY <2>1, <2>3 DEF OutputInv
  <2>5. Cardinality(ToSet(outputItems)) = Len(outputItems)
    <3> DEFINE n == Len(outputItems)
    <3>1. outputItems \in [1 .. n -> ToSet(outputItems)] /\ DOMAIN outputItems = 1 .. n
      BY <2>1 DEF ToSet
    <3>2. outputItems \in Surjection(1 .. n, ToSet(outputItems))
      BY <3>1 DEF Surjection, ToSet
    <3>3. outputItems \in Injection(1 .. n, ToSet(outputItems))
      BY <3>1 DEF Injection, IsInjective, OutputInv
    <3>4. n \in Nat
      BY <2>1
    <3> HIDE DEF n
    <3>5. IsFiniteSet(1 .. n) /\ Cardinality(1 .. n) = n
      BY <3>4, FS_Interval
    <3>6. Cardinality(ToSet(outputItems)) = n
      BY <3>2, <3>3, <3>5, FS_Surjection
    <3> QED BY <3>6 DEF n
  <2> QED BY <2>1, <2>4, <2>5
<1> QED BY <1>1, StreamInvariant, OutputAndSeen, PTL

=============================================================================
