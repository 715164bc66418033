-------------------------- MODULE EndpointsProofs --------------------------
(***************************************************************************)
(* Proofs about one request to an endpoint that forwards to the upstream,  *)
(* for any number of chunks: it is answered once, a stream relays what the *)
(* upstream sent, and a completion is stored exactly if its client asked   *)
(* for that and was answered.                                              *)
(***************************************************************************)
EXTENDS Endpoints, EventStreamProofs

------------------------------------------------------------------------------
(* The inductive invariant.                                                *)

\* Until the answer, or the stream, nothing has been sent or asked of a stream.
QuietInv ==
  stage \notin {"streaming", "done"} =>
    sent = <<>> /\ ~gone /\ connection = "requesting" /\ delivered = 0

\* A stream has sent the chunks delivered, all of them unless StreamChat has failed.
OnlyChunks == \A k \in 1 .. Len(sent) : sent[k] = Chunk(k)

RelayInv ==
  stage = "streaming" =>
    /\ OnlyChunks
    /\ connection # "failed" => ~gone /\ Len(sent) = delivered

\* A completion is saved between the upstream's answer and the client's.
SaveInv ==
  /\ stage \in {"calling", "answering"} => ~Streams
  /\ stage = "answering" => (saved <=> StoresCompletion)

IInv ==
  /\ TypeOK /\ QuietInv /\ RelayInv /\ SaveInv
  /\ AnsweredOnce /\ RelayedWhole /\ SavedAsAnswered

LEMMA EventTypes ==
  /\ \A status \in Status : /\ Answered(status) \in Events
                            /\ Answered(status).type = "answer"
                            /\ Answered(status).item.call = status
  /\ \A k \in 0 .. MaxChunks : Chunk(k) \in Events /\ Chunk(k).type = "chunk"
  /\ \A type \in {"error", "done"} : End(type) \in Events /\ End(type).type = type
PROOF BY KimiStreamAssumption DEF Events, Answered, Chunk, End, Event, Item, Ends

LEMMA InitIInv == Init => IInv
PROOF
<1> SUFFICES ASSUME Init PROVE IInv
  OBVIOUS
<1>1. /\ sent = <<>> /\ gone = FALSE /\ connection = "requesting" /\ delivered = 0
      /\ stage = "routing" /\ saved = FALSE
  BY DEF Init, Nobody, StreamInit
<1>2. Len(sent) = 0 /\ Sent = {}
  BY <1>1 DEF Sent
<1>3. TypeOK
  <2>1. sent \in Seq(Events)
    BY <1>1, EmptySeq
  <2>2. StreamTypeOK
    BY <1>1, KimiStreamAssumption DEF StreamTypeOK
  <2> QED BY <1>1, <2>1, <2>2 DEF Init, TypeOK, Stages
<1>4. QuietInv /\ RelayInv /\ SaveInv
  BY <1>1 DEF QuietInv, RelayInv, SaveInv
<1>5. AnsweredOnce /\ RelayedWhole /\ SavedAsAnswered
  BY <1>1, <1>2 DEF AnsweredOnce, RelayedWhole, SavedAsAnswered, LastOf, Told, Positions
<1> QED BY <1>3, <1>4, <1>5 DEF IInv

------------------------------------------------------------------------------
(* The steps.                                                              *)

\* A plain answer to a request of which nothing has been sent.
LEMMA AnswerIInv ==
  ASSUME IInv, stage \notin {"streaming", "done"}, NEW status, status \in Status,
         Answer(status), Unread,
         endpoint = "chat" /\ store /\ status = 200 => saved
  PROVE  IInv'
PROOF
<1> DEFINE events == <<Answered(status)>>
<1>1. /\ sent = <<>> /\ sent \in Seq(Events) /\ gone \in BOOLEAN /\ Len(sent) = 0
      /\ connection = "requesting" /\ Sent = {}
  BY DEF IInv, QuietInv, TypeOK, Sent
<1>2. events \in Seq(Events) /\ Len(events) = 1 /\ events[1] = Answered(status)
  BY EventTypes
<1>3. PICK n \in 0 .. 1 : Write(events, n)
  BY <1>2 DEF Answer, WriteAll
<1>4. stage' = "done"
  BY DEF Answer
<1>5. UNCHANGED <<connection, delivered, endpoint, stream, store, saved>>
  BY DEF Unread, streamVars, requestVars
<1> HIDE DEF events
<1>6. /\ sent' \in Seq(Events) /\ gone' \in BOOLEAN /\ Len(sent') = n
      /\ \A k \in 1 .. n : sent'[k] = Answered(status)
      /\ Sent' = {Answered(status) : k \in 1 .. n}
  <2>1. /\ sent' \in Seq(Events) /\ gone' \in BOOLEAN /\ Len(sent') = n
        /\ \A k \in 1 .. n : sent'[Len(sent) + k] = events[k]
    BY <1>1, <1>2, <1>3, WriteExtends
  <2>2. \A k \in 1 .. n : sent'[k] = Answered(status)
    BY <1>1, <1>2, <2>1
  <2> QED BY <2>1, <2>2 DEF Sent
<1>7. TypeOK'
  BY <1>4, <1>5, <1>6 DEF IInv, TypeOK, StreamTypeOK, Stages
<1>8. QuietInv' /\ RelayInv' /\ SaveInv'
  BY <1>4 DEF QuietInv, RelayInv, SaveInv
<1>9. AnsweredOnce'
  BY <1>3, <1>4, <1>6 DEF AnsweredOnce, LastOf, Told
<1>10. RelayedWhole'
  BY <1>6, EventTypes DEF RelayedWhole, Positions, Told
<1>11. SavedAsAnswered'
  <2>1. Answered(200) \in Sent' => status = 200
    BY <1>6, EventTypes DEF Status
  <2>2. saved' => endpoint' = "chat" /\ store' /\ ~Streams' /\ stage' = "done"
    BY <1>4, <1>5 DEF IInv, SavedAsAnswered, Streams
  <2> QED BY <1>5, <2>1, <2>2 DEF SavedAsAnswered
<1> QED BY <1>7, <1>8, <1>9, <1>10, <1>11 DEF IInv

\* A step on the way that writes nothing and asks nothing of a stream.
LEMMA GotoIInv ==
  ASSUME IInv, stage \notin {"streaming", "done"}, NEW next, next \in Stages \ {"done"},
         Goto(next), UNCHANGED <<streamVars, endpoint>>,
         stream' \in BOOLEAN, store' \in BOOLEAN, saved' \in BOOLEAN,
         SaveInv', saved' => endpoint' = "chat" /\ store' /\ next = "answering"
  PROVE  IInv'
PROOF
<1>1. /\ sent' = <<>> /\ ~gone' /\ connection' = "requesting" /\ delivered' = 0
      /\ stage' = next
  BY DEF IInv, QuietInv, Goto, clientVars, streamVars
<1>2. Len(sent') = 0 /\ Sent' = {}
  BY <1>1 DEF Sent
<1>3. TypeOK'
  BY <1>1 DEF IInv, TypeOK, StreamTypeOK, Goto, clientVars, streamVars
<1>4. QuietInv' /\ RelayInv'
  BY <1>1, <1>2 DEF QuietInv, RelayInv, OnlyChunks
<1>5. AnsweredOnce' /\ RelayedWhole'
  BY <1>2 DEF AnsweredOnce, RelayedWhole, LastOf, Told, Positions
<1>6. SavedAsAnswered'
  BY <1>1, <1>2 DEF SavedAsAnswered, SaveInv
<1> QED BY <1>3, <1>4, <1>5, <1>6 DEF IInv

\* The steps of the router and of the handlers, up to the answer or the stream.
LEMMA HandlerIInv ==
  ASSUME IInv,
         \/ Preflight \/ Health \/ Unauthorized \/ Authorized \/ WrongMethod \/ NotFound
         \/ Report \/ Dispatch \/ Unhandled \/ BadBody \/ ReadBody \/ BadPayload \/ Prepare
         \/ UpstreamError \/ UpstreamAnswers \/ Respond
  PROVE  IInv'
PROOF
<1>1. /\ stage \in Stages /\ saved \in BOOLEAN /\ stream \in BOOLEAN /\ store \in BOOLEAN
      /\ saved => endpoint = "chat" /\ store /\ stage \in {"answering", "done"}
  BY DEF IInv, TypeOK, SavedAsAnswered
<1>2. CASE Preflight
  BY <1>2, AnswerIInv DEF Preflight, Status
<1>3. CASE Health
  BY <1>3, AnswerIInv DEF Health, Status
<1>4. CASE Unauthorized
  <2>1. PICK status \in {401, 500} : Answer(status)
    BY <1>4 DEF Unauthorized
  <2> QED BY <1>4, <2>1, AnswerIInv DEF Unauthorized, Status
<1>5. CASE WrongMethod \/ NotFound \/ Unhandled
  BY <1>5, AnswerIInv DEF WrongMethod, NotFound, Unhandled, Status
<1>15. CASE Report
  BY <1>15, AnswerIInv DEF Report, Reports, Status
<1>6. CASE BadBody
  <2>1. PICK status \in {400, 413} : Answer(status)
    BY <1>6 DEF BadBody
  <2> QED BY <1>6, <2>1, AnswerIInv DEF BadBody, Status
<1>7. CASE BadPayload
  BY <1>7, AnswerIInv DEF BadPayload, Status
<1>8. CASE UpstreamError
  <2>1. PICK status \in {400, 401, 500, 502} : Answer(status)
    BY <1>8 DEF UpstreamError
  <2> QED BY <1>8, <2>1, AnswerIInv DEF UpstreamError, Status
<1>9. CASE Respond
  <2>1. endpoint = "chat" /\ store => saved
    BY <1>9 DEF IInv, SaveInv, StoresCompletion, Respond
  <2> QED BY <1>9, <2>1, AnswerIInv DEF Respond, Status
<1>10. CASE Authorized
  <2>1. SaveInv'
    BY <1>10 DEF Authorized, Goto, SaveInv
  <2> QED BY <1>1, <1>10, <2>1, GotoIInv DEF Authorized, Unread, requestVars, Stages
<1>11. CASE Dispatch
  <2>1. PICK next \in {"unhandled", "reading"} : Goto(next)
    BY <1>11 DEF Dispatch
  <2>2. SaveInv'
    BY <2>1 DEF Goto, SaveInv
  <2> QED BY <1>1, <1>11, <2>1, <2>2, GotoIInv DEF Dispatch, Unread, requestVars, Stages
<1>12. CASE ReadBody
  <2>1. SaveInv'
    BY <1>12 DEF ReadBody, Goto, SaveInv
  <2> QED BY <1>1, <1>12, <2>1, GotoIInv DEF ReadBody, Stages
<1>13. CASE Prepare
  <2>1. PICK next \in {"unhandled", "streaming", "calling"} :
          Goto(next) /\ (next = "calling" => ~Streams)
    BY <1>13 DEF Prepare
  <2>2. SaveInv'
    BY <1>13, <2>1 DEF Prepare, Unread, requestVars, Goto, SaveInv, Streams
  <2> QED BY <1>1, <1>13, <2>1, <2>2, GotoIInv DEF Prepare, Unread, requestVars, Stages
<1>14. CASE UpstreamAnswers
  <2>1. SaveInv'
    BY <1>14 DEF IInv, UpstreamAnswers, Goto, SaveInv, Streams, StoresCompletion
  <2>2. saved' \in BOOLEAN /\ (saved' => endpoint' = "chat" /\ store')
    BY <1>1, <1>14 DEF UpstreamAnswers, StoresCompletion
  <2> QED BY <1>1, <1>14, <2>1, <2>2, GotoIInv DEF UpstreamAnswers, Stages
<1> QED BY <1>2, <1>3, <1>4, <1>5, <1>6, <1>7, <1>8, <1>9, <1>10, <1>11, <1>12, <1>13, <1>14, <1>15

------------------------------------------------------------------------------
(* The streams.                                                            *)

LEMMA UpstreamIInv == IInv /\ Upstream => IInv'
PROOF
<1> SUFFICES ASSUME IInv, Upstream PROVE IInv'
  OBVIOUS
<1>1. /\ stage = "streaming" /\ connection \in {"requesting", "reading"}
      /\ connection' \in {"reading", "ended", "failed"} /\ delivered' = delivered
  BY DEF Upstream, StreamStep, Accept, Refuse, EndOfStream, Break
<1>2. UNCHANGED <<sent, gone, endpoint, stream, store, saved, stage>>
  BY DEF Upstream, clientVars, requestVars
<1>3. TypeOK'
  BY <1>1, <1>2 DEF IInv, TypeOK, StreamTypeOK
<1>4. QuietInv' /\ RelayInv' /\ SaveInv'
  BY <1>1, <1>2 DEF IInv, QuietInv, RelayInv, SaveInv, OnlyChunks
<1>5. AnsweredOnce' /\ SavedAsAnswered'
  BY <1>1, <1>2 DEF IInv, AnsweredOnce, SavedAsAnswered, LastOf, Told, Sent, Streams
<1>6. RelayedWhole'
  <2>1. ~Told({"done"})
    BY <1>1 DEF IInv, AnsweredOnce, Told, Ends
  <2> QED BY <1>2, <2>1 DEF IInv, RelayedWhole, Positions, Told, Sent
<1> QED BY <1>3, <1>4, <1>5, <1>6 DEF IInv

LEMMA RelayIInv ==
  ASSUME IInv, NEW chunk, Relay(chunk)
  PROVE  IInv'
PROOF
<1> DEFINE events == <<Chunk(delivered + 1)>>
<1>1. PICK n \in {0, 1} : Write(events, n) /\ Deliver(n = 1)
  BY DEF Relay
<1>2. /\ stage = "streaming" /\ connection = "reading" /\ delivered < MaxChunks
      /\ delivered' = delivered + 1 /\ delivered \in Nat
      /\ connection' = IF n = 1 THEN "reading" ELSE "failed"
  BY <1>1, KimiStreamAssumption DEF Relay, Deliver, IInv, TypeOK, StreamTypeOK
<1>3. UNCHANGED <<endpoint, stream, store, saved, stage>>
  BY DEF Relay, requestVars
<1>4. delivered + 1 \in 0 .. MaxChunks
  BY <1>2, KimiStreamAssumption
<1>5. events \in Seq(Events) /\ Len(events) = 1 /\ events[1] = Chunk(delivered + 1)
  BY <1>4, EventTypes
<1>6. sent \in Seq(Events) /\ ~gone /\ Len(sent) = delivered /\ OnlyChunks
  BY <1>2 DEF IInv, TypeOK, RelayInv
<1> HIDE DEF events
<1>7. /\ sent' \in Seq(Events) /\ gone' \in BOOLEAN /\ Len(sent') = delivered + n
      /\ \A k \in 1 .. Len(sent) : sent'[k] = sent[k]
      /\ \A k \in 1 .. n : sent'[Len(sent) + k] = events[k]
      /\ n = 1 => ~gone'
  <2>1. n = 1 => ~gone'
    <3>1. n = 1 => ~(n < Len(events))
      BY <1>5
    <3>2. gone' = (gone \/ n < Len(events))
      BY <1>1, Zenon DEF Write
    <3> QED BY <1>6, <3>1, <3>2, Zenon
  <2>2. gone \in BOOLEAN /\ n \in 0 .. Len(events)
    BY <1>5 DEF IInv, TypeOK
  <2> QED BY <1>1, <1>5, <1>6, <2>1, <2>2, WriteExtends
<1>8. OnlyChunks'
  <2> SUFFICES ASSUME NEW k, k \in 1 .. Len(sent') PROVE sent'[k] = Chunk(k)
    BY DEF OnlyChunks
  <2>1. CASE k <= delivered
    BY <1>2, <1>6, <1>7, <2>1 DEF OnlyChunks
  <2>2. CASE k > delivered
    <3>1. n = 1 /\ k = delivered + 1
      BY <1>2, <1>7, <2>2
    <3> QED BY <1>5, <1>6, <1>7, <3>1
  <2> QED BY <1>2, <1>7, <2>1, <2>2
<1>9. Len(sent') \in 0 .. MaxChunks
  BY <1>1, <1>2, <1>7, KimiStreamAssumption
<1>10. \A k \in 1 .. Len(sent') : sent'[k].type = "chunk"
  <2>1. \A k \in 1 .. Len(sent') : k \in 0 .. MaxChunks
    BY <1>9, KimiStreamAssumption
  <2> QED BY <1>8, <2>1, EventTypes DEF OnlyChunks
<1>11. TypeOK'
  BY <1>1, <1>2, <1>3, <1>4, <1>7 DEF IInv, TypeOK, StreamTypeOK
<1>12. QuietInv' /\ RelayInv' /\ SaveInv'
  BY <1>1, <1>2, <1>3, <1>7, <1>8 DEF QuietInv, RelayInv, SaveInv
<1>13. AnsweredOnce' /\ RelayedWhole'
  BY <1>8, <1>10 DEF AnsweredOnce, RelayedWhole, LastOf, Told, Sent, Positions, Ends, OnlyChunks
<1>14. SavedAsAnswered'
  <2>1. Answered(200) \notin Sent'
    BY <1>10, EventTypes DEF Sent, Status
  <2> QED BY <1>2, <1>3, <2>1 DEF IInv, SavedAsAnswered
<1> QED BY <1>11, <1>12, <1>13, <1>14 DEF IInv

\* A stream ends: what comes after the chunks is at most one event, and [DONE] only
\* if StreamChat returned nil.
LEMMA EndIInv ==
  ASSUME IInv, stage = "streaming", NEW events \in Seq(Events), Len(events) <= 1,
         \A k \in 1 .. Len(events) : \E type \in {"error", "done"} :
           events[k] = End(type) /\ (type = "done" => connection = "ended"),
         WriteAll(events), stage' = "done", Unread
  PROVE  IInv'
PROOF
<1>1. PICK n \in 0 .. Len(events) : Write(events, n)
  BY DEF WriteAll
<1>2. UNCHANGED <<connection, delivered, endpoint, stream, store, saved>>
  BY DEF Unread, streamVars, requestVars
<1>3. /\ sent \in Seq(Events) /\ gone \in BOOLEAN /\ OnlyChunks
      /\ connection # "failed" => Len(sent) = delivered
      /\ Len(sent) \in Nat /\ n \in 0 .. 1
  <2>1. sent \in Seq(Events) /\ gone \in BOOLEAN /\ OnlyChunks
        /\ (connection # "failed" => Len(sent) = delivered)
    BY DEF IInv, TypeOK, RelayInv
  <2>2. Len(events) \in Nat /\ Len(sent) \in Nat
    BY <2>1, LenProperties
  <2> QED BY <2>1, <2>2
<1>4. /\ sent' \in Seq(Events) /\ gone' \in BOOLEAN /\ Len(sent') = Len(sent) + n
      /\ \A k \in 1 .. Len(sent) : sent'[k] = sent[k]
      /\ \A k \in 1 .. n : sent'[Len(sent) + k] = events[k]
  BY <1>1, <1>3, WriteExtends
<1>5. \A k \in 1 .. Len(sent) : sent[k].type = "chunk"
  <2>1. \A k \in 1 .. Len(sent) : sent[k].type \notin Ends
    BY DEF IInv, AnsweredOnce, Told, Sent
  <2>2. \A k \in 1 .. Len(sent) : sent[k] \in Events
    BY <1>3, ElementOfSeq
  <2> QED BY <2>1, <2>2 DEF Events
<1>6. ASSUME NEW k \in 1 .. Len(sent')
      PROVE  \/ k \in 1 .. Len(sent) /\ sent'[k] = Chunk(k) /\ sent'[k].type = "chunk"
             \/ /\ n = 1 /\ k = Len(sent') /\ k = Len(sent) + 1
                /\ \E type \in {"error", "done"} :
                     sent'[k] = End(type) /\ (type = "done" => connection = "ended")
  <2>1. CASE k <= Len(sent)
    <3>1. k \in 1 .. Len(sent)
      BY <1>3, <2>1
    <3> QED BY <1>3, <1>4, <1>5, <3>1 DEF OnlyChunks
  <2>2. CASE k > Len(sent)
    <3>1. n = 1 /\ k = Len(sent) + 1 /\ k = Len(sent')
      BY <1>3, <1>4, <2>2
    <3>2. 1 \in 1 .. Len(events) /\ sent'[k] = events[1]
      BY <1>1, <1>3, <1>4, <3>1, LenProperties
    <3> QED BY <3>1, <3>2
  <2> QED BY <1>3, <1>4, <2>1, <2>2
<1>7. TypeOK'
  BY <1>2, <1>4 DEF IInv, TypeOK, StreamTypeOK, Stages
<1>8. QuietInv' /\ RelayInv' /\ SaveInv'
  BY DEF QuietInv, RelayInv, SaveInv
<1>9. AnsweredOnce'
  <2>1. \A k \in 1 .. Len(sent') :
          /\ sent'[k].type \in Ends => k = Len(sent')
          /\ sent'[k].type # "answer"
    BY <1>6, EventTypes DEF Ends
  <2>2. LastOf(Ends)'
    BY <2>1 DEF LastOf, Ends
  <2>3. ~Told({"answer"})'
    BY <2>1 DEF Told, Sent
  <2> QED BY <2>2, <2>3 DEF AnsweredOnce
<1>10. RelayedWhole'
  <2>1. \A k \in Positions("chunk")' : sent'[k] = Chunk(k)
    BY <1>6, EventTypes DEF Positions
  <2>2. ASSUME Told({"done"})'
        PROVE  connection' = "ended" /\ Len(sent') = delivered' + 1
    <3>1. PICK k \in 1 .. Len(sent') : sent'[k].type = "done"
      BY <2>2 DEF Told, Sent
    <3>2. n = 1 /\ connection = "ended"
      BY <1>6, <3>1, EventTypes
    <3> QED BY <1>2, <1>3, <1>4, <3>2
  <2> QED BY <2>1, <2>2 DEF RelayedWhole, Told, Positions, Sent
<1>11. SavedAsAnswered'
  <2>1. Answered(200) \notin Sent'
    <3>1. \A k \in 1 .. Len(sent') : sent'[k].type # "answer"
      BY <1>6, EventTypes
    <3> QED BY <3>1, EventTypes DEF Sent, Status
  <2>2. ~saved
    BY DEF IInv, SavedAsAnswered
  <2> QED BY <1>2, <2>1, <2>2 DEF SavedAsAnswered
<1> QED BY <1>7, <1>8, <1>9, <1>10, <1>11 DEF IInv

------------------------------------------------------------------------------

LEMMA NextIInv == IInv /\ [Next]_vars => IInv'
PROOF
<1> SUFFICES ASSUME IInv, [Next]_vars PROVE IInv'
  OBVIOUS
<1>1. CASE \/ Preflight \/ Health \/ Unauthorized \/ Authorized \/ WrongMethod \/ NotFound
           \/ Report \/ Dispatch \/ Unhandled \/ BadBody \/ ReadBody \/ BadPayload \/ Prepare
           \/ UpstreamError \/ UpstreamAnswers \/ Respond
  BY <1>1, HandlerIInv
<1>2. CASE Upstream
  BY <1>2, UpstreamIInv
<1>3. CASE RelaySome
  BY <1>3, RelayIInv DEF RelaySome
<1>4. CASE Fail
  <2> DEFINE events == <<End("error")>>
  <2>1. events \in Seq(Events) /\ Len(events) = 1 /\ events[1] = End("error")
    BY EventTypes
  <2>2. stage = "streaming" /\ WriteAll(events) /\ stage' = "done" /\ Unread
    BY <1>4 DEF Fail
  <2> HIDE DEF events
  <2>3. \A k \in 1 .. Len(events) : \E type \in {"error", "done"} :
          events[k] = End(type) /\ (type = "done" => connection = "ended")
    BY <2>1
  <2>4. Len(events) <= 1
    BY <2>1
  <2> QED BY <2>1, <2>2, <2>3, <2>4, EndIInv
<1>5. CASE Finish
  <2> DEFINE events == IF endpoint = "gemini_stream" THEN <<>> ELSE <<End("done")>>
  <2>1. /\ events \in Seq(Events) /\ Len(events) <= 1
        /\ \A k \in 1 .. Len(events) : events[k] = End("done")
    BY EventTypes
  <2>2. /\ stage = "streaming" /\ WriteAll(events) /\ stage' = "done" /\ Unread
        /\ connection = "ended"
    BY <1>5 DEF Finish
  <2> HIDE DEF events
  <2> QED BY <2>1, <2>2, EndIInv
<1>6. CASE UNCHANGED vars
  <2>1. /\ UNCHANGED <<connection, delivered, sent, gone, endpoint, stream, store, saved,
                       stage>>
    BY <1>6 DEF vars, streamVars, clientVars, requestVars
  <2> QED BY <2>1 DEF IInv, TypeOK, StreamTypeOK, QuietInv, RelayInv, OnlyChunks, SaveInv,
                      AnsweredOnce, RelayedWhole, SavedAsAnswered, LastOf, Told, Positions,
                      Sent, Streams, StoresCompletion
<1> QED BY <1>1, <1>2, <1>3, <1>4, <1>5, <1>6 DEF Next, Handle, Proceed, Over

\* The invariant of a request that is forwarded.  (serveHTTP, the handlers and the
\* relaying streams)
THEOREM EndpointsInvariant == Spec => []IInv
PROOF
<1>1. Init => IInv
  BY InitIInv
<1>2. IInv /\ [Next]_vars => IInv'
  BY NextIInv
<1> QED BY <1>1, <1>2, PTL DEF Spec

\* The variables of a request keep their types.
THEOREM TypeCorrect == Spec => []TypeOK
PROOF
<1>1. IInv => TypeOK
  BY DEF IInv
<1> QED BY <1>1, EndpointsInvariant, PTL

\* Every path of the router and the handlers gives a client one answer: no return is
\* missing after an error, and no handler answers and leaves the router to answer too.
\* (serveHTTP, handleGeminiModels, the relaying streams)
THEOREM RequestsAnsweredOnce == Spec => []AnsweredOnce
PROOF
<1>1. IInv => AnsweredOnce
  BY DEF IInv
<1> QED BY <1>1, EndpointsInvariant, PTL

\* However many chunks the upstream sends and wherever it or the client breaks off, a
\* client gets them in order and [DONE] only after all of them.  (the callbacks of
\* streamKimiChatCompletion, streamChatCompletion, streamGeminiContent)
THEOREM StreamsRelayWhole == Spec => []RelayedWhole
PROOF
<1>1. IInv => RelayedWhole
  BY DEF IInv
<1> QED BY <1>1, EndpointsInvariant, PTL

\* A completion is stored exactly if its client asked for it and the upstream gave
\* it, before the client is answered.  (handleChatCompletions)
THEOREM CompletionsSavedAsAnswered == Spec => []SavedAsAnswered
PROOF
<1>1. IInv => SavedAsAnswered
  BY DEF IInv
<1> QED BY <1>1, EndpointsInvariant, PTL

------------------------------------------------------------------------------
(* The Gemini stream against the answer that is not streamed.              *)

CallPiece == [id : Nat, args : Seq({"open", "close"}), pieces : Nat \ {0}]

\* What the upstream has sent is an answer; the chunk that finished it is one of them.
WholeInv ==
  /\ whole.message.calls \in Seq(CallPiece)
  /\ whole.message.reasoning \in Seq(Words) /\ whole.message.text \in Seq(Words)
  /\ whole.finishedBy \in 0 .. delivered
  /\ whole.finishedBy = 0 => whole.finish = ""

\* A client that has every response has the texts, and the calls as long as each came in
\* one chunk; from then on it has more calls than there are.
Heard ==
  /\ got.content.thought = whole.message.reasoning
  /\ got.content.text = whole.message.text
  /\ got.content.calls \in Seq({FunctionCall(call) : call \in CallPiece})
  /\ CallsAreWhole => got.content.calls = ContentFromMessage(whole.message).calls
  /\ ~CallsAreWhole => Len(got.content.calls) > Len(whole.message.calls)
  /\ delivered > 0 =>
       got.finishReason =
         IF whole.finishedBy = delivered THEN FinishReason(whole.finish) ELSE "STOP"

HeardInv == endpoint = "gemini_stream" /\ connection # "failed" => Heard

LEMMA InitAnswer == Init => WholeInv /\ HeardInv
PROOF
<1> SUFFICES ASSUME Init PROVE WholeInv /\ HeardInv
  OBVIOUS
<1>1. /\ whole.message.calls = <<>> /\ whole.message.reasoning = <<>>
      /\ whole.message.text = <<>>
  BY DEF Init, Unsent, Nothing
<1>2. whole.finishedBy = 0 /\ whole.finish = "" /\ delivered = 0
  BY DEF Init, StreamInit, Unsent
<1>3. <<>> \in Seq(CallPiece) /\ <<>> \in Seq(Words) /\ Len(<<>>) = 0
  BY EmptySeq
<1>4. Len(whole.message.calls) = 0
  BY <1>1, <1>3, Zenon
<1>5. WholeInv
  <2>1. /\ whole.message.calls \in Seq(CallPiece) /\ whole.message.reasoning \in Seq(Words)
        /\ whole.message.text \in Seq(Words)
    BY <1>1, <1>3, Zenon
  <2>2. whole.finishedBy \in 0 .. delivered
    <3>1. 0 \in 0 .. 0
      OBVIOUS
    <3> QED BY <1>2, <3>1, Zenon
  <2> QED BY <1>2, <2>1, <2>2, Zenon DEF WholeInv
<1>6. CallsAreWhole
  BY <1>4 DEF CallsAreWhole
<1>7. got.content = ContentFromMessage(Nothing)
  BY DEF Init, Unheard
<1>8. /\ got.content.thought = <<>> /\ got.content.text = <<>>
      /\ got.content.calls = <<>>
  BY <1>3, <1>7 DEF ContentFromMessage, Nothing
<1>9. ContentFromMessage(whole.message).calls = <<>>
  BY <1>4 DEF ContentFromMessage
<1>10. got.content.calls \in Seq({FunctionCall(call) : call \in CallPiece})
  BY <1>8, EmptySeq
<1>11. Heard
  <2>1. /\ got.content.thought = whole.message.reasoning
        /\ got.content.text = whole.message.text
        /\ got.content.calls = ContentFromMessage(whole.message).calls
    BY <1>1, <1>8, <1>9, Zenon
  <2>2. ~(delivered > 0)
    <3>1. ~(0 > 0)
      OBVIOUS
    <3> QED BY <1>2, <3>1, Zenon
  <2> QED BY <1>6, <1>10, <2>1, <2>2, Zenon DEF Heard
<1> QED BY <1>5, <1>11 DEF HeardInv

LEMMA MergeToolCallType ==
  ASSUME NEW call \in CallPiece, NEW piece \in CallPiece
  PROVE  /\ MergeToolCall(call, piece) \in CallPiece
         /\ MergeToolCall(call, piece).pieces # 1
PROOF
<1>1. call.args \o piece.args \in Seq({"open", "close"})
  BY ConcatProperties DEF CallPiece
<1>2. /\ call.id \in Nat /\ piece.id \in Nat
      /\ call.pieces \in Nat \ {0} /\ piece.pieces \in Nat \ {0}
  BY DEF CallPiece
<1>3. call.pieces + piece.pieces \in Nat \ {0} /\ call.pieces + piece.pieces # 1
  BY <1>2
<1> QED BY <1>1, <1>2, <1>3 DEF MergeToolCall, CallPiece

\* Pieces that go on with calls are joined to them, the others follow.
Joins(merged, calls, pieces, first) ==
  LET last == first + Len(pieces)
  IN  /\ Len(merged) = IF last > Len(calls) THEN last ELSE Len(calls)
      /\ \A k \in 1 .. Len(merged) :
           merged[k] = IF k \notin (first + 1) .. last THEN calls[k]
                       ELSE IF k > Len(calls) THEN pieces[k - first]
                       ELSE MergeToolCall(calls[k], pieces[k - first])

LEMMA MergeCallsJoins ==
  ASSUME NEW calls \in Seq(CallPiece), NEW delta,
         delta.calls \in Seq(CallPiece), delta.first \in 0 .. Len(calls)
  PROVE  /\ MergeCalls(calls, delta) \in Seq(CallPiece)
         /\ Joins(MergeCalls(calls, delta), calls, delta.calls, delta.first)
PROOF
<1> DEFINE merged == MergeCalls(calls, delta)
           last == delta.first + Len(delta.calls)
           size == IF last > Len(calls) THEN last ELSE Len(calls)
           Entry(k) == IF k \notin (delta.first + 1) .. last THEN calls[k]
                       ELSE IF k > Len(calls) THEN delta.calls[k - delta.first]
                       ELSE MergeToolCall(calls[k], delta.calls[k - delta.first])
<1>1. Len(calls) \in Nat /\ Len(delta.calls) \in Nat /\ last \in Nat /\ size \in Nat
  BY LenProperties
<1>2. merged = [k \in 1 .. size |-> Entry(k)]
  BY DEF MergeCalls
<1>3. ASSUME NEW k \in 1 .. size PROVE Entry(k) \in CallPiece
  <2>1. CASE k \notin (delta.first + 1) .. last
    <3>1. k \in 1 .. Len(calls)
      BY <1>1, <2>1
    <3> QED BY <2>1, <3>1, ElementOfSeq
  <2>2. CASE k \in (delta.first + 1) .. last
    <3>1. k - delta.first \in 1 .. Len(delta.calls)
      BY <1>1, <2>2
    <3>2. delta.calls[k - delta.first] \in CallPiece
      BY <3>1, ElementOfSeq
    <3>3. CASE k <= Len(calls)
      <4>1. calls[k] \in CallPiece
        BY <1>1, <3>3, ElementOfSeq
      <4>2. MergeToolCall(calls[k], delta.calls[k - delta.first]) \in CallPiece
        BY <3>2, <4>1, MergeToolCallType
      <4> QED BY <2>2, <3>3, <4>2, <1>1
    <3> QED BY <1>1, <2>2, <3>2, <3>3
  <2> QED BY <2>1, <2>2
<1> HIDE DEF Entry, size, merged
<1>4. merged \in Seq(CallPiece) /\ Len(merged) = size
  BY <1>1, <1>2, <1>3, IsASeq
<1>5. \A k \in 1 .. Len(merged) : merged[k] = Entry(k)
  BY <1>1, <1>2, <1>4
<1> QED BY <1>4, <1>5 DEF Entry, size, merged, Joins


LEMMA ChunkTypes ==
  ASSUME NEW chunk \in Chunks, chunk.choices, WholeInv
  PROVE  /\ chunk.delta.reasoning \in Seq(Words) /\ chunk.delta.text \in Seq(Words)
         /\ chunk.delta.calls \in Seq(CallPiece)
         /\ \A k \in 1 .. Len(chunk.delta.calls) : chunk.delta.calls[k].pieces = 1
         /\ chunk.delta.first \in 0 .. Len(whole.message.calls)
PROOF
<1>1. chunk \in ChoiceChunks /\ chunk.delta.first <= Len(whole.message.calls)
  <2>1. UsageChunk.choices = FALSE
    BY DEF UsageChunk
  <2>2. chunk # UsageChunk
    BY <2>1
  <2> QED BY <2>2, Zenon DEF Chunks
<1>2. chunk.delta \in Deltas
  BY <1>1 DEF ChoiceChunks
<1>3. /\ chunk.delta.reasoning \in Fragments /\ chunk.delta.text \in Fragments
      /\ chunk.delta.first \in 0 .. MaxCalls
      /\ chunk.delta.calls \in UNION {[1 .. n -> CallPieces] : n \in 0 .. MaxPieces}
  BY <1>2 DEF Deltas
<1>4. ASSUME NEW fragment \in Fragments PROVE fragment \in Seq(Words)
  <2>1. <<>> \in Seq(Words)
    BY EmptySeq
  <2>2. \A word \in Words : <<word>> \in Seq(Words)
    OBVIOUS
  <2> QED BY <2>1, <2>2, Zenon DEF Fragments
<1>5. ASSUME NEW piece \in CallPieces PROVE piece \in CallPiece /\ piece.pieces = 1
  <2> DEFINE S == {"open", "close"}
  <2>1. ASSUME NEW id \in Nat, NEW args \in Seq(S)
        PROVE  Piece(id, args) \in CallPiece /\ Piece(id, args).pieces = 1
    <3>1. 1 \in Nat \ {0}
      OBVIOUS
    <3> QED BY <2>1, <3>1 DEF Piece, CallPiece
  <2>2. <<"open">> \in Seq(S) /\ <<"close">> \in Seq(S) /\ <<"open", "close">> \in Seq(S)
    <3>1. "open" \in S /\ "close" \in S
      OBVIOUS
    <3> HIDE DEF S
    <3>2. \A x \in S : <<x>> \in Seq(S)
      OBVIOUS
    <3>3. \A x, y \in S : <<x, y>> \in Seq(S)
      OBVIOUS
    <3> QED BY <3>1, <3>2, <3>3, Zenon
  <2> HIDE DEF S
  <2>3. CASE \E id \in CallIds : \E args \in {<<"open">>, <<"open", "close">>} : piece = Piece(id, args)
    <3>1. PICK id \in CallIds, args \in {<<"open">>, <<"open", "close">>} : piece = Piece(id, args)
      BY <2>3
    <3>2. id \in Nat
      BY EndpointsAssumption
    <3>3. args \in Seq(S)
      BY <2>2, Zenon
    <3> QED BY <2>1, <3>1, <3>2, <3>3, Zenon
  <2>4. CASE piece = Piece(0, <<"close">>)
    <3>1. 0 \in Nat
      OBVIOUS
    <3> QED BY <2>1, <2>2, <2>4, <3>1, Zenon
  <2> QED BY <2>3, <2>4 DEF CallPieces
<1>6. PICK n \in 0 .. MaxPieces : chunk.delta.calls \in [1 .. n -> CallPieces]
  BY <1>3
<1>7. n \in Nat
  BY EndpointsAssumption
<1>8. chunk.delta.calls \in [1 .. n -> CallPiece]
  BY <1>5, <1>6
<1>9. chunk.delta.calls \in Seq(CallPiece) /\ Len(chunk.delta.calls) = n
  BY <1>7, <1>8
<1>10. \A k \in 1 .. n : chunk.delta.calls[k].pieces = 1
  BY <1>5, <1>6
<1>11. chunk.delta.first \in 0 .. Len(whole.message.calls)
  <2>1. Len(whole.message.calls) \in Nat
    BY LenProperties DEF WholeInv
  <2> QED BY <1>1, <1>3, <2>1, EndpointsAssumption
<1> QED BY <1>3, <1>4, <1>9, <1>10, <1>11

Whole(list) == \A k \in 1 .. Len(list) : list[k].pieces = 1

\* All calls are whole only if the chunk's are all new; they are then those before and
\* those of the chunk.
LEMMA JoinedCalls ==
  ASSUME NEW calls \in Seq(CallPiece), NEW pieces \in Seq(CallPiece),
         NEW merged \in Seq(CallPiece), NEW first \in 0 .. Len(calls),
         Joins(merged, calls, pieces, first),
         \A k \in 1 .. Len(pieces) : pieces[k].pieces = 1
  PROVE  /\ Whole(merged) => Whole(calls) /\ merged = calls \o pieces
         /\ Whole(calls) /\ ~Whole(merged) => Len(merged) < Len(calls) + Len(pieces)
         /\ Len(merged) <= Len(calls) + Len(pieces)
PROOF
<1> USE DEF Whole
<1> DEFINE last == first + Len(pieces)
<1>1. /\ Len(merged) = IF last > Len(calls) THEN last ELSE Len(calls)
      /\ \A k \in 1 .. Len(merged) :
           merged[k] = IF k \notin (first + 1) .. last THEN calls[k]
                       ELSE IF k > Len(calls) THEN pieces[k - first]
                       ELSE MergeToolCall(calls[k], pieces[k - first])
  BY DEF Joins
<1>2. /\ Len(calls) \in Nat /\ Len(pieces) \in Nat /\ Len(merged) \in Nat
      /\ first \in Nat /\ first <= Len(calls) /\ last \in Nat
  BY LenProperties
<1>3. Len(merged) <= Len(calls) + Len(pieces)
  BY <1>1, <1>2
\* A call that goes on.
<1>4. ASSUME NEW k \in 1 .. Len(calls), k \in (first + 1) .. last
      PROVE  k \in 1 .. Len(merged) /\ merged[k].pieces # 1
  <2>1. k \in 1 .. Len(merged) /\ k - first \in 1 .. Len(pieces)
    BY <1>1, <1>2, <1>4
  <2>2. calls[k] \in CallPiece /\ pieces[k - first] \in CallPiece
    BY <2>1, ElementOfSeq
  <2>3. merged[k] = MergeToolCall(calls[k], pieces[k - first])
    BY <1>1, <1>2, <1>4, <2>1
  <2> QED BY <2>1, <2>2, <2>3, MergeToolCallType
\* The others.
<1>5. ASSUME NEW k \in 1 .. Len(calls), k \notin (first + 1) .. last
      PROVE  k \in 1 .. Len(merged) /\ merged[k] = calls[k]
  BY <1>1, <1>2, <1>5
<1>6. ASSUME NEW k \in 1 .. Len(merged), k > Len(calls)
      PROVE  /\ k \in (first + 1) .. last /\ k - first \in 1 .. Len(pieces)
             /\ merged[k] = pieces[k - first]
  BY <1>1, <1>2, <1>6
<1>7. ASSUME Whole(merged) PROVE Whole(calls) /\ merged = calls \o pieces
  <2>1. \A k \in 1 .. Len(calls) : k \notin (first + 1) .. last
    BY <1>4, <1>7
  <2>2. Whole(calls)
    BY <1>5, <1>7, <2>1
  <2>3. Len(pieces) = 0 \/ first = Len(calls)
    <3>1. CASE Len(pieces) > 0 /\ first < Len(calls)
      <4>1. /\ first + 1 \in 1 .. Len(calls)
            /\ first + 1 \in (first + 1) .. last
        BY <1>1, <1>2, <3>1
      <4> QED BY <2>1, <4>1
    <3> QED BY <1>1, <1>2, <3>1
  <2>4. Len(merged) = Len(calls) + Len(pieces)
    <3>1. CASE Len(pieces) = 0
      <4>1. ~(last > Len(calls))
        BY <1>1, <1>2, <3>1
      <4> QED BY <1>1, <1>2, <3>1, <4>1
    <3>2. CASE first = Len(calls)
      BY <1>1, <1>2, <3>2
    <3> QED BY <2>3, <3>1, <3>2
  <2>5. /\ calls \o pieces \in Seq(CallPiece)
        /\ Len(calls \o pieces) = Len(calls) + Len(pieces)
        /\ \A k \in 1 .. Len(calls) + Len(pieces) :
             (calls \o pieces)[k] =
               IF k <= Len(calls) THEN calls[k] ELSE pieces[k - Len(calls)]
    BY ConcatProperties
  <2>6. \A k \in 1 .. Len(merged) : merged[k] = (calls \o pieces)[k]
    <3> SUFFICES ASSUME NEW k \in 1 .. Len(merged)
                 PROVE  merged[k] = (calls \o pieces)[k]
      OBVIOUS
    <3>1. CASE k <= Len(calls)
      <4>1. k \in 1 .. Len(calls)
        BY <1>1, <1>2, <3>1
      <4>2. merged[k] = calls[k]
        BY <1>5, <2>1, <4>1
      <4> QED BY <2>4, <2>5, <3>1, <4>2
    <3>2. CASE k > Len(calls)
      <4>1. merged[k] = pieces[k - first]
        BY <1>6, <3>2
      <4>2. first = Len(calls)
        BY <1>1, <1>2, <2>3, <2>4, <3>2
      <4> QED BY <1>1, <1>2, <2>4, <2>5, <3>2, <4>1, <4>2
    <3> QED BY <1>1, <1>2, <3>1, <3>2
  <2>7. merged = calls \o pieces
    <3>1. merged \in Seq(CallPiece) /\ Len(merged) = Len(calls \o pieces)
      BY <1>1, <1>2, <2>4, <2>5
    <3> QED BY <2>5, <2>6, <3>1, SeqEqual
  <2> QED BY <2>2, <2>7
<1>8. ASSUME Whole(calls), ~Whole(merged) PROVE Len(merged) < Len(calls) + Len(pieces)
  <2>1. PICK k \in 1 .. Len(merged) : merged[k].pieces # 1
    BY <1>8
  <2>2. k \in 1 .. Len(calls)
    <3>1. CASE k > Len(calls)
      <4>1. k - first \in 1 .. Len(pieces) /\ merged[k] = pieces[k - first]
        BY <1>6, <3>1
      <4>2. pieces[k - first].pieces = 1
        BY <4>1
      <4> QED BY <2>1, <4>1, <4>2
    <3> QED BY <1>1, <1>2, <3>1
  <2>3. k \in (first + 1) .. last
    BY <1>5, <1>8, <2>1, <2>2
  <2> QED BY <1>1, <1>2, <2>2, <2>3
<1> QED BY <1>3, <1>7, <1>8

LEMMA MergeCallsWhole ==
  ASSUME NEW calls \in Seq(CallPiece), NEW delta,
         delta.calls \in Seq(CallPiece), delta.first \in 0 .. Len(calls),
         \A k \in 1 .. Len(delta.calls) : delta.calls[k].pieces = 1
  PROVE  LET merged == MergeCalls(calls, delta)
         IN  /\ Whole(merged) => Whole(calls) /\ merged = calls \o delta.calls
             /\ Whole(calls) /\ ~Whole(merged) =>
                  Len(merged) < Len(calls) + Len(delta.calls)
             /\ Len(merged) <= Len(calls) + Len(delta.calls)
PROOF
<1>1. PICK pieces \in Seq(CallPiece) : pieces = delta.calls
  OBVIOUS
<1>2. PICK first \in 0 .. Len(calls) : first = delta.first
  OBVIOUS
<1>3. PICK merged : merged = MergeCalls(calls, delta)
  OBVIOUS
<1>4. merged \in Seq(CallPiece) /\ Joins(merged, calls, pieces, first)
  BY <1>1, <1>2, <1>3, MergeCallsJoins, Zenon
<1>5. \A k \in 1 .. Len(pieces) : pieces[k].pieces = 1
  BY <1>1
<1>6. /\ Whole(merged) => Whole(calls) /\ merged = calls \o pieces
      /\ Whole(calls) /\ ~Whole(merged) => Len(merged) < Len(calls) + Len(pieces)
      /\ Len(merged) <= Len(calls) + Len(pieces)
  BY <1>4, <1>5, JoinedCalls
<1> QED BY <1>1, <1>3, <1>6, Zenon

Parts == {FunctionCall(call) : call \in CallPiece}
CallParts(calls) == [k \in 1 .. Len(calls) |-> FunctionCall(calls[k])]

LEMMA CallPartsOf ==
  ASSUME NEW calls \in Seq(CallPiece)
  PROVE  CallParts(calls) \in Seq(Parts) /\ Len(CallParts(calls)) = Len(calls)
PROOF
<1>1. Len(calls) \in Nat
  BY LenProperties
<1>2. \A k \in 1 .. Len(calls) : FunctionCall(calls[k]) \in Parts
  BY ElementOfSeq DEF Parts
<1> HIDE DEF Parts
<1> QED BY <1>1, <1>2 DEF CallParts

LEMMA CallPartsConcat ==
  ASSUME NEW calls \in Seq(CallPiece), NEW more \in Seq(CallPiece)
  PROVE  CallParts(calls \o more) = CallParts(calls) \o CallParts(more)
PROOF
<1> DEFINE both == calls \o more
           parts == CallParts(calls) \o CallParts(more)
<1>1. /\ both \in Seq(CallPiece) /\ Len(both) = Len(calls) + Len(more)
      /\ \A k \in 1 .. Len(calls) + Len(more) :
           both[k] = IF k <= Len(calls) THEN calls[k] ELSE more[k - Len(calls)]
  BY ConcatProperties
<1>2. /\ CallParts(calls) \in Seq(Parts) /\ CallParts(more) \in Seq(Parts)
      /\ Len(CallParts(calls)) = Len(calls) /\ Len(CallParts(more)) = Len(more)
  BY CallPartsOf
<1>3. /\ parts \in Seq(Parts) /\ Len(parts) = Len(calls) + Len(more)
      /\ \A k \in 1 .. Len(calls) + Len(more) :
           parts[k] = IF k <= Len(calls) THEN CallParts(calls)[k]
                      ELSE CallParts(more)[k - Len(calls)]
  <2>1. PICK first \in Seq(Parts) : first = CallParts(calls)
    BY <1>2
  <2>2. PICK second \in Seq(Parts) : second = CallParts(more)
    BY <1>2
  <2>3. /\ first \o second \in Seq(Parts)
        /\ Len(first \o second) = Len(first) + Len(second)
        /\ \A k \in 1 .. Len(first) + Len(second) :
             (first \o second)[k] =
               IF k <= Len(first) THEN first[k] ELSE second[k - Len(first)]
    BY ConcatProperties
  <2>4. Len(first) = Len(calls) /\ Len(second) = Len(more)
    BY <1>2, <2>1, <2>2
  <2> QED BY <2>1, <2>2, <2>3, <2>4, Zenon
<1>4. CallParts(both) \in Seq(Parts) /\ Len(CallParts(both)) = Len(both)
  BY <1>1, CallPartsOf
<1>5. Len(calls) \in Nat /\ Len(more) \in Nat
  BY LenProperties
<1> HIDE DEF both, parts
<1>6. \A k \in 1 .. Len(parts) : CallParts(both)[k] = parts[k]
  <2> SUFFICES ASSUME NEW k \in 1 .. Len(parts) PROVE CallParts(both)[k] = parts[k]
    OBVIOUS
  <2>1. CallParts(both)[k] = FunctionCall(both[k])
    BY <1>1, <1>3 DEF CallParts
  <2>2. CASE k <= Len(calls)
    <3>1. k \in 1 .. Len(calls)
      BY <1>3, <1>5, <2>2
    <3>2. CallParts(calls)[k] = FunctionCall(calls[k])
      BY <3>1 DEF CallParts
    <3> QED BY <1>1, <1>3, <2>1, <2>2, <3>2
  <2>3. CASE ~(k <= Len(calls))
    <3>1. k - Len(calls) \in 1 .. Len(more)
      BY <1>3, <1>5, <2>3
    <3>2. CallParts(more)[k - Len(calls)] = FunctionCall(more[k - Len(calls)])
      BY <3>1 DEF CallParts
    <3> QED BY <1>1, <1>3, <2>1, <2>3, <3>2
  <2> QED BY <2>2, <2>3
<1>7. CallParts(both) = parts
  BY <1>1, <1>3, <1>4, <1>6, SeqEqual
<1> QED BY <1>7 DEF both, parts

\* What a client that gets a chunk makes of it.
LEMMA GatherHeard ==
  ASSUME WholeInv, Heard, NEW chunk \in Chunks, delivered \in Nat,
         whole' = Merge(whole, chunk, delivered + 1),
         got' = Gather(got, StreamChunkFromKimi(chunk)),
         delivered' = delivered + 1
  PROVE  WholeInv' /\ Heard'
PROOF
<1> DEFINE calls == whole.message.calls
<1>1. /\ calls \in Seq(CallPiece) /\ whole.finishedBy \in 0 .. delivered
      /\ whole.message.reasoning \in Seq(Words) /\ whole.message.text \in Seq(Words)
  BY DEF WholeInv
<1>2. CallsAreWhole <=> Whole(calls)
  BY DEF CallsAreWhole, Whole
<1>3. /\ got.content.thought = whole.message.reasoning
      /\ got.content.text = whole.message.text
      /\ got.content.calls \in Seq(Parts)
      /\ Whole(calls) => got.content.calls = CallParts(calls)
      /\ ~Whole(calls) => Len(got.content.calls) > Len(calls)
  BY <1>2, Zenon DEF Heard, ContentFromMessage, CallParts, Parts
<1>4. CASE ~chunk.choices
  <2>1. whole' = whole
    BY <1>4 DEF Merge
  <2>2. StreamChunkFromKimi(chunk) =
          [content |-> ContentFromMessage(Nothing), finishReason |-> "STOP"]
    BY <1>4 DEF StreamChunkFromKimi, ResponseFromKimi
  <2>3. /\ ContentFromMessage(Nothing).thought = <<>>
        /\ ContentFromMessage(Nothing).text = <<>>
        /\ ContentFromMessage(Nothing).calls = <<>>
    BY EmptySeq DEF ContentFromMessage, Nothing
  <2>4. /\ got'.content.thought = got.content.thought \o <<>>
        /\ got'.content.text = got.content.text \o <<>>
        /\ got'.content.calls = got.content.calls \o <<>>
        /\ got'.finishReason = "STOP"
    <3>1. PICK content : content = ContentFromMessage(Nothing)
      OBVIOUS
    <3>2. got' = Gather(got, [content |-> content, finishReason |-> "STOP"])
      BY <2>2, <3>1, Zenon
    <3>3. /\ content.thought = <<>> /\ content.text = <<>> /\ content.calls = <<>>
      BY <2>3, <3>1, Zenon
    <3>4. got' = [content |-> [thought |-> got.content.thought \o content.thought,
                              text |-> got.content.text \o content.text,
                              calls |-> got.content.calls \o content.calls],
                  finishReason |-> "STOP"]
      BY <3>2 DEF Gather
    <3> QED BY <3>3, <3>4
  <2>5. /\ got'.content.thought = got.content.thought
        /\ got'.content.text = got.content.text
        /\ got'.content.calls = got.content.calls
    BY <1>1, <1>3, <2>4, ConcatEmptySeq
  <2>6. whole'.finishedBy \in 0 .. delivered' /\ whole'.finishedBy # delivered'
    BY <1>1, <2>1
  <2>7. WholeInv'
    BY <2>1, <2>6 DEF WholeInv
  <2>8. CallsAreWhole' <=> CallsAreWhole
    BY <2>1 DEF CallsAreWhole
  <2> QED BY <2>1, <2>4, <2>5, <2>6, <2>7, <2>8, Zenon DEF Heard
<1>5. CASE chunk.choices
  <2> DEFINE delta == chunk.delta
             merged == MergeCalls(calls, delta)
  <2>1. /\ delta.reasoning \in Seq(Words) /\ delta.text \in Seq(Words)
        /\ delta.calls \in Seq(CallPiece)
        /\ \A k \in 1 .. Len(delta.calls) : delta.calls[k].pieces = 1
        /\ delta.first \in 0 .. Len(calls)
    BY <1>5, ChunkTypes
  <2>2. /\ whole'.message.reasoning = whole.message.reasoning \o delta.reasoning
        /\ whole'.message.text = whole.message.text \o delta.text
        /\ whole'.message.calls = merged
        /\ whole'.finish = IF chunk.finish = "" THEN whole.finish ELSE chunk.finish
        /\ whole'.finishedBy = IF chunk.finish = "" THEN whole.finishedBy ELSE delivered + 1
    BY <1>5 DEF Merge
  <2>3. StreamChunkFromKimi(chunk) = [content |-> ContentFromMessage(delta),
                                      finishReason |-> FinishReason(chunk.finish)]
    BY <1>5 DEF StreamChunkFromKimi, ResponseFromKimi
  <2>4. /\ got'.content.thought = got.content.thought \o delta.reasoning
        /\ got'.content.text = got.content.text \o delta.text
        /\ got'.content.calls = got.content.calls \o CallParts(delta.calls)
        /\ got'.finishReason = FinishReason(chunk.finish)
    <3>1. PICK content : content = ContentFromMessage(delta)
      OBVIOUS
    <3>2. PICK reason : reason = FinishReason(chunk.finish)
      OBVIOUS
    <3>3. got' = Gather(got, [content |-> content, finishReason |-> reason])
      BY <2>3, <3>1, <3>2, Zenon
    <3>4. /\ content.thought = delta.reasoning /\ content.text = delta.text
          /\ content.calls = CallParts(delta.calls)
      BY <3>1 DEF ContentFromMessage, CallParts
    <3>5. got' = [content |-> [thought |-> got.content.thought \o content.thought,
                              text |-> got.content.text \o content.text,
                              calls |-> got.content.calls \o content.calls],
                  finishReason |-> reason]
      BY <3>3 DEF Gather
    <3>6. /\ got'.content.thought = got.content.thought \o content.thought
          /\ got'.content.text = got.content.text \o content.text
          /\ got'.content.calls = got.content.calls \o content.calls
          /\ got'.finishReason = reason
      <4>1. PICK parts : parts = [thought |-> got.content.thought \o content.thought,
                                  text |-> got.content.text \o content.text,
                                  calls |-> got.content.calls \o content.calls]
        OBVIOUS
      <4>2. got'.content = parts /\ got'.finishReason = reason
        BY <3>5, <4>1
      <4>3. /\ parts.thought = got.content.thought \o content.thought
            /\ parts.text = got.content.text \o content.text
            /\ parts.calls = got.content.calls \o content.calls
        BY <4>1
      <4> QED BY <4>2, <4>3, Zenon
    <3> QED BY <3>2, <3>4, <3>6, Zenon
  <2>5. merged \in Seq(CallPiece)
    BY <1>1, <2>1, MergeCallsJoins
  <2>6. /\ Whole(merged) => Whole(calls) /\ merged = calls \o delta.calls
        /\ Whole(calls) /\ ~Whole(merged) => Len(merged) < Len(calls) + Len(delta.calls)
        /\ Len(merged) <= Len(calls) + Len(delta.calls)
    BY <1>1, <2>1, MergeCallsWhole
  <2>7. /\ CallParts(delta.calls) \in Seq(Parts)
        /\ Len(CallParts(delta.calls)) = Len(delta.calls)
    BY <2>1, CallPartsOf
  <2> HIDE DEF calls, merged, delta
  <2>8. /\ got'.content.calls \in Seq(Parts)
        /\ Len(got'.content.calls) = Len(got.content.calls) + Len(delta.calls)
    <3>1. PICK before \in Seq(Parts) : before = got.content.calls
      BY <1>3
    <3>2. PICK new \in Seq(Parts) : new = CallParts(delta.calls)
      BY <2>7
    <3>3. before \o new \in Seq(Parts) /\ Len(before \o new) = Len(before) + Len(new)
      BY ConcatProperties
    <3>4. got'.content.calls = before \o new /\ Len(new) = Len(delta.calls)
      BY <2>4, <2>7, <3>1, <3>2, Zenon
    <3> QED BY <3>1, <3>3, <3>4, Zenon
  <2>9. Whole(merged) => got'.content.calls = CallParts(merged)
    BY <1>1, <1>3, <2>1, <2>4, <2>6, CallPartsConcat
  <2>10. ~Whole(merged) => Len(got'.content.calls) > Len(merged)
    <3>1. Len(merged) \in Nat /\ Len(calls) \in Nat /\ Len(delta.calls) \in Nat
      BY <1>1, <2>1, <2>5, LenProperties
    <3>2. CASE Whole(calls)
      <4>1. Len(got.content.calls) = Len(calls)
        BY <1>1, <1>3, <3>2, CallPartsOf
      <4> QED BY <2>6, <2>8, <3>1, <3>2, <4>1
    <3>3. CASE ~Whole(calls)
      <4>1. Len(got.content.calls) \in Nat
        BY <1>3, LenProperties
      <4>2. Len(got.content.calls) > Len(calls)
        BY <1>3, <3>3
      <4>3. Len(merged) <= Len(calls) + Len(delta.calls)
        BY <2>6
      <4>4. \A a, b, c, d, e \in Nat : a = b + c /\ b > d /\ e <= d + c => a > e
        OBVIOUS
      <4>5. Len(got'.content.calls) \in Nat
        BY <2>8, LenProperties
      <4> QED BY <2>8, <3>1, <4>1, <4>2, <4>3, <4>4, <4>5, Zenon
    <3> QED BY <3>2, <3>3
  <2>11. CallsAreWhole' <=> Whole(merged)
    BY <2>2 DEF CallsAreWhole, Whole
  <2>12. /\ whole'.finishedBy \in 0 .. delivered'
         /\ whole'.finishedBy = 0 => whole'.finish = ""
         /\ chunk.finish = "" => whole'.finishedBy # delivered'
         /\ chunk.finish # "" => whole'.finishedBy = delivered'
    <3>1. delivered + 1 \in 0 .. delivered' /\ delivered + 1 # 0
      OBVIOUS
    <3>2. whole.finishedBy \in 0 .. delivered' /\ whole.finishedBy # delivered'
      BY <1>1
    <3>3. CASE chunk.finish = ""
      <4>1. whole'.finishedBy = whole.finishedBy /\ whole'.finish = whole.finish
        BY <2>2, <3>3, Zenon
      <4> QED BY <3>2, <3>3, <4>1, Zenon DEF WholeInv
    <3>4. CASE chunk.finish # ""
      <4>1. whole'.finishedBy = delivered + 1
        BY <2>2, <3>4, Zenon
      <4> QED BY <3>1, <3>4, <4>1, Zenon
    <3> QED BY <3>3, <3>4
  <2>13. WholeInv'
    <3>1. /\ whole'.message.reasoning \in Seq(Words) /\ whole'.message.text \in Seq(Words)
      BY <1>1, <2>1, <2>2, ConcatProperties
    <3> QED BY <2>2, <2>5, <2>12, <3>1 DEF WholeInv
  <2>14. got'.finishReason =
           IF whole'.finishedBy = delivered' THEN FinishReason(whole'.finish) ELSE "STOP"
    <3>1. CASE chunk.finish = ""
      <4>1. whole'.finishedBy # delivered'
        BY <2>12, <3>1, Zenon
      <4>2. FinishReason("") = "STOP"
        BY DEF FinishReason
      <4> QED BY <2>4, <3>1, <4>1, <4>2
    <3>2. CASE chunk.finish # ""
      <4>1. whole'.finishedBy = delivered' /\ whole'.finish = chunk.finish
        BY <2>2, <2>12, <3>2, Zenon
      <4> QED BY <2>4, <4>1, Zenon
    <3> QED BY <3>1, <3>2
  <2>15. /\ got'.content.thought = whole'.message.reasoning
         /\ got'.content.text = whole'.message.text
    BY <1>3, <2>2, <2>4
  <2>16. ContentFromMessage(whole'.message).calls = CallParts(merged)
    BY <2>2 DEF ContentFromMessage, CallParts
  <2>17. Heard'
    BY <2>2, <2>8, <2>9, <2>10, <2>11, <2>14, <2>15, <2>16, Zenon DEF Heard, Parts
  <2> QED BY <2>13, <2>17
<1> QED BY <1>4, <1>5

\* A client that does not get it, or does not look at it.
LEMMA MergeUnheard ==
  ASSUME WholeInv, NEW chunk \in Chunks, delivered \in Nat,
         whole' = Merge(whole, chunk, delivered + 1), delivered' = delivered + 1
  PROVE  WholeInv'
PROOF
<1>1. whole.finishedBy \in 0 .. delivered'
  <2>1. whole.finishedBy \in 0 .. delivered
    BY Zenon DEF WholeInv
  <2> QED BY <2>1
<1>2. CASE ~chunk.choices
  <2>1. whole' = whole
    BY <1>2 DEF Merge
  <2>2. whole'.finishedBy \in 0 .. delivered'
    BY <1>1, <2>1, Zenon
  <2> QED BY <2>1, <2>2, Zenon DEF WholeInv
<1>3. CASE chunk.choices
  <2>1. /\ chunk.delta.reasoning \in Seq(Words) /\ chunk.delta.text \in Seq(Words)
        /\ chunk.delta.calls \in Seq(CallPiece)
        /\ chunk.delta.first \in 0 .. Len(whole.message.calls)
    BY <1>3, ChunkTypes
  <2>2. /\ whole'.message.reasoning = whole.message.reasoning \o chunk.delta.reasoning
        /\ whole'.message.text = whole.message.text \o chunk.delta.text
        /\ whole'.message.calls = MergeCalls(whole.message.calls, chunk.delta)
        /\ whole'.finish = IF chunk.finish = "" THEN whole.finish ELSE chunk.finish
        /\ whole'.finishedBy = IF chunk.finish = "" THEN whole.finishedBy ELSE delivered + 1
    BY <1>3 DEF Merge
  <2>3. whole'.message.reasoning \in Seq(Words) /\ whole'.message.text \in Seq(Words)
    BY <2>1, <2>2, ConcatProperties DEF WholeInv
  <2>4. whole'.message.calls \in Seq(CallPiece)
    BY <2>1, <2>2, MergeCallsJoins DEF WholeInv
  <2>5. delivered + 1 \in 0 .. delivered' /\ delivered + 1 # 0
    OBVIOUS
  <2>6. /\ whole'.finishedBy \in 0 .. delivered'
        /\ whole'.finishedBy = 0 => whole'.finish = ""
    <3>1. CASE chunk.finish = ""
      <4>1. whole'.finishedBy = whole.finishedBy /\ whole'.finish = whole.finish
        BY <2>2, <3>1, Zenon
      <4> QED BY <1>1, <4>1, Zenon DEF WholeInv
    <3>2. CASE chunk.finish # ""
      BY <2>2, <2>5, <3>2, Zenon
    <3> QED BY <3>1, <3>2
  <2> QED BY <2>3, <2>4, <2>6, Zenon DEF WholeInv
<1> QED BY <1>2, <1>3

\* A step that relays no chunk and keeps the connection, or does not use it yet.
LEMMA SameAnswer ==
  ASSUME WholeInv, HeardInv, UNCHANGED <<whole, got, delivered, endpoint>>,
         connection' # "failed" => connection # "failed"
  PROVE  WholeInv' /\ HeardInv'
PROOF BY DEF WholeInv, HeardInv, Heard, CallsAreWhole

LEMMA NextAnswer == IInv /\ WholeInv /\ HeardInv /\ [Next]_vars => WholeInv' /\ HeardInv'
PROOF
<1> SUFFICES ASSUME IInv, WholeInv, HeardInv, [Next]_vars PROVE WholeInv' /\ HeardInv'
  OBVIOUS
<1>1. CASE \/ Preflight \/ Health \/ Unauthorized \/ Authorized \/ WrongMethod \/ NotFound
           \/ Report \/ Dispatch \/ Unhandled \/ BadBody \/ ReadBody \/ BadPayload \/ Prepare
           \/ UpstreamError \/ UpstreamAnswers \/ Respond
  <2>1. UNCHANGED <<streamVars, endpoint, answerVars>>
    BY <1>1 DEF Preflight, Health, Unauthorized, Authorized, WrongMethod, NotFound, Report,
                Dispatch, Unhandled, BadBody, ReadBody, BadPayload, Prepare, UpstreamError,
                UpstreamAnswers, Respond, Unread, requestVars
  <2> QED BY <2>1, SameAnswer DEF streamVars, answerVars
<1>2. CASE Upstream
  <2>1. UNCHANGED <<whole, got, delivered, endpoint>> /\ connection # "failed"
    BY <1>2 DEF Upstream, StreamStep, Accept, Refuse, EndOfStream, Break, requestVars,
                answerVars
  <2> QED BY <2>1, SameAnswer
<1>3. CASE RelaySome
  <2>1. PICK chunk \in Chunks : Relay(chunk)
    BY <1>3 DEF RelaySome
  <2>2. PICK n \in {0, 1} :
          /\ Deliver(n = 1)
          /\ got' = IF n = 1 /\ endpoint = "gemini_stream"
                      THEN Gather(got, StreamChunkFromKimi(chunk)) ELSE got
    BY <2>1 DEF Relay
  <2>3. /\ whole' = Merge(whole, chunk, delivered + 1) /\ endpoint' = endpoint
        /\ delivered' = delivered + 1 /\ connection = "reading"
        /\ n = 0 => connection' = "failed"
    BY <2>1, <2>2 DEF Relay, Deliver, requestVars
  <2>4. delivered \in Nat
    BY KimiStreamAssumption DEF IInv, TypeOK, StreamTypeOK
  <2>5. CASE n = 1 /\ endpoint = "gemini_stream"
    <3>1. Heard
      BY <2>3, <2>5 DEF HeardInv
    <3>2. got' = Gather(got, StreamChunkFromKimi(chunk))
      BY <2>2, <2>5
    <3> QED BY <2>3, <2>4, <3>1, <3>2, GatherHeard DEF HeardInv
  <2>6. CASE ~(n = 1 /\ endpoint = "gemini_stream")
    <3>1. WholeInv'
      BY <2>3, <2>4, MergeUnheard
    <3> QED BY <2>3, <2>6, <3>1 DEF HeardInv
  <2> QED BY <2>5, <2>6
<1>4. CASE Fail \/ Finish
  BY <1>4, SameAnswer DEF Fail, Finish, Unread, streamVars, requestVars, answerVars
<1>5. CASE UNCHANGED vars
  BY <1>5, SameAnswer DEF vars, streamVars, requestVars, answerVars
<1> QED BY <1>1, <1>2, <1>3, <1>4, <1>5 DEF Next, Handle, Proceed, Over

\* However many chunks the upstream cuts its answer into, and however it cuts it, a Gemini
\* client that reads to the end has the texts of the answer that is not streamed; its
\* calls exactly if none was cut; its finishReason exactly if the chunk that finishes
\* was the last, or the answer finishes with STOP.  (StreamChunkFromKimi,
\* ResponseFromKimi, streamGeminiContent)
THEOREM GeminiStreamsAreWhole == Spec => []GeminiStreamAsUnstreamed
PROOF
<1>1. Spec => [](IInv /\ WholeInv /\ HeardInv)
  <2>1. Init => IInv /\ WholeInv /\ HeardInv
    BY InitIInv, InitAnswer
  <2>2. IInv /\ WholeInv /\ HeardInv /\ [Next]_vars => (IInv /\ WholeInv /\ HeardInv)'
    BY NextIInv, NextAnswer
  <2> QED BY <2>1, <2>2, PTL DEF Spec
<1>2. IInv /\ WholeInv /\ HeardInv => GeminiStreamAsUnstreamed
  <2> SUFFICES ASSUME IInv, WholeInv, Heard
               PROVE  /\ got.content.thought = Unstreamed(whole).content.thought
                      /\ got.content.text = Unstreamed(whole).content.text
                      /\ got.content.calls = Unstreamed(whole).content.calls
                           <=> CallsAreWhole
                      /\ delivered > 0 =>
                           (got.finishReason = Unstreamed(whole).finishReason
                              <=> \/ whole.finishedBy = delivered
                                  \/ FinishReason(whole.finish) = "STOP")
    BY DEF GeminiStreamAsUnstreamed, HeardInv
  <2>1. Unstreamed(whole) = [content |-> ContentFromMessage(whole.message),
                             finishReason |-> FinishReason(whole.finish)]
    BY DEF Unstreamed, ResponseFromKimi
  <2>2. /\ Unstreamed(whole).content = ContentFromMessage(whole.message)
        /\ Unstreamed(whole).finishReason = FinishReason(whole.finish)
    BY <2>1
  <2>3. /\ ContentFromMessage(whole.message).thought = whole.message.reasoning
        /\ ContentFromMessage(whole.message).text = whole.message.text
        /\ ContentFromMessage(whole.message).calls = CallParts(whole.message.calls)
    BY DEF ContentFromMessage, CallParts
  <2>4. ASSUME ~CallsAreWhole
        PROVE  got.content.calls # Unstreamed(whole).content.calls
    <3>1. Len(got.content.calls) > Len(whole.message.calls)
      BY <2>4 DEF Heard
    <3>2. Len(CallParts(whole.message.calls)) = Len(whole.message.calls)
      BY CallPartsOf DEF WholeInv
    <3>3. Len(whole.message.calls) \in Nat
      BY LenProperties DEF WholeInv
    <3>4. Len(got.content.calls) # Len(whole.message.calls)
      BY <3>1, <3>3
    <3> QED BY <2>2, <2>3, <3>2, <3>4, Zenon
  <2>5. ASSUME delivered > 0
        PROVE  got.finishReason = Unstreamed(whole).finishReason
                 <=> \/ whole.finishedBy = delivered
                     \/ FinishReason(whole.finish) = "STOP"
    <3>1. got.finishReason =
            IF whole.finishedBy = delivered THEN FinishReason(whole.finish) ELSE "STOP"
      BY <2>5 DEF Heard
    <3> QED BY <2>2, <3>1, Zenon
  <2> QED BY <2>2, <2>3, <2>4, <2>5, Zenon DEF Heard
<1> QED BY <1>1, <1>2, PTL

=============================================================================
