----------------------------- MODULE Endpoints -----------------------------
(***************************************************************************)
(* One request to an endpoint that forwards to the upstream, or that only  *)
(* reports: serveHTTP and authorize, readJSON, handleModels,               *)
(* handleMemoryHealth, handleDebug, the handlers of endpoints_kimi.go,     *)
(* endpoints_gemini.go, endpoints_anthropic.go and handleChatCompletions   *)
(* of endpoints_openai.go, and the streams that relay each chunk           *)
(* (streamKimiChatCompletion, streamChatCompletion, streamGeminiContent).  *)
(*                                                                         *)
(* What a request brings is chosen at the step that looks at it.  A plain  *)
(* answer is one event that names its status.  What a Gemini stream makes  *)
(* of a chunk is GeminiAnswers.  The Responses endpoints are ResponsesAPI  *)
(* and ResponseStream, a streamed message is AnthropicStream, the stored   *)
(* completions are ChatStore.                                              *)
(***************************************************************************)
EXTENDS KimiStream, EventStream, GeminiAnswers

CONSTANTS Words,                  \* what texts are made of
          CallIds,                \* the ids the upstream gives tool calls
          MaxCalls,               \* bound: the calls of an answer
          MaxPieces               \* bound: what a chunk brings of texts and calls

ASSUME EndpointsAssumption ==
  CallIds \subseteq Nat \ {0} /\ MaxCalls \in Nat /\ MaxPieces \in Nat

VARIABLES endpoint,
          stream, store,          \* what the body asks for, once it is read
          stage,                  \* how far the request is
          saved,                  \* SaveChatCompletion was called
          whole,                  \* history: the answer the chunks are pieces of
          got                     \* history: what a Gemini client has made of them

requestVars == <<endpoint, stream, store, saved>>
answerVars == <<whole, got>>
vars == <<streamVars, clientVars, requestVars, stage, answerVars>>

\* "gemini_other" is an action of a Gemini path the handler does not know,
\* "gemini_path" a path below /models/ that has none; "unknown" any other path.
Gemini == {"gemini", "gemini_stream", "gemini_tokens", "gemini_other", "gemini_path"}
Estimates == {"kimi_tokens", "messages_tokens", "gemini_tokens"}
PassedOn == {"kimi_chat", "kimi_tokens"}
Reports == {"models", "memory", "debug"}
EndpointNames == Gemini \cup Estimates \cup PassedOn \cup Reports
                   \cup {"chat", "messages", "health", "unknown"}

Status == {200, 204, 400, 401, 404, 405, 413, 500, 502}
Answered(status) == Event("answer", [kind |-> "status", call |-> status], 0)
Chunk(k) == Event("chunk", Item("chunk"), k)
End(type) == Event(type, Item("end"), 0)

------------------------------------------------------------------------------
(* serveHTTP.                                                              *)

\* A Gemini handler that answers and still returns false.
AnswerUnhandled(status) ==
  /\ WriteAll(<<Answered(status)>>)
  /\ stage' = IF endpoint \in Gemini THEN "unhandled" ELSE "done"

\* The handler writes an answer, which may not reach the client, and returns.
Answer(status) ==
  /\ WriteAll(<<Answered(status)>>)
  /\ stage' = "done"

Goto(next) == stage' = next /\ UNCHANGED clientVars

Unread == UNCHANGED <<streamVars, requestVars, answerVars>>

\* OPTIONS on any path, and /health, need no token.
Preflight == stage = "routing" /\ Answer(204) /\ Unread

Health ==
  stage = "routing" /\ endpoint = "health" /\ Answer(200) /\ Unread

\* authorize: no header carries one of the tokens, or the server has none.
Unauthorized ==
  /\ stage = "routing" /\ endpoint # "health"
  /\ \E status \in {401, 500} : Answer(status)
  /\ Unread

Authorized ==
  /\ stage = "routing" /\ endpoint # "health"
  /\ Goto("dispatching") /\ Unread

\* Each of these handlers checks the method first, even for a path it will not know.
Handled == endpoint \notin {"unknown"} \cup Reports

WrongMethod ==
  stage = "dispatching" /\ Handled /\ Answer(405) /\ Unread

\* The reports are found by their method too, and debugging may be switched off.
NotFound ==
  stage = "dispatching" /\ ~Handled /\ Answer(404) /\ Unread

Report ==
  /\ stage = "dispatching" /\ endpoint \in Reports
  /\ Answer(200) /\ Unread

\* parseGeminiPath; the other handlers read the body.
Dispatch ==
  /\ stage = "dispatching" /\ Handled
  /\ Goto(IF endpoint = "gemini_path" THEN "unhandled" ELSE "reading")
  /\ Unread

\* handleGeminiModels returned false.
Unhandled == stage = "unhandled" /\ Answer(404) /\ Unread

------------------------------------------------------------------------------
(* The handlers.                                                           *)

\* readJSON: too large, or anything but one JSON object.
BadBody ==
  /\ stage = "reading"
  /\ \E status \in {400, 413} : Answer(status)
  /\ Unread

\* The fields an endpoint does not look at are left out; a streamed message is not
\* followed here.
ReadBody ==
  /\ stage = "reading"
  /\ stream' \in BOOLEAN /\ (stream' => endpoint \in {"kimi_chat", "chat"})
  /\ store' \in BOOLEAN /\ (store' => endpoint = "chat")
  /\ Goto("preparing")
  /\ UNCHANGED <<streamVars, endpoint, saved, answerVars>>

\* The adapter finds no messages in the payload.
BadPayload ==
  /\ stage = "preparing" /\ endpoint \notin PassedOn
  /\ Answer(400) /\ Unread

Streams ==
  \/ endpoint = "gemini_stream"
  \/ endpoint \in {"kimi_chat", "chat"} /\ stream

\* Gemini's unknown action is found out only now.
Prepare ==
  /\ stage = "preparing"
  /\ Goto(CASE endpoint = "gemini_other" -> "unhandled"
            [] Streams -> "streaming"
            [] OTHER -> "calling")
  /\ Unread

\* Chat and EstimateTokens: no connection, a timeout, the client gone, a status of
\* 400 and above, which is passed on, or an answer that is not JSON.
UpstreamError ==
  /\ stage = "calling"
  /\ \E status \in {400, 401, 500, 502} : Answer(status)
  /\ Unread

\* A completion is stored before it is answered.
StoresEverything == endpoint = "chat"

StoresCompletion == endpoint = "chat" /\ store

UpstreamAnswers ==
  /\ stage = "calling"
  /\ saved' = StoresCompletion
  /\ Goto("answering")
  /\ UNCHANGED <<streamVars, endpoint, stream, store, answerVars>>

Respond == stage = "answering" /\ Answer(200) /\ Unread

------------------------------------------------------------------------------
(* The streams.                                                            *)

Upstream ==
  /\ stage = "streaming" /\ StreamStep
  /\ UNCHANGED <<clientVars, requestVars, stage, answerVars>>

FinishReasons == {"", "stop", "length"}

\* The chunk that reports the usage has no choice.
UsageChunk == [choices |-> FALSE, delta |-> Nothing, finish |-> ""]

\* A chunk brings at most a word of each text.
Fragments == {<<>>} \cup {<<word>> : word \in Words}

\* A call begins with its id; what is sent of it later has none.
CallPieces ==
  {Piece(id, args) : id \in CallIds, args \in {<<"open">>, <<"open", "close">>}}
    \cup {Piece(0, <<"close">>)}

Deltas ==
  {delta \in [reasoning : Fragments, text : Fragments, first : 0 .. MaxCalls,
              calls : UNION {[1 .. n -> CallPieces] : n \in 0 .. MaxPieces}] :
     /\ Len(delta.reasoning) + Len(delta.text) + Len(delta.calls) <= MaxPieces
     /\ delta.first + Len(delta.calls) <= MaxCalls
     /\ delta.calls = <<>> => delta.first = 0}

ChoiceChunks == [choices : {TRUE}, delta : Deltas, finish : FinishReasons]

\* Only the Gemini stream looks at what a chunk holds: the delta of the one choice and
\* its finish_reason.  Its calls go on with some that have begun or begin the next.
Chunks ==
  IF endpoint # "gemini_stream" THEN {UsageChunk}
  ELSE {UsageChunk} \cup
         {chunk \in ChoiceChunks : chunk.delta.first <= Len(whole.message.calls)}

\* The callback: one event for each chunk.
Relay(chunk) ==
  /\ stage = "streaming"
  /\ \E n \in {0, 1} :
       /\ Write(<<Chunk(delivered + 1)>>, n) /\ Deliver(n = 1)
       /\ got' = IF n = 1 /\ endpoint = "gemini_stream"
                   THEN Gather(got, StreamChunkFromKimi(chunk)) ELSE got
  /\ whole' = Merge(whole, chunk, delivered + 1)
  /\ UNCHANGED <<requestVars, stage>>

\* StreamChat returned an error.
FailWithoutReturn ==
  /\ stage = "streaming" /\ connection = "failed"
  /\ WriteAll(IF endpoint = "gemini_stream" THEN <<End("error")>>
              ELSE <<End("error"), End("done")>>)
  /\ stage' = "done"
  /\ Unread

FailSilently ==
  /\ stage = "streaming" /\ connection = "failed"
  /\ Goto("done")
  /\ Unread

Fail ==
  /\ stage = "streaming" /\ connection = "failed"
  /\ WriteAll(<<End("error")>>)
  /\ stage' = "done"
  /\ Unread

\* It returned nil: [DONE], which a Gemini stream does not have.
Finish ==
  /\ stage = "streaming" /\ connection = "ended"
  /\ WriteAll(IF endpoint = "gemini_stream" THEN <<>> ELSE <<End("done")>>)
  /\ stage' = "done"
  /\ Unread

Init ==
  /\ StreamInit /\ Nobody
  /\ endpoint \in EndpointNames
  /\ stream = FALSE /\ store = FALSE /\ saved = FALSE
  /\ stage = "routing"
  /\ whole = Unsent /\ got = Unheard

Over == stage = "done" /\ UNCHANGED vars

Proceed ==
  \/ Preflight \/ Health \/ Unauthorized \/ Authorized \/ WrongMethod \/ NotFound
  \/ Report \/ Dispatch \/ Unhandled \/ BadBody \/ ReadBody \/ BadPayload \/ Prepare
  \/ UpstreamError \/ UpstreamAnswers \/ Respond
  \/ Upstream \/ Fail \/ Finish

RelaySome ==
  /\ connection = "reading" /\ delivered < MaxChunks
  /\ \E chunk \in Chunks : Relay(chunk)

Handle == Proceed \/ RelaySome

Next == Handle \/ Over

Spec == Init /\ [][Next]_vars

\* The handler runs on; no chunk need come, and the HTTP client's timeout, which covers
\* the body, ends a silent upstream.
FairSpec == Spec /\ WF_vars(Proceed)

------------------------------------------------------------------------------

Ends == {"answer", "error", "done"}
Stages == {"routing", "dispatching", "unhandled", "reading", "preparing", "calling",
           "answering", "streaming", "done"}

Events == [type : Ends \cup {"chunk"},
           item : [kind : {"status", "chunk", "end"}, call : {0} \cup Status],
           index : 0 .. MaxChunks]

TypeOK ==
  /\ StreamTypeOK
  /\ endpoint \in EndpointNames /\ stage \in Stages
  /\ stream \in BOOLEAN /\ store \in BOOLEAN /\ saved \in BOOLEAN /\ gone \in BOOLEAN
  /\ sent \in Seq(Events)

\* A client gets one answer, whichever of the router and the handlers gives it: one
\* plain answer and nothing else, or chunks and then at most one end, an error or
\* [DONE] but not both.  (the returns after each error, and the bool of
\* handleGeminiModels on which the router answers itself)
AnsweredOnce ==
  /\ LastOf(Ends)
  /\ Told({"answer"}) => Len(sent) = 1
  /\ stage # "done" => ~Told(Ends)

\* What has been relayed are the upstream's chunks, each once and in order; [DONE]
\* means that it was all of them and that the upstream ended well.  (the callbacks
\* of the three streams, which return the error of a write)
RelayedWhole ==
  /\ \A k \in Positions("chunk") : sent[k] = Chunk(k)
  /\ Told({"done"}) => connection = "ended" /\ Len(sent) = delivered + 1

\* A completion is in the store if and only if its client asked for that, did not
\* ask for a stream, and the upstream gave it; whoever is answered 200 finds it.
\* (handleChatCompletions)
SavedAsAnswered ==
  /\ saved => endpoint = "chat" /\ store /\ ~Streams /\ stage \in {"answering", "done"}
  /\ endpoint = "chat" /\ store /\ Answered(200) \in Sent => saved

------------------------------------------------------------------------------

CallsAreWhole ==
  \A k \in 1 .. Len(whole.message.calls) : whole.message.calls[k].pieces = 1

\* A client that puts the responses of a finished Gemini stream together has the answer
\* it would have got without streaming: always its thoughts and its text; its calls,
\* each once and with the arguments parsed, exactly if the upstream sent each call in
\* one chunk; its finishReason, the last one counting, exactly if no chunk came after
\* the one that finishes, or the answer finishes with STOP, which every chunk says that
\* finishes nothing.  (StreamChunkFromKimi of each chunk against ResponseFromKimi of
\* the whole)
GeminiStreamAsUnstreamed ==
  endpoint = "gemini_stream" /\ stage = "done" /\ connection = "ended" =>
    LET answer == Unstreamed(whole)
    IN  /\ got.content.thought = answer.content.thought
        /\ got.content.text = answer.content.text
        /\ got.content.calls = answer.content.calls <=> CallsAreWhole
        /\ delivered > 0 =>
             (got.finishReason = answer.finishReason
                <=> whole.finishedBy = delivered \/ FinishReason(whole.finish) = "STOP")

\* A client that stays is answered, by an end of its own or, for a Gemini stream, by
\* the end of the body.
ClientIsAnswered ==
  <>(\/ gone
     \/ stage = "done" /\ Told(Ends)
     \/ stage = "done" /\ endpoint = "gemini_stream" /\ connection = "ended")

=============================================================================
