--------------------------- MODULE GeminiAnswers ---------------------------
(***************************************************************************)
(* What the Gemini adapter makes of an answer of the upstream, whole or as *)
(* a chunk of a stream (ResponseFromKimi, ContentFromMessage and           *)
(* StreamChunkFromKimi of adapters/gemini/generate/generate.go), and the   *)
(* two ways from the chunks of an answer to one answer: the upstream's,    *)
(* before the translation, and the client's, after it.                     *)
(*                                                                         *)
(* A text is the sequence of its fragments.  A message is its reasoning,   *)
(* its text and its calls; a delta has fragments of them, its calls are    *)
(* pieces of the calls from the place after "first" on.                    *)
(***************************************************************************)
EXTENDS Naturals, Sequences

Nothing == [reasoning |-> <<>>, text |-> <<>>, calls |-> <<>>]

\* A piece of a call: only the first one need have an id (0 is none) and a name.
Piece(id, args) == [id |-> id, args |-> args, pieces |-> 1]

\* The arguments are JSON only as a whole.
IsObject(args) == args = <<"open", "close">>

------------------------------------------------------------------------------
(* The translation.                                                        *)

\* Arguments that are not JSON become an object around them; none become {}.
FunctionCall(call) ==
  [id |-> call.id,
   args |-> [kind |-> IF call.args = <<>> \/ IsObject(call.args) THEN "object" ELSE "input",
             of |-> call.args]]

\* The parts by their kind: thought, text and calls, in this order; an empty text
\* stands for none.
ContentFromMessage(message) ==
  [thought |-> message.reasoning,
   text |-> message.text,
   calls |-> [k \in 1 .. Len(message.calls) |-> FunctionCall(message.calls[k])]]

\* Of the reasons the upstream gives; others are passed on in capitals.
FinishReason(reason) ==
  CASE reason = "length" -> "MAX_TOKENS"
    [] reason = "content_filter" -> "SAFETY"
    [] OTHER -> "STOP"

\* An answer without a choice gets an empty candidate all the same.
ResponseFromKimi(completion) ==
  IF completion.choices
  THEN [content |-> ContentFromMessage(completion.message),
        finishReason |-> FinishReason(completion.finish)]
  ELSE [content |-> ContentFromMessage(Nothing), finishReason |-> "STOP"]

DeltaLeftOut(chunk) ==
  ResponseFromKimi([choices |-> chunk.choices, message |-> Nothing, finish |-> chunk.finish])

\* The delta stands in for the message: each piece of a call becomes a call.
StreamChunkFromKimi(chunk) ==
  ResponseFromKimi([choices |-> chunk.choices, message |-> chunk.delta,
                    finish |-> chunk.finish])

------------------------------------------------------------------------------
(* The upstream's answer, put together from its chunks.                    *)

\* The fields of a later piece that has them are the call's, the arguments run on.
MergeToolCall(call, piece) ==
  [id |-> IF piece.id = 0 THEN call.id ELSE piece.id,
   args |-> call.args \o piece.args,
   pieces |-> call.pieces + piece.pieces]

MergeCalls(calls, delta) ==
  LET last == delta.first + Len(delta.calls)
  IN  [k \in 1 .. (IF last > Len(calls) THEN last ELSE Len(calls)) |->
         IF k \notin (delta.first + 1) .. last THEN calls[k]
         ELSE IF k > Len(calls) THEN delta.calls[k - delta.first]
         ELSE MergeToolCall(calls[k], delta.calls[k - delta.first])]

Unsent == [message |-> Nothing, finish |-> "", finishedBy |-> 0]

\* The n-th chunk.
Merge(whole, chunk, n) ==
  IF ~chunk.choices THEN whole
  ELSE [message |-> [reasoning |-> whole.message.reasoning \o chunk.delta.reasoning,
                     text |-> whole.message.text \o chunk.delta.text,
                     calls |-> MergeCalls(whole.message.calls, chunk.delta)],
        finish |-> IF chunk.finish = "" THEN whole.finish ELSE chunk.finish,
        finishedBy |-> IF chunk.finish = "" THEN whole.finishedBy ELSE n]

\* The answer to the same request if it is not streamed.
Unstreamed(whole) ==
  ResponseFromKimi([choices |-> TRUE, message |-> whole.message, finish |-> whole.finish])

------------------------------------------------------------------------------
(* The client's answer, put together from the responses of the stream.     *)

Unheard == [content |-> ContentFromMessage(Nothing), finishReason |-> ""]

Gather(got, response) ==
  [content |-> [thought |-> got.content.thought \o response.content.thought,
                text |-> got.content.text \o response.content.text,
                calls |-> got.content.calls \o response.content.calls],
   finishReason |-> response.finishReason]

=============================================================================
