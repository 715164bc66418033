----------------------------- MODULE BlockTurns -----------------------------
(***************************************************************************)
(* How the Anthropic and the Gemini adapter turn the contents of a client  *)
(* into chat messages (ContentToChatMessages of messages.go and of         *)
(* generate.go) and an answer of the upstream into content                 *)
(* (ContentBlocksFromMessage, ContentFromMessage).  Nothing is stored: the *)
(* client keeps the contents and sends all of them with every request.     *)
(*                                                                         *)
(* A content is a list of blocks; the blocks of one content become one or  *)
(* more messages.  Texts and media are tags, a tool call is known by the   *)
(* turn and the place it came at.                                          *)
(***************************************************************************)
EXTENDS Conversation

CONSTANT MaxBlocks                \* bound: blocks of a client's content

ASSUME BlockTurnsAssumption == MaxBlocks \in Nat

VARIABLES api,                    \* which of the two adapters
          keepsIDs,               \* the client sends the ids of calls back
          contents,               \* what the client has: contents of a role
          answers                 \* history: the upstream's message of each content

blockVars == <<api, keepsIDs, contents, answers>>

NoID == <<0, 0>>                  \* nil, or an id made up for one request only
NoAnswer == [text |-> FALSE, reasoning |-> FALSE, calls |-> 0]

Block(kind, tag, id) == [kind |-> kind, tag |-> tag, id |-> id]
Empty == <<0, 1>>                 \* the tag of the empty text

Message(role, content, reasoning, calls, result) ==
  [role |-> role, content |-> content, reasoning |-> reasoning, calls |-> calls,
   result |-> result]

------------------------------------------------------------------------------
(* ContentToChatMessages: one pass over the blocks.                        *)

\* textParts and contentParts wait for flushContent.  A part is the list of the
\* texts joined in it, or one medium; a text without media is sent as a string.
Start == [text |-> <<>>, parts |-> <<>>, messages |-> <<>>]

FlushTextPart(s) ==
  IF s.text = <<>> THEN s
  ELSE [s EXCEPT !.parts = Append(@, s.text), !.text = <<>>]

FlushContentOfTextOnly(role, s) ==
  IF s.text = <<>> THEN s
  ELSE [s EXCEPT !.text = <<>>,
          !.messages = Append(@, Message(role, <<s.text>>, <<>>, <<>>, <<>>))]

FlushContent(role, s) ==
  LET flushed == FlushTextPart(s)
  IN IF flushed.parts = <<>> THEN s
     ELSE [flushed EXCEPT !.parts = <<>>,
             !.messages = Append(@, Message(role, flushed.parts, <<>>, <<>>, <<>>))]

\* A block that is a message of its own.
OwnMessageUnflushed(role, s, message) == [s EXCEPT !.messages = Append(@, message)]

OwnMessage(role, s, message) ==
  LET flushed == FlushContent(role, s)
  IN [flushed EXCEPT !.messages = Append(@, message)]

WithText(s, tag) == [s EXCEPT !.text = Append(@, tag)]

\* Gemini knows no thinking: a thought part is a part with text.
WithThinking(role, s, block) ==
  CASE api = "gemini" -> WithText(s, block.tag)
    [] api = "anthropic" /\ role = "assistant" ->
         OwnMessage(role, s, Message("assistant", <<>>, <<block.tag>>, <<>>, <<>>))
    [] OTHER -> s

WithMediaAhead(s, tag) == [s EXCEPT !.parts = Append(@, <<tag>>)]

WithMedia(s, tag) ==
  LET flushed == FlushTextPart(s)
  IN [flushed EXCEPT !.parts = Append(@, <<tag>>)]

\* "other" stands for the kinds that are described in words.
WithBlock(role, s, block) ==
  CASE block.kind \in {"text", "other"} -> WithText(s, block.tag)
    [] block.kind = "thinking" -> WithThinking(role, s, block)
    [] block.kind = "media" -> WithMedia(s, block.tag)
    [] block.kind = "call" ->
         OwnMessage(role, s, Message("assistant", <<>>, <<>>, <<block.id>>, <<>>))
    [] block.kind = "result" ->
         OwnMessage(role, s, Message("tool", <<<<block.tag>>>>, <<>>, <<>>, <<block.id>>))

ContentToChatMessages(role, blocks) ==
  LET after[n \in 0 .. Len(blocks)] ==
        IF n = 0 THEN Start ELSE WithBlock(role, after[n - 1], blocks[n])
      s == FlushContent(role, after[Len(blocks)])
  IN IF s.messages = <<>>
     THEN <<Message(role, <<<<Empty>>>>, <<>>, <<>>, <<>>)>>
     ELSE s.messages

\* normalizeMessages, NormalizeContents, after the system message.
NormalizeContents(list) ==
  FlattenSeq([k \in 1 .. Len(list) |->
                ContentToChatMessages(list[k].role, list[k].blocks)])

------------------------------------------------------------------------------
(* What the upstream answers and the client sends.                         *)

Tag(turn, place) == <<turn, place>>

\* The id as the client will send it: one that does not keep the ids has the
\* adapter make up one for a call and sends none with a result.
IDOf(turn, place) == IF keepsIDs THEN Tag(turn, 2 + place) ELSE NoID

\* ContentBlocksFromMessage, ContentFromMessage.
CallsOnly(turn, answer) ==
  [k \in 1 .. answer.calls |-> Block("call", Tag(turn, 2 + k), IDOf(turn, k))]

ContentBlocksFromMessage(turn, answer) ==
  LET reasoning == IF answer.reasoning THEN <<Block("thinking", Tag(turn, 1), NoID)>>
                   ELSE <<>>
      text == IF answer.text THEN <<Block("text", Tag(turn, 2), NoID)>> ELSE <<>>
      calls == [k \in 1 .. answer.calls |-> Block("call", Tag(turn, 2 + k), IDOf(turn, k))]
      blocks == reasoning \o text \o calls
  IN IF blocks = <<>> THEN <<Block("text", Empty, NoID)>> ELSE blocks

Content(role, blocks) == [role |-> role, blocks |-> blocks]

\* The client and the upstream take turns.
Answer(answer) ==
  /\ Len(contents) < MaxTurns /\ Len(contents) % 2 = 1
  /\ LET turn == Len(contents) + 1
     IN contents' = Append(contents,
                      Content("assistant", ContentBlocksFromMessage(turn, answer)))
  /\ answers' = Append(answers, answer)
  /\ UNCHANGED <<api, keepsIDs>>

Answers == [text : BOOLEAN, reasoning : BOOLEAN, calls : 0 .. MaxCalls]

\* The calls of the answer before, which the client may give results of.
OpenCalls ==
  1 .. answers[Len(contents)].calls

\* What a client's block is about: something it says, or a call of the answer
\* before.
Said == {"text", "other", "media", "thinking"} \X {0}
Results == {"result"} \X OpenCalls

\* A client's content, with at most one result of a call.
ClientContents ==
  {list \in BoundedSeq(Said \cup Results, MaxBlocks) :
     \A j, k \in 1 .. Len(list) :
       list[j] = list[k] /\ list[j][1] = "result" => j = k}

Say(list) ==
  /\ Len(contents) < MaxTurns /\ Len(contents) % 2 = 0
  /\ LET turn == Len(contents) + 1
     IN contents' = Append(contents, Content("user",
          [k \in 1 .. Len(list) |->
             Block(list[k][1], Tag(turn, k),
                   IF list[k][1] = "result" THEN IDOf(turn - 1, list[k][2]) ELSE NoID)]))
  /\ answers' = Append(answers, NoAnswer)
  /\ UNCHANGED <<api, keepsIDs>>

\* A conversation begins with a question.  Anthropic blocks always carry their ids.
BlockInit ==
  /\ api \in {"anthropic", "gemini"}
  /\ keepsIDs \in BOOLEAN /\ (api = "anthropic" => keepsIDs)
  /\ contents = <<Content("user", <<Block("text", Tag(1, 1), NoID)>>)>>
  /\ answers = <<NoAnswer>>

Done == Len(contents) = MaxTurns /\ UNCHANGED blockVars

BlockNext ==
  \/ \E answer \in Answers : Answer(answer)
  \/ \E list \in ClientContents : Say(list)
  \/ Done

BlockSpec == BlockInit /\ [][BlockNext]_blockVars

------------------------------------------------------------------------------

Messages == NormalizeContents(contents)

\* The tags and the calls of a message in the order the upstream reads them.
ToldBy(message) ==
  FlattenSeq(message.content) \o message.reasoning \o message.calls

\* What of a block the upstream is to be told.
TagOf(role, block) ==
  IF block.kind = "thinking" /\ api # "gemini" /\ role # "assistant" THEN <<>>
  ELSE IF block.kind = "call" THEN <<block.id>> ELSE <<block.tag>>

TagsOf(content) == Gathered(content.blocks, LAMBDA b : TagOf(content.role, b))

\* However the blocks of a content are mixed, the messages tell the upstream all of
\* it in the order the client gave it, but for thinking a user claims to have done;
\* a content without a block is still a message.  (ContentToChatMessages, the text
\* that waits for flushTextPart and flushContent)
SaidInOrder ==
  Gathered(Messages, ToldBy)
       = Gathered(contents, LAMBDA c :
           IF TagsOf(c) = <<>> THEN <<Empty>> ELSE TagsOf(c))

\* What the upstream answered comes back to it in the messages of that content: all
\* its calls in order, its text, and its reasoning, as reasoning in Anthropic's form
\* and at the head of the text in Gemini's.  (ContentBlocksFromMessage and
\* ContentFromMessage against ContentToChatMessages)
AnswersComeBack ==
  \A k \in 1 .. Len(contents) : contents[k].role = "assistant" =>
    LET messages == ContentToChatMessages("assistant", contents[k].blocks)
        answer == answers[k]
        reasoning == IF answer.reasoning THEN <<Tag(k, 1)>> ELSE <<>>
        text == IF answer.text THEN <<Tag(k, 2)>> ELSE <<>>
        content == Gathered(messages, LAMBDA m : FlattenSeq(m.content))
        told == Gathered(content, LAMBDA tag : IF tag = Empty THEN <<>> ELSE <<tag>>)
    IN /\ \A j \in 1 .. Len(messages) : messages[j].role = "assistant"
       /\ Gathered(messages, LAMBDA m : m.calls)
            = [place \in 1 .. answer.calls |-> IDOf(k, place)]
       /\ Gathered(messages, LAMBDA m : m.reasoning)
            = IF api = "anthropic" THEN reasoning ELSE <<>>
       /\ told
            = IF api = "anthropic" THEN text ELSE reasoning \o text

ResultsFirst(content) ==
  \A j, k \in 1 .. Len(content.blocks) :
    j < k /\ content.blocks[k].kind = "result" => content.blocks[j].kind = "result"

\* Where the client keeps the ids and gives the results before anything else, each
\* result names one call, and nothing but calls and results stands between the two:
\* neither the text of the answer nor what the client says next gets in there.
\* (flushContent before a message of its own)
ResultsFollowTheirCalls ==
  \A k \in 2 .. Len(contents) :
   keepsIDs /\ contents[k].role = "user" /\ ResultsFirst(contents[k]) =>
    LET messages == NormalizeContents(SubSeq(contents, k - 1, k))
    IN \A last \in 1 .. Len(messages) : messages[last].result # <<>> =>
         \E first \in 1 .. (last - 1) :
           /\ {j \in 1 .. Len(messages) : messages[j].calls = messages[last].result}
                = {first}
           /\ \A j \in first .. last : messages[j].calls # <<>> \/ messages[j].result # <<>>

=============================================================================
