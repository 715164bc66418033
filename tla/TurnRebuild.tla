---------------------------- MODULE TurnRebuild ----------------------------
(***************************************************************************)
(* How the Responses adapter turns the items of a conversation back into   *)
(* chat messages (internal/adapters/openai/responses/responses.go).  The   *)
(* upstream answers in turns, a message with text, reasoning and calls;    *)
(* each is kept as a list of items, and the next request must give it back *)
(* to the upstream as the one message it was.                              *)
(*                                                                         *)
(* The items come back from the store, or (asStored = FALSE) from a client *)
(* that keeps them itself and sends all of them again, without the fields  *)
(* that begin with an underscore.  Texts are tags: the number of the turn  *)
(* or input they came with.                                                *)
(***************************************************************************)
EXTENDS Conversation, FiniteSets, FiniteSetsExt

CONSTANT MaxSteps                 \* bound: turns and inputs of a conversation

ASSUME TurnRebuildAssumption == MaxSteps \in Nat

VARIABLES items,                  \* AllItems of the next request, but for its input
          asStored,
          turns, inputs,          \* how many there were
          expected,               \* history: the messages the items stand for
          regular                 \* history: see Regular

rebuildVars == <<items, asStored, turns, inputs, expected, regular>>

Now == turns + inputs + 1         \* the tag of what comes next
Absent == 0                       \* a field that is not there

\* A call has a call_id, and its item an id of its own.
NoCall == [turn |-> Absent, place |-> Absent, by |-> "call_id"]
CallRef(turn, place, by) == [turn |-> turn, place |-> place, by |-> by]

Blank == [type |-> "reasoning", role |-> "", text |-> Absent, thought |-> FALSE,
          reasoning |-> Absent, turn |-> Absent, call |-> NoCall]

MessageItem(role, text) == [Blank EXCEPT !.type = "message", !.role = role, !.text = text]

ChatMessage(role, content, reasoning, calls, answers) ==
  [role |-> role, content |-> content, reasoning |-> reasoning, calls |-> calls,
   answers |-> answers]

------------------------------------------------------------------------------
(* InputItemsToChatMessages.                                               *)

SameKimiTurnIgnored(left, right) == TRUE

SameKimiTurn(left, right) ==
  left.turn # Absent /\ right.turn # Absent /\ left.turn = right.turn

FollowsMessage(message, candidate) ==
  /\ candidate.type = "call"
  /\ message.turn # Absent => SameKimiTurn(message, candidate)

FollowsCall(call, candidate) ==
  /\ candidate.type = "call"
  /\ call.turn # Absent /\ candidate.turn # Absent => SameKimiTurn(call, candidate)

IsAssistant(item) == item.type = "message" /\ item.role = "assistant"

\* Where a run of items that fit ends.
RunEnd(list, from, Fits(_)) ==
  Min({j \in from .. (Len(list) + 1) : j > Len(list) \/ ~Fits(list[j])})

Given(tag) == IF tag = Absent THEN <<>> ELSE <<tag>>

\* The first reasoning found wins: what came with the text, then the calls'.
ReasoningOf(calls, reasoning) ==
  LET own == Gathered(calls, LAMBDA call : Given(call.reasoning))
  IN IF reasoning # <<>> \/ own = <<>> THEN reasoning ELSE <<own[1]>>

AssistantToolCallMessage(calls, content, reasoning) ==
  ChatMessage("assistant", content, ReasoningOf(calls, reasoning),
          [k \in 1 .. Len(calls) |-> calls[k].call], NoCall)

\* A role the upstream does not know has no message.
ResponseMessageToChatMessage(item) ==
  LET role == IF item.role = "developer" THEN "system" ELSE item.role
  IN IF role \notin {"system", "user", "assistant", "tool"} THEN <<>>
     ELSE <<ChatMessage(role, Given(item.text), Given(item.reasoning), <<>>, NoCall)>>

\* assistantContextAfterToolCalls: a text that is a thought joins the reasoning.
ContentAfter(messages) ==
  Gathered(messages, LAMBDA m : IF m.thought THEN <<>> ELSE Given(m.text))

ReasoningAfter(messages) ==
  Gathered(messages, LAMBDA m :
    Given(m.reasoning) \o (IF m.thought THEN Given(m.text) ELSE <<>>))

\* An item that takes none along.
OneByOne(list, i) ==
  [message |-> ResponseMessageToChatMessage(list[i]), next |-> i + 1]

\* The message of the item at i with the items it takes along, and what is next.
FromMessage(list, i) ==
  LET next == RunEnd(list, i + 1, LAMBDA c : FollowsMessage(list[i], c))
  IN IF ~IsAssistant(list[i]) \/ next = i + 1 THEN OneByOne(list, i)
     ELSE [message |-> <<AssistantToolCallMessage(SubSeq(list, i + 1, next - 1),
                           Given(list[i].text), Given(list[i].reasoning))>>,
           next |-> next]

FromCallsKeepingNext(list, i) ==
  LET j == RunEnd(list, i + 1, LAMBDA c : FollowsCall(list[i], c))
  IN [message |-> <<AssistantToolCallMessage(SubSeq(list, i, j - 1), <<>>, <<>>)>>,
      next |-> RunEnd(list, j, IsAssistant)]

FromCalls(list, i) ==
  LET j == RunEnd(list, i + 1, LAMBDA c : FollowsCall(list[i], c))
      next == RunEnd(list, j, IsAssistant)
      after == SubSeq(list, j, next - 1)
  IN [message |-> <<AssistantToolCallMessage(SubSeq(list, i, j - 1),
                      ContentAfter(after), ReasoningAfter(after))>>,
      next |-> next]

FromOutput(list, i) ==
  [message |-> <<ChatMessage("tool", Given(list[i].text), <<>>, <<>>, list[i].call)>>,
   next |-> i + 1]

FromItem(list, i) ==
  CASE list[i].type = "message" -> FromMessage(list, i)
    [] list[i].type = "call" -> FromCalls(list, i)
    [] list[i].type = "output" -> FromOutput(list, i)
    [] OTHER -> [message |-> <<>>, next |-> i + 1]

InputItemsToChatMessages(list) ==
  LET from[i \in 1 .. (Len(list) + 1)] ==
        IF i > Len(list) THEN <<>>
        ELSE LET step == FromItem(list, i) IN step.message \o from[step.next]
  IN from[1]

------------------------------------------------------------------------------
(* What the upstream and the client add.                                   *)

\* order: "usual", or "late" for a stream whose reasoning began after its text; a
\* client that keeps its items may also send the calls before the text, and the
\* text as a thought.
Turns == {turn \in [text : BOOLEAN, reasoning : BOOLEAN, calls : 0 .. MaxCalls,
                    order : {"usual", "late", "calls_first", "thought"}] :
            /\ turn.order = "late" => turn.text /\ turn.reasoning
            /\ turn.order \in {"calls_first", "thought"} =>
                 ~asStored /\ turn.text /\ turn.calls > 0}

\* PublicItem.
PublicItem(item) == [item EXCEPT !.reasoning = Absent, !.turn = Absent]

TextItem(turn) ==
  IF ~turn.text THEN <<>>
  ELSE <<[MessageItem("assistant", Now) EXCEPT
            !.reasoning = IF turn.reasoning THEN Now ELSE Absent,
            !.turn = IF turn.calls > 0 THEN Now ELSE Absent,
            !.thought = (turn.order = "thought")]>>

\* The first call carries the reasoning.
CallItems(turn) ==
  [k \in 1 .. turn.calls |->
     [Blank EXCEPT !.type = "call", !.call = CallRef(Now, k, "call_id"), !.turn = Now,
        !.reasoning = IF turn.reasoning /\ k = 1 THEN Now ELSE Absent]]

OutputItems(turn) ==
  LET reasoning == IF turn.reasoning THEN <<Blank>> ELSE <<>>
  IN CASE turn.order = "usual" -> reasoning \o TextItem(turn) \o CallItems(turn)
       [] turn.order = "late" -> TextItem(turn) \o reasoning \o CallItems(turn)
       [] OTHER -> CallItems(turn) \o TextItem(turn)

\* The message the upstream sent, as far as the items can tell.
MessageOf(turn) ==
  IF ~turn.text /\ turn.calls = 0 THEN <<>>
  ELSE LET thought == turn.order = "thought"
       IN <<ChatMessage("assistant",
              IF turn.text /\ ~thought THEN <<Now>> ELSE <<>>,
              IF thought \/ (asStored /\ turn.reasoning) THEN <<Now>> ELSE <<>>,
              [k \in 1 .. turn.calls |-> CallRef(Now, k, "call_id")],
              NoCall)>>

\* A turn is regular if an input came before it and, where it has calls, reasoning
\* did not come after text.
Regular(turn) ==
  /\ items # <<>> =>
       items[Len(items)].type = "output" \/ items[Len(items)].role \notin {"", "assistant"}
  /\ ~(turn.order = "late" /\ turn.calls > 0)

TakeTurn(turn) ==
  /\ turns < MaxTurns /\ Now <= MaxSteps
  /\ LET new == OutputItems(turn)
     IN items' = items \o (IF asStored THEN new
                           ELSE [k \in 1 .. Len(new) |-> PublicItem(new[k])])
  /\ expected' = expected \o MessageOf(turn)
  /\ regular' = (regular /\ Regular(turn))
  /\ turns' = turns + 1
  /\ UNCHANGED <<asStored, inputs>>

TakeInput(role) ==
  /\ Now <= MaxSteps
  /\ items' = Append(items, MessageItem(role, Now))
  /\ expected' = expected \o
       (CASE role = "user" -> <<ChatMessage("user", <<Now>>, <<>>, <<>>, NoCall)>>
          [] role = "developer" -> <<ChatMessage("system", <<Now>>, <<>>, <<>>, NoCall)>>
          [] OTHER -> <<>>)
  /\ inputs' = inputs + 1
  /\ UNCHANGED <<asStored, turns, regular>>

Ask == \E role \in {"user", "developer", "critic"} : TakeInput(role)

\* NormalizeFunctionCallOutput: an output may name the call's item, if it is stored.
ResolveReference(ref) == IF asStored THEN [ref EXCEPT !.by = "call_id"] ELSE ref

CallsIn(list) ==
  Gathered(list, LAMBDA item : IF item.type = "call" THEN <<item.call>> ELSE <<>>)

AnsweredCalls(list) ==
  Gathered(list, LAMBDA item : IF item.type = "output" THEN <<item.call>> ELSE <<>>)

\* The client gives the output of a call that has none, in any order.
GiveOutput(call, by) ==
  /\ Now <= MaxSteps
  /\ call \notin ToSet(AnsweredCalls(items))
  /\ items' = Append(items, [Blank EXCEPT !.type = "output", !.text = Now,
                               !.call = ResolveReference([call EXCEPT !.by = by])])
  /\ expected' = Append(expected, ChatMessage("tool", <<Now>>, <<>>, <<>>, call))
  /\ inputs' = inputs + 1
  /\ UNCHANGED <<asStored, turns, regular>>

Output ==
  \E call \in ToSet(CallsIn(items)), by \in {"call_id", "id"} :
    (by = "id" => asStored) /\ GiveOutput(call, by)

RebuildInit ==
  /\ items = <<>> /\ asStored \in BOOLEAN /\ turns = 0 /\ inputs = 0
  /\ expected = <<>> /\ regular = TRUE

AllSaid == Now > MaxSteps /\ UNCHANGED rebuildVars

RebuildNext ==
  \/ \E turn \in Turns : TakeTurn(turn)
  \/ Ask \/ Output \/ AllSaid

RebuildSpec == RebuildInit /\ [][RebuildNext]_rebuildVars

------------------------------------------------------------------------------

Rebuilt == InputItemsToChatMessages(items)

\* Whatever items follow each other, every call and every output is in the messages
\* once and in the order of the items, and every text of a known role is in them
\* once.  (InputItemsToChatMessages, which skips over the items a message takes)
NothingIsLost ==
  LET messages == Rebuilt
      texts == Gathered(items, LAMBDA i :
                 IF i.type \in {"message", "output"} /\ i.role # "critic"
                 THEN <<i.text>> ELSE <<>>)
      said == Gathered(messages, LAMBDA m :
                IF asStored THEN m.content ELSE m.content \o m.reasoning)
  IN /\ Gathered(messages, LAMBDA m : m.calls) = CallsIn(items)
     /\ Gathered(messages, LAMBDA m : IF m.role = "tool" THEN <<m.answers>> ELSE <<>>)
          = AnsweredCalls(items)
     /\ Len(said) = Len(texts) /\ ToSet(said) = ToSet(texts)

\* From stored items, the calls of a turn stay in one message, even when turns follow
\* each other without an input; and a message that has calls of another turn as well
\* has a text, of neither: a text without calls takes all calls that follow it.
\* (SameKimiTurn)
CallsStayTogether ==
  asStored =>
    LET messages == Rebuilt
    IN \A j, k \in 1 .. Len(messages) :
         \A a \in ToSet(messages[j].calls), b \in ToSet(messages[k].calls) :
           /\ a.turn = b.turn => j = k
           /\ j = k /\ a.turn # b.turn =>
                messages[j].content # <<>> /\ a.turn \notin ToSet(messages[j].content)

\* When an input came between any two turns, and no reasoning after the text of a
\* turn with calls, the messages are the ones that were exchanged: each turn is one
\* message again, with its text, reasoning and calls, each output names its call.
\* (InputItemsToChatMessages against OutputItemsFromChatCompletion, streamResponse)
TurnsAreRebuilt == regular => Rebuilt = expected

=============================================================================
