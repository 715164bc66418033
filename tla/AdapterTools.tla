---------------------------- MODULE AdapterTools ----------------------------
(***************************************************************************)
(* The tools of a request to the other three endpoints: NormalizeTools and *)
(* NormalizeToolChoice of internal/adapters/openai/chat/chat.go,           *)
(* anthropic/messages/messages.go and gemini/generate/generate.go, and the *)
(* filters for allowed tools.  They keep no map of names: a tool is known  *)
(* upstream by its sanitised name, which other tools may share, and a      *)
(* choice finds its tool because it is sanitised too.                      *)
(*                                                                         *)
(* A request's tools are those of ToolNames, none of which has a namespace *)
(* here, in the order in which they were defined.  Entries without a name  *)
(* or of another type are dropped by the code and left out; so are schemas.*)
(***************************************************************************)
EXTENDS ToolNames, Functions

\* What the client defines.
Definitions == [k \in 1 .. Len(tools) |-> tools[k].definition]

Forced(name) == [type |-> "function", name |-> name]
Mode(mode) == [type |-> mode, name |-> ""]
NoChoice == Mode("")
IsMode(choice, modes) == choice.kind = "mode" /\ choice.mode \in modes
IsAllowed(choice) == choice.kind = "allowed"

\* The names sent, each at the place of its tool: one that is dropped leaves a gap.
Names(list) == [k \in DOMAIN list |-> Safe[list[k].name]]
WithNames(sent, names) == Restrict(sent, {k \in DOMAIN sent : sent[k] \in names})

------------------------------------------------------------------------------
(* Chat Completions: the first definitions are given as tools, the others  *)
(* as the functions of older clients.                                      *)

IsFunction(tool) == tool.type = "function"
FunctionsAfter(list, given) == \A k \in given + 1 .. Len(list) : IsFunction(list[k])

\* A function gives way to a tool, or to a function before it, of its name; tools
\* are not compared.
NormalizeTools(list, given) ==
  LET names == Names(list)
  IN Restrict(names, {k \in DOMAIN list :
                        k > given => \A j \in 1 .. (k - 1) : names[j] # names[k]})

\* allowed_tools whose entries name no tool allow all.
FilterAllowedTools(sent, allowed) ==
  IF allowed = {} THEN sent ELSE WithNames(sent, {Safe[tool.name] : tool \in allowed})

\* A choice has a mode, names a tool, or allows some.
ToolChoice(choice) ==
  CASE IsMode(choice, {"none", "auto", "required"}) -> Mode(choice.mode)
    [] choice.kind = "tool" -> Forced(Safe[choice.tool.name])
    [] IsAllowed(choice) /\ choice.mode \in {"auto", "required"} -> Mode(choice.mode)
    [] OTHER -> NoChoice

FunctionCall(call) ==
  CASE IsMode(call, {"none", "auto"}) -> Mode(call.mode)
    [] call.kind = "tool" -> Forced(Safe[call.tool.name])
    [] OTHER -> NoChoice

\* function_call is looked at if tool_choice says nothing.
NormalizeToolChoice(toolChoice, functionCall) ==
  IF ToolChoice(toolChoice) # NoChoice THEN ToolChoice(toolChoice)
                                       ELSE FunctionCall(functionCall)

Chat(list, given, toolChoice, functionCall) ==
  LET sent == NormalizeTools(list, given)
  IN [tools |-> IF IsAllowed(toolChoice)
                THEN FilterAllowedTools(sent, toolChoice.tools) ELSE sent,
      choice |-> NormalizeToolChoice(toolChoice, functionCall)]

------------------------------------------------------------------------------
(* Anthropic Messages and Gemini Generate Content.                         *)

AnthropicToolChoice(choice) ==
  CASE choice.kind = "tool" -> Forced(Safe[choice.tool.name])
    [] IsMode(choice, {"auto", "none"}) -> Mode(choice.mode)
    [] IsMode(choice, {"any"}) -> Mode("required")
    [] OTHER -> NoChoice

Anthropic(list, choice) == [tools |-> Names(list), choice |-> AnthropicToolChoice(choice)]

\* ANY with one allowed name forces it; names that sanitise to one are one.
AllowedAsGiven(allowed) == {tool.name : tool \in allowed}

AllowedNames(allowed) == {Safe[tool.name] : tool \in allowed}

GeminiToolChoice(mode, names) ==
  CASE mode = "NONE" -> Mode("none")
    [] mode = "ANY" /\ Cardinality(names) = 1 -> Forced(CHOOSE name \in names : TRUE)
    [] mode = "ANY" /\ Cardinality(names) # 1 -> Mode("required")
    [] mode \in {"AUTO", "VALIDATED", ""} -> Mode("auto")
    [] OTHER -> NoChoice

GeminiContent(list, mode, allowed) ==
  LET names == AllowedNames(allowed)
  IN [tools |-> IF names = {} THEN Names(list) ELSE WithNames(Names(list), names),
      choice |-> GeminiToolChoice(mode, names)]

------------------------------------------------------------------------------

Nothing == [kind |-> "nothing"]
Choose(tool) == [kind |-> "tool", tool |-> tool]
Allow(mode, allowed) == [kind |-> "allowed", mode |-> mode, tools |-> allowed]

\* No other definition has the tool's sanitised name.
Alone(tool) ==
  \A other \in Range(Definitions) \ {tool} : Safe[other.name] # Safe[tool.name]

Places(name, sent) == {k \in DOMAIN sent : sent[k] = name}
Times(tool) == Cardinality(Places(tool, Definitions))

\* The tool is sent, and the upstream must call it and can take no other for it.
ForcesTool(request, tool) ==
  /\ request.choice = Forced(Safe[tool.name])
  /\ Places(Safe[tool.name], request.tools) # {}
  /\ Alone(tool) =>
       Cardinality(Places(Safe[tool.name], request.tools)) \in 1 .. Times(tool)

\* What is sent are the tools of the allowed names, and some if a call is required.
SendsAllowed(request, allowed) ==
  /\ Range(request.tools) = {Safe[tool.name] : tool \in allowed}
  /\ request.choice \in {Mode("required")} \cup {Forced(name) : name \in Range(request.tools)}

\* A function that has no tool of its name beside it is sent once.
SentOnce(list, given, tool) ==
  (\A k \in 1 .. given : Safe[list[k].name] # Safe[tool.name]) =>
    Cardinality(Places(Safe[tool.name], NormalizeTools(list, given))) = 1

\* Whichever of the three endpoints a client talks to, a tool that it defines and
\* forces, in any way the endpoint has for that, is sent and forced under the name it
\* is sent under; of the tools it defines and allows each is sent, and no other but
\* for its sanitised name.  Of the functions of an older client, some beside tools of
\* their names, each is sent once.  (NormalizeToolChoice against NormalizeTools,
\* filterAllowedTools, filterTools)
ChoicesAreSent ==
  LET list == Definitions
      splits == {given \in 0 .. Len(list) : FunctionsAfter(list, given)}
  IN (\A k \in DOMAIN list : list[k].namespace = NoNamespace) =>
       /\ \A tool \in Range(list) :
            /\ ForcesTool(Anthropic(list, Choose(tool)), tool)
            /\ ForcesTool(GeminiContent(list, "ANY", {tool}), tool)
            /\ \A given \in splits :
                 /\ ForcesTool(Chat(list, given, Choose(tool), Nothing), tool)
                 /\ ForcesTool(Chat(list, given, Nothing, Choose(tool)), tool)
                 /\ SentOnce(list, given, tool)
       /\ \A allowed \in (SUBSET Range(list)) \ {{}} :
            /\ SendsAllowed(GeminiContent(list, "ANY", allowed), allowed)
            /\ \A given \in splits :
                 SendsAllowed(Chat(list, given, Allow("required", allowed), Nothing), allowed)

=============================================================================
