----------------------------- MODULE ToolNames -----------------------------
(***************************************************************************)
(* The names under which a Responses request's tools are sent upstream:    *)
(* UniqueToolName of internal/adapters/openai/shared/shared.go and, in     *)
(* responses.go beside it, the tool map, tool_choice and allowed_tools.    *)
(* The upstream takes 64 letters, digits, "_" and "-" and no namespaces;   *)
(* what it calls must lead back to the tool the client defined.            *)
(*                                                                         *)
(* How a string is cut and hashed is not modelled: Candidates[raw] lists   *)
(* the names UniqueToolName tries for it, the sanitised name, the one with *)
(* a digest, the ones with a digest and a number.  The digest is weak, so  *)
(* names of different tools may coincide at any place of the lists.        *)
(***************************************************************************)
EXTENDS Naturals, Sequences, FiniteSets

CONSTANTS ToolDefinitions,      \* what clients define: type, name, namespace
          Raw,                  \* RawToolName: the namespace and the name, joined
          Safe,                 \* SafeToolName of the strings that are raw names
          Strings,              \* what an upstream name may be
          MaxTools              \* bound: tools of a request

RawNames == {Raw[tool] : tool \in ToolDefinitions}
Tries == Cardinality(RawNames)

\* Definitions of another type, or without a name, are dropped.
ASSUME ToolNamesAssumption ==
  /\ \A tool \in ToolDefinitions : tool.type \in {"function", "custom"} /\ tool.name # ""
  /\ IsFiniteSet(RawNames)
  /\ Safe \in [RawNames -> Strings]
  /\ MaxTools \in Nat

VARIABLES Candidates,           \* fixed by the strings
          tools,                \* what is sent: the upstream name of each definition
          used,                 \* upstream name -> raw name
          toolNameMap           \* upstream name -> definition

vars == <<Candidates, tools, used, toolNameMap>>

NoNamespace == ""

\* The names tried for one string differ: a digest is no number, and no two numbers
\* are the same.
CandidateLists(raw) ==
  {names \in [1 .. Tries -> Strings] :
     names[1] = Safe[raw] /\ \A i, j \in 1 .. Tries : names[i] = names[j] => i = j}

Init ==
  /\ Candidates \in {c \in [RawNames -> [1 .. Tries -> Strings]] :
                       \A raw \in RawNames : c[raw] \in CandidateLists(raw)}
  /\ tools = <<>> /\ used = <<>> /\ toolNameMap = <<>>

\* UniqueToolName takes the first name that no other string has.
Free(name, raw) == name \in DOMAIN used => used[name] = raw

UniqueToolNameOfTwo(raw) ==
  IF Free(Candidates[raw][1], raw) THEN Candidates[raw][1] ELSE Candidates[raw][2]

UniqueToolName(raw) ==
  LET n == CHOOSE k \in 1 .. Tries : /\ Free(Candidates[raw][k], raw)
                                     /\ \A j \in 1 .. (k - 1) : ~Free(Candidates[raw][j], raw)
  IN Candidates[raw][n]

Bind(map, key, value) ==
  [k \in DOMAIN map \cup {key} |-> IF k = key THEN value ELSE map[k]]

MappingWithoutNamespace(tool) == [tool EXCEPT !.namespace = NoNamespace]

Mapping(tool) == tool

\* NormalizeToolDefinition, for one tool of the request after the other.
NormalizeToolDefinition(tool) ==
  LET upstream == UniqueToolName(Raw[tool])
  IN /\ Len(tools) < MaxTools
     /\ used' = Bind(used, upstream, Raw[tool])
     /\ toolNameMap' = Bind(toolNameMap, upstream, Mapping(tool))
     /\ tools' = Append(tools, [definition |-> tool, name |-> upstream])
     /\ UNCHANGED Candidates

Normalized == Len(tools) = MaxTools /\ UNCHANGED vars

Next == Normalized \/ \E tool \in ToolDefinitions : NormalizeToolDefinition(tool)

Spec == Init /\ [][Next]_vars

------------------------------------------------------------------------------
(* Tool choice, once all tools are defined.                                *)

\* Parts that an entry of allowed_tools may leave out; a choice has type and name.
AnyType == ""
AnyName == ""

\* A choice or an entry fits a mapping by either name; what it leaves out fits any.
FitsAnyNamespace(wanted, upstream) ==
  LET mapping == toolNameMap[upstream]
  IN /\ wanted.name \in {AnyName, mapping.name, upstream}
     /\ wanted.type \in {AnyType, mapping.type}

Fits(wanted, upstream) ==
  LET mapping == toolNameMap[upstream]
  IN /\ wanted.name \in {AnyName, mapping.name, upstream}
     /\ wanted.namespace \in {NoNamespace, mapping.namespace}
     /\ wanted.type \in {AnyType, mapping.type}
     /\ wanted.name # AnyName \/ wanted.namespace # NoNamespace

Fitting(wanted) == {upstream \in DOMAIN toolNameMap : Fits(wanted, upstream)}

\* mappedToolNameForChoice: the first that fits of a map, whose order is not defined;
\* without one, the name the tool would have.
MappedToolNames(wanted) ==
  IF Fitting(wanted) # {} THEN Fitting(wanted) ELSE {Safe[Raw[wanted]]}

\* An entry may also be a string: either name, or the joined one.
Text(string) == [type |-> "text", name |-> string, namespace |-> NoNamespace]

AllowedEntryMatches(entry, upstream) ==
  LET mapping == toolNameMap[upstream]
  IN IF entry.type = "text"
     THEN entry.name \in {mapping.name, upstream, Raw[mapping]}
     ELSE Fits(entry, upstream)

MatchedNames(entries) ==
  {upstream \in DOMAIN toolNameMap :
     \E entry \in entries : AllowedEntryMatches(entry, upstream)}

\* The places of the tools that are kept; entries that fit no tool allow all.
FilterToolsForAllowedChoice(entries) ==
  IF MatchedNames(entries) = {} THEN 1 .. Len(tools)
  ELSE {k \in 1 .. Len(tools) : tools[k].name \in MatchedNames(entries)}

------------------------------------------------------------------------------

Defined == {tools[k].definition : k \in 1 .. Len(tools)}
NameOf(tool) ==
  LET k == CHOOSE i \in 1 .. Len(tools) : tools[i].definition = tool IN tools[k].name

\* Two tools have one upstream name only if they are one string to begin with, and
\* a string has one name, however the candidates collide.  (UniqueToolName)
NamesAreUnique ==
  \A j, k \in 1 .. Len(tools) :
    tools[j].name = tools[k].name <=> Raw[tools[j].definition] = Raw[tools[k].definition]

\* A definition whose joined name no other has.
Distinguished(tool) == \A other \in Defined : Raw[other] = Raw[tool] => other = tool

\* When the upstream calls a tool by its name, the client gets its own name, type
\* and namespace back, unless another definition joins to the same string.
\* (toolNameMap)
CallsMapBack ==
  \A tool \in Defined : Distinguished(tool) => toolNameMap[NameOf(tool)] = tool

\* No other tool of its type and namespace, of any namespace if it has none, answers
\* to the name it has, by its own name or by the one it is sent under.
Unambiguous(tool) ==
  /\ Distinguished(tool)
  /\ \A other \in Defined \ {tool} :
       /\ other.type = tool.type
       /\ tool.namespace \in {NoNamespace, other.namespace}
       => tool.name \notin {other.name, NameOf(other)}

\* The definitions that are sent if these entries are allowed.
SentFor(entries) == {tools[k].definition : k \in FilterToolsForAllowedChoice(entries)}

\* A choice that names an unambiguous tool as it was defined gets this tool, whatever
\* order the map is searched in.  Of the tools that allowed_tools names, one by one, by
\* their namespace or by their joined name, each is sent, and no other if they are
\* unambiguous.  (mappedToolNameForChoice, FilterToolsForAllowedChoice)
ChoicesFindTheirTools ==
  /\ \A tool \in Defined : Unambiguous(tool) => MappedToolNames(tool) = {NameOf(tool)}
  /\ \A allowed \in (SUBSET Defined) \ {{}} :
       LET sent == SentFor(allowed)
       IN /\ {tool \in allowed : Distinguished(tool)} \subseteq sent
          /\ (\A tool \in allowed : Unambiguous(tool)) => sent = allowed
  /\ \A namespace \in {tool.namespace : tool \in Defined} \ {NoNamespace} :
       LET members == {tool \in Defined : tool.namespace = namespace}
       IN (\A tool \in members : Distinguished(tool)) =>
            SentFor({[type |-> AnyType, name |-> AnyName, namespace |-> namespace]}) = members
  /\ \A tool \in Defined : Distinguished(tool) =>
       LET sent == SentFor({Text(Raw[tool])})
       IN /\ tool \in sent
          /\ (\A other \in Defined \ {tool} : Raw[tool] \notin {other.name, NameOf(other)})
               => sent = {tool}

=============================================================================
