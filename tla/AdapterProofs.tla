--------------------------- MODULE AdapterProofs ---------------------------
(***************************************************************************)
(* Proofs about the translations of the adapters: the names under which    *)
(* tools are sent upstream, the blocks of the Anthropic and the Gemini     *)
(* adapter, and the items of the Responses adapter.  They share the lemmas *)
(* about lists and nothing else.                                           *)
(***************************************************************************)
EXTENDS AdapterTools, BlockTurns, TurnRebuild, ListProofs

------------------------------------------------------------------------------
(* Names of tools: the inductive invariant.                                *)

\* The candidate UniqueToolName takes.
FirstFree(raw, n) ==
  /\ n \in 1 .. Tries /\ Free(Candidates[raw][n], raw)
  /\ \A j \in 1 .. (n - 1) : ~Free(Candidates[raw][j], raw)

Definition == [definition : ToolDefinitions, name : Strings]

TypeOK ==
  /\ Candidates \in [RawNames -> [1 .. Tries -> Strings]]
  /\ \A raw \in RawNames : Candidates[raw] \in CandidateLists(raw)
  /\ tools \in Seq(Definition)

\* What UniqueToolName would give a tool again: the names before its own are still
\* those of other strings.
Settled(name, raw) ==
  /\ name \in DOMAIN used /\ used[name] = raw
  /\ \E n \in 1 .. Tries : FirstFree(raw, n) /\ name = Candidates[raw][n]

NamesInv == \A k \in 1 .. Len(tools) : Settled(tools[k].name, Raw[tools[k].definition])

\* A name stands for one of the tools that are sent under it.
MapInv ==
  /\ DOMAIN toolNameMap = DOMAIN used
  /\ \A upstream \in DOMAIN used :
       \E k \in 1 .. Len(tools) : /\ tools[k].name = upstream
                                  /\ tools[k].definition = toolNameMap[upstream]

IInv == TypeOK /\ NamesInv /\ MapInv

LEMMA ToolFields ==
  ASSUME TypeOK, NEW k \in 1 .. Len(tools)
  PROVE  /\ tools[k].definition \in ToolDefinitions /\ tools[k].name \in Strings
         /\ Raw[tools[k].definition] \in RawNames
PROOF
<1>1. tools[k] \in Definition
  BY ElementOfSeq DEF TypeOK
<1> QED BY <1>1 DEF Definition, RawNames

------------------------------------------------------------------------------
(* UniqueToolName.                                                         *)

\* A string has one name.
LEMMA OneName ==
  ASSUME IInv, NEW j \in 1 .. Len(tools), NEW k \in 1 .. Len(tools),
         Raw[tools[j].definition] = Raw[tools[k].definition]
  PROVE  tools[j].name = tools[k].name
PROOF
<1> DEFINE raw == Raw[tools[k].definition]
<1>1. PICK m \in 1 .. Tries : FirstFree(raw, m) /\ tools[j].name = Candidates[raw][m]
  BY DEF IInv, NamesInv, Settled
<1>2. PICK n \in 1 .. Tries : FirstFree(raw, n) /\ tools[k].name = Candidates[raw][n]
  BY DEF IInv, NamesInv, Settled
<1> HIDE DEF raw
<1>3. ~(m < n) /\ ~(n < m)
  BY <1>1, <1>2 DEF FirstFree
<1>4. m = n
  BY <1>3
<1> QED BY <1>1, <1>2, <1>4

LEMMA NumbersUpTo ==
  ASSUME NEW n \in Nat
  PROVE  IsFiniteSet(1 .. n) /\ Cardinality(1 .. n) = n
PROOF
<1>1. /\ IsFiniteSet(1 .. n)
      /\ Cardinality(1 .. n) = IF 1 > n THEN 0 ELSE n - 1 + 1
  BY FS_Interval
<1>2. (IF 1 > n THEN 0 ELSE n - 1 + 1) = n
  OBVIOUS
<1> QED BY <1>1, <1>2

\* A string has more candidates than there are other strings, and each of them takes
\* one name at most: one is left.
LEMMA SomeFree ==
  ASSUME IInv, NEW raw \in RawNames
  PROVE  \E n \in 1 .. Tries : Free(Candidates[raw][n], raw)
PROOF
<1> SUFFICES ASSUME \A n \in 1 .. Tries : ~Free(Candidates[raw][n], raw)
             PROVE  FALSE
  OBVIOUS
<1> DEFINE others == RawNames \ {raw}
           Taker == [n \in 1 .. Tries |-> used[Candidates[raw][n]]]
<1>1. IsFiniteSet(RawNames) /\ Tries \in Nat /\ Tries = Cardinality(RawNames)
  BY ToolNamesAssumption, FS_CardinalityType DEF Tries
<1>2. IsFiniteSet(others) /\ Cardinality(others) = Tries - 1
  BY <1>1, FS_RemoveElement
<1>3. IsFiniteSet(1 .. Tries) /\ Cardinality(1 .. Tries) = Tries
  BY <1>1, NumbersUpTo
<1>4. ASSUME NEW n \in 1 .. Tries
      PROVE  \E k \in 1 .. Len(tools) : /\ tools[k].name = Candidates[raw][n]
                                        /\ Raw[tools[k].definition] = Taker[n]
                                        /\ Taker[n] \in others
  <2>1. Candidates[raw][n] \in DOMAIN used /\ used[Candidates[raw][n]] # raw
    BY DEF Free
  <2>2. PICK k \in 1 .. Len(tools) : tools[k].name = Candidates[raw][n]
    BY <2>1 DEF IInv, MapInv
  <2>3. Raw[tools[k].definition] = Taker[n]
    BY <2>2 DEF IInv, NamesInv, Settled
  <2>4. Raw[tools[k].definition] \in RawNames
    BY ToolFields DEF IInv
  <2> QED BY <2>1, <2>2, <2>3, <2>4
<1>5. Taker \in [1 .. Tries -> others]
  BY <1>4
<1> HIDE DEF others, Taker
<1>6. PICK m, n \in 1 .. Tries : m # n /\ Taker[m] = Taker[n]
  <2>1. Cardinality(others) < Cardinality(1 .. Tries)
    BY <1>1, <1>2, <1>3
  <2> QED BY <1>2, <1>3, <1>5, <2>1, FS_PigeonHole, Zenon
<1>7. Candidates[raw][m] = Candidates[raw][n]
  <2>1. PICK j \in 1 .. Len(tools) : /\ tools[j].name = Candidates[raw][m]
                                     /\ Raw[tools[j].definition] = Taker[m]
    BY <1>4
  <2>2. PICK k \in 1 .. Len(tools) : /\ tools[k].name = Candidates[raw][n]
                                     /\ Raw[tools[k].definition] = Taker[n]
    BY <1>4
  <2> QED BY <1>6, <2>1, <2>2, OneName
<1> QED BY <1>6, <1>7 DEF IInv, TypeOK, CandidateLists

LEMMA UniqueToolNameIsFirstFree ==
  ASSUME IInv, NEW raw \in RawNames
  PROVE  \E n \in 1 .. Tries :
           /\ FirstFree(raw, n)
           /\ UniqueToolName(raw) = Candidates[raw][n] /\ UniqueToolName(raw) \in Strings
PROOF
<1> DEFINE free == {n \in 1 .. Tries : Free(Candidates[raw][n], raw)}
<1>1. free \subseteq Nat /\ free # {}
  BY SomeFree
<1>2. PICK least \in free : \A m \in free : least <= m
  BY <1>1, LeastNumber
<1>3. /\ least \in 1 .. Tries /\ Free(Candidates[raw][least], raw)
      /\ \A j \in 1 .. (least - 1) : ~Free(Candidates[raw][j], raw)
  <2>1. least \in 1 .. Tries /\ Free(Candidates[raw][least], raw)
    OBVIOUS
  <2>2. ASSUME NEW j \in 1 .. (least - 1), Free(Candidates[raw][j], raw) PROVE FALSE
    <3>1. j \in 1 .. Tries /\ ~(least <= j)
      <4>1. Tries \in Nat
        BY FS_CardinalityType, ToolNamesAssumption DEF Tries
      <4> QED BY <2>1, <4>1
    <3>2. j \in free
      BY <2>2, <3>1
    <3> QED BY <1>2, <3>1, <3>2
  <2> QED BY <2>1, <2>2
<1> DEFINE n == CHOOSE k \in 1 .. Tries :
                  /\ Free(Candidates[raw][k], raw)
                  /\ \A j \in 1 .. (k - 1) : ~Free(Candidates[raw][j], raw)
<1>4. /\ n \in 1 .. Tries /\ Free(Candidates[raw][n], raw)
      /\ \A j \in 1 .. (n - 1) : ~Free(Candidates[raw][j], raw)
  BY <1>3, Zenon
<1>5. UniqueToolName(raw) = Candidates[raw][n]
  BY Zenon DEF UniqueToolName
<1> HIDE DEF n
<1>6. Candidates[raw][n] \in Strings
  BY <1>4 DEF IInv, TypeOK
<1> QED BY <1>4, <1>5, <1>6 DEF FirstFree

------------------------------------------------------------------------------
(* The steps.                                                              *)

LEMMA InitIInv == Init => IInv
PROOF
<1> SUFFICES ASSUME Init PROVE IInv
  OBVIOUS
<1>1. tools = <<>> /\ tools \in Seq(Definition) /\ Len(tools) = 0
  BY EmptySeq DEF Init
<1>2. DOMAIN used = {} /\ DOMAIN toolNameMap = {}
  BY DEF Init
<1>3. TypeOK
  BY <1>1 DEF Init, TypeOK
<1> QED BY <1>1, <1>2, <1>3 DEF IInv, NamesInv, MapInv

LEMMA NormalizeIInv ==
  ASSUME IInv, NEW tool \in ToolDefinitions, NormalizeToolDefinition(tool)
  PROVE  IInv'
PROOF
<1> DEFINE raw == Raw[tool]
           upstream == UniqueToolName(Raw[tool])
           entry == [definition |-> tool, name |-> upstream]
<1>1. raw \in RawNames
  BY DEF RawNames
<1>2. PICK n \in 1 .. Tries : /\ FirstFree(raw, n) /\ upstream = Candidates[raw][n]
                              /\ upstream \in Strings
  BY <1>1, UniqueToolNameIsFirstFree
<1>3. /\ used' = Bind(used, upstream, raw) /\ tools' = Append(tools, entry)
      /\ toolNameMap' = Bind(toolNameMap, upstream, tool) /\ Candidates' = Candidates
  BY DEF NormalizeToolDefinition, Mapping
<1>4. entry \in Definition /\ entry.definition = tool /\ entry.name = upstream
  BY <1>2 DEF Definition
<1> HIDE DEF raw, upstream, entry
<1>5. /\ tools' \in Seq(Definition) /\ Len(tools') = Len(tools) + 1 /\ Len(tools) \in Nat
      /\ tools'[Len(tools) + 1] = entry
      /\ \A k \in 1 .. Len(tools) : tools'[k] = tools[k]
  BY <1>3, <1>4, AppendProperties, LenProperties DEF IInv, TypeOK
<1>6. /\ DOMAIN used' = DOMAIN used \cup {upstream} /\ used'[upstream] = raw
      /\ \A name \in DOMAIN used : used'[name] = used[name]
  <2>1. upstream \in DOMAIN used => used[upstream] = raw
    BY <1>2 DEF FirstFree, Free
  <2> QED BY <1>3, <2>1 DEF Bind
<1>7. /\ DOMAIN toolNameMap' = DOMAIN used'
      /\ toolNameMap'[upstream] = tool
      /\ \A name \in DOMAIN used' \ {upstream} : toolNameMap'[name] = toolNameMap[name]
  BY <1>3, <1>6 DEF Bind, IInv, MapInv
<1>8. ASSUME NEW r \in RawNames, NEW m \in 1 .. Tries, FirstFree(r, m),
             Candidates[r][m] \in DOMAIN used', used'[Candidates[r][m]] = r
      PROVE  FirstFree(r, m)'
  <2>1. Free(Candidates[r][m], r)'
    BY <1>3, <1>8 DEF Free
  <2>2. ASSUME NEW j \in 1 .. (m - 1) PROVE ~Free(Candidates[r][j], r)'
    <3>1. ~Free(Candidates[r][j], r)
      BY <1>8 DEF FirstFree
    <3> QED BY <1>3, <1>6, <3>1 DEF Free
  <2> QED BY <2>1, <2>2 DEF FirstFree
<1>9. TypeOK'
  <2>1. \A r \in RawNames : Candidates'[r] \in CandidateLists(r)
    BY <1>3 DEF IInv, TypeOK
  <2>2. Candidates' \in [RawNames -> [1 .. Tries -> Strings]]
    BY <1>3 DEF IInv, TypeOK
  <2> QED BY <1>5, <2>1, <2>2 DEF TypeOK
<1>10. NamesInv'
  <2>1. ASSUME NEW k \in 1 .. Len(tools'), NEW name, NEW r,
               name = tools'[k].name, r = Raw[tools'[k].definition]
        PROVE  Settled(name, r)'
    <3>1. CASE k = Len(tools) + 1
      <4>1. name = upstream /\ r = raw
        BY <1>4, <1>5, <2>1, <3>1 DEF raw
      <4>2. FirstFree(raw, n)'
        BY <1>1, <1>2, <1>6, <1>8
      <4> QED BY <1>2, <1>3, <1>6, <4>1, <4>2 DEF Settled
    <3>2. CASE k \in 1 .. Len(tools)
      <4>1. name = tools[k].name /\ r = Raw[tools[k].definition] /\ r \in RawNames
        BY <1>5, <2>1, <3>2, ToolFields DEF IInv
      <4>2. name \in DOMAIN used /\ used[name] = r
        BY <3>2, <4>1 DEF IInv, NamesInv, Settled
      <4>3. PICK m \in 1 .. Tries : FirstFree(r, m) /\ name = Candidates[r][m]
        BY <3>2, <4>1 DEF IInv, NamesInv, Settled
      <4>4. FirstFree(r, m)'
        BY <1>6, <1>8, <4>1, <4>2, <4>3
      <4> QED BY <1>3, <1>6, <4>2, <4>3, <4>4 DEF Settled
    <3> QED BY <1>5, <3>1, <3>2
  <2> QED BY <2>1 DEF NamesInv
<1>11. MapInv'
  <2> SUFFICES ASSUME NEW name \in DOMAIN used'
      PROVE \E k \in 1 .. Len(tools') : /\ tools'[k].name = name
                                        /\ tools'[k].definition = toolNameMap'[name]
    BY <1>7 DEF MapInv
  <2>1. CASE name = upstream
    <3>1. Len(tools) + 1 \in 1 .. Len(tools')
      BY <1>5
    <3> QED BY <1>4, <1>5, <1>7, <2>1, <3>1
  <2>2. CASE name # upstream
    <3>1. name \in DOMAIN used
      BY <1>6, <2>2
    <3>2. PICK k \in 1 .. Len(tools) : /\ tools[k].name = name
                                       /\ tools[k].definition = toolNameMap[name]
      BY <3>1 DEF IInv, MapInv
    <3>3. k \in 1 .. Len(tools') /\ tools'[k] = tools[k]
      BY <1>5
    <3> QED BY <1>7, <2>2, <3>2, <3>3
  <2> QED BY <2>1, <2>2
<1> QED BY <1>9, <1>10, <1>11 DEF IInv

\* The invariant of the tools of a request.  (NormalizeToolsForKimi)
THEOREM ToolNamesInvariant == Spec => []IInv
PROOF
<1>1. Init => IInv
  BY InitIInv
<1>2. IInv /\ [Next]_vars => IInv'
  <2> SUFFICES ASSUME IInv, [Next]_vars PROVE IInv'
    OBVIOUS
  <2>1. CASE \E tool \in ToolDefinitions : NormalizeToolDefinition(tool)
    BY <2>1, NormalizeIInv
  <2>2. CASE UNCHANGED vars
    <3>1. UNCHANGED <<Candidates, tools, used, toolNameMap>>
      BY <2>2 DEF vars
    <3>2. TypeOK' /\ MapInv'
      BY <3>1 DEF IInv, TypeOK, MapInv
    <3>3. \A raw, n : FirstFree(raw, n)' = FirstFree(raw, n)
      BY <3>1 DEF FirstFree, Free
    <3>4. NamesInv'
      BY <3>1, <3>3 DEF IInv, NamesInv, Settled
    <3> QED BY <3>2, <3>4 DEF IInv
  <2> QED BY <2>1, <2>2 DEF Next, Normalized
<1> QED BY <1>1, <1>2, PTL DEF Spec
------------------------------------------------------------------------------
(* Names and calls.                                                        *)

LEMMA SameName ==
  ASSUME IInv, NEW j \in 1 .. Len(tools), NEW k \in 1 .. Len(tools)
  PROVE  tools[j].name = tools[k].name <=> Raw[tools[j].definition] = Raw[tools[k].definition]
PROOF
<1>1. tools[j].name = tools[k].name => Raw[tools[j].definition] = Raw[tools[k].definition]
  BY DEF IInv, NamesInv, Settled
<1> QED BY <1>1, OneName

\* The name of a defined tool is one it is sent under.
LEMMA NameOfDefined ==
  ASSUME IInv, NEW tool \in Defined
  PROVE  /\ \E k \in 1 .. Len(tools) :
              tools[k].definition = tool /\ tools[k].name = NameOf(tool)
         /\ NameOf(tool) \in DOMAIN used /\ tool \in ToolDefinitions
PROOF
<1> DEFINE place == CHOOSE i \in 1 .. Len(tools) : tools[i].definition = tool
<1>1. PICK i \in 1 .. Len(tools) : tools[i].definition = tool
  BY DEF Defined
<1>2. place \in 1 .. Len(tools) /\ tools[place].definition = tool
  BY <1>1, Zenon
<1>3. NameOf(tool) = tools[place].name
  BY Zenon DEF NameOf
<1> HIDE DEF place
<1>4. tools[place].name \in DOMAIN used /\ tool \in ToolDefinitions
  BY <1>2, ToolFields DEF IInv, NamesInv, Settled
<1> QED BY <1>2, <1>3, <1>4

\* What a name leads back to is defined, and has the string of whatever has the name.
LEMMA MappedIsDefined ==
  ASSUME IInv, NEW upstream \in DOMAIN used
  PROVE  /\ toolNameMap[upstream] \in Defined
         /\ NameOf(toolNameMap[upstream]) = upstream
         /\ \A k \in 1 .. Len(tools) : tools[k].name = upstream =>
              Raw[tools[k].definition] = Raw[toolNameMap[upstream]]
PROOF
<1>1. PICK k \in 1 .. Len(tools) : /\ tools[k].name = upstream
                                   /\ tools[k].definition = toolNameMap[upstream]
  BY DEF IInv, MapInv
<1>2. toolNameMap[upstream] \in Defined
  BY <1>1 DEF Defined
<1>3. PICK j \in 1 .. Len(tools) : /\ tools[j].definition = toolNameMap[upstream]
                                   /\ tools[j].name = NameOf(toolNameMap[upstream])
  BY <1>2, NameOfDefined
<1>4. tools[j].name = tools[k].name
  BY <1>1, <1>3, SameName
<1> QED BY <1>1, <1>2, <1>3, <1>4, SameName

LEMMA DistinguishedMapsBack ==
  ASSUME IInv, NEW tool \in Defined, Distinguished(tool)
  PROVE  toolNameMap[NameOf(tool)] = tool
PROOF
<1>1. PICK k \in 1 .. Len(tools) : tools[k].definition = tool /\ tools[k].name = NameOf(tool)
  BY NameOfDefined
<1>2. /\ toolNameMap[NameOf(tool)] \in Defined
      /\ Raw[tools[k].definition] = Raw[toolNameMap[NameOf(tool)]]
  BY <1>1, NameOfDefined, MappedIsDefined
<1> QED BY <1>1, <1>2 DEF Distinguished

\* Any number of tools, whatever their strings are cut and hashed to, get one name for
\* each string: the loop of UniqueToolName always finds one.
THEOREM ToolNamesAreUnique == Spec => []NamesAreUnique
PROOF
<1>1. IInv => NamesAreUnique
  BY SameName DEF NamesAreUnique
<1> QED BY <1>1, ToolNamesInvariant, PTL

\* A call of a tool that shares its string with no other is a call of this tool.
\* (toolNameMap)
THEOREM ToolCallsMapBack == Spec => []CallsMapBack
PROOF
<1>1. IInv => CallsMapBack
  BY DistinguishedMapsBack DEF CallsMapBack
<1> QED BY <1>1, ToolNamesInvariant, PTL

------------------------------------------------------------------------------
(* Tool choice.                                                            *)

\* A tool as it was defined fits its own name.
LEMMA FitsOwnName ==
  ASSUME IInv, NEW tool \in Defined, Distinguished(tool)
  PROVE  Fits(tool, NameOf(tool))
PROOF
<1>1. toolNameMap[NameOf(tool)] = tool
  BY DistinguishedMapsBack
<1>2. tool.name # ""
  BY NameOfDefined, ToolNamesAssumption
<1> QED BY <1>1, <1>2 DEF Fits, AnyName

LEMMA FitsNoOther ==
  ASSUME IInv, NEW tool \in Defined, Unambiguous(tool), NEW upstream \in DOMAIN used,
         Fits(tool, upstream)
  PROVE  upstream = NameOf(tool)
PROOF
<1> DEFINE other == toolNameMap[upstream]
<1>1. other \in Defined /\ NameOf(other) = upstream
  BY MappedIsDefined
<1>2. tool.name # "" /\ tool.type # ""
  BY NameOfDefined, ToolNamesAssumption
<1>3. /\ tool.name \in {other.name, upstream} /\ tool.type = other.type
      /\ tool.namespace \in {NoNamespace, other.namespace}
  BY <1>2 DEF Fits, AnyName, AnyType
<1> HIDE DEF other
<1>4. other = tool
  BY <1>1, <1>3 DEF Unambiguous
<1> QED BY <1>1, <1>4

\* The tools that are sent if some entry matches.
LEMMA SentForMatched ==
  ASSUME IInv, NEW entries, MatchedNames(entries) # {}
  PROVE  SentFor(entries) =
           {tools[k].definition : k \in {i \in 1 .. Len(tools) :
                                           tools[i].name \in MatchedNames(entries)}}
PROOF BY DEF SentFor, FilterToolsForAllowedChoice

LEMMA MatchedNameOf ==
  ASSUME IInv, NEW entries, NEW tool \in Defined, NameOf(tool) \in MatchedNames(entries)
  PROVE  tool \in SentFor(entries)
PROOF
<1>1. PICK k \in 1 .. Len(tools) : tools[k].definition = tool /\ tools[k].name = NameOf(tool)
  BY NameOfDefined
<1> QED BY <1>1, SentForMatched

\* A tool that is sent has the string of one that a matched name stands for.
LEMMA SentIsMatched ==
  ASSUME IInv, NEW entries, MatchedNames(entries) # {}, NEW tool \in SentFor(entries)
  PROVE  /\ tool \in Defined
         /\ \E upstream \in MatchedNames(entries) :
              /\ upstream \in DOMAIN used /\ toolNameMap[upstream] \in Defined
              /\ Raw[tool] = Raw[toolNameMap[upstream]]
PROOF
<1>1. PICK k \in 1 .. Len(tools) : /\ tools[k].name \in MatchedNames(entries)
                                   /\ tools[k].definition = tool
  BY SentForMatched
<1>2. tools[k].name \in DOMAIN used
  BY DEF IInv, NamesInv, Settled
<1> QED BY <1>1, <1>2, MappedIsDefined DEF Defined

\* An entry that is a definition matches as it fits.
LEMMA DefinitionMatches ==
  ASSUME IInv, NEW tool \in Defined, NEW upstream
  PROVE  AllowedEntryMatches(tool, upstream) <=> Fits(tool, upstream)
PROOF
<1>1. tool.type # "text"
  BY NameOfDefined, ToolNamesAssumption
<1> QED BY <1>1 DEF AllowedEntryMatches

LEMMA ChoiceFindsTool ==
  ASSUME IInv, NEW tool \in Defined, Unambiguous(tool)
  PROVE  MappedToolNames(tool) = {NameOf(tool)}
PROOF
<1>1. DOMAIN toolNameMap = DOMAIN used /\ NameOf(tool) \in DOMAIN used
  BY NameOfDefined DEF IInv, MapInv
<1>2. Fits(tool, NameOf(tool))
  BY FitsOwnName DEF Unambiguous
<1>3. \A upstream \in DOMAIN used : Fits(tool, upstream) => upstream = NameOf(tool)
  BY FitsNoOther
<1>4. Fitting(tool) = {NameOf(tool)}
  BY <1>1, <1>2, <1>3 DEF Fitting
<1> QED BY <1>4 DEF MappedToolNames

LEMMA AllowedToolsAreSent ==
  ASSUME IInv, NEW allowed, allowed \subseteq Defined, allowed # {}
  PROVE  /\ {tool \in allowed : Distinguished(tool)} \subseteq SentFor(allowed)
         /\ (\A tool \in allowed : Unambiguous(tool)) => SentFor(allowed) = allowed
PROOF
<1>1. ASSUME NEW tool \in allowed, Distinguished(tool)
      PROVE  tool \in SentFor(allowed) /\ MatchedNames(allowed) # {}
  <2>1. AllowedEntryMatches(tool, NameOf(tool))
    BY <1>1, FitsOwnName, DefinitionMatches
  <2>2. NameOf(tool) \in MatchedNames(allowed)
    BY <2>1, NameOfDefined DEF MatchedNames, IInv, MapInv
  <2> QED BY <2>2, MatchedNameOf
<1>2. ASSUME \A tool \in allowed : Unambiguous(tool), NEW tool \in SentFor(allowed)
      PROVE  tool \in allowed
  <2>1. MatchedNames(allowed) # {}
    BY <1>1, <1>2 DEF Unambiguous
  <2>2. PICK upstream \in MatchedNames(allowed) :
          upstream \in DOMAIN used /\ Raw[tool] = Raw[toolNameMap[upstream]]
    BY <1>2, <2>1, SentIsMatched
  <2>3. PICK entry \in allowed : AllowedEntryMatches(entry, upstream)
    BY DEF MatchedNames
  <2>4. upstream = NameOf(entry) /\ Distinguished(entry)
    BY <1>2, <2>2, <2>3, FitsNoOther, DefinitionMatches DEF Unambiguous
  <2>5. toolNameMap[upstream] = entry
    BY <2>4, DistinguishedMapsBack
  <2>6. tool \in Defined
    BY <1>2, <2>1, SentIsMatched
  <2> QED BY <2>2, <2>4, <2>5, <2>6 DEF Distinguished
<1>3. (\A tool \in allowed : Unambiguous(tool)) => SentFor(allowed) = allowed
  BY <1>1, <1>2 DEF Unambiguous
<1> QED BY <1>1, <1>3

LEMMA NamespaceIsSent ==
  ASSUME IInv, NEW namespace \in {tool.namespace : tool \in Defined} \ {NoNamespace},
         \A tool \in Defined : tool.namespace = namespace => Distinguished(tool)
  PROVE  SentFor({[type |-> AnyType, name |-> AnyName, namespace |-> namespace]})
           = {tool \in Defined : tool.namespace = namespace}
PROOF
<1> DEFINE entry == [type |-> AnyType, name |-> AnyName, namespace |-> namespace]
           sent == SentFor({entry})
<1>1. /\ entry.type = AnyType /\ entry.name = AnyName /\ entry.namespace = namespace
      /\ AnyType # "text"
  BY DEF AnyType
<1> HIDE DEF entry
<1>2. ASSUME NEW upstream
      PROVE  AllowedEntryMatches(entry, upstream)
               <=> toolNameMap[upstream].namespace = namespace
  BY <1>1 DEF AllowedEntryMatches, Fits
<1>3. ASSUME NEW tool \in Defined, tool.namespace = namespace
      PROVE  tool \in sent /\ MatchedNames({entry}) # {}
  <2>1. AllowedEntryMatches(entry, NameOf(tool))
    BY <1>2, <1>3, DistinguishedMapsBack
  <2>2. NameOf(tool) \in MatchedNames({entry})
    BY <2>1, NameOfDefined DEF MatchedNames, IInv, MapInv
  <2> QED BY <2>2, MatchedNameOf
<1>4. MatchedNames({entry}) # {}
  BY <1>3
<1>5. ASSUME NEW tool \in sent PROVE tool \in Defined /\ tool.namespace = namespace
  <2>1. PICK upstream \in MatchedNames({entry}) :
          toolNameMap[upstream] \in Defined /\ Raw[tool] = Raw[toolNameMap[upstream]]
    BY <1>4, SentIsMatched, ZenonT(30)
  <2>2. toolNameMap[upstream].namespace = namespace
    BY <1>2 DEF MatchedNames
  <2>3. tool \in Defined
    BY <1>4, SentIsMatched
  <2> QED BY <2>1, <2>2, <2>3 DEF Distinguished
<1>6. sent = {tool \in Defined : tool.namespace = namespace}
  BY <1>3, <1>5
<1> QED BY <1>6 DEF entry

LEMMA TextIsSent ==
  ASSUME IInv, NEW tool \in Defined, Distinguished(tool)
  PROVE  /\ tool \in SentFor({Text(Raw[tool])})
         /\ (\A other \in Defined \ {tool} : Raw[tool] \notin {other.name, NameOf(other)})
              => SentFor({Text(Raw[tool])}) = {tool}
PROOF
<1> DEFINE entry == Text(Raw[tool])
<1>1. entry.type = "text" /\ entry.name = Raw[tool]
  BY DEF Text
<1> HIDE DEF entry
<1>2. AllowedEntryMatches(entry, NameOf(tool))
  BY <1>1, DistinguishedMapsBack DEF AllowedEntryMatches
<1>3. NameOf(tool) \in MatchedNames({entry})
  BY <1>2, NameOfDefined DEF MatchedNames, IInv, MapInv
<1>4. tool \in SentFor({entry}) /\ MatchedNames({entry}) # {}
  BY <1>3, MatchedNameOf
<1>5. ASSUME \A other \in Defined \ {tool} : Raw[tool] \notin {other.name, NameOf(other)},
             NEW kept \in SentFor({entry})
      PROVE  kept = tool
  <2>1. PICK upstream \in MatchedNames({entry}) :
          /\ upstream \in DOMAIN used /\ toolNameMap[upstream] \in Defined
          /\ Raw[kept] = Raw[toolNameMap[upstream]]
    BY <1>4, SentIsMatched
  <2>2. Raw[tool] \in {toolNameMap[upstream].name, upstream, Raw[toolNameMap[upstream]]}
    BY <1>1 DEF MatchedNames, AllowedEntryMatches
  <2>3. NameOf(toolNameMap[upstream]) = upstream
    BY <2>1, MappedIsDefined
  <2>4. toolNameMap[upstream] = tool
    BY <1>5, <2>1, <2>2, <2>3 DEF Distinguished
  <2>5. kept \in Defined
    BY <1>4, SentIsMatched
  <2> QED BY <2>1, <2>4, <2>5 DEF Distinguished
<1>6. (\A other \in Defined \ {tool} : Raw[tool] \notin {other.name, NameOf(other)})
        => SentFor({entry}) = {tool}
  BY <1>4, <1>5
<1> QED BY <1>4, <1>6 DEF entry

\* Whatever tools are defined and however their names collide, a choice finds the
\* tool it names, in any order the map is searched, and allowed_tools the tools of its
\* entries.  (mappedToolNameForChoice, FilterToolsForAllowedChoice)
THEOREM ToolChoicesFindTheirTools == Spec => []ChoicesFindTheirTools
PROOF
<1>1. ASSUME IInv PROVE ChoicesFindTheirTools
  <2>1. \A tool \in Defined : Unambiguous(tool) => MappedToolNames(tool) = {NameOf(tool)}
    BY <1>1, ChoiceFindsTool
  <2>2. ASSUME NEW allowed \in (SUBSET Defined) \ {{}}
        PROVE  /\ {tool \in allowed : Distinguished(tool)} \subseteq SentFor(allowed)
               /\ (\A tool \in allowed : Unambiguous(tool)) => SentFor(allowed) = allowed
    BY <1>1, AllowedToolsAreSent
  <2>3. ASSUME NEW namespace \in {tool.namespace : tool \in Defined} \ {NoNamespace},
               \A tool \in {member \in Defined : member.namespace = namespace} :
                 Distinguished(tool)
        PROVE  SentFor({[type |-> AnyType, name |-> AnyName, namespace |-> namespace]})
                 = {tool \in Defined : tool.namespace = namespace}
    <3>1. \A tool \in Defined : tool.namespace = namespace => Distinguished(tool)
      BY <2>3
    <3> QED BY <1>1, <3>1, NamespaceIsSent
  <2>4. ASSUME NEW tool \in Defined, Distinguished(tool)
        PROVE  /\ tool \in SentFor({Text(Raw[tool])})
               /\ (\A other \in Defined \ {tool} :
                     Raw[tool] \notin {other.name, NameOf(other)})
                    => SentFor({Text(Raw[tool])}) = {tool}
    BY <1>1, <2>4, TextIsSent
  <2> QED BY <2>1, <2>2, <2>3, <2>4 DEF ChoicesFindTheirTools
<1>2. IInv => ChoicesFindTheirTools
  BY <1>1
<1> QED BY <1>2, ToolNamesInvariant, PTL

------------------------------------------------------------------------------
(* The other three endpoints: a choice and the filter for it sanitise the  *)
(* name they are given, so each finds the place of its tool.               *)

Mentioned(allowed) == {Safe[tool.name] : tool \in allowed}

\* What is kept of a list of names at some of its places.
KeepsSome(sent, list) ==
  /\ DOMAIN sent \subseteq DOMAIN list
  /\ \A k \in DOMAIN sent : sent[k] = Safe[list[k].name]

\* A name of the list is kept somewhere.
KeepsNames(sent, list) ==
  \A k \in DOMAIN list : \E j \in DOMAIN sent : sent[j] = Safe[list[k].name]

LEMMA NamesKeepAll ==
  ASSUME NEW list PROVE KeepsSome(Names(list), list) /\ KeepsNames(Names(list), list)
BY DEF Names, KeepsSome, KeepsNames

LEMMA DefinitionsFinite ==
  ASSUME TypeOK
  PROVE  /\ DOMAIN Definitions = 1 .. Len(tools) /\ Len(tools) \in Nat
         /\ IsFiniteSet(DOMAIN Definitions)
PROOF
<1>1. Len(tools) \in Nat
  BY LenProperties DEF TypeOK
<1>2. IsFiniteSet(1 .. Len(tools))
  BY <1>1, FS_Interval
<1> QED BY <1>1, <1>2 DEF Definitions

\* Of the functions of one name the first is kept.
LEMMA NormalizeToolsKeeps ==
  ASSUME NEW list, NEW n \in Nat, DOMAIN list = 1 .. n, NEW given
  PROVE  /\ KeepsSome(NormalizeTools(list, given), list)
         /\ KeepsNames(NormalizeTools(list, given), list)
PROOF
<1> DEFINE names == Names(list)
           kept == {k \in 1 .. n : k > given => \A j \in 1 .. (k - 1) : names[j] # names[k]}
           sent == NormalizeTools(list, given)
<1>1. names = [k \in 1 .. n |-> Safe[list[k].name]]
  BY DEF Names
<1>2. sent = [k \in kept |-> names[k]]
  BY DEF NormalizeTools, Restrict
<1> HIDE DEF names, sent
<1>3. KeepsSome(sent, list)
  BY <1>1, <1>2 DEF KeepsSome
<1>4. ASSUME NEW k \in 1 .. n PROVE \E j \in DOMAIN sent : sent[j] = Safe[list[k].name]
  <2> DEFINE same == {j \in 1 .. n : names[j] = names[k]}
  <2>1. PICK j \in same : \A i \in same : j <= i
    <3>1. k \in same /\ same \subseteq Nat
      OBVIOUS
    <3> QED BY <3>1, LeastNumber, Zenon
  <2>2. \A i \in 1 .. (j - 1) : i \in 1 .. n /\ i < j
    BY <2>1
  <2>3. \A i \in 1 .. (j - 1) : names[i] # names[j]
    BY <2>1, <2>2
  <2> QED BY <1>1, <1>2, <2>1, <2>3
<1> QED BY <1>3, <1>4 DEF KeepsNames, sent

LEMMA ForcedIsSent ==
  ASSUME TypeOK, NEW tool, NEW sent, KeepsSome(sent, Definitions),
         \E k \in DOMAIN sent : sent[k] = Safe[tool.name]
  PROVE  ForcesTool([tools |-> sent, choice |-> Forced(Safe[tool.name])], tool)
PROOF
<1> DEFINE name == Safe[tool.name]
           places == Places(name, sent)
           own == Places(tool, Definitions)
           request == [tools |-> sent, choice |-> Forced(name)]
<1>1. places # {}
  BY DEF Places
<1>2. ASSUME Alone(tool) PROVE Cardinality(places) \in 1 .. Times(tool)
  <2>1. ASSUME NEW k \in places PROVE k \in own
    <3>1. k \in DOMAIN Definitions /\ Safe[Definitions[k].name] = Safe[tool.name]
      BY DEF Places, KeepsSome
    <3>2. Definitions[k] \in Range(Definitions)
      BY <3>1 DEF Range
    <3> QED BY <1>2, <3>1, <3>2 DEF Alone, Places
  <2>2. own \subseteq DOMAIN Definitions
    BY DEF Places
  <2> HIDE DEF places, own
  <2>3. IsFiniteSet(own)
    BY <2>2, DefinitionsFinite, FS_Subset
  <2>4. places \subseteq own
    BY <2>1
  <2>5. IsFiniteSet(places) /\ Cardinality(places) <= Cardinality(own)
    BY <2>3, <2>4, FS_Subset
  <2>6. Cardinality(places) \in Nat /\ Cardinality(own) \in Nat
    BY <2>3, <2>5, FS_CardinalityType
  <2>7. Cardinality(places) # 0
    BY <1>1, <2>5, FS_EmptySet
  <2>8. Times(tool) = Cardinality(own)
    BY DEF Times, own
  <2> QED BY <2>5, <2>6, <2>7, <2>8
<1>3. request.tools = sent /\ request.choice = Forced(name)
  OBVIOUS
<1> HIDE DEF request
<1>4. ForcesTool(request, tool)
  BY <1>1, <1>2, <1>3 DEF ForcesTool
<1> QED BY <1>4 DEF request

LEMMA AnthropicForces ==
  ASSUME TypeOK, NEW tool \in Range(Definitions)
  PROVE  ForcesTool(Anthropic(Definitions, Choose(tool)), tool)
PROOF
<1>1. Choose(tool).kind = "tool" /\ Choose(tool).tool = tool
  BY DEF Choose
<1>2. AnthropicToolChoice(Choose(tool)) = Forced(Safe[tool.name])
  BY <1>1 DEF AnthropicToolChoice, IsMode
<1>3. PICK k \in DOMAIN Definitions : Definitions[k] = tool
  BY DEF Range
<1>4. \E j \in DOMAIN Names(Definitions) : Names(Definitions)[j] = Safe[tool.name]
  BY <1>3, NamesKeepAll DEF KeepsNames
<1> QED BY <1>2, <1>4, NamesKeepAll, ForcedIsSent DEF Anthropic

\* The allowed names of Gemini, the places of which are kept.
LEMMA WithNamesKeeps ==
  ASSUME NEW list, NEW sent, KeepsSome(sent, list), KeepsNames(sent, list),
         NEW allowed, allowed \subseteq Range(list)
  PROVE  /\ KeepsSome(WithNames(sent, Mentioned(allowed)), list)
         /\ Range(WithNames(sent, Mentioned(allowed))) = Mentioned(allowed)
PROOF
<1> DEFINE names == Mentioned(allowed)
           kept == {k \in DOMAIN sent : sent[k] \in names}
           left == WithNames(sent, names)
<1>1. left = [k \in kept |-> sent[k]]
  BY DEF WithNames, Restrict
<1>2. DOMAIN left = kept /\ \A k \in kept : left[k] = sent[k]
  BY <1>1
<1> HIDE DEF left
<1>3. KeepsSome(left, list)
  BY <1>2 DEF KeepsSome
<1>4. ASSUME NEW name \in names PROVE name \in Range(left)
  <2>1. PICK tool \in allowed : name = Safe[tool.name]
    BY DEF Mentioned
  <2>2. PICK k \in DOMAIN list : list[k] = tool
    BY <2>1 DEF Range
  <2>3. PICK j \in DOMAIN sent : sent[j] = name
    BY <2>1, <2>2 DEF KeepsNames
  <2> QED BY <1>2, <2>3 DEF Range
<1>5. Range(left) \subseteq names
  BY <1>2 DEF Range
<1>6. Range(left) = names
  BY <1>4, <1>5
<1> QED BY <1>3, <1>6 DEF left

LEMMA GeminiForces ==
  ASSUME TypeOK, NEW tool \in Range(Definitions)
  PROVE  ForcesTool(GeminiContent(Definitions, "ANY", {tool}), tool)
PROOF
<1> DEFINE name == Safe[tool.name]
           one == {tool}
           names == AllowedNames(one)
           sent == WithNames(Names(Definitions), names)
<1>1. names = {name} /\ names = Mentioned(one)
  BY DEF AllowedNames, Mentioned
<1>2. one \subseteq Range(Definitions)
  OBVIOUS
<1> HIDE DEF one, names
<1>3. KeepsSome(sent, Definitions) /\ Range(sent) = names
  BY <1>1, <1>2, NamesKeepAll, WithNamesKeeps
<1>4. \E k \in DOMAIN sent : sent[k] = name
  BY <1>1, <1>3 DEF Range
<1>5. Cardinality(names) = 1
  BY <1>1, FS_Singleton
<1>6. GeminiToolChoice("ANY", names) = Forced(name)
  BY <1>1, <1>5 DEF GeminiToolChoice
<1> HIDE DEF sent
<1>7. GeminiContent(Definitions, "ANY", one) = [tools |-> sent, choice |-> Forced(name)]
  BY <1>1, <1>6 DEF GeminiContent, names, sent
<1>8. ForcesTool([tools |-> sent, choice |-> Forced(name)], tool)
  BY <1>3, <1>4, ForcedIsSent
<1> QED BY <1>7, <1>8 DEF one

LEMMA ChatForces ==
  ASSUME TypeOK, NEW tool \in Range(Definitions), NEW given
  PROVE  /\ ForcesTool(Chat(Definitions, given, Choose(tool), Nothing), tool)
         /\ ForcesTool(Chat(Definitions, given, Nothing, Choose(tool)), tool)
PROOF
<1> DEFINE sent == NormalizeTools(Definitions, given)
           request == [tools |-> sent, choice |-> Forced(Safe[tool.name])]
<1>1. KeepsSome(sent, Definitions) /\ KeepsNames(sent, Definitions)
  BY DefinitionsFinite, NormalizeToolsKeeps
<1>2. PICK k \in DOMAIN Definitions : Definitions[k] = tool
  BY DEF Range
<1>3. \E j \in DOMAIN sent : sent[j] = Safe[tool.name]
  BY <1>1, <1>2 DEF KeepsNames
<1> HIDE DEF sent
<1>4. ForcesTool(request, tool)
  BY <1>1, <1>3, ForcedIsSent
<1>5. /\ Choose(tool).kind = "tool" /\ Choose(tool).tool = tool
      /\ Nothing.kind = "nothing"
  BY DEF Choose, Nothing
<1>6. /\ NormalizeToolChoice(Choose(tool), Nothing) = Forced(Safe[tool.name])
      /\ NormalizeToolChoice(Nothing, Choose(tool)) = Forced(Safe[tool.name])
  BY <1>5 DEF NormalizeToolChoice, ToolChoice, FunctionCall, IsMode, IsAllowed,
              NoChoice, Mode, Forced
<1>7. /\ Chat(Definitions, given, Choose(tool), Nothing) = request
      /\ Chat(Definitions, given, Nothing, Choose(tool)) = request
  BY <1>5, <1>6 DEF Chat, IsAllowed, sent
<1> QED BY <1>4, <1>7

LEMMA FunctionsAreSentOnce ==
  ASSUME TypeOK, NEW tool \in Range(Definitions), NEW given \in 0 .. Len(Definitions)
  PROVE  SentOnce(Definitions, given, tool)
PROOF
<1> DEFINE list == Definitions
           name == Safe[tool.name]
           sent == NormalizeTools(list, given)
           places == Places(name, sent)
           n == Len(tools)
<1> SUFFICES ASSUME \A k \in 1 .. given : Safe[list[k].name] # name
             PROVE  Cardinality(places) = 1
  BY DEF SentOnce
<1>1. DOMAIN list = 1 .. n /\ n \in Nat
  BY DefinitionsFinite
<1>2. /\ DOMAIN sent \subseteq 1 .. n
      /\ \A k \in DOMAIN sent :
           sent[k] = Safe[list[k].name]
           /\ (k > given => \A j \in 1 .. (k - 1) : Safe[list[j].name] # Safe[list[k].name])
  <2> DEFINE names == Names(list)
             kept == {k \in 1 .. n : k > given =>
                                    \A j \in 1 .. (k - 1) : names[j] # names[k]}
  <2>1. names = [k \in 1 .. n |-> Safe[list[k].name]]
    BY <1>1 DEF Names
  <2>2. sent = [k \in kept |-> names[k]]
    BY <1>1 DEF NormalizeTools, Restrict
  <2> HIDE DEF names, sent, list
  <2>3. ASSUME NEW k \in kept
        PROVE  /\ sent[k] = Safe[list[k].name]
               /\ k > given => \A j \in 1 .. (k - 1) : Safe[list[j].name] # Safe[list[k].name]
    <3>1. \A j \in 1 .. (k - 1) : names[j] = Safe[list[j].name]
      BY <1>1, <2>1
    <3> QED BY <2>1, <2>2, <3>1
  <2> QED BY <2>2, <2>3
<1>3. PICK i \in DOMAIN list : list[i] = tool
  BY DEF Range
<1>4. PICK k \in DOMAIN sent : sent[k] = name
  BY <1>1, <1>3, NormalizeToolsKeeps DEF KeepsNames
<1> HIDE DEF list, sent, name, n
<1>5. ASSUME NEW j \in places, NEW m \in places PROVE ~(j < m)
  <2>1. j \in DOMAIN sent /\ sent[j] = name /\ m \in DOMAIN sent /\ sent[m] = name
    BY DEF Places
  <2>2. /\ j \in 1 .. n /\ m \in 1 .. n
        /\ Safe[list[j].name] = name /\ Safe[list[m].name] = name
    BY <1>2, <2>1
  <2>3. given \in Nat
    BY <1>1 DEF Definitions, n
  <2>4. m > given
    BY <1>1, <2>2, <2>3
  <2>5. \A h \in 1 .. (m - 1) : Safe[list[h].name] # name
    BY <1>2, <2>1, <2>2, <2>4
  <2>6. j < m => j \in 1 .. (m - 1)
    BY <1>1, <2>2
  <2> QED BY <2>2, <2>5, <2>6
<1>6. places = {k}
  <2>1. k \in places /\ \A j \in places : j \in 1 .. n
    BY <1>2, <1>4 DEF Places
  <2> HIDE DEF places
  <2>2. \A j \in places : j = k
    BY <1>1, <1>5, <2>1
  <2> QED BY <2>1, <2>2
<1> HIDE DEF places
<1> QED BY <1>6, FS_Singleton

\* What is required of a call is that it is one of those that are left.
LEMMA AllowedIsSent ==
  ASSUME NEW sent, NEW allowed, Range(sent) = Mentioned(allowed), NEW choice,
         choice = Mode("required") \/ \E name \in Range(sent) : choice = Forced(name)
  PROVE  SendsAllowed([tools |-> sent, choice |-> choice], allowed)
BY DEF SendsAllowed, Mentioned

LEMMA GeminiSendsAllowed ==
  ASSUME TypeOK, NEW allowed, allowed \subseteq Range(Definitions), allowed # {}
  PROVE  SendsAllowed(GeminiContent(Definitions, "ANY", allowed), allowed)
PROOF
<1> DEFINE names == AllowedNames(allowed)
           sent == WithNames(Names(Definitions), names)
           choice == GeminiToolChoice("ANY", names)
<1>1. names = Mentioned(allowed) /\ names # {}
  BY DEF AllowedNames, Mentioned
<1>2. GeminiContent(Definitions, "ANY", allowed) = [tools |-> sent, choice |-> choice]
  BY <1>1 DEF GeminiContent
<1> HIDE DEF names
<1>3. Range(sent) = names
  BY <1>1, NamesKeepAll, WithNamesKeeps
<1>4. choice = Mode("required") \/ \E name \in names : choice = Forced(name)
  <2>1. CASE Cardinality(names) = 1
    <3>1. choice = Forced(CHOOSE name \in names : TRUE)
      BY <2>1 DEF GeminiToolChoice
    <3> QED BY <1>1, <3>1
  <2>2. CASE Cardinality(names) # 1
    BY <2>2 DEF GeminiToolChoice
  <2> QED BY <2>1, <2>2
<1> HIDE DEF sent, choice
<1> QED BY <1>1, <1>2, <1>3, <1>4, AllowedIsSent

LEMMA ChatSendsAllowed ==
  ASSUME TypeOK, NEW allowed, allowed \subseteq Range(Definitions), allowed # {}, NEW given
  PROVE  SendsAllowed(Chat(Definitions, given, Allow("required", allowed), Nothing), allowed)
PROOF
<1> DEFINE all == NormalizeTools(Definitions, given)
           sent == WithNames(all, Mentioned(allowed))
           choice == Allow("required", allowed)
<1>1. KeepsSome(all, Definitions) /\ KeepsNames(all, Definitions)
  BY DefinitionsFinite, NormalizeToolsKeeps
<1> HIDE DEF all
<1>2. Range(sent) = Mentioned(allowed)
  BY <1>1, WithNamesKeeps
<1>3. FilterAllowedTools(all, allowed) = sent
  BY DEF FilterAllowedTools, Mentioned
<1> HIDE DEF sent
<1>4. choice.kind = "allowed" /\ choice.mode = "required" /\ choice.tools = allowed
  BY DEF Allow
<1> HIDE DEF choice
<1>5. NormalizeToolChoice(choice, Nothing) = Mode("required")
  BY <1>4 DEF NormalizeToolChoice, ToolChoice, IsMode, IsAllowed, NoChoice, Mode
<1>6. Chat(Definitions, given, choice, Nothing) = [tools |-> sent, choice |-> Mode("required")]
  BY <1>3, <1>4, <1>5 DEF Chat, IsAllowed, all
<1> QED BY <1>2, <1>6, AllowedIsSent DEF choice

\* At any of the three endpoints a tool that is forced is sent under the name that is
\* forced, and those that are allowed are those that are sent.  (ChoicesAreSent)
THEOREM AdapterChoicesAreSent == Spec => []ChoicesAreSent
PROOF
<1>1. IInv => ChoicesAreSent
  <2> SUFFICES ASSUME TypeOK PROVE ChoicesAreSent
    BY DEF IInv
  <2>1. ASSUME NEW tool \in Range(Definitions), NEW given \in 0 .. Len(Definitions)
        PROVE  /\ ForcesTool(Anthropic(Definitions, Choose(tool)), tool)
               /\ ForcesTool(GeminiContent(Definitions, "ANY", {tool}), tool)
               /\ ForcesTool(Chat(Definitions, given, Choose(tool), Nothing), tool)
               /\ ForcesTool(Chat(Definitions, given, Nothing, Choose(tool)), tool)
               /\ SentOnce(Definitions, given, tool)
    BY AnthropicForces, GeminiForces, ChatForces, FunctionsAreSentOnce
  <2>2. ASSUME NEW tool \in Range(Definitions)
        PROVE  /\ ForcesTool(Anthropic(Definitions, Choose(tool)), tool)
               /\ ForcesTool(GeminiContent(Definitions, "ANY", {tool}), tool)
    BY AnthropicForces, GeminiForces
  <2>3. ASSUME NEW allowed, allowed \subseteq Range(Definitions), allowed # {}
        PROVE  /\ SendsAllowed(GeminiContent(Definitions, "ANY", allowed), allowed)
               /\ \A given : SendsAllowed(Chat(Definitions, given, Allow("required", allowed),
                                              Nothing), allowed)
    BY <2>3, GeminiSendsAllowed, ChatSendsAllowed
  <2> QED BY <2>1, <2>2, <2>3, Zenon DEF ChoicesAreSent
<1> QED BY <1>1, ToolNamesInvariant, PTL

------------------------------------------------------------------------------
(* One pass over the blocks of a content.                                  *)

Tags == Nat \X Nat
Roles == {"user", "assistant"}
Kinds == {"text", "other", "media", "thinking", "call", "result"}
Blocks == [kind : Kinds, tag : Tags, id : Tags]
ChatMessages == [role : Roles \cup {"tool"}, content : Seq(Seq(Tags)),
                 reasoning : Seq(Tags), calls : Seq(Tags), result : Seq(Tags)]
PassStates == [text : Seq(Tags), parts : Seq(Seq(Tags)), messages : Seq(ChatMessages)]

\* The messages a pass makes.
TextMessage(role, parts) == Message(role, parts, <<>>, <<>>, <<>>)
ThinkingMessage(block) == Message("assistant", <<>>, <<block.tag>>, <<>>, <<>>)
CallMessage(block) == Message("assistant", <<>>, <<>>, <<block.id>>, <<>>)
ResultMessage(block) == Message("tool", <<<<block.tag>>>>, <<>>, <<>>, <<block.id>>)

LEMMA MessageTypes ==
  /\ \A role \in Roles, parts \in Seq(Seq(Tags)) : TextMessage(role, parts) \in ChatMessages
  /\ \A block \in Blocks : /\ ThinkingMessage(block) \in ChatMessages
                           /\ CallMessage(block) \in ChatMessages
                           /\ ResultMessage(block) \in ChatMessages
PROOF
<1>1. /\ <<>> \in Seq(Tags) /\ <<>> \in Seq(Seq(Tags))
      /\ \A tag \in Tags : <<tag>> \in Seq(Tags) /\ <<<<tag>>>> \in Seq(Seq(Tags))
  OBVIOUS
<1>2. \A block \in Blocks : block.tag \in Tags /\ block.id \in Tags
  BY DEF Blocks
<1> QED
  BY <1>1, <1>2 DEF TextMessage, ThinkingMessage, CallMessage, ResultMessage, Message,
     ChatMessages, Roles

\* t is s once the text that waits is a part.
TextFlushed(s, t) ==
  /\ t \in PassStates /\ t.text = <<>> /\ t.messages = s.messages
  /\ s.text = <<>> => t.parts = s.parts
  /\ s.text # <<>> => t.parts = Append(s.parts, s.text)

LEMMA FlushTextPartFlushes ==
  ASSUME NEW s \in PassStates
  PROVE  TextFlushed(s, FlushTextPart(s))
PROOF
<1>1. /\ s.text \in Seq(Tags) /\ s.parts \in Seq(Seq(Tags)) /\ s.messages \in Seq(ChatMessages)
  BY DEF PassStates
<1>2. CASE s.text = <<>>
  BY <1>2 DEF FlushTextPart, TextFlushed
<1>3. CASE s.text # <<>>
  <2> DEFINE parts == Append(s.parts, s.text)
             t == [s EXCEPT !.parts = Append(@, s.text), !.text = <<>>]
  <2>1. parts \in Seq(Seq(Tags)) /\ <<>> \in Seq(Tags)
    BY <1>1
  <2>2. t.text = <<>> /\ t.messages = s.messages /\ t.parts = parts
    BY DEF PassStates
  <2>3. t \in PassStates
    BY <1>1, <2>1 DEF PassStates
  <2>4. FlushTextPart(s) = t
    BY <1>3 DEF FlushTextPart
  <2> QED BY <1>3, <2>2, <2>3, <2>4 DEF TextFlushed
<1> QED BY <1>2, <1>3

\* t is s once nothing waits.
ContentFlushed(role, s, t) ==
  /\ t \in PassStates /\ t.text = <<>> /\ t.parts = <<>>
  /\ s.text = <<>> /\ s.parts = <<>> => t.messages = s.messages
  /\ ~(s.text = <<>> /\ s.parts = <<>>) =>
       \E flushed : /\ TextFlushed(s, flushed) /\ flushed.parts # <<>>
                    /\ t.messages = Append(s.messages, TextMessage(role, flushed.parts))

LEMMA FlushContentFlushes ==
  ASSUME NEW role \in Roles, NEW s \in PassStates
  PROVE  ContentFlushed(role, s, FlushContent(role, s))
PROOF
<1> DEFINE flushed == FlushTextPart(s)
<1>1. TextFlushed(s, flushed)
  BY FlushTextPartFlushes
<1>2. /\ s.text \in Seq(Tags) /\ s.parts \in Seq(Seq(Tags)) /\ s.messages \in Seq(ChatMessages)
  BY DEF PassStates
<1>3. flushed.parts = <<>> <=> s.text = <<>> /\ s.parts = <<>>
  <2> DEFINE longer == Append(s.parts, s.text)
  <2>1. Len(longer) = Len(s.parts) + 1 /\ Len(s.parts) \in Nat /\ Len(<<>>) = 0
    BY <1>2
  <2> HIDE DEF longer
  <2>2. longer # <<>>
    BY <2>1
  <2> QED BY <1>1, <2>2 DEF TextFlushed, longer
<1>4. flushed \in PassStates /\ flushed.text = <<>> /\ flushed.messages = s.messages
  BY <1>1 DEF TextFlushed
<1> DEFINE new == TextMessage(role, flushed.parts)
           t == FlushContent(role, s)
<1>5. t = IF flushed.parts = <<>> THEN s
          ELSE [flushed EXCEPT !.parts = <<>>, !.messages = Append(@, new)]
  BY DEF FlushContent, TextMessage
<1>6. flushed.parts \in Seq(Seq(Tags))
  BY <1>4 DEF PassStates
<1>7. new \in ChatMessages
  BY <1>6, MessageTypes
<1> HIDE DEF flushed, t
<1>8. CASE flushed.parts = <<>>
  <2>1. t = s
    BY <1>5, <1>8
  <2>2. ContentFlushed(role, s, t)
    BY <1>3, <1>8, <2>1 DEF ContentFlushed
  <2> QED BY <2>2 DEF t
<1>9. CASE flushed.parts # <<>>
  <2> HIDE DEF new
  <2> DEFINE messages == Append(s.messages, new)
  <2>1. messages \in Seq(ChatMessages) /\ <<>> \in Seq(Seq(Tags))
    BY <1>2, <1>7
  <2>2. t = [flushed EXCEPT !.parts = <<>>, !.messages = messages]
    BY <1>4, <1>5, <1>9
  <2> HIDE DEF messages
  <2>3. t \in PassStates /\ t.text = <<>> /\ t.parts = <<>> /\ t.messages = messages
    BY <1>4, <2>1, <2>2 DEF PassStates
  <2>4. ~(s.text = <<>> /\ s.parts = <<>>)
    BY <1>3, <1>9
  <2>5. t.messages = Append(s.messages, TextMessage(role, flushed.parts))
    BY <2>3 DEF messages, new
  <2>6. ContentFlushed(role, s, t)
    BY <1>1, <1>9, <2>3, <2>4, <2>5, Zenon DEF ContentFlushed
  <2> QED BY <2>6 DEF t
<1> QED BY <1>8, <1>9

\* What a block is in the pass: text that waits, a part, a message of its own, nothing.
IsText(block) == block.kind \in {"text", "other"} \/ (block.kind = "thinking" /\ api = "gemini")
IsThought(role, block) == block.kind = "thinking" /\ api = "anthropic" /\ role = "assistant"
IsOwn(role, block) == block.kind \in {"call", "result"} \/ IsThought(role, block)
IsIgnored(role, block) == block.kind = "thinking" /\ api = "anthropic" /\ role = "user"
OwnOf(block) ==
  IF block.kind = "call" THEN CallMessage(block)
  ELSE IF block.kind = "result" THEN ResultMessage(block) ELSE ThinkingMessage(block)

APIs == {"anthropic", "gemini"}

LEMMA KindsOfBlocks ==
  ASSUME api \in APIs, NEW role \in Roles, NEW block \in Blocks
  PROVE  IsText(block) \/ block.kind = "media" \/ IsOwn(role, block) \/ IsIgnored(role, block)
PROOF
<1>1. block.kind \in Kinds
  BY DEF Blocks
<1> QED BY <1>1 DEF Kinds, IsText, IsOwn, IsThought, IsIgnored, Roles, APIs

TextRead(s, block, t) ==
  t.text = Append(s.text, block.tag) /\ t.parts = s.parts /\ t.messages = s.messages

MediumRead(s, block, t) ==
  \E flushed : /\ TextFlushed(s, flushed) /\ t.text = <<>>
               /\ t.parts = Append(flushed.parts, <<block.tag>>) /\ t.messages = s.messages

OwnRead(role, s, block, t) ==
  \E flushed : /\ ContentFlushed(role, s, flushed) /\ t.text = <<>> /\ t.parts = <<>>
               /\ t.messages = Append(flushed.messages, OwnOf(block))

BlockRead(role, s, block, t) ==
  /\ t \in PassStates
  /\ IsText(block) => TextRead(s, block, t)
  /\ block.kind = "media" => MediumRead(s, block, t)
  /\ IsOwn(role, block) => OwnRead(role, s, block, t)
  /\ IsIgnored(role, block) => t = s

LEMMA OwnMessageReads ==
  ASSUME NEW role \in Roles, NEW s \in PassStates, NEW block \in Blocks
  PROVE  /\ OwnMessage(role, s, OwnOf(block)) \in PassStates
         /\ OwnRead(role, s, block, OwnMessage(role, s, OwnOf(block)))
PROOF
<1> DEFINE flushed == FlushContent(role, s)
           own == OwnOf(block)
           t == OwnMessage(role, s, own)
<1>1. ContentFlushed(role, s, flushed)
  BY FlushContentFlushes
<1>2. own \in ChatMessages
  BY MessageTypes DEF OwnOf
<1> HIDE DEF own
<1>3. t = [flushed EXCEPT !.messages = Append(@, own)]
  BY DEF OwnMessage
<1>4. flushed \in PassStates /\ flushed.text = <<>> /\ flushed.parts = <<>>
  BY <1>1 DEF ContentFlushed
<1> HIDE DEF flushed, t
<1> DEFINE messages == Append(flushed.messages, own)
<1>5. messages \in Seq(ChatMessages)
  BY <1>2, <1>4 DEF PassStates
<1>6. t = [flushed EXCEPT !.messages = messages]
  BY <1>3
<1> HIDE DEF messages
<1>7. t \in PassStates /\ t.text = <<>> /\ t.parts = <<>> /\ t.messages = messages
  BY <1>4, <1>5, <1>6 DEF PassStates
<1>8. t.messages = Append(flushed.messages, OwnOf(block))
  BY <1>7 DEF messages, own
<1>9. OwnRead(role, s, block, t)
  BY <1>1, <1>7, <1>8, Zenon DEF OwnRead
<1> QED BY <1>7, <1>9 DEF t, own

LEMMA WithTextReads ==
  ASSUME NEW s \in PassStates, NEW block \in Blocks
  PROVE  /\ WithText(s, block.tag) \in PassStates
         /\ TextRead(s, block, WithText(s, block.tag))
PROOF
<1> DEFINE text == Append(s.text, block.tag)
           t == WithText(s, block.tag)
<1>1. text \in Seq(Tags)
  BY DEF PassStates, Blocks
<1>2. t = [s EXCEPT !.text = text]
  BY DEF WithText
<1> HIDE DEF text, t
<1>3. t \in PassStates /\ t.text = text /\ t.parts = s.parts /\ t.messages = s.messages
  BY <1>1, <1>2 DEF PassStates
<1> QED BY <1>3 DEF TextRead, text, t

LEMMA WithMediaReads ==
  ASSUME NEW s \in PassStates, NEW block \in Blocks
  PROVE  /\ WithMedia(s, block.tag) \in PassStates
         /\ MediumRead(s, block, WithMedia(s, block.tag))
PROOF
<1> DEFINE flushed == FlushTextPart(s)
           part == <<block.tag>>
           t == WithMedia(s, block.tag)
<1>1. TextFlushed(s, flushed)
  BY FlushTextPartFlushes
<1>2. part \in Seq(Tags)
  BY DEF Blocks
<1> HIDE DEF part
<1>3. t = [flushed EXCEPT !.parts = Append(@, part)]
  BY DEF WithMedia, part
<1>4. flushed \in PassStates /\ flushed.text = <<>> /\ flushed.messages = s.messages
  BY <1>1 DEF TextFlushed
<1> HIDE DEF flushed, t
<1> DEFINE parts == Append(flushed.parts, part)
<1>5. parts \in Seq(Seq(Tags))
  BY <1>2, <1>4 DEF PassStates
<1>6. t = [flushed EXCEPT !.parts = parts]
  BY <1>3
<1> HIDE DEF parts
<1>7. t \in PassStates /\ t.text = <<>> /\ t.parts = parts /\ t.messages = s.messages
  BY <1>4, <1>5, <1>6 DEF PassStates
<1>8. t.parts = Append(flushed.parts, <<block.tag>>)
  BY <1>7 DEF parts, part
<1>9. MediumRead(s, block, t)
  BY <1>1, <1>7, <1>8, Zenon DEF MediumRead
<1> QED BY <1>7, <1>9 DEF t

LEMMA WithBlockReads ==
  ASSUME api \in APIs, NEW role \in Roles, NEW s \in PassStates, NEW block \in Blocks
  PROVE  BlockRead(role, s, block, WithBlock(role, s, block))
PROOF
<1> DEFINE t == WithBlock(role, s, block)
           own == OwnOf(block)
<1>1. block.kind \in Kinds
  BY DEF Blocks
<1>2. CASE IsText(block)
  <2>1. t = WithText(s, block.tag)
    BY <1>2 DEF WithBlock, WithThinking, IsText
  <2>2. t \in PassStates /\ TextRead(s, block, t)
    BY <2>1, WithTextReads
  <2>3. block.kind # "media" /\ ~IsOwn(role, block) /\ ~IsIgnored(role, block)
    BY <1>2 DEF IsText, IsOwn, IsThought, IsIgnored
  <2> QED BY <2>2, <2>3 DEF BlockRead
<1>3. CASE block.kind = "media"
  <2>1. t = WithMedia(s, block.tag)
    BY <1>3 DEF WithBlock
  <2>2. t \in PassStates /\ MediumRead(s, block, t)
    BY <2>1, WithMediaReads
  <2>3. ~IsText(block) /\ ~IsOwn(role, block) /\ ~IsIgnored(role, block)
    BY <1>3 DEF IsText, IsOwn, IsThought, IsIgnored
  <2> QED BY <2>2, <2>3 DEF BlockRead
<1>4. CASE IsOwn(role, block)
  <2>1. t = OwnMessage(role, s, own)
    <3>1. CASE block.kind = "call"
      BY <3>1 DEF WithBlock, OwnOf, CallMessage
    <3>2. CASE block.kind = "result"
      BY <3>2 DEF WithBlock, OwnOf, ResultMessage
    <3>3. CASE IsThought(role, block)
      BY <3>3 DEF WithBlock, WithThinking, OwnOf, ThinkingMessage, IsThought
    <3> QED BY <1>4, <3>1, <3>2, <3>3 DEF IsOwn
  <2>2. t \in PassStates /\ OwnRead(role, s, block, t)
    BY <2>1, OwnMessageReads
  <2>3. ~IsText(block) /\ block.kind # "media" /\ ~IsIgnored(role, block)
    BY <1>4 DEF IsText, IsOwn, IsThought, IsIgnored
  <2> QED BY <2>2, <2>3 DEF BlockRead
<1>5. CASE IsIgnored(role, block)
  <2>1. t = s
    BY <1>5 DEF WithBlock, WithThinking, IsIgnored
  <2>2. ~IsText(block) /\ block.kind # "media" /\ ~IsOwn(role, block)
    BY <1>5 DEF IsText, IsOwn, IsThought, IsIgnored
  <2> QED BY <2>1, <2>2 DEF BlockRead
<1> QED BY <1>2, <1>3, <1>4, <1>5, KindsOfBlocks

\* f is the pass over the blocks: its state after each of them.
PassOver(role, blocks, f) ==
  /\ f \in [0 .. Len(blocks) -> PassStates] /\ f[0] = Start
  /\ \A i \in 1 .. Len(blocks) : BlockRead(role, f[i - 1], blocks[i], f[i])

PassEnds(role, last, messages) ==
  \E s : /\ ContentFlushed(role, last, s)
         /\ messages = IF s.messages = <<>> THEN <<TextMessage(role, <<<<Empty>>>>)>>
                       ELSE s.messages

LEMMA PassExists ==
  ASSUME api \in APIs, NEW role \in Roles, NEW blocks \in Seq(Blocks)
  PROVE  \E f : /\ PassOver(role, blocks, f)
                /\ PassEnds(role, f[Len(blocks)], ContentToChatMessages(role, blocks))
PROOF
<1> DEFINE n == Len(blocks)
           step == [i \in 1 .. n |-> [s \in PassStates |-> WithBlock(role, s, blocks[i])]]
<1>1. n \in Nat /\ \A i \in 1 .. n : blocks[i] \in Blocks
  BY LenProperties, ElementOfSeq
<1> HIDE DEF n
<1>2. ASSUME NEW s \in PassStates, NEW i \in 1 .. n
      PROVE  /\ BlockRead(role, s, blocks[i], WithBlock(role, s, blocks[i]))
             /\ WithBlock(role, s, blocks[i]) \in PassStates
  <2> DEFINE block == blocks[i]
  <2>1. block \in Blocks
    BY <1>1
  <2> HIDE DEF block
  <2>2. BlockRead(role, s, block, WithBlock(role, s, block))
    BY <2>1, WithBlockReads
  <2> QED BY <2>2 DEF BlockRead, block
<1>3. step \in [1 .. n -> [PassStates -> PassStates]]
  BY <1>2
<1>4. \A i \in 1 .. n, s \in PassStates : step[i][s] = WithBlock(role, s, blocks[i])
  OBVIOUS
<1> HIDE DEF step
<1>5. Start \in PassStates
  BY DEF Start, PassStates
<1>6. PICK f : Iterates(f, n, PassStates, Start, step)
  BY <1>1, <1>3, <1>5, Iteration
<1>7. f \in [0 .. n -> PassStates] /\ f[0] = Start
  BY <1>6 DEF Iterates
<1>8. ASSUME NEW i \in 1 .. n
      PROVE  f[i - 1] \in PassStates /\ f[i] = WithBlock(role, f[i - 1], blocks[i])
  <2>1. i - 1 \in 0 .. n
    BY <1>1
  <2>2. f[i - 1] \in PassStates
    BY <1>7, <2>1
  <2>3. f[i] = step[i][f[i - 1]]
    BY <1>6 DEF Iterates
  <2> QED BY <1>4, <2>2, <2>3
<1>9. PassOver(role, blocks, f)
  <2>1. ASSUME NEW i \in 1 .. n PROVE BlockRead(role, f[i - 1], blocks[i], f[i])
    <3> DEFINE s == f[i - 1]
    <3>1. s \in PassStates /\ f[i] = WithBlock(role, s, blocks[i])
      BY <1>8
    <3> HIDE DEF s
    <3>2. BlockRead(role, s, blocks[i], WithBlock(role, s, blocks[i]))
      BY <1>2, <3>1
    <3> QED BY <3>1, <3>2 DEF s
  <2> QED BY <1>7, <2>1 DEF PassOver, n
<1> DEFINE Body(h) == [i \in 0 .. n |->
                         IF i = 0 THEN Start ELSE WithBlock(role, h[i - 1], blocks[i])]
           after == CHOOSE h : h = Body(h)
           s == FlushContent(role, after[n])
<1>10. ContentToChatMessages(role, blocks)
         = IF s.messages = <<>> THEN <<TextMessage(role, <<<<Empty>>>>)>> ELSE s.messages
  BY DEF ContentToChatMessages, TextMessage, n
<1> HIDE DEF s
<1> DEFINE g == [i \in 0 .. n |-> f[i]]
<1>11. g = Body(g)
  <2>1. ASSUME NEW i \in 0 .. n
        PROVE  f[i] = IF i = 0 THEN Start ELSE WithBlock(role, g[i - 1], blocks[i])
    <3>1. CASE i = 0
      BY <1>7, <3>1
    <3>2. CASE i # 0
      <4>1. i \in 1 .. n /\ i - 1 \in 0 .. n
        BY <1>1, <3>2
      <4> QED BY <1>8, <3>2, <4>1
    <3> QED BY <3>1, <3>2
  <2> QED BY <2>1
<1>12. after = Body(after)
  BY <1>11, Zenon
<1> HIDE DEF after, g
<1>13. \A i \in 0 .. n : after[i] = IF i = 0 THEN Start ELSE WithBlock(role, after[i - 1], blocks[i])
  BY <1>12
<1> DEFINE P == {i \in 0 .. n : after[i] = f[i]}
<1>14. 0 \in P
  BY <1>1, <1>7, <1>13
<1>15. ASSUME NEW i \in 0 .. n, i \in P, i < n PROVE i + 1 \in P
  <2>1. i + 1 \in 1 .. n /\ i + 1 \in 0 .. n /\ (i + 1) - 1 = i /\ i + 1 # 0
    BY <1>1, <1>15
  <2>2. after[i + 1] = WithBlock(role, after[i], blocks[i + 1])
    BY <1>13, <2>1
  <2>3. f[i + 1] = WithBlock(role, f[i], blocks[i + 1])
    BY <1>8, <2>1
  <2>4. after[i] = f[i]
    BY <1>15
  <2> QED BY <2>1, <2>2, <2>3, <2>4
<1> HIDE DEF P
<1>16. \A i \in 0 .. n : i \in P /\ i < n => i + 1 \in P
  BY <1>15
<1>17. \A i \in 0 .. n : i \in P
  BY <1>1, <1>14, <1>16, UpTo
<1>18. n \in P /\ n \in 0 .. n
  BY <1>1, <1>17
<1>19. f[n] \in PassStates /\ after[n] = f[n]
  BY <1>7, <1>18 DEF P
<1> DEFINE last == f[n]
<1>20. last \in PassStates /\ s = FlushContent(role, last)
  BY <1>19 DEF s
<1> HIDE DEF last
<1>21. ContentFlushed(role, last, s)
  BY <1>20, FlushContentFlushes
<1>22. PassEnds(role, last, ContentToChatMessages(role, blocks))
  BY <1>10, <1>21, Zenon DEF PassEnds
<1> QED BY <1>9, <1>22 DEF last, n

------------------------------------------------------------------------------
(* What a field of the messages comes to: what the blocks add, in order.   *)

\* What waits in a state is part of what a field that reads texts comes to.
Held(w, s) == IF w THEN FlattenSeq(s.parts) \o s.text ELSE <<>>
ValueOf(F, w, s) == Gather(F, s.messages) \o Held(w, s)
AddedBy(F, w, role, block) ==
  IF IsOwn(role, block) THEN F[OwnOf(block)]
  ELSE IF IsIgnored(role, block) \/ ~w THEN <<>> ELSE <<block.tag>>

\* F reads texts when w is TRUE.
Reads(F, w) ==
  /\ Gathers(F, ChatMessages, Tags) /\ w \in BOOLEAN
  /\ \A role \in Roles, parts \in Seq(Seq(Tags)) :
       F[TextMessage(role, parts)] = IF w THEN FlattenSeq(parts) ELSE <<>>

LEMMA HeldTypes ==
  ASSUME NEW s \in PassStates, NEW w
  PROVE  Held(w, s) \in Seq(Tags)
PROOF
<1> DEFINE parts == s.parts
<1>1. s.text \in Seq(Tags) /\ parts \in Seq(Seq(Tags)) /\ <<>> \in Seq(Tags)
  BY DEF PassStates
<1> HIDE DEF parts
<1>2. FlattenSeq(parts) \in Seq(Tags)
  BY <1>1, FlattenTypes
<1>3. FlattenSeq(parts) \o s.text \in Seq(Tags)
  BY <1>1, <1>2
<1> QED BY <1>1, <1>3 DEF Held, parts

LEMMA ValueTypes ==
  ASSUME NEW s \in PassStates, NEW F, NEW w, Reads(F, w)
  PROVE  /\ Gather(F, s.messages) \in Seq(Tags)
         /\ ValueOf(F, w, s) \in Seq(Tags)
PROOF
<1> DEFINE list == s.messages
<1>1. list \in Seq(ChatMessages) /\ Gathers(F, ChatMessages, Tags)
  BY DEF PassStates, Reads
<1> HIDE DEF list
<1>2. Gather(F, list) \in Seq(Tags)
  BY <1>1, GatherTypes
<1>3. Held(w, s) \in Seq(Tags)
  BY HeldTypes
<1>4. Gather(F, list) \o Held(w, s) \in Seq(Tags)
  BY <1>2, <1>3
<1> QED BY <1>2, <1>4 DEF ValueOf, list

LEMMA FlushKeepsHeld ==
  ASSUME NEW s \in PassStates, NEW t, TextFlushed(s, t), NEW w
  PROVE  Held(w, t) = Held(w, s) /\ (w => FlattenSeq(t.parts) = Held(w, s))
PROOF
<1> DEFINE a == s.parts
           x == s.text
           c == t.parts
           flat == FlattenSeq(c)
<1>1. a \in Seq(Seq(Tags)) /\ x \in Seq(Tags) /\ c \in Seq(Seq(Tags)) /\ t.text = <<>>
  BY DEF PassStates, TextFlushed
<1>2. x = <<>> => c = a
  BY DEF TextFlushed
<1>3. x # <<>> => OneMore(c, a, x)
  <2>1. x # <<>> => c = Append(a, x)
    BY DEF TextFlushed
  <2> HIDE DEF a, x, c
  <2> QED BY <1>1, <2>1 DEF OneMore
<1> HIDE DEF a, x, c
<1>4. FlattenSeq(a) \in Seq(Tags) /\ flat \in Seq(Tags)
  BY <1>1, FlattenTypes
<1>5. flat = FlattenSeq(a) \o x
  <2>1. CASE x = <<>>
    BY <1>2, <1>4, <2>1
  <2>2. CASE x # <<>>
    <3>1. OneMore(c, a, x)
      BY <1>3, <2>2
    <3> QED BY <1>1, <3>1, FlattenOneMore
  <2> QED BY <2>1, <2>2
<1>6. flat \o <<>> = flat
  BY <1>4
<1>7. Held(w, t) = IF w THEN flat \o <<>> ELSE <<>>
  BY <1>1 DEF Held, c
<1>8. Held(w, s) = IF w THEN FlattenSeq(a) \o x ELSE <<>>
  BY DEF Held, a, x
<1> HIDE DEF flat
<1>9. Held(w, t) = Held(w, s) /\ (w => flat = Held(w, s))
  BY <1>5, <1>6, <1>7, <1>8
<1> QED BY <1>9 DEF flat, c

LEMMA FlushKeepsValue ==
  ASSUME NEW role \in Roles, NEW s \in PassStates, NEW t, ContentFlushed(role, s, t),
         NEW F, NEW w, Reads(F, w)
  PROVE  /\ ValueOf(F, w, t) = ValueOf(F, w, s)
         /\ Gather(F, t.messages) = ValueOf(F, w, s)
PROOF
<1> DEFINE list == s.messages
           longer == t.messages
           before == Gather(F, list)
           now == Gather(F, longer)
<1>1. t \in PassStates /\ t.text = <<>> /\ t.parts = <<>>
  BY DEF ContentFlushed
<1>2. list \in Seq(ChatMessages) /\ longer \in Seq(ChatMessages)
  BY <1>1 DEF PassStates
<1>3. before \in Seq(Tags) /\ now \in Seq(Tags)
  BY <1>1, ValueTypes
<1>4. Held(w, t) = <<>>
  <2>1. FlattenSeq(<<>>) = <<>> /\ <<>> \o <<>> = <<>>
    BY FlattenTypes
  <2> QED BY <1>1, <2>1 DEF Held
<1>5. now = before \o Held(w, s)
  <2>1. CASE s.text = <<>> /\ s.parts = <<>>
    <3>1. longer = list
      BY <2>1 DEF ContentFlushed
    <3>2. FlattenSeq(<<>>) = <<>> /\ <<>> \o <<>> = <<>>
      BY FlattenTypes
    <3>3. Held(w, s) = <<>>
      BY <2>1, <3>2 DEF Held
    <3> HIDE DEF list, longer
    <3>4. now = before
      BY <3>1
    <3> HIDE DEF now, before
    <3>5. before \o <<>> = before
      BY <1>3
    <3> QED BY <3>3, <3>4, <3>5
  <2>2. CASE ~(s.text = <<>> /\ s.parts = <<>>)
    <3>1. PICK flushed : /\ TextFlushed(s, flushed)
                         /\ longer = Append(list, TextMessage(role, flushed.parts))
      BY <2>2 DEF ContentFlushed
    <3> DEFINE m == TextMessage(role, flushed.parts)
    <3>2. flushed.parts \in Seq(Seq(Tags))
      BY <3>1 DEF TextFlushed, PassStates
    <3>3. m \in ChatMessages /\ F[m] = IF w THEN FlattenSeq(flushed.parts) ELSE <<>>
      BY <3>2, MessageTypes DEF Reads
    <3>4. F[m] = Held(w, s)
      BY <3>1, <3>3, FlushKeepsHeld DEF Held
    <3>5. longer = Append(list, m)
      BY <3>1
    <3>6. Gathers(F, ChatMessages, Tags)
      BY DEF Reads
    <3> HIDE DEF m, list, longer
    <3>7. GathersMore(F, longer, list, m)
      BY <1>2, <3>3, <3>5, <3>6, GatherOneMore
    <3> QED BY <3>4, <3>7 DEF GathersMore
  <2> QED BY <2>1, <2>2
<1>6. ValueOf(F, w, t) = now \o <<>> /\ ValueOf(F, w, s) = before \o Held(w, s)
  BY <1>4 DEF ValueOf
<1> HIDE DEF now, before
<1>7. now \o <<>> = now
  BY <1>3
<1>8. now = ValueOf(F, w, s) /\ ValueOf(F, w, t) = now
  BY <1>5, <1>6, <1>7
<1> QED BY <1>8 DEF now

Longer(longer, list, x) == longer = list \o x

LEMMA MoreHeld ==
  ASSUME NEW s \in PassStates, NEW t \in PassStates, NEW F, NEW w, Reads(F, w),
         NEW x \in Seq(Tags), t.messages = s.messages, Longer(Held(w, t), Held(w, s), x)
  PROVE  Longer(ValueOf(F, w, t), ValueOf(F, w, s), x)
PROOF
<1> DEFINE before == Gather(F, s.messages)
           held == Held(w, s)
<1>1. before \in Seq(Tags) /\ held \in Seq(Tags)
  BY ValueTypes, HeldTypes
<1>2. ValueOf(F, w, s) = before \o held /\ ValueOf(F, w, t) = before \o (held \o x)
  BY DEF ValueOf, Longer
<1> HIDE DEF before, held
<1>3. before \o (held \o x) = (before \o held) \o x
  BY <1>1
<1> QED BY <1>2, <1>3 DEF Longer

LEMMA TextAdds ==
  ASSUME NEW s \in PassStates, NEW t \in PassStates, NEW block \in Blocks, TextRead(s, block, t),
         NEW F, NEW w, Reads(F, w)
  PROVE  ValueOf(F, w, t) = ValueOf(F, w, s) \o (IF w THEN <<block.tag>> ELSE <<>>)
PROOF
<1> DEFINE x == IF w THEN <<block.tag>> ELSE <<>>
           flat == FlattenSeq(s.parts)
<1>1. block.tag \in Tags /\ s.text \in Seq(Tags) /\ w \in BOOLEAN
  BY DEF Blocks, PassStates, Reads
<1>2. flat \in Seq(Tags)
  <2> DEFINE parts == s.parts
  <2>1. parts \in Seq(Seq(Tags))
    BY DEF PassStates
  <2> HIDE DEF parts
  <2>2. FlattenSeq(parts) \in Seq(Tags)
    BY <2>1, FlattenTypes
  <2> QED BY <2>2 DEF parts
<1>3. Held(w, s) = IF w THEN flat \o s.text ELSE <<>>
  BY DEF Held
<1>4. Held(w, t) = IF w THEN flat \o Append(s.text, block.tag) ELSE <<>>
  BY DEF Held, TextRead
<1> HIDE DEF flat
<1>5. flat \o Append(s.text, block.tag) = (flat \o s.text) \o <<block.tag>>
  BY <1>1, <1>2
<1>6. <<>> \o <<>> = <<>> /\ x \in Seq(Tags) /\ t.messages = s.messages
  BY <1>1 DEF TextRead
<1>7. Longer(Held(w, t), Held(w, s), x)
  BY <1>3, <1>4, <1>5, <1>6 DEF Longer
<1> HIDE DEF x
<1>8. Longer(ValueOf(F, w, t), ValueOf(F, w, s), x)
  BY <1>6, <1>7, MoreHeld
<1> QED BY <1>8 DEF Longer, x

LEMMA MediumAdds ==
  ASSUME NEW s \in PassStates, NEW t \in PassStates, NEW block \in Blocks,
         MediumRead(s, block, t), NEW F, NEW w, Reads(F, w)
  PROVE  ValueOf(F, w, t) = ValueOf(F, w, s) \o (IF w THEN <<block.tag>> ELSE <<>>)
PROOF
<1> DEFINE x == IF w THEN <<block.tag>> ELSE <<>>
           part == <<block.tag>>
<1>1. PICK flushed : /\ TextFlushed(s, flushed) /\ t.text = <<>>
                     /\ t.parts = Append(flushed.parts, part) /\ t.messages = s.messages
  BY DEF MediumRead
<1>2. part \in Seq(Tags) /\ x \in Seq(Tags) /\ w \in BOOLEAN /\ <<>> \o <<>> = <<>>
  BY DEF Blocks, Reads
<1> HIDE DEF part
<1> DEFINE a == flushed.parts
           c == t.parts
           held == Held(w, s)
           flat == FlattenSeq(c)
<1>3. a \in Seq(Seq(Tags)) /\ c \in Seq(Seq(Tags)) /\ c = Append(a, part)
  BY <1>1 DEF TextFlushed, PassStates
<1>4. held \in Seq(Tags) /\ (w => FlattenSeq(a) = held)
  BY <1>1, HeldTypes, FlushKeepsHeld
<1>5. Held(w, t) = IF w THEN flat \o <<>> ELSE <<>>
  BY <1>1 DEF Held
<1> HIDE DEF a, c
<1>6. OneMore(c, a, part)
  BY <1>2, <1>3 DEF OneMore
<1>7. flat = FlattenSeq(a) \o part /\ flat \in Seq(Tags)
  <2>1. flat = FlattenSeq(a) \o part
    BY <1>2, <1>3, <1>6, FlattenOneMore
  <2>2. flat \in Seq(Tags)
    BY <1>3, FlattenTypes
  <2> QED BY <2>1, <2>2
<1>8. ~w => held = <<>>
  BY DEF Held
<1> HIDE DEF flat, held
<1>9. flat \o <<>> = flat
  BY <1>7
<1>10. Longer(Held(w, t), held, x)
  BY <1>2, <1>4, <1>5, <1>7, <1>8, <1>9 DEF Longer, part
<1> HIDE DEF x
<1>11. Longer(ValueOf(F, w, t), ValueOf(F, w, s), x)
  BY <1>1, <1>2, <1>10, MoreHeld DEF held
<1> QED BY <1>11 DEF Longer, x

LEMMA OwnAdds ==
  ASSUME NEW role \in Roles, NEW s \in PassStates, NEW t \in PassStates, NEW block \in Blocks,
         OwnRead(role, s, block, t), NEW F, NEW w, Reads(F, w)
  PROVE  ValueOf(F, w, t) = ValueOf(F, w, s) \o F[OwnOf(block)]
PROOF
<1>1. PICK flushed : /\ ContentFlushed(role, s, flushed) /\ t.text = <<>> /\ t.parts = <<>>
                     /\ t.messages = Append(flushed.messages, OwnOf(block))
  BY DEF OwnRead
<1> DEFINE list == flushed.messages
           longer == t.messages
           m == OwnOf(block)
           now == Gather(F, longer)
<1>2. list \in Seq(ChatMessages) /\ longer \in Seq(ChatMessages) /\ longer = Append(list, m)
  BY <1>1 DEF ContentFlushed, PassStates
<1>3. m \in ChatMessages /\ Gathers(F, ChatMessages, Tags)
  BY MessageTypes DEF OwnOf, Reads
<1>4. Gather(F, list) = ValueOf(F, w, s)
  BY <1>1, FlushKeepsValue
<1>5. now \in Seq(Tags)
  BY ValueTypes
<1>6. ValueOf(F, w, t) = now \o <<>>
  <2>1. FlattenSeq(<<>>) = <<>> /\ <<>> \o <<>> = <<>>
    BY FlattenTypes
  <2> QED BY <1>1, <2>1 DEF ValueOf, Held
<1> HIDE DEF list, longer, m
<1>7. GathersMore(F, longer, list, m)
  BY <1>2, <1>3, GatherOneMore
<1>8. now = ValueOf(F, w, s) \o F[m]
  BY <1>4, <1>7 DEF GathersMore
<1> HIDE DEF now
<1>9. now \o <<>> = now
  BY <1>5
<1> QED BY <1>6, <1>8, <1>9 DEF m

LEMMA BlockAdds ==
  ASSUME api \in APIs, NEW role \in Roles, NEW s \in PassStates, NEW block \in Blocks,
         NEW t, BlockRead(role, s, block, t), NEW F, NEW w, Reads(F, w)
  PROVE  /\ AddedBy(F, w, role, block) \in Seq(Tags)
         /\ ValueOf(F, w, t) = ValueOf(F, w, s) \o AddedBy(F, w, role, block)
PROOF
<1>1. t \in PassStates /\ w \in BOOLEAN /\ block.tag \in Tags
  BY DEF BlockRead, Reads, Blocks
<1>2. F[OwnOf(block)] \in Seq(Tags)
  <2>1. OwnOf(block) \in ChatMessages
    BY MessageTypes DEF OwnOf
  <2> QED BY <2>1 DEF Reads, Gathers
<1>3. CASE IsText(block)
  <2>1. ~IsOwn(role, block) /\ ~IsIgnored(role, block)
    BY <1>3 DEF IsText, IsOwn, IsThought, IsIgnored
  <2>2. AddedBy(F, w, role, block) = IF w THEN <<block.tag>> ELSE <<>>
    BY <2>1 DEF AddedBy
  <2>3. TextRead(s, block, t)
    BY <1>3 DEF BlockRead
  <2> QED BY <1>1, <2>2, <2>3, TextAdds
<1>4. CASE block.kind = "media"
  <2>1. ~IsOwn(role, block) /\ ~IsIgnored(role, block)
    BY <1>4 DEF IsOwn, IsThought, IsIgnored
  <2>2. AddedBy(F, w, role, block) = IF w THEN <<block.tag>> ELSE <<>>
    BY <2>1 DEF AddedBy
  <2>3. MediumRead(s, block, t)
    BY <1>4 DEF BlockRead
  <2> QED BY <1>1, <2>2, <2>3, MediumAdds
<1>5. CASE IsOwn(role, block)
  <2>1. AddedBy(F, w, role, block) = F[OwnOf(block)]
    BY <1>5 DEF AddedBy
  <2>2. OwnRead(role, s, block, t)
    BY <1>5 DEF BlockRead
  <2> QED BY <1>1, <1>2, <2>1, <2>2, OwnAdds
<1>6. CASE IsIgnored(role, block)
  <2>1. ~IsOwn(role, block)
    BY <1>6 DEF IsOwn, IsThought, IsIgnored
  <2>2. AddedBy(F, w, role, block) = <<>> /\ t = s
    BY <1>6, <2>1 DEF AddedBy, BlockRead
  <2> DEFINE value == ValueOf(F, w, s)
  <2>3. value \in Seq(Tags)
    BY ValueTypes
  <2> HIDE DEF value
  <2>4. value \o <<>> = value
    BY <2>3
  <2> QED BY <2>2, <2>4 DEF value
<1> QED BY <1>3, <1>4, <1>5, <1>6, KindsOfBlocks

\* What a field of all messages of a content comes to is what its blocks add.
Additions(F, w, role, blocks) == [k \in 1 .. Len(blocks) |-> AddedBy(F, w, role, blocks[k])]

LEMMA PassAdds ==
  ASSUME api \in APIs, NEW role \in Roles, NEW blocks \in Seq(Blocks),
         NEW f, PassOver(role, blocks, f), NEW F, NEW w, Reads(F, w)
  PROVE  /\ Additions(F, w, role, blocks) \in Seq(Seq(Tags))
         /\ ValueOf(F, w, f[Len(blocks)]) = FlattenSeq(Additions(F, w, role, blocks))
PROOF
<1> DEFINE n == Len(blocks)
           added == Additions(F, w, role, blocks)
<1>1. n \in Nat /\ \A i \in 1 .. n : blocks[i] \in Blocks
  BY LenProperties, ElementOfSeq
<1>2. /\ f \in [0 .. n -> PassStates] /\ f[0] = Start
      /\ \A i \in 1 .. n : BlockRead(role, f[i - 1], blocks[i], f[i])
  BY DEF PassOver
<1>3. Len(added) = n /\ \A i \in 1 .. n : added[i] = AddedBy(F, w, role, blocks[i])
  BY <1>1 DEF Additions
<1> HIDE DEF n
<1>4. ASSUME NEW i \in 1 .. n
      PROVE  /\ added[i] \in Seq(Tags)
             /\ ValueOf(F, w, f[i]) = ValueOf(F, w, f[i - 1]) \o added[i]
  <2> DEFINE s == f[i - 1]
             t == f[i]
             block == blocks[i]
  <2>1. i - 1 \in 0 .. n
    BY <1>1
  <2>2. s \in PassStates /\ block \in Blocks /\ BlockRead(role, s, block, t)
    BY <1>1, <1>2, <2>1
  <2>3. added[i] = AddedBy(F, w, role, block)
    BY <1>3
  <2> HIDE DEF s, t, block, added
  <2>4. /\ AddedBy(F, w, role, block) \in Seq(Tags)
        /\ ValueOf(F, w, t) = ValueOf(F, w, s) \o AddedBy(F, w, role, block)
    BY <2>2, BlockAdds
  <2> QED BY <2>3, <2>4 DEF s, t
<1>5. added \in Seq(Seq(Tags))
  <2>1. added = [i \in 1 .. n |-> AddedBy(F, w, role, blocks[i])]
    BY DEF Additions, n
  <2>2. \A i \in 1 .. n : AddedBy(F, w, role, blocks[i]) \in Seq(Tags)
    BY <1>3, <1>4
  <2> HIDE DEF added
  <2> QED BY <1>1, <2>1, <2>2
<1> HIDE DEF added
<1>6. PICK g : Flattening(g, added, Tags) /\ FlattenSeq(added) = g[n]
  BY <1>3, <1>5, FlatteningExists
<1>7. g[0] = <<>> /\ \A i \in 1 .. n : g[i] = g[i - 1] \o added[i]
  BY <1>3, <1>6 DEF Flattening
<1> DEFINE P == {i \in 0 .. n : ValueOf(F, w, f[i]) = g[i]}
<1>8. 0 \in P
  <2>1. FlattenSeq(<<>>) = <<>> /\ Gather(F, <<>>) = <<>> /\ <<>> \o <<>> = <<>>
    BY FlattenTypes, GatherTypes DEF Reads
  <2>2. ValueOf(F, w, Start) = <<>>
    BY <2>1 DEF ValueOf, Held, Start
  <2> QED BY <1>1, <1>2, <1>7, <2>2
<1>9. ASSUME NEW i \in 0 .. n, i \in P, i < n PROVE i + 1 \in P
  <2>1. i + 1 \in 1 .. n /\ i + 1 \in 0 .. n /\ (i + 1) - 1 = i
    BY <1>1, <1>9
  <2>2. ValueOf(F, w, f[i + 1]) = ValueOf(F, w, f[i]) \o added[i + 1]
    BY <1>4, <2>1
  <2>3. g[i + 1] = g[i] \o added[i + 1] /\ ValueOf(F, w, f[i]) = g[i]
    BY <1>7, <1>9, <2>1
  <2> QED BY <2>1, <2>2, <2>3
<1> HIDE DEF P
<1>10. \A i \in 0 .. n : i \in P /\ i < n => i + 1 \in P
  BY <1>9
<1>11. \A i \in 0 .. n : i \in P
  BY <1>1, <1>8, <1>10, UpTo
<1>12. n \in P
  BY <1>1, <1>11
<1> QED BY <1>5, <1>6, <1>12 DEF P, n, added

\* The messages of a content: those of the pass, or an empty text.
Ends(F, role, total, messages) ==
  \E list \in Seq(ChatMessages) :
    /\ Gather(F, list) = total
    /\ messages = IF list = <<>> THEN <<TextMessage(role, <<<<Empty>>>>)>> ELSE list

LEMMA ContentEnds ==
  ASSUME api \in APIs, NEW role \in Roles, NEW blocks \in Seq(Blocks),
         NEW F, NEW w, Reads(F, w)
  PROVE  /\ Additions(F, w, role, blocks) \in Seq(Seq(Tags))
         /\ Ends(F, role, FlattenSeq(Additions(F, w, role, blocks)),
                 ContentToChatMessages(role, blocks))
PROOF
<1> DEFINE messages == ContentToChatMessages(role, blocks)
           added == Additions(F, w, role, blocks)
<1>1. PICK f : PassOver(role, blocks, f) /\ PassEnds(role, f[Len(blocks)], messages)
  BY PassExists
<1>2. added \in Seq(Seq(Tags)) /\ ValueOf(F, w, f[Len(blocks)]) = FlattenSeq(added)
  BY <1>1, PassAdds
<1>3. f[Len(blocks)] \in PassStates
  <2>1. Len(blocks) \in 0 .. Len(blocks)
    BY LenProperties
  <2> QED BY <1>1, <2>1 DEF PassOver
<1> DEFINE last == f[Len(blocks)]
<1>4. last \in PassStates /\ PassEnds(role, last, messages) /\ ValueOf(F, w, last) = FlattenSeq(added)
  BY <1>1, <1>2, <1>3
<1> HIDE DEF last, messages, added
<1>5. PICK s : /\ ContentFlushed(role, last, s)
               /\ messages = IF s.messages = <<>> THEN <<TextMessage(role, <<<<Empty>>>>)>>
                             ELSE s.messages
  BY <1>4 DEF PassEnds
<1>6. Gather(F, s.messages) = ValueOf(F, w, last)
  BY <1>4, <1>5, FlushKeepsValue
<1>7. s.messages \in Seq(ChatMessages)
  BY <1>5 DEF ContentFlushed, PassStates
<1>8. Ends(F, role, FlattenSeq(added), messages)
  BY <1>4, <1>5, <1>6, <1>7 DEF Ends
<1> QED BY <1>2, <1>8 DEF messages, added

LEMMA MessagesOfContent ==
  ASSUME api \in APIs, NEW role \in Roles, NEW blocks \in Seq(Blocks)
  PROVE  ContentToChatMessages(role, blocks) \in Seq(ChatMessages)
PROOF
<1> DEFINE messages == ContentToChatMessages(role, blocks)
<1>1. PICK f : PassOver(role, blocks, f) /\ PassEnds(role, f[Len(blocks)], messages)
  BY PassExists
<1>2. PICK s : /\ ContentFlushed(role, f[Len(blocks)], s)
               /\ messages = IF s.messages = <<>> THEN <<TextMessage(role, <<<<Empty>>>>)>>
                             ELSE s.messages
  BY <1>1 DEF PassEnds
<1>3. s.messages \in Seq(ChatMessages)
  BY <1>2 DEF ContentFlushed, PassStates
<1>4. TextMessage(role, <<<<Empty>>>>) \in ChatMessages
  <2> DEFINE parts == <<<<Empty>>>>
  <2>1. parts \in Seq(Seq(Tags))
    BY DEF Empty, Tags
  <2> HIDE DEF parts
  <2>2. TextMessage(role, parts) \in ChatMessages
    BY <2>1, MessageTypes
  <2> QED BY <2>2 DEF parts
<1>5. <<TextMessage(role, <<<<Empty>>>>)>> \in Seq(ChatMessages)
  BY <1>4
<1> HIDE DEF messages
<1>6. messages \in Seq(ChatMessages)
  BY <1>2, <1>3, <1>5
<1> QED BY <1>6 DEF messages

------------------------------------------------------------------------------
(* All is said, in order.                                                  *)

told == [message \in ChatMessages |-> ToldBy(message)]

LEMMA ToldReads == Reads(told, TRUE)
PROOF
<1>1. ASSUME NEW m \in ChatMessages PROVE ToldBy(m) \in Seq(Tags)
  <2> DEFINE content == m.content
  <2>1. content \in Seq(Seq(Tags)) /\ m.reasoning \in Seq(Tags) /\ m.calls \in Seq(Tags)
    BY DEF ChatMessages
  <2> HIDE DEF content
  <2>2. FlattenSeq(content) \in Seq(Tags)
    BY <2>1, FlattenTypes
  <2>3. FlattenSeq(content) \o m.reasoning \o m.calls \in Seq(Tags)
    BY <2>1, <2>2
  <2> QED BY <2>3 DEF ToldBy, content
<1>2. Gathers(told, ChatMessages, Tags)
  BY <1>1 DEF Gathers, told
<1>3. ASSUME NEW role \in Roles, NEW parts \in Seq(Seq(Tags))
      PROVE  told[TextMessage(role, parts)] = FlattenSeq(parts)
  <2> DEFINE flat == FlattenSeq(parts)
  <2>1. TextMessage(role, parts) \in ChatMessages
    BY MessageTypes
  <2>2. told[TextMessage(role, parts)] = ToldBy(TextMessage(role, parts))
    BY <2>1 DEF told
  <2>3. ToldBy(TextMessage(role, parts)) = flat \o <<>> \o <<>>
    BY DEF ToldBy, TextMessage, Message
  <2>4. flat \in Seq(Tags)
    BY FlattenTypes
  <2> HIDE DEF flat
  <2>5. flat \o <<>> \o <<>> = flat
    BY <2>4
  <2> QED BY <2>2, <2>3, <2>5 DEF flat
<1> QED BY <1>2, <1>3 DEF Reads

LEMMA ToldOfBlock ==
  ASSUME api \in APIs, NEW role \in Roles, NEW block \in Blocks
  PROVE  AddedBy(told, TRUE, role, block) = TagOf(role, block)
PROOF
<1>1. block.tag \in Tags /\ block.id \in Tags /\ block.kind \in Kinds
  BY DEF Blocks
<1>2. CASE IsOwn(role, block)
  <2> DEFINE m == OwnOf(block)
  <2>1. m \in ChatMessages
    BY MessageTypes DEF OwnOf
  <2>2. AddedBy(told, TRUE, role, block) = ToldBy(m)
    BY <1>2, <2>1 DEF AddedBy, told
  <2>3. FlattenSeq(<<>>) = <<>> /\ FlattenSeq(<<<<block.tag>>>>) = <<block.tag>>
    <3> DEFINE parts == <<<<block.tag>>>>
    <3>1. parts \in Seq(Seq(Tags)) /\ Len(parts) = 1 /\ parts[1] = <<block.tag>>
      BY <1>1
    <3> HIDE DEF parts
    <3>2. FlattenSeq(parts) = parts[1]
      BY <3>1, FlattenOne
    <3> QED BY <3>1, <3>2, FlattenTypes DEF parts
  <2>4. CASE block.kind = "call"
    <3>1. ToldBy(m) = FlattenSeq(<<>>) \o <<>> \o <<block.id>>
      BY <2>4 DEF ToldBy, OwnOf, CallMessage, Message
    <3>2. <<>> \o <<>> \o <<block.id>> = <<block.id>>
      BY <1>1
    <3> QED BY <2>2, <2>3, <2>4, <3>1, <3>2 DEF TagOf
  <2>5. CASE block.kind = "result"
    <3>1. ToldBy(m) = FlattenSeq(<<<<block.tag>>>>) \o <<>> \o <<>>
      BY <2>5 DEF ToldBy, OwnOf, ResultMessage, Message
    <3>2. <<block.tag>> \o <<>> \o <<>> = <<block.tag>>
      BY <1>1
    <3> QED BY <2>2, <2>3, <2>5, <3>1, <3>2 DEF TagOf
  <2>6. CASE IsThought(role, block)
    <3>1. ToldBy(m) = FlattenSeq(<<>>) \o <<block.tag>> \o <<>>
      BY <2>6 DEF ToldBy, OwnOf, ThinkingMessage, Message, IsThought
    <3>2. <<>> \o <<block.tag>> \o <<>> = <<block.tag>>
      BY <1>1
    <3> QED BY <2>2, <2>3, <2>6, <3>1, <3>2 DEF TagOf, IsThought
  <2> QED BY <1>2, <2>4, <2>5, <2>6 DEF IsOwn
<1>3. CASE ~IsOwn(role, block)
  BY <1>1, <1>3 DEF AddedBy, TagOf, IsIgnored, IsOwn, IsThought, APIs, Roles, Kinds
<1> QED BY <1>2, <1>3

\* A content of which nothing is to be told is a pass that does nothing.
LEMMA NothingTold ==
  ASSUME api \in APIs, NEW role \in Roles, NEW blocks \in Seq(Blocks),
         \A k \in 1 .. Len(blocks) : TagOf(role, blocks[k]) = <<>>
  PROVE  ContentToChatMessages(role, blocks) = <<TextMessage(role, <<<<Empty>>>>)>>
PROOF
<1> DEFINE n == Len(blocks)
           messages == ContentToChatMessages(role, blocks)
<1>1. n \in Nat /\ \A k \in 1 .. n : blocks[k] \in Blocks
  BY LenProperties, ElementOfSeq
<1>2. PICK f : PassOver(role, blocks, f) /\ PassEnds(role, f[n], messages)
  BY PassExists
<1>3. \A k \in 1 .. n : IsIgnored(role, blocks[k])
  <2>1. ASSUME NEW k \in 1 .. n PROVE IsIgnored(role, blocks[k])
    <3>1. TagOf(role, blocks[k]) = <<>>
      OBVIOUS
    <3>2. \A x : <<x>> # <<>>
      OBVIOUS
    <3>3. blocks[k].kind = "thinking" /\ api # "gemini" /\ role # "assistant"
      BY <3>1, <3>2 DEF TagOf
    <3> QED BY <3>3 DEF IsIgnored, APIs, Roles
  <2> QED BY <2>1
<1>4. f[0] = Start /\ \A k \in 1 .. n : f[k] = f[k - 1]
  BY <1>2, <1>3 DEF PassOver, BlockRead
<1> HIDE DEF n, messages
<1> DEFINE P == {k \in 0 .. n : f[k] = Start}
<1>5. 0 \in P
  BY <1>1, <1>4
<1>6. ASSUME NEW k \in 0 .. n, k \in P, k < n PROVE k + 1 \in P
  <2>1. k + 1 \in 1 .. n /\ k + 1 \in 0 .. n /\ (k + 1) - 1 = k
    BY <1>1, <1>6
  <2>2. f[k + 1] = f[k] /\ f[k] = Start
    BY <1>4, <1>6, <2>1
  <2> QED BY <2>1, <2>2
<1> HIDE DEF P
<1>7. \A k \in 0 .. n : k \in P /\ k < n => k + 1 \in P
  BY <1>6
<1>8. \A k \in 0 .. n : k \in P
  BY <1>1, <1>5, <1>7, UpTo
<1>9. f[n] = Start
  <2>1. n \in P
    BY <1>1, <1>8
  <2> QED BY <2>1 DEF P
<1>10. PICK s : /\ ContentFlushed(role, Start, s)
                /\ messages = IF s.messages = <<>> THEN <<TextMessage(role, <<<<Empty>>>>)>>
                              ELSE s.messages
  BY <1>2, <1>9 DEF PassEnds
<1>11. s.messages = <<>>
  BY <1>10 DEF ContentFlushed, Start
<1>12. messages = <<TextMessage(role, <<<<Empty>>>>)>>
  BY <1>10, <1>11
<1> QED BY <1>12 DEF messages

LEMMA ContentTold ==
  ASSUME api \in APIs, NEW role \in Roles, NEW blocks \in Seq(Blocks)
  PROVE  Gather(told, ContentToChatMessages(role, blocks))
           = LET tags == TagsOf(Content(role, blocks))
             IN IF tags = <<>> THEN <<Empty>> ELSE tags
PROOF
<1> DEFINE added == Additions(told, TRUE, role, blocks)
           tags == TagsOf(Content(role, blocks))
           messages == ContentToChatMessages(role, blocks)
           none == <<TextMessage(role, <<<<Empty>>>>)>>
<1>1. \A k \in 1 .. Len(blocks) : blocks[k] \in Blocks
  BY ElementOfSeq
<1>2. added = [k \in 1 .. Len(blocks) |-> TagOf(role, blocks[k])]
  <2>1. ASSUME NEW k \in 1 .. Len(blocks)
        PROVE  AddedBy(told, TRUE, role, blocks[k]) = TagOf(role, blocks[k])
    <3> DEFINE block == blocks[k]
    <3>1. block \in Blocks
      BY <1>1
    <3> HIDE DEF block
    <3>2. AddedBy(told, TRUE, role, block) = TagOf(role, block)
      BY <3>1, ToldOfBlock
    <3> QED BY <3>2 DEF block
  <2> QED BY <2>1 DEF Additions
<1>3. tags = FlattenSeq([k \in 1 .. Len(blocks) |-> TagOf(role, blocks[k])])
  BY DEF TagsOf, Gathered, Content
<1>4. tags = FlattenSeq(added)
  BY <1>2, <1>3
<1> HIDE DEF tags
<1>5. added \in Seq(Seq(Tags)) /\ Ends(told, role, FlattenSeq(added), messages)
  BY ToldReads, ContentEnds
<1>6. \A k \in 1 .. Len(blocks) : added[k] = TagOf(role, blocks[k])
  BY <1>2
<1> HIDE DEF added, messages
<1>7. Len(added) = Len(blocks)
  <2>1. Len(blocks) \in Nat
    BY LenProperties
  <2> QED BY <1>2, <2>1
<1>8. PICK list \in Seq(ChatMessages) :
        Gather(told, list) = tags /\ messages = IF list = <<>> THEN none ELSE list
  BY <1>4, <1>5 DEF Ends
<1>9. CASE tags = <<>>
  <2>1. \A k \in 1 .. Len(blocks) : added[k] = <<>>
    BY <1>4, <1>5, <1>7, <1>9, NothingFlattened
  <2>2. \A k \in 1 .. Len(blocks) : TagOf(role, blocks[k]) = <<>>
    BY <1>6, <2>1
  <2>3. messages = none
    BY <2>2, NothingTold DEF messages
  <2>4. Gather(told, none) = <<Empty>>
    <3> DEFINE parts == <<<<Empty>>>>
               m == TextMessage(role, parts)
               empty == <<>>
    <3>1. parts \in Seq(Seq(Tags)) /\ Len(parts) = 1 /\ parts[1] = <<Empty>>
      BY DEF Empty, Tags
    <3> HIDE DEF parts
    <3>2. m \in ChatMessages /\ told[m] = FlattenSeq(parts) /\ FlattenSeq(parts) = <<Empty>>
      BY <3>1, MessageTypes, ToldReads, FlattenOne DEF Reads
    <3> HIDE DEF m
    <3>3. Gathers(told, ChatMessages, Tags)
      BY ToldReads DEF Reads
    <3>4. empty \in Seq(ChatMessages) /\ <<m>> \in Seq(ChatMessages) /\ <<m>> = Append(empty, m)
      BY <3>2
    <3> DEFINE one == <<m>>
    <3> HIDE DEF empty, one
    <3>5. GathersMore(told, one, empty, m)
      BY <3>2, <3>3, <3>4, GatherOneMore DEF one
    <3>6. Gather(told, empty) = <<>>
      BY <3>3, GatherTypes DEF empty
    <3>7. Gather(told, one) = <<>> \o <<Empty>>
      BY <3>2, <3>5, <3>6 DEF GathersMore
    <3>8. <<>> \o <<Empty>> = <<Empty>>
      BY DEF Empty
    <3> QED BY <3>7, <3>8 DEF one, m, parts
  <2> QED BY <1>9, <2>3, <2>4 DEF messages, tags
<1>10. CASE tags # <<>>
  <2>1. Gather(told, <<>>) = <<>>
    BY ToldReads, GatherTypes DEF Reads
  <2>2. messages = list
    BY <1>8, <1>10, <2>1
  <2> QED BY <1>8, <1>10, <2>2 DEF messages, tags
<1> QED BY <1>9, <1>10

------------------------------------------------------------------------------
(* Blocks: the inductive invariant.                                        *)

Contents == [role : Roles, blocks : Seq(Blocks)]

TurnsTypeOK ==
  /\ api \in APIs /\ keepsIDs \in BOOLEAN
  /\ contents \in Seq(Contents) /\ answers \in Seq(Answers)
  /\ Len(answers) = Len(contents) /\ contents # <<>>

\* Questions and answers take turns, and an answer is what the upstream sent.
TurnsAlternate ==
  \A k \in 1 .. Len(contents) :
    /\ contents[k].role = "user" <=> k % 2 = 1
    /\ contents[k].role = "assistant" =>
         contents[k].blocks = ContentBlocksFromMessage(k, answers[k])

\* A client makes no calls, and gives results of calls of the answer before only.
ClientsBlock(block, turn, calls) ==
  /\ block.kind # "call"
  /\ block.kind = "result" =>
       turn > 0 /\ \E place \in 1 .. calls : block.id = IDOf(turn, place)

ResultsAreOfCalls ==
  \A k \in 1 .. Len(contents) : contents[k].role = "user" =>
    \A j \in 1 .. Len(contents[k].blocks) :
      ClientsBlock(contents[k].blocks[j], k - 1, answers[k - 1].calls)

TurnsInvariant == TurnsTypeOK /\ TurnsAlternate /\ ResultsAreOfCalls

LEMMA IDTypes ==
  ASSUME keepsIDs \in BOOLEAN
  PROVE  /\ NoID \in Tags /\ Empty \in Tags
         /\ \A turn, place \in Nat : Tag(turn, place) \in Tags /\ IDOf(turn, place) \in Tags
PROOF
<1>1. \A place \in Nat : 2 + place \in Nat
  OBVIOUS
<1> QED BY <1>1 DEF Tags, NoID, Empty, Tag, IDOf

LEMMA AnswerBlocks ==
  ASSUME keepsIDs \in BOOLEAN, NEW turn \in Nat, NEW answer \in Answers
  PROVE  ContentBlocksFromMessage(turn, answer) \in Seq(Blocks)
PROOF
<1> DEFINE reasoning == IF answer.reasoning THEN <<Block("thinking", Tag(turn, 1), NoID)>>
                        ELSE <<>>
           text == IF answer.text THEN <<Block("text", Tag(turn, 2), NoID)>> ELSE <<>>
           calls == [k \in 1 .. answer.calls |-> Block("call", Tag(turn, 2 + k), IDOf(turn, k))]
           empty == <<Block("text", Empty, NoID)>>
<1>1. answer.calls \in Nat /\ answer.reasoning \in BOOLEAN /\ answer.text \in BOOLEAN
  BY ConversationAssumption DEF Answers
<1>2. /\ Block("thinking", Tag(turn, 1), NoID) \in Blocks
      /\ Block("text", Tag(turn, 2), NoID) \in Blocks
      /\ Block("text", Empty, NoID) \in Blocks
      /\ \A k \in 1 .. answer.calls : Block("call", Tag(turn, 2 + k), IDOf(turn, k)) \in Blocks
  <2>1. \A k \in 1 .. answer.calls : k \in Nat /\ 2 + k \in Nat
    BY <1>1
  <2> QED BY <2>1, IDTypes DEF Block, Blocks, Kinds
<1>3. reasoning \in Seq(Blocks) /\ text \in Seq(Blocks) /\ calls \in Seq(Blocks) /\ empty \in Seq(Blocks)
  BY <1>1, <1>2
<1>4. ContentBlocksFromMessage(turn, answer)
        = IF reasoning \o text \o calls = <<>> THEN empty ELSE reasoning \o text \o calls
  BY DEF ContentBlocksFromMessage
<1> HIDE DEF reasoning, text, calls, empty
<1>5. reasoning \o text \o calls \in Seq(Blocks)
  BY <1>3
<1> QED BY <1>3, <1>4, <1>5

\* A content the client makes up.
SaidBlock(turn, k, said) ==
  Block(said[1], Tag(turn, k), IF said[1] = "result" THEN IDOf(turn - 1, said[2]) ELSE NoID)

LEMMA SaidBlocks ==
  ASSUME TurnsTypeOK, NEW list \in ClientContents
  PROVE  LET turn == Len(contents) + 1
             blocks == [k \in 1 .. Len(list) |-> SaidBlock(turn, k, list[k])]
         IN /\ blocks \in Seq(Blocks) /\ Len(blocks) = Len(list)
            /\ \A k \in 1 .. Len(blocks) :
                 ClientsBlock(blocks[k], Len(contents), answers[Len(contents)].calls)
PROOF
<1> DEFINE turn == Len(contents) + 1
           last == Len(contents)
           blocks == [k \in 1 .. Len(list) |-> SaidBlock(turn, k, list[k])]
<1>1. /\ last \in 1 .. Len(contents) /\ turn \in Nat /\ turn - 1 = last /\ last \in Nat /\ last > 0
      /\ answers[last] \in Answers
  <2>1. last \in Nat /\ last # 0 /\ last = Len(answers)
    BY EmptySeq, LenProperties DEF TurnsTypeOK
  <2> QED BY <2>1, ElementOfSeq DEF TurnsTypeOK
<1>2. answers[last].calls \in Nat
  BY <1>1, ConversationAssumption DEF Answers
<1>3. PICK m \in 0 .. MaxBlocks : list \in [1 .. m -> Said \cup Results]
  BY DEF ClientContents, BoundedSeq, SeqOf
<1>4. Len(list) = m /\ m \in Nat
  BY <1>3, BlockTurnsAssumption
<1> HIDE DEF turn, last
<1>5. ASSUME NEW k \in 1 .. m
      PROVE  /\ SaidBlock(turn, k, list[k]) \in Blocks
             /\ ClientsBlock(SaidBlock(turn, k, list[k]), last, answers[last].calls)
  <2> DEFINE said == list[k]
  <2>1. said \in Said \cup Results
    BY <1>3
  <2> HIDE DEF said
  <2>2. \/ said[1] \in {"text", "other", "media", "thinking"}
        \/ said[1] = "result" /\ said[2] \in 1 .. answers[last].calls
    BY <2>1 DEF Said, Results, OpenCalls, last
  <2>3. said[1] = "result" => said[2] \in Nat /\ said[2] \in 1 .. answers[last].calls
    BY <1>2, <2>2
  <2>4. k \in Nat /\ Tag(turn, k) \in Tags /\ NoID \in Tags
    BY <1>1, <1>4, IDTypes DEF TurnsTypeOK
  <2>5. said[1] = "result" => IDOf(last, said[2]) \in Tags
    BY <1>1, <2>3, IDTypes DEF TurnsTypeOK
  <2>6. SaidBlock(turn, k, said) \in Blocks
    BY <1>1, <2>2, <2>4, <2>5 DEF SaidBlock, Block, Blocks, Kinds
  <2>7. SaidBlock(turn, k, said).kind = said[1]
    BY DEF SaidBlock, Block
  <2>8. said[1] = "result" => SaidBlock(turn, k, said).id = IDOf(last, said[2])
    BY <1>1 DEF SaidBlock, Block
  <2>9. said[1] # "call"
    BY <2>2
  <2> QED BY <1>1, <2>3, <2>6, <2>7, <2>8, <2>9 DEF ClientsBlock, said
<1>6. blocks = [k \in 1 .. m |-> SaidBlock(turn, k, list[k])]
  BY <1>4
<1> HIDE DEF blocks
<1>7. blocks \in Seq(Blocks) /\ Len(blocks) = m
  BY <1>4, <1>5, <1>6
<1>8. ASSUME NEW k \in 1 .. m
      PROVE  ClientsBlock(blocks[k], last, answers[last].calls)
  <2>1. blocks[k] = SaidBlock(turn, k, list[k])
    BY <1>6
  <2> QED BY <1>5, <2>1, Zenon
<1> QED BY <1>1, <1>4, <1>7, <1>8 DEF blocks, turn, last

\* A further content leaves the invariant.
LEMMA OneMoreTurn ==
  ASSUME TurnsInvariant, NEW content \in Contents, NEW answer \in Answers,
         contents' = Append(contents, content), answers' = Append(answers, answer),
         UNCHANGED <<api, keepsIDs>>,
         content.role = "user" <=> (Len(contents) + 1) % 2 = 1,
         content.role = "assistant" =>
           content.blocks = ContentBlocksFromMessage(Len(contents) + 1, answer),
         content.role = "user" =>
           \A j \in 1 .. Len(content.blocks) :
             ClientsBlock(content.blocks[j], Len(contents), answers[Len(contents)].calls)
  PROVE  TurnsInvariant'
PROOF
<1> USE DEF TurnsInvariant
<1> DEFINE n == Len(contents)
<1>1. n \in Nat /\ n # 0 /\ Len(answers) = n /\ Len(contents') = n + 1 /\ Len(answers') = n + 1
  BY EmptySeq, LenProperties DEF TurnsTypeOK
<1>2. /\ \A k \in 1 .. n : contents'[k] = contents[k] /\ answers'[k] = answers[k]
      /\ contents'[n + 1] = content /\ answers'[n + 1] = answer
  BY <1>1 DEF TurnsTypeOK
<1>3. TurnsTypeOK'
  <2>1. contents' \in Seq(Contents) /\ answers' \in Seq(Answers)'
    BY DEF TurnsTypeOK, Answers
  <2>2. contents' # <<>>
    BY <1>1
  <2> QED BY <1>1, <2>1, <2>2 DEF TurnsTypeOK
<1>4. \A k \in 1 .. n + 1 : k = n + 1 \/ (k \in 1 .. n /\ (k > 1 => k - 1 \in 1 .. n))
  BY <1>1
<1>5. \A turn, sent : ContentBlocksFromMessage(turn, sent)' = ContentBlocksFromMessage(turn, sent)
  BY DEF ContentBlocksFromMessage, IDOf, Block, Tag, NoID, Empty
<1>6. \A block, turn, calls :
        ClientsBlock(block, turn, calls)' <=> ClientsBlock(block, turn, calls)
  BY DEF ClientsBlock, IDOf
<1> HIDE DEF n
<1>7. TurnsAlternate'
  <2>1. ASSUME NEW k \in 1 .. n + 1
        PROVE  /\ contents'[k].role = "user" <=> k % 2 = 1
               /\ contents'[k].role = "assistant" =>
                    contents'[k].blocks = ContentBlocksFromMessage(k, answers'[k])
    <3>1. CASE k = n + 1
      BY <1>2, <3>1 DEF n
    <3>2. CASE k \in 1 .. n
      BY <1>2, <3>2 DEF TurnsAlternate, n
    <3> QED BY <1>4, <3>1, <3>2
  <2> QED BY <1>1, <1>5, <2>1 DEF TurnsAlternate
<1>8. ResultsAreOfCalls'
  <2>1. ASSUME NEW k \in 1 .. n + 1, contents'[k].role = "user",
               NEW j \in 1 .. Len(contents'[k].blocks)
        PROVE  ClientsBlock(contents'[k].blocks[j], k - 1, answers'[k - 1].calls)
    <3>1. CASE k = n + 1
      <4>1. k - 1 = n /\ n \in 1 .. n
        BY <1>1, <3>1
      <4>2. answers'[k - 1] = answers[n] /\ contents'[k] = content
        BY <1>2, <3>1, <4>1
      <4>3. ClientsBlock(content.blocks[j], n, answers[n].calls)
        BY <2>1, <4>2 DEF n
      <4> QED BY <4>1, <4>2, <4>3
    <3>2. CASE k \in 1 .. n
      <4> DEFINE block == contents[k].blocks[j]
      <4>1. contents'[k] = contents[k]
        BY <1>2, <3>2
      <4>2. ClientsBlock(block, k - 1, answers[k - 1].calls)
        BY <2>1, <3>2, <4>1 DEF ResultsAreOfCalls, n
      <4>3. CASE k = 1
        BY <4>1, <4>2, <4>3 DEF ClientsBlock
      <4>4. CASE k # 1
        <5>1. k - 1 \in 1 .. n
          BY <1>1, <3>2, <4>4
        <5>2. answers'[k - 1] = answers[k - 1]
          BY <1>2, <5>1
        <5> QED BY <4>1, <4>2, <5>2
      <4> QED BY <4>3, <4>4
    <3> QED BY <1>4, <3>1, <3>2
  <2> QED BY <1>1, <1>6, <2>1 DEF ResultsAreOfCalls
<1> QED BY <1>3, <1>7, <1>8

LEMMA TurnsStart == BlockInit => TurnsInvariant
PROOF
<1> SUFFICES ASSUME BlockInit PROVE TurnsInvariant
  OBVIOUS
<1> DEFINE block == Block("text", Tag(1, 1), NoID)
           content == Content("user", <<block>>)
<1>1. /\ api \in APIs /\ keepsIDs \in BOOLEAN
      /\ contents = <<content>> /\ answers = <<NoAnswer>>
  BY DEF BlockInit, APIs
<1>2. block \in Blocks /\ block.kind = "text"
  BY DEF Block, Tag, NoID, Blocks, Kinds, Tags
<1> HIDE DEF block
<1>3. content \in Contents /\ content.role = "user" /\ content.blocks = <<block>>
  BY <1>2 DEF Content, Contents, Roles
<1>4. NoAnswer \in Answers
  BY ConversationAssumption DEF NoAnswer, Answers
<1> HIDE DEF content
<1>5. TurnsTypeOK
  BY <1>1, <1>3, <1>4 DEF TurnsTypeOK
<1>6. TurnsAlternate
  BY <1>1, <1>3 DEF TurnsAlternate
<1>7. ResultsAreOfCalls
  <2>1. ClientsBlock(block, 0, answers[0].calls)
    BY <1>2 DEF ClientsBlock
  <2> QED BY <1>1, <1>3, <2>1 DEF ResultsAreOfCalls
<1> QED BY <1>5, <1>6, <1>7 DEF TurnsInvariant

LEMMA TurnsGoOn == TurnsInvariant /\ [BlockNext]_blockVars => TurnsInvariant'
PROOF
<1> SUFFICES ASSUME TurnsInvariant, [BlockNext]_blockVars PROVE TurnsInvariant'
  OBVIOUS
<1> DEFINE n == Len(contents)
<1>1. n \in Nat /\ n # 0
  BY EmptySeq, LenProperties DEF TurnsInvariant, TurnsTypeOK
<1>2. ASSUME NEW answer \in Answers, Answer(answer) PROVE TurnsInvariant'
  <2> DEFINE blocks == ContentBlocksFromMessage(n + 1, answer)
             content == Content("assistant", blocks)
  <2>1. blocks \in Seq(Blocks)
    BY <1>1, AnswerBlocks DEF TurnsInvariant, TurnsTypeOK
  <2>2. /\ contents' = Append(contents, content) /\ answers' = Append(answers, answer)
        /\ UNCHANGED <<api, keepsIDs>> /\ n % 2 = 1
    BY <1>2 DEF Answer
  <2> HIDE DEF blocks
  <2>3. content \in Contents /\ content.role = "assistant" /\ content.blocks = blocks
    BY <2>1 DEF Content, Contents, Roles
  <2>4. (n + 1) % 2 # 1
    BY <1>1, <2>2
  <2> HIDE DEF content
  <2> QED BY <2>2, <2>3, <2>4, OneMoreTurn DEF blocks
<1>3. ASSUME NEW list \in ClientContents, Say(list) PROVE TurnsInvariant'
  <2> DEFINE blocks == [k \in 1 .. Len(list) |-> SaidBlock(n + 1, k, list[k])]
             content == Content("user", blocks)
  <2>1. /\ blocks \in Seq(Blocks)
        /\ \A k \in 1 .. Len(blocks) : ClientsBlock(blocks[k], n, answers[n].calls)
    BY SaidBlocks DEF TurnsInvariant
  <2>2. /\ contents' = Append(contents, content) /\ answers' = Append(answers, NoAnswer)
        /\ UNCHANGED <<api, keepsIDs>> /\ n % 2 = 0
    BY <1>3 DEF Say, SaidBlock
  <2> HIDE DEF blocks
  <2>3. content \in Contents /\ content.role = "user" /\ content.blocks = blocks
    BY <2>1 DEF Content, Contents, Roles
  <2>4. (n + 1) % 2 = 1 /\ NoAnswer \in Answers
    <3>1. (n + 1) % 2 = 1
      BY <1>1, <2>2
    <3>2. NoAnswer \in Answers
      BY ConversationAssumption DEF NoAnswer, Answers
    <3> QED BY <3>1, <3>2
  <2> HIDE DEF content
  <2> QED BY <2>1, <2>2, <2>3, <2>4, OneMoreTurn
<1>4. ASSUME UNCHANGED blockVars PROVE TurnsInvariant'
  <2>1. /\ api' = api /\ keepsIDs' = keepsIDs /\ contents' = contents /\ answers' = answers
    BY <1>4 DEF blockVars
  <2>2. \A turn, sent : ContentBlocksFromMessage(turn, sent)' = ContentBlocksFromMessage(turn, sent)
    BY <2>1 DEF ContentBlocksFromMessage, IDOf
  <2>3. \A block, turn, calls :
          ClientsBlock(block, turn, calls)' <=> ClientsBlock(block, turn, calls)
    BY <2>1 DEF ClientsBlock, IDOf
  <2>4. TurnsTypeOK'
    BY <2>1 DEF TurnsInvariant, TurnsTypeOK
  <2>5. TurnsAlternate'
    BY <2>1, <2>2 DEF TurnsInvariant, TurnsAlternate
  <2>6. ResultsAreOfCalls'
    BY <2>1, <2>3 DEF TurnsInvariant, ResultsAreOfCalls
  <2> QED BY <2>4, <2>5, <2>6 DEF TurnsInvariant
<1> QED BY <1>2, <1>3, <1>4 DEF BlockNext, Done

\* Questions and answers take turns, every answer of a conversation is the one the
\* upstream sent, and every result is of a call of the answer before it.
\* (ContentBlocksFromMessage, ContentFromMessage)
THEOREM TurnsInvariantHolds == BlockSpec => []TurnsInvariant
PROOF
<1> QED BY TurnsStart, TurnsGoOn, PTL DEF BlockSpec

LEMMA InvariantSaysAll == TurnsInvariant => SaidInOrder
PROOF
<1> SUFFICES ASSUME TurnsInvariant PROVE SaidInOrder
  OBVIOUS
<1> DEFINE n == Len(contents)
           list == Messages
           lists == [k \in 1 .. n |->
                       ContentToChatMessages(contents[k].role, contents[k].blocks)]
           Tells(c) == IF TagsOf(c) = <<>> THEN <<Empty>> ELSE TagsOf(c)
<1>1. api \in APIs /\ n \in Nat /\ \A k \in 1 .. n : contents[k] \in Contents
  BY LenProperties, ElementOfSeq DEF TurnsInvariant, TurnsTypeOK
<1>2. ASSUME NEW k \in 1 .. n
      PROVE  /\ contents[k].role \in Roles /\ contents[k].blocks \in Seq(Blocks)
             /\ Content(contents[k].role, contents[k].blocks) = contents[k]
  BY <1>1 DEF Contents, Content
<1>3. ASSUME NEW k \in 1 .. n
      PROVE  lists[k] \in Seq(ChatMessages) /\ Gather(told, lists[k]) = Tells(contents[k])
  <2> DEFINE role == contents[k].role
             blocks == contents[k].blocks
  <2>1. role \in Roles /\ blocks \in Seq(Blocks) /\ Content(role, blocks) = contents[k]
    BY <1>2
  <2>2. lists[k] = ContentToChatMessages(role, blocks)
    OBVIOUS
  <2> HIDE DEF role, blocks, lists
  <2>3. ContentToChatMessages(role, blocks) \in Seq(ChatMessages)
    BY <1>1, <2>1, MessagesOfContent
  <2>4. Gather(told, ContentToChatMessages(role, blocks)) = Tells(Content(role, blocks))
    BY <1>1, <2>1, ContentTold
  <2> QED BY <2>1, <2>2, <2>3, <2>4
<1>4. list = FlattenSeq(lists)
  BY DEF Messages, NormalizeContents
<1> HIDE DEF list, n
<1>5. lists \in Seq(Seq(ChatMessages)) /\ Len(lists) = n
  BY <1>1, <1>3
<1>6. list \in Seq(ChatMessages)
  <2> HIDE DEF lists
  <2> QED BY <1>4, <1>5, FlattenTypes
<1>7. Gathers(told, ChatMessages, Tags)
  BY ToldReads DEF Reads
<1> HIDE DEF lists, Tells
<1>8. Gather(told, FlattenSeq(lists)) = FlattenSeq([k \in 1 .. Len(lists) |-> Gather(told, lists[k])])
  BY <1>5, <1>7, GatherFlatten
<1>9. Gathered(list, ToldBy) = Gather(told, list)
  <2>1. \A k \in 1 .. Len(list) : list[k] \in ChatMessages
    BY <1>6, ElementOfSeq
  <2>2. [k \in 1 .. Len(list) |-> told[list[k]]] = [k \in 1 .. Len(list) |-> ToldBy(list[k])]
    BY <2>1 DEF told
  <2> QED BY <2>2 DEF Gather, Gathered
<1>10. [k \in 1 .. Len(lists) |-> Gather(told, lists[k])] = [k \in 1 .. n |-> Tells(contents[k])]
  BY <1>3, <1>5
<1>11. Gathered(contents, LAMBDA c : IF TagsOf(c) = <<>> THEN <<Empty>> ELSE TagsOf(c))
         = FlattenSeq([k \in 1 .. n |-> Tells(contents[k])])
  BY DEF Gathered, Tells, n
<1>12. Gathered(list, ToldBy) = FlattenSeq([k \in 1 .. n |-> Tells(contents[k])])
  BY <1>4, <1>8, <1>9, <1>10
<1> QED BY <1>11, <1>12 DEF SaidInOrder, list

\* Whatever blocks a client sends in whatever order, and however many contents there
\* are, the messages tell the upstream all of it in that order.  (The text and the
\* parts that ContentToChatMessages holds back until flushContent)
THEOREM AllIsSaidInOrder == BlockSpec => []SaidInOrder
PROOF
<1> QED BY TurnsInvariantHolds, InvariantSaysAll, PTL

------------------------------------------------------------------------------
(* What becomes of the messages of a pass: the ones it has stay, and the   *)
(* ones it adds are texts and messages of their own.                       *)

\* longer is list and then messages of S.
Grows(longer, list, S) ==
  /\ Len(longer) >= Len(list)
  /\ \A j \in 1 .. Len(list) : longer[j] = list[j]
  /\ \A j \in 1 .. Len(longer) : j > Len(list) => longer[j] \in S

\* Text messages of the role are in S.
HasTexts(S, role) == \A parts \in Seq(Seq(Tags)) : TextMessage(role, parts) \in S

LEMMA GrowsByOne ==
  ASSUME NEW list \in Seq(ChatMessages), NEW longer \in Seq(ChatMessages),
         NEW S, Grows(longer, list, S), NEW m \in S \cap ChatMessages,
         NEW next \in Seq(ChatMessages), next = Append(longer, m)
  PROVE  Grows(next, list, S)
PROOF
<1>1. /\ Len(next) = Len(longer) + 1 /\ next[Len(longer) + 1] = m
      /\ \A j \in 1 .. Len(longer) : next[j] = longer[j]
      /\ Len(longer) \in Nat /\ Len(list) \in Nat
  OBVIOUS
<1>2. \A j \in 1 .. Len(next) : j = Len(longer) + 1 \/ j \in 1 .. Len(longer)
  BY <1>1
<1>3. \A j \in 1 .. Len(list) : j \in 1 .. Len(longer)
  BY <1>1 DEF Grows
<1>4. Len(next) >= Len(list)
  BY <1>1 DEF Grows
<1>5. \A j \in 1 .. Len(list) : next[j] = list[j]
  BY <1>1, <1>3 DEF Grows
<1>6. ASSUME NEW j \in 1 .. Len(next), j > Len(list) PROVE next[j] \in S
  <2>1. CASE j = Len(longer) + 1
    BY <1>1, <2>1
  <2>2. CASE j \in 1 .. Len(longer)
    BY <1>1, <1>6, <2>2 DEF Grows
  <2> QED BY <1>2, <2>1, <2>2
<1> QED BY <1>4, <1>5, <1>6 DEF Grows

LEMMA FlushGrows ==
  ASSUME NEW role \in Roles, NEW s \in PassStates, NEW t, ContentFlushed(role, s, t),
         NEW list \in Seq(ChatMessages), NEW S, HasTexts(S, role), Grows(s.messages, list, S)
  PROVE  Grows(t.messages, list, S)
PROOF
<1> DEFINE longer == s.messages
           next == t.messages
<1>1. longer \in Seq(ChatMessages) /\ next \in Seq(ChatMessages)
  BY DEF ContentFlushed, PassStates
<1>2. CASE s.text = <<>> /\ s.parts = <<>>
  BY <1>2 DEF ContentFlushed
<1>3. CASE ~(s.text = <<>> /\ s.parts = <<>>)
  <2>1. PICK flushed : /\ TextFlushed(s, flushed)
                       /\ next = Append(longer, TextMessage(role, flushed.parts))
    BY <1>3 DEF ContentFlushed
  <2> DEFINE m == TextMessage(role, flushed.parts)
  <2>2. flushed.parts \in Seq(Seq(Tags))
    BY <2>1 DEF TextFlushed, PassStates
  <2>3. m \in S \cap ChatMessages
    BY <2>2, MessageTypes DEF HasTexts
  <2>4. next = Append(longer, m)
    BY <2>1
  <2> HIDE DEF m, longer, next
  <2>5. Grows(longer, list, S)
    BY DEF longer
  <2>6. Grows(next, list, S)
    BY <1>1, <2>3, <2>4, <2>5, GrowsByOne
  <2> QED BY <2>6 DEF next
<1> QED BY <1>2, <1>3

LEMMA BlockGrows ==
  ASSUME api \in APIs, NEW role \in Roles, NEW s \in PassStates, NEW block \in Blocks,
         NEW t, BlockRead(role, s, block, t),
         NEW list \in Seq(ChatMessages), NEW S, HasTexts(S, role), Grows(s.messages, list, S),
         IsOwn(role, block) => OwnOf(block) \in S
  PROVE  Grows(t.messages, list, S)
PROOF
<1>1. CASE IsOwn(role, block)
  <2>1. PICK flushed : /\ ContentFlushed(role, s, flushed)
                       /\ t.messages = Append(flushed.messages, OwnOf(block))
    BY <1>1 DEF BlockRead, OwnRead
  <2> DEFINE longer == flushed.messages
             next == t.messages
             m == OwnOf(block)
  <2>2. longer \in Seq(ChatMessages) /\ next \in Seq(ChatMessages) /\ next = Append(longer, m)
    BY <2>1 DEF ContentFlushed, BlockRead, PassStates
  <2>3. Grows(longer, list, S)
    BY <2>1, FlushGrows
  <2>4. m \in S \cap ChatMessages
    BY <1>1, MessageTypes DEF OwnOf
  <2> HIDE DEF longer, next, m
  <2>5. Grows(next, list, S)
    BY <2>2, <2>3, <2>4, GrowsByOne
  <2> QED BY <2>5 DEF next
<1>2. CASE ~IsOwn(role, block)
  <2>1. t.messages = s.messages
    BY <1>2, KindsOfBlocks DEF BlockRead, TextRead, MediumRead
  <2> QED BY <2>1
<1> QED BY <1>1, <1>2

LEMMA PassGrows ==
  ASSUME api \in APIs, NEW role \in Roles, NEW blocks \in Seq(Blocks),
         NEW f, PassOver(role, blocks, f), NEW S, HasTexts(S, role),
         NEW first \in 0 .. Len(blocks), NEW last \in first .. Len(blocks),
         \A k \in 1 .. Len(blocks) :
           first < k /\ k <= last /\ IsOwn(role, blocks[k]) => OwnOf(blocks[k]) \in S
  PROVE  Grows(f[last].messages, f[first].messages, S)
PROOF
<1> DEFINE n == Len(blocks)
           list == f[first].messages
<1>1. n \in Nat /\ first \in Nat /\ last \in Nat /\ first <= last /\ last <= n
      /\ \A k \in 1 .. n : blocks[k] \in Blocks
  BY LenProperties, ElementOfSeq
<1>2. /\ \A k \in 0 .. n : f[k] \in PassStates
      /\ \A k \in 1 .. n : BlockRead(role, f[k - 1], blocks[k], f[k])
  BY DEF PassOver
<1>3. \A k \in 1 .. n : first < k /\ k <= last /\ IsOwn(role, blocks[k]) => OwnOf(blocks[k]) \in S
  OBVIOUS
<1>4. list \in Seq(ChatMessages)
  BY <1>2 DEF PassStates
<1> HIDE DEF n, list
<1> DEFINE P == {i \in 0 .. last - first : Grows(f[first + i].messages, list, S)}
<1>5. 0 \in P
  <2>1. first + 0 = first /\ 0 \in 0 .. last - first
    BY <1>1
  <2>2. Grows(list, list, S)
    BY <1>4 DEF Grows
  <2> QED BY <2>1, <2>2 DEF list
<1>6. ASSUME NEW i \in 0 .. last - first, i \in P, i < last - first PROVE i + 1 \in P
  <2> DEFINE k == first + (i + 1)
             s == f[k - 1]
             t == f[k]
             block == blocks[k]
  <2>1. /\ k \in 1 .. n /\ k - 1 = first + i /\ k - 1 \in 0 .. n /\ first < k /\ k <= last
        /\ i + 1 \in 0 .. last - first
    BY <1>1, <1>6
  <2> HIDE DEF k
  <2>2. s \in PassStates /\ block \in Blocks /\ BlockRead(role, s, block, t)
        /\ (IsOwn(role, block) => OwnOf(block) \in S)
    BY <1>1, <1>2, <1>3, <2>1
  <2>3. Grows(s.messages, list, S)
    BY <1>6, <2>1
  <2> HIDE DEF s, t, block
  <2>4. Grows(t.messages, list, S)
    BY <1>4, <2>2, <2>3, BlockGrows
  <2> QED BY <2>1, <2>4 DEF k, t
<1> HIDE DEF P
<1>7. last - first \in Nat /\ first + (last - first) = last
  BY <1>1
<1>8. \A i \in 0 .. last - first : i \in P /\ i < last - first => i + 1 \in P
  BY <1>6
<1> DEFINE m == last - first
<1>9. m \in Nat /\ 0 \in P /\ \A i \in 0 .. m : i \in P /\ i < m => i + 1 \in P
  BY <1>5, <1>7, <1>8
<1> HIDE DEF m
<1>10. \A i \in 0 .. m : i \in P
  BY <1>9, UpTo
<1>11. m \in P
  BY <1>9, <1>10
<1> QED BY <1>7, <1>11 DEF P, m, list

\* longer is list and then the messages of m blocks from place on.
IsRun(longer, list, blocks, place, m) ==
  /\ Len(longer) = Len(list) + m
  /\ \A j \in 1 .. Len(list) : longer[j] = list[j]
  /\ \A j \in 1 .. m : longer[Len(list) + j] = OwnOf(blocks[place + j])

LEMMA RunGoesOn ==
  ASSUME NEW list \in Seq(ChatMessages), NEW longer \in Seq(ChatMessages), NEW blocks,
         NEW place \in Nat, NEW m \in Nat, IsRun(longer, list, blocks, place, m),
         NEW next \in Seq(ChatMessages), next = Append(longer, OwnOf(blocks[place + (m + 1)]))
  PROVE  IsRun(next, list, blocks, place, m + 1)
PROOF
<1>1. /\ Len(longer) = Len(list) + m /\ Len(list) \in Nat
      /\ \A j \in 1 .. Len(list) : longer[j] = list[j]
      /\ \A j \in 1 .. m : longer[Len(list) + j] = OwnOf(blocks[place + j])
  <2>1. Len(list) \in Nat
    BY LenProperties
  <2> QED BY <2>1, Zenon DEF IsRun
<1> DEFINE own == OwnOf(blocks[place + (m + 1)])
<1>2. next = Append(longer, own)
  OBVIOUS
<1> HIDE DEF own
<1>3. /\ Len(next) = Len(longer) + 1 /\ next[Len(longer) + 1] = own
      /\ \A j \in 1 .. Len(longer) : next[j] = longer[j]
  BY <1>2
<1>4. Len(next) = Len(list) + (m + 1)
  BY <1>1, <1>3
<1>5. ASSUME NEW j \in 1 .. Len(list) PROVE next[j] = list[j]
  <2>1. j \in 1 .. Len(longer)
    BY <1>1
  <2> QED BY <1>1, <1>3, <2>1
<1>6. ASSUME NEW j \in 1 .. m + 1 PROVE next[Len(list) + j] = OwnOf(blocks[place + j])
  <2>1. CASE j = m + 1
    <3>1. Len(list) + j = Len(longer) + 1
      BY <1>1, <2>1
    <3> QED BY <1>3, <2>1, <3>1 DEF own
  <2>2. CASE j # m + 1
    <3>1. j \in 1 .. m /\ Len(list) + j \in 1 .. Len(longer)
      BY <1>1, <2>2
    <3> QED BY <1>1, <1>3, <3>1
  <2> QED BY <2>1, <2>2
<1> QED BY <1>4, <1>5, <1>6 DEF IsRun

\* A run of blocks that are messages of their own: only before the first of them can
\* something have to be flushed.
LEMMA OwnRun ==
  ASSUME api \in APIs, NEW role \in Roles, NEW blocks \in Seq(Blocks),
         NEW f, PassOver(role, blocks, f),
         NEW first \in 0 .. Len(blocks), NEW last \in first .. Len(blocks), first < last,
         \A k \in 1 .. Len(blocks) : first < k /\ k <= last => IsOwn(role, blocks[k])
  PROVE  \E base : /\ ContentFlushed(role, f[first], base)
                   /\ f[last].text = <<>> /\ f[last].parts = <<>>
                   /\ IsRun(f[last].messages, base.messages, blocks, first, last - first)
PROOF
<1> DEFINE n == Len(blocks)
           m == last - first
<1>1. n \in Nat /\ first \in Nat /\ last \in Nat /\ last <= n /\ m \in Nat /\ m > 0
      /\ first + m = last
  BY LenProperties
<1>2. /\ \A k \in 0 .. n : f[k] \in PassStates
      /\ \A k \in 1 .. n : BlockRead(role, f[k - 1], blocks[k], f[k])
  BY DEF PassOver
<1>3. \A k \in 1 .. n : first < k /\ k <= last => IsOwn(role, blocks[k])
  OBVIOUS
<1> HIDE DEF n, m
<1>4. ASSUME NEW i \in 0 .. m, i < m
      PROVE  /\ f[first + i] \in PassStates /\ f[first + (i + 1)] \in PassStates
             /\ OwnRead(role, f[first + i], blocks[first + (i + 1)], f[first + (i + 1)])
  <2> DEFINE k == first + (i + 1)
  <2>1. k \in 1 .. n /\ k \in 0 .. n /\ k - 1 = first + i /\ k - 1 \in 0 .. n
        /\ first < k /\ k <= last
    BY <1>1, <1>4
  <2> HIDE DEF k
  <2>2. BlockRead(role, f[first + i], blocks[k], f[k]) /\ IsOwn(role, blocks[k])
    BY <1>2, <1>3, <2>1
  <2>3. OwnRead(role, f[first + i], blocks[k], f[k])
    BY <2>2 DEF BlockRead
  <2> QED BY <1>2, <2>1, <2>3 DEF k
<1>5. 0 \in 0 .. m /\ 0 < m /\ first + 0 = first
  BY <1>1
<1>6. PICK base : /\ ContentFlushed(role, f[first], base)
                  /\ f[first + (0 + 1)].text = <<>> /\ f[first + (0 + 1)].parts = <<>>
                  /\ f[first + (0 + 1)].messages
                       = Append(base.messages, OwnOf(blocks[first + (0 + 1)]))
  BY <1>4, <1>5 DEF OwnRead
<1> DEFINE list == base.messages
           P == {i \in 0 .. m : i = 0 \/ (/\ f[first + i].text = <<>> /\ f[first + i].parts = <<>>
                                          /\ IsRun(f[first + i].messages, list, blocks, first, i))}
<1>7. list \in Seq(ChatMessages) /\ IsRun(list, list, blocks, first, 0)
  <2>1. list \in Seq(ChatMessages)
    BY <1>6 DEF ContentFlushed, PassStates
  <2> HIDE DEF list
  <2> QED BY <2>1 DEF IsRun
<1>8. ASSUME NEW i \in 0 .. m, i \in P, i < m PROVE i + 1 \in P
  <2> DEFINE k == first + (i + 1)
             longer == IF i = 0 THEN list ELSE f[first + i].messages
             next == f[k].messages
  <2>1. i + 1 \in 0 .. m /\ i \in Nat
    BY <1>1, <1>8
  <2>2. PICK flushed : /\ ContentFlushed(role, f[first + i], flushed)
                       /\ f[k].text = <<>> /\ f[k].parts = <<>>
                       /\ next = Append(flushed.messages, OwnOf(blocks[k]))
    BY <1>4, <1>8 DEF OwnRead
  <2>3. next = Append(longer, OwnOf(blocks[k]))
    <3>1. CASE i = 0
      BY <1>6, <3>1
    <3>2. CASE i # 0
      <4>1. f[first + i].text = <<>> /\ f[first + i].parts = <<>>
        BY <1>8, <3>2
      <4>2. flushed.messages = f[first + i].messages
        BY <2>2, <4>1 DEF ContentFlushed
      <4> QED BY <2>2, <3>2, <4>2
    <3> QED BY <3>1, <3>2
  <2>4. longer \in Seq(ChatMessages) /\ next \in Seq(ChatMessages)
    BY <1>4, <1>7, <1>8 DEF PassStates
  <2>5. IsRun(longer, list, blocks, first, i)
    <3>1. CASE i = 0
      BY <1>7, <3>1
    <3>2. CASE i # 0
      BY <1>8, <3>2
    <3> QED BY <3>1, <3>2
  <2> HIDE DEF longer, next, list
  <2>6. IsRun(next, list, blocks, first, i + 1)
    BY <1>1, <1>7, <2>1, <2>3, <2>4, <2>5, RunGoesOn DEF k
  <2> QED BY <2>1, <2>2, <2>6 DEF next, list
<1>9. 0 \in P
  BY <1>5
<1> HIDE DEF P
<1>10. \A i \in 0 .. m : i \in P /\ i < m => i + 1 \in P
  BY <1>8
<1>11. \A i \in 0 .. m : i \in P
  BY <1>1, <1>9, <1>10, UpTo
<1>12. m \in P /\ m # 0
  BY <1>1, <1>11
<1>13. /\ f[last].text = <<>> /\ f[last].parts = <<>>
       /\ IsRun(f[last].messages, list, blocks, first, m)
  BY <1>1, <1>12 DEF P
<1> QED BY <1>6, <1>13 DEF m

------------------------------------------------------------------------------
(* What the upstream answered comes back to it.                            *)

ThoughtOf(turn) == Block("thinking", Tag(turn, 1), NoID)
TextOf(turn) == Block("text", Tag(turn, 2), NoID)
CallOf(turn, k) == Block("call", Tag(turn, 2 + k), IDOf(turn, k))
CallsOf(turn, answer) == [k \in 1 .. answer.calls |-> CallOf(turn, k)]
IDsOf(turn, answer) == [place \in 1 .. answer.calls |-> IDOf(turn, place)]
EmptyBlock == Block("text", Empty, NoID)
IsNone(answer) == ~answer.reasoning /\ ~answer.text /\ answer.calls = 0
Once(there, list) == IF there THEN list ELSE <<>>

LEMMA BlocksOfAnswer ==
  ASSUME keepsIDs \in BOOLEAN, NEW turn \in Nat, NEW answer \in Answers
  PROVE  /\ answer.calls \in Nat /\ answer.reasoning \in BOOLEAN /\ answer.text \in BOOLEAN
         /\ ThoughtOf(turn) \in Blocks /\ TextOf(turn) \in Blocks /\ EmptyBlock \in Blocks
         /\ \A k \in 1 .. answer.calls :
              CallOf(turn, k) \in Blocks /\ IDOf(turn, k) \in Tags
         /\ CallsOf(turn, answer) \in Seq(Blocks) /\ Len(CallsOf(turn, answer)) = answer.calls
         /\ ContentBlocksFromMessage(turn, answer)
              = IF IsNone(answer) THEN <<EmptyBlock>>
                ELSE Once(answer.reasoning, <<ThoughtOf(turn)>>)
                       \o Once(answer.text, <<TextOf(turn)>>) \o CallsOf(turn, answer)
PROOF
<1>1. answer.calls \in Nat /\ answer.reasoning \in BOOLEAN /\ answer.text \in BOOLEAN
  BY ConversationAssumption DEF Answers
<1>2. \A k \in 1 .. answer.calls : k \in Nat /\ 2 + k \in Nat
  BY <1>1
<1>3. ThoughtOf(turn) \in Blocks /\ TextOf(turn) \in Blocks /\ EmptyBlock \in Blocks
  BY IDTypes DEF ThoughtOf, TextOf, EmptyBlock, Block, Blocks, Kinds
<1>4. \A k \in 1 .. answer.calls : CallOf(turn, k) \in Blocks /\ IDOf(turn, k) \in Tags
  BY <1>2, IDTypes DEF CallOf, Block, Blocks, Kinds
<1> DEFINE calls == CallsOf(turn, answer)
           reasoning == Once(answer.reasoning, <<ThoughtOf(turn)>>)
           text == Once(answer.text, <<TextOf(turn)>>)
<1>5. calls \in Seq(Blocks) /\ Len(calls) = answer.calls
  BY <1>1, <1>4 DEF CallsOf
<1>6. ContentBlocksFromMessage(turn, answer)
        = IF reasoning \o text \o calls = <<>> THEN <<EmptyBlock>> ELSE reasoning \o text \o calls
  BY DEF ContentBlocksFromMessage, Once, ThoughtOf, TextOf, CallsOf, CallOf, EmptyBlock
<1>7. /\ reasoning \in Seq(Blocks) /\ Len(reasoning) = IF answer.reasoning THEN 1 ELSE 0
      /\ text \in Seq(Blocks) /\ Len(text) = IF answer.text THEN 1 ELSE 0
  BY <1>3 DEF Once
<1> HIDE DEF calls, reasoning, text
<1>8. reasoning \o text \o calls = <<>> <=> IsNone(answer)
  <2>10. reasoning \in Seq(Blocks) /\ text \in Seq(Blocks)
    BY <1>7, Zenon
  <2> DEFINE head == reasoning \o text
             blocks == head \o calls
  <2>11. head \in Seq(Blocks) /\ Len(head) = Len(reasoning) + Len(text)
    BY <2>10
  <2> HIDE DEF head
  <2>1. /\ blocks \in Seq(Blocks)
        /\ Len(blocks) = Len(reasoning) + Len(text) + Len(calls)
    BY <1>5, <2>11
  <2> HIDE DEF blocks
  <2>2. blocks = <<>> <=> Len(blocks) = 0
    BY <2>1, EmptySeq
  <2>3. Len(blocks) = 0 <=> IsNone(answer)
    BY <1>1, <1>5, <1>7, <2>1 DEF IsNone
  <2> QED BY <2>2, <2>3 DEF blocks, head
<1> QED BY <1>1, <1>3, <1>4, <1>5, <1>6, <1>8 DEF calls, reasoning, text

LEMMA GatherOne ==
  ASSUME NEW M, NEW T, NEW F, Gathers(F, M, T), NEW m \in M, NEW one, one = <<m>>
  PROVE  Gather(F, one) = F[m]
PROOF
<1> DEFINE fields == [k \in 1 .. Len(one) |-> F[one[k]]]
<1>1. F[m] \in Seq(T)
  BY DEF Gathers
<1>2. Len(one) = 1 /\ one[1] = m
  OBVIOUS
<1>3. fields \in Seq(Seq(T)) /\ Len(fields) = 1 /\ fields[1] = F[m]
  BY <1>1, <1>2
<1> HIDE DEF fields
<1>4. FlattenSeq(fields) = fields[1]
  BY <1>3, FlattenOne
<1> QED BY <1>3, <1>4 DEF Gather, fields

GathersOnce(F, M, list, there, m) ==
  list \in Seq(M) /\ Gather(F, list) = Once(there, F[m])

LEMMA GatherOnce ==
  ASSUME NEW M, NEW T, NEW F, Gathers(F, M, T), NEW m \in M, NEW there \in BOOLEAN,
         NEW list, list = Once(there, <<m>>)
  PROVE  GathersOnce(F, M, list, there, m)
PROOF
<1>1. CASE there
  <2>1. list = <<m>>
    BY <1>1 DEF Once
  <2>2. Gather(F, list) = F[m]
    BY <2>1, GatherOne
  <2> QED BY <1>1, <2>1, <2>2 DEF GathersOnce, Once
<1>2. CASE ~there
  <2>1. list = <<>> /\ Gather(F, <<>>) = <<>>
    BY <1>2, GatherTypes DEF Once
  <2> QED BY <1>2, <2>1 DEF GathersOnce, Once
<1> QED BY <1>1, <1>2

\* What is gathered from the blocks of an answer.
GathersFrom(total, F, turn, answer) ==
  total = IF IsNone(answer) THEN F[EmptyBlock]
          ELSE Once(answer.reasoning, F[ThoughtOf(turn)])
                 \o Once(answer.text, F[TextOf(turn)]) \o Gather(F, CallsOf(turn, answer))

LEMMA AnswerGathers ==
  ASSUME keepsIDs \in BOOLEAN, NEW turn \in Nat, NEW answer \in Answers,
         NEW F, Gathers(F, Blocks, Tags)
  PROVE  GathersFrom(Gather(F, ContentBlocksFromMessage(turn, answer)), F, turn, answer)
PROOF
<1> DEFINE thought == ThoughtOf(turn)
           said == TextOf(turn)
           empty == EmptyBlock
           calls == CallsOf(turn, answer)
           reasoning == Once(answer.reasoning, <<thought>>)
           text == Once(answer.text, <<said>>)
           blocks == ContentBlocksFromMessage(turn, answer)
<1>1. /\ answer.calls \in Nat /\ answer.reasoning \in BOOLEAN /\ answer.text \in BOOLEAN
      /\ thought \in Blocks /\ said \in Blocks /\ empty \in Blocks /\ calls \in Seq(Blocks)
      /\ blocks = IF IsNone(answer) THEN <<empty>> ELSE reasoning \o text \o calls
  BY BlocksOfAnswer
<1> HIDE DEF thought, said, empty, calls, blocks
<1>2. reasoning \in Seq(Blocks) /\ Gather(F, reasoning) = Once(answer.reasoning, F[thought])
  <2> DEFINE there == answer.reasoning
  <2>1. there \in BOOLEAN
    BY <1>1
  <2> HIDE DEF there
  <2> DEFINE list == Once(there, <<thought>>)
  <2>2. list = Once(there, <<thought>>)
    OBVIOUS
  <2> HIDE DEF list
  <2>3. GathersOnce(F, Blocks, list, there, thought)
    BY <1>1, <2>1, <2>2, GatherOnce
  <2> QED BY <2>3 DEF GathersOnce, list, there
<1>3. text \in Seq(Blocks) /\ Gather(F, text) = Once(answer.text, F[said])
  <2> DEFINE there == answer.text
  <2>1. there \in BOOLEAN
    BY <1>1
  <2> HIDE DEF there
  <2> DEFINE list == Once(there, <<said>>)
  <2>2. list = Once(there, <<said>>)
    OBVIOUS
  <2> HIDE DEF list
  <2>3. GathersOnce(F, Blocks, list, there, said)
    BY <1>1, <2>1, <2>2, GatherOnce
  <2> QED BY <2>3 DEF GathersOnce, list, there
<1> HIDE DEF reasoning, text
<1>4. CASE IsNone(answer)
  <2>1. blocks = <<empty>>
    BY <1>1, <1>4
  <2>2. Gather(F, blocks) = F[empty]
    <3>1. empty \in Blocks
      BY <1>1
    <3>2. \A block \in Blocks : \A one : one = <<block>> => Gather(F, one) = F[block]
      BY GatherOne
    <3> QED BY <2>1, <3>1, <3>2, Zenon
  <2> QED BY <1>4, <2>2 DEF GathersFrom, empty, blocks
<1>5. CASE ~IsNone(answer)
  <2> DEFINE head == reasoning \o text
  <2>1. head \in Seq(Blocks) /\ head = reasoning \o text /\ blocks \in Seq(Blocks)
        /\ blocks = head \o calls
    BY <1>1, <1>2, <1>3, <1>5
  <2> HIDE DEF head
  <2>2. GathersBoth(F, head, reasoning, text)
    BY <1>2, <1>3, <2>1, GatherConcat
  <2>3. GathersBoth(F, blocks, head, calls)
    BY <1>1, <2>1, GatherConcat
  <2>4. Gather(F, blocks) = (Gather(F, reasoning) \o Gather(F, text)) \o Gather(F, calls)
    BY <2>2, <2>3, Zenon DEF GathersBoth
  <2> QED BY <1>2, <1>3, <1>5, <2>4 DEF GathersFrom, thought, said, calls, blocks
<1> QED BY <1>4, <1>5

LEMMA CallsGathered ==
  ASSUME keepsIDs \in BOOLEAN, NEW turn \in Nat, NEW answer \in Answers,
         NEW F, Gathers(F, Blocks, Tags)
  PROVE  /\ (\A k \in 1 .. answer.calls : F[CallOf(turn, k)] = <<IDOf(turn, k)>>)
              => Gather(F, CallsOf(turn, answer)) = IDsOf(turn, answer)
         /\ (\A k \in 1 .. answer.calls : F[CallOf(turn, k)] = <<>>)
              => Gather(F, CallsOf(turn, answer)) = <<>>
PROOF
<1> DEFINE n == answer.calls
           ids == IDsOf(turn, answer)
           calls == CallsOf(turn, answer)
           fields == [k \in 1 .. n |-> F[CallOf(turn, k)]]
<1>1. /\ n \in Nat /\ Len(calls) = n
      /\ \A k \in 1 .. n : CallOf(turn, k) \in Blocks /\ IDOf(turn, k) \in Tags
  BY BlocksOfAnswer
<1>2. ids \in Seq(Tags) /\ Len(ids) = n /\ \A k \in 1 .. n : ids[k] = IDOf(turn, k)
  BY <1>1 DEF IDsOf
<1>3. Gather(F, calls) = FlattenSeq(fields)
  <2>1. \A k \in 1 .. n : calls[k] = CallOf(turn, k)
    BY DEF CallsOf
  <2>2. [k \in 1 .. Len(calls) |-> F[calls[k]]] = fields
    BY <1>1, <2>1
  <2> QED BY <2>2 DEF Gather
<1> HIDE DEF n, ids, calls
<1>4. ASSUME \A k \in 1 .. n : F[CallOf(turn, k)] = <<IDOf(turn, k)>>
      PROVE  Gather(F, calls) = ids
  <2>1. fields = [k \in 1 .. Len(ids) |-> <<ids[k]>>]
    BY <1>2, <1>4
  <2> HIDE DEF fields
  <2>2. FlattenSeq([k \in 1 .. Len(ids) |-> <<ids[k]>>]) = ids
    BY <1>2, FlattenSingles
  <2> QED BY <1>3, <2>1, <2>2
<1>5. ASSUME \A k \in 1 .. n : F[CallOf(turn, k)] = <<>>
      PROVE  Gather(F, calls) = <<>>
  <2> DEFINE none == [k \in 1 .. n |-> <<>>]
  <2>1. none \in Seq(Seq(Tags)) /\ Len(none) = n /\ \A k \in 1 .. n : none[k] = <<>>
    <3>1. <<>> \in Seq(Tags)
      OBVIOUS
    <3> QED BY <1>1, <3>1
  <2>2. fields = none
    BY <1>5
  <2> HIDE DEF fields, none
  <2>3. FlattenSeq(none) = <<>>
    BY <2>1, FlattenNothing
  <2> QED BY <1>3, <2>2, <2>3
<1> QED BY <1>4, <1>5 DEF n, ids, calls

AddedFrom(F, w) == [block \in Blocks |-> AddedBy(F, w, "assistant", block)]

\* The field comes to total; nothing but the empty text may stand in for nothing.
ComesTo(F, w, total, messages) ==
  /\ messages \in Seq(ChatMessages)
  /\ \/ Gather(F, messages) = total
     \/ w = TRUE /\ total = <<>> /\ Gather(F, messages) = <<Empty>>

LEMMA EndsEither ==
  ASSUME NEW role \in Roles, NEW F, NEW w, Reads(F, w), NEW total, NEW messages,
         Ends(F, role, total, messages)
  PROVE  ComesTo(F, w, total, messages)
PROOF
<1> DEFINE parts == <<<<Empty>>>>
           m == TextMessage(role, parts)
           none == <<m>>
<1>1. parts \in Seq(Seq(Tags)) /\ Len(parts) = 1 /\ parts[1] = <<Empty>>
  BY DEF Empty, Tags
<1> HIDE DEF parts
<1>2. FlattenSeq(parts) = <<Empty>>
  BY <1>1, FlattenOne
<1>3. m \in ChatMessages /\ F[m] = IF w THEN <<Empty>> ELSE <<>>
  BY <1>1, <1>2, MessageTypes DEF Reads
<1> HIDE DEF m
<1>4. none \in Seq(ChatMessages) /\ none = <<m>>
  BY <1>3
<1> HIDE DEF none
<1>5. Gathers(F, ChatMessages, Tags) /\ w \in BOOLEAN
  BY DEF Reads
<1>6. Gather(F, none) = F[m]
  BY <1>3, <1>4, <1>5, GatherOne
<1>7. Gather(F, <<>>) = <<>>
  BY <1>5, GatherTypes
<1>8. PICK list \in Seq(ChatMessages) :
        Gather(F, list) = total /\ messages = IF list = <<>> THEN none ELSE list
  BY <1>4 DEF Ends, m, parts
<1>9. CASE list = <<>>
  <2>1. messages = none /\ total = <<>>
    BY <1>7, <1>8, <1>9
  <2> QED BY <1>3, <1>4, <1>5, <1>6, <2>1 DEF ComesTo
<1>10. CASE list # <<>>
  BY <1>8, <1>10 DEF ComesTo
<1> QED BY <1>9, <1>10

LEMMA FieldComesBack ==
  ASSUME api \in APIs, keepsIDs \in BOOLEAN, NEW turn \in Nat, NEW answer \in Answers,
         NEW F, NEW w, Reads(F, w)
  PROVE  /\ Gathers(AddedFrom(F, w), Blocks, Tags)
         /\ \E total : /\ GathersFrom(total, AddedFrom(F, w), turn, answer)
                       /\ Ends(F, "assistant", total,
                            ContentToChatMessages("assistant",
                              ContentBlocksFromMessage(turn, answer)))
PROOF
<1> DEFINE G == AddedFrom(F, w)
           blocks == ContentBlocksFromMessage(turn, answer)
           messages == ContentToChatMessages("assistant", blocks)
           added == Additions(F, w, "assistant", blocks)
<1>1. blocks \in Seq(Blocks)
  BY AnswerBlocks
<1> HIDE DEF blocks
<1>2. "assistant" \in Roles
  BY DEF Roles
<1>3. ASSUME NEW block \in Blocks PROVE AddedBy(F, w, "assistant", block) \in Seq(Tags)
  <2>1. OwnOf(block) \in ChatMessages
    BY MessageTypes DEF OwnOf
  <2>2. F[OwnOf(block)] \in Seq(Tags)
    BY <2>1 DEF Reads, Gathers
  <2>3. <<block.tag>> \in Seq(Tags) /\ <<>> \in Seq(Tags)
    BY DEF Blocks
  <2> QED BY <2>2, <2>3 DEF AddedBy
<1>4. Gathers(G, Blocks, Tags)
  BY <1>3 DEF Gathers, AddedFrom
<1>5. Ends(F, "assistant", FlattenSeq(added), messages)
  BY <1>1, <1>2, ContentEnds
<1>6. FlattenSeq(added) = Gather(G, blocks)
  <2>1. \A k \in 1 .. Len(blocks) : blocks[k] \in Blocks
    BY <1>1, ElementOfSeq
  <2>2. added = [k \in 1 .. Len(blocks) |-> G[blocks[k]]]
    BY <2>1 DEF Additions, AddedFrom
  <2> QED BY <2>2 DEF Gather
<1> HIDE DEF G
<1>7. GathersFrom(Gather(G, blocks), G, turn, answer)
  BY <1>4, AnswerGathers DEF blocks
<1> QED BY <1>4, <1>5, <1>6, <1>7 DEF G, blocks

callsOf == [message \in ChatMessages |-> message.calls]
reasoningOf == [message \in ChatMessages |-> message.reasoning]
contentOf == [message \in ChatMessages |-> FlattenSeq(message.content)]

LEMMA FieldsRead == Reads(callsOf, FALSE) /\ Reads(reasoningOf, FALSE) /\ Reads(contentOf, TRUE)
PROOF
<1>1. ASSUME NEW role \in Roles, NEW parts \in Seq(Seq(Tags))
      PROVE  /\ TextMessage(role, parts) \in ChatMessages
             /\ TextMessage(role, parts).calls = <<>>
             /\ TextMessage(role, parts).reasoning = <<>>
             /\ TextMessage(role, parts).content = parts
  BY MessageTypes DEF TextMessage, Message
<1>2. ASSUME NEW m \in ChatMessages
      PROVE  /\ m.calls \in Seq(Tags) /\ m.reasoning \in Seq(Tags)
             /\ FlattenSeq(m.content) \in Seq(Tags)
  <2> DEFINE content == m.content
  <2>1. content \in Seq(Seq(Tags)) /\ m.calls \in Seq(Tags) /\ m.reasoning \in Seq(Tags)
    BY DEF ChatMessages
  <2> HIDE DEF content
  <2>2. FlattenSeq(content) \in Seq(Tags)
    BY <2>1, FlattenTypes
  <2> QED BY <2>1, <2>2 DEF content
<1>3. Reads(callsOf, FALSE)
  BY <1>1, <1>2 DEF Reads, Gathers, callsOf
<1>4. Reads(reasoningOf, FALSE)
  BY <1>1, <1>2 DEF Reads, Gathers, reasoningOf
<1>5. Reads(contentOf, TRUE)
  BY <1>1, <1>2 DEF Reads, Gathers, contentOf
<1> QED BY <1>3, <1>4, <1>5

\* What each kind of block of an answer adds to each of the fields.
LEMMA FieldsOfBlocks ==
  ASSUME api \in APIs, keepsIDs \in BOOLEAN, NEW turn \in Nat, NEW answer \in Answers
  PROVE  /\ LET G == AddedFrom(callsOf, FALSE)
            IN /\ G[EmptyBlock] = <<>> /\ G[TextOf(turn)] = <<>> /\ G[ThoughtOf(turn)] = <<>>
               /\ \A k \in 1 .. answer.calls : G[CallOf(turn, k)] = <<IDOf(turn, k)>>
         /\ LET G == AddedFrom(reasoningOf, FALSE)
            IN /\ G[EmptyBlock] = <<>> /\ G[TextOf(turn)] = <<>>
               /\ G[ThoughtOf(turn)] = Once(api = "anthropic", <<Tag(turn, 1)>>)
               /\ \A k \in 1 .. answer.calls : G[CallOf(turn, k)] = <<>>
         /\ LET G == AddedFrom(contentOf, TRUE)
            IN /\ G[EmptyBlock] = <<Empty>> /\ G[TextOf(turn)] = <<Tag(turn, 2)>>
               /\ G[ThoughtOf(turn)] = Once(api = "gemini", <<Tag(turn, 1)>>)
               /\ \A k \in 1 .. answer.calls : G[CallOf(turn, k)] = <<>>
PROOF
<1> DEFINE thought == ThoughtOf(turn)
           said == TextOf(turn)
<1>1. /\ thought \in Blocks /\ said \in Blocks /\ EmptyBlock \in Blocks
      /\ \A k \in 1 .. answer.calls : CallOf(turn, k) \in Blocks
  BY BlocksOfAnswer
<1>2. /\ thought.kind = "thinking" /\ thought.tag = Tag(turn, 1)
      /\ said.kind = "text" /\ said.tag = Tag(turn, 2)
      /\ EmptyBlock.kind = "text" /\ EmptyBlock.tag = Empty
      /\ \A k : CallOf(turn, k).kind = "call" /\ CallOf(turn, k).id = IDOf(turn, k)
  BY DEF ThoughtOf, TextOf, EmptyBlock, CallOf, Block
<1> HIDE DEF thought, said
<1> DEFINE inCalls == AddedFrom(callsOf, FALSE)
           inReasoning == AddedFrom(reasoningOf, FALSE)
           inContent == AddedFrom(contentOf, TRUE)
<1>6. ASSUME NEW block \in Blocks
      PROVE  /\ callsOf[CallMessage(block)] = <<block.id>>
             /\ callsOf[ThinkingMessage(block)] = <<>>
             /\ reasoningOf[CallMessage(block)] = <<>>
             /\ reasoningOf[ThinkingMessage(block)] = <<block.tag>>
             /\ contentOf[CallMessage(block)] = <<>>
             /\ contentOf[ThinkingMessage(block)] = <<>>
  <2>1. CallMessage(block) \in ChatMessages /\ ThinkingMessage(block) \in ChatMessages
    BY MessageTypes
  <2>2. FlattenSeq(<<>>) = <<>>
    BY FlattenTypes
  <2>3. /\ CallMessage(block).calls = <<block.id>> /\ ThinkingMessage(block).calls = <<>>
        /\ CallMessage(block).reasoning = <<>> /\ ThinkingMessage(block).reasoning = <<block.tag>>
        /\ CallMessage(block).content = <<>> /\ ThinkingMessage(block).content = <<>>
    BY DEF CallMessage, ThinkingMessage, Message
  <2> QED BY <2>1, <2>2, <2>3 DEF callsOf, reasoningOf, contentOf
<1>3. ASSUME NEW block \in Blocks, block.kind = "text"
      PROVE  /\ inCalls[block] = <<>> /\ inReasoning[block] = <<>>
             /\ inContent[block] = <<block.tag>>
  BY <1>3 DEF AddedFrom, AddedBy, IsOwn, IsThought, IsIgnored
<1>4. ASSUME NEW block \in Blocks, block.kind = "call"
      PROVE  /\ inCalls[block] = <<block.id>> /\ inReasoning[block] = <<>>
             /\ inContent[block] = <<>>
  <2>1. IsOwn("assistant", block) /\ OwnOf(block) = CallMessage(block)
    BY <1>4 DEF IsOwn, OwnOf
  <2>2. /\ inCalls[block] = callsOf[CallMessage(block)]
        /\ inReasoning[block] = reasoningOf[CallMessage(block)]
        /\ inContent[block] = contentOf[CallMessage(block)]
    BY <2>1 DEF AddedFrom, AddedBy
  <2> HIDE DEF inCalls, inReasoning, inContent
  <2> QED BY <1>6, <2>2
<1>5. ASSUME NEW block \in Blocks, block.kind = "thinking"
      PROVE  /\ inCalls[block] = <<>>
             /\ inReasoning[block] = Once(api = "anthropic", <<block.tag>>)
             /\ inContent[block] = Once(api = "gemini", <<block.tag>>)
  <2>1. CASE api = "anthropic"
    <3>1. IsOwn("assistant", block) /\ OwnOf(block) = ThinkingMessage(block)
      BY <1>5, <2>1 DEF IsOwn, IsThought, OwnOf
    <3>2. /\ inCalls[block] = callsOf[ThinkingMessage(block)]
          /\ inReasoning[block] = reasoningOf[ThinkingMessage(block)]
          /\ inContent[block] = contentOf[ThinkingMessage(block)]
      BY <3>1 DEF AddedFrom, AddedBy
    <3> HIDE DEF inCalls, inReasoning, inContent
    <3>3. /\ inCalls[block] = <<>> /\ inReasoning[block] = <<block.tag>>
          /\ inContent[block] = <<>>
      BY <1>6, <3>2
    <3> QED BY <2>1, <3>3 DEF Once
  <2>2. CASE api # "anthropic"
    <3>1. ~IsOwn("assistant", block) /\ ~IsIgnored("assistant", block) /\ api = "gemini"
      BY <1>5, <2>2 DEF IsOwn, IsThought, IsIgnored, APIs
    <3>2. /\ inCalls[block] = <<>> /\ inReasoning[block] = <<>>
          /\ inContent[block] = <<block.tag>>
      BY <3>1 DEF AddedFrom, AddedBy
    <3> QED BY <3>1, <3>2 DEF Once
  <2> QED BY <2>1, <2>2
<1> HIDE DEF inCalls, inReasoning, inContent
<1>7. /\ inCalls[EmptyBlock] = <<>> /\ inCalls[said] = <<>> /\ inCalls[thought] = <<>>
      /\ inReasoning[EmptyBlock] = <<>> /\ inReasoning[said] = <<>>
      /\ inContent[EmptyBlock] = <<Empty>> /\ inContent[said] = <<Tag(turn, 2)>>
  BY <1>1, <1>2, <1>3, <1>5
<1>8. /\ inReasoning[thought] = Once(api = "anthropic", <<Tag(turn, 1)>>)
      /\ inContent[thought] = Once(api = "gemini", <<Tag(turn, 1)>>)
  BY <1>1, <1>2, <1>5
<1>9. ASSUME NEW k \in 1 .. answer.calls
      PROVE  /\ inCalls[CallOf(turn, k)] = <<IDOf(turn, k)>>
             /\ inReasoning[CallOf(turn, k)] = <<>> /\ inContent[CallOf(turn, k)] = <<>>
  BY <1>1, <1>2, <1>4
<1> QED BY <1>7, <1>8, <1>9 DEF thought, said, inCalls, inReasoning, inContent

LEMMA CallsComeBack ==
  ASSUME api \in APIs, keepsIDs \in BOOLEAN, NEW turn \in Nat, NEW answer \in Answers
  PROVE  Gather(callsOf, ContentToChatMessages("assistant", ContentBlocksFromMessage(turn, answer)))
           = IDsOf(turn, answer)
PROOF
<1> DEFINE G == AddedFrom(callsOf, FALSE)
           messages == ContentToChatMessages("assistant", ContentBlocksFromMessage(turn, answer))
           ids == IDsOf(turn, answer)
<1>1. Reads(callsOf, FALSE) /\ "assistant" \in Roles
  BY FieldsRead DEF Roles
<1>2. /\ Gathers(G, Blocks, Tags)
      /\ \E total : GathersFrom(total, G, turn, answer) /\ Ends(callsOf, "assistant", total, messages)
  BY <1>1, FieldComesBack
<1>3. /\ G[EmptyBlock] = <<>> /\ G[TextOf(turn)] = <<>> /\ G[ThoughtOf(turn)] = <<>>
      /\ \A k \in 1 .. answer.calls : G[CallOf(turn, k)] = <<IDOf(turn, k)>>
  BY FieldsOfBlocks
<1> HIDE DEF G, messages
<1>4. PICK total : GathersFrom(total, G, turn, answer) /\ Ends(callsOf, "assistant", total, messages)
  BY <1>2
<1>5. Gather(G, CallsOf(turn, answer)) = ids
  BY <1>2, <1>3, CallsGathered
<1>6. ids \in Seq(Tags) /\ (IsNone(answer) => ids = <<>>)
  <2>1. answer.calls \in Nat /\ \A k \in 1 .. answer.calls : IDOf(turn, k) \in Tags
    BY BlocksOfAnswer
  <2> QED BY <2>1 DEF IDsOf, IsNone
<1> HIDE DEF ids
<1>7. total = ids
  <2>1. CASE IsNone(answer)
    BY <1>3, <1>4, <1>6, <2>1 DEF GathersFrom
  <2>2. CASE ~IsNone(answer)
    <3>1. total = Once(answer.reasoning, <<>>) \o Once(answer.text, <<>>) \o ids
      BY <1>3, <1>4, <1>5, <2>2, Zenon DEF GathersFrom
    <3>2. Once(answer.reasoning, <<>>) = <<>> /\ Once(answer.text, <<>>) = <<>>
      BY DEF Once
    <3>3. total = <<>> \o <<>> \o ids
      BY <3>1, <3>2
    <3>4. <<>> \o <<>> \o ids = ids
      BY <1>6
    <3> QED BY <3>3, <3>4
  <2> QED BY <2>1, <2>2
<1>8. ComesTo(callsOf, FALSE, total, messages)
  BY <1>1, <1>4, EndsEither
<1> QED BY <1>7, <1>8 DEF ComesTo, messages, ids

LEMMA ReasoningComesBack ==
  ASSUME api \in APIs, keepsIDs \in BOOLEAN, NEW turn \in Nat, NEW answer \in Answers
  PROVE  Gather(reasoningOf, ContentToChatMessages("assistant", ContentBlocksFromMessage(turn, answer)))
           = Once(answer.reasoning, Once(api = "anthropic", <<Tag(turn, 1)>>))
PROOF
<1> DEFINE G == AddedFrom(reasoningOf, FALSE)
           messages == ContentToChatMessages("assistant", ContentBlocksFromMessage(turn, answer))
           thought == Once(api = "anthropic", <<Tag(turn, 1)>>)
           reasoning == Once(answer.reasoning, thought)
<1>1. Reads(reasoningOf, FALSE) /\ "assistant" \in Roles
  BY FieldsRead DEF Roles
<1>2. /\ Gathers(G, Blocks, Tags)
      /\ \E total : GathersFrom(total, G, turn, answer) /\ Ends(reasoningOf, "assistant", total, messages)
  BY <1>1, FieldComesBack
<1>3. /\ G[EmptyBlock] = <<>> /\ G[TextOf(turn)] = <<>> /\ G[ThoughtOf(turn)] = thought
      /\ \A k \in 1 .. answer.calls : G[CallOf(turn, k)] = <<>>
  BY FieldsOfBlocks
<1> HIDE DEF G, messages
<1>4. PICK total : GathersFrom(total, G, turn, answer) /\ Ends(reasoningOf, "assistant", total, messages)
  BY <1>2
<1>5. Gather(G, CallsOf(turn, answer)) = <<>>
  BY <1>2, <1>3, CallsGathered
<1>6. thought \in Seq(Tags)
  <2>1. Tag(turn, 1) \in Tags
    BY IDTypes
  <2> QED BY <2>1 DEF Once
<1> HIDE DEF thought
<1>7. reasoning \in Seq(Tags) /\ (IsNone(answer) => reasoning = <<>>)
  BY <1>6 DEF Once, IsNone
<1> HIDE DEF reasoning
<1>8. total = reasoning
  <2>1. CASE IsNone(answer)
    BY <1>3, <1>4, <1>7, <2>1 DEF GathersFrom
  <2>2. CASE ~IsNone(answer)
    <3>1. total = Once(answer.reasoning, thought) \o Once(answer.text, <<>>) \o <<>>
      BY <1>3, <1>4, <1>5, <2>2, Zenon DEF GathersFrom
    <3>2. Once(answer.text, <<>>) = <<>>
      BY DEF Once
    <3>3. total = reasoning \o <<>> \o <<>>
      BY <3>1, <3>2 DEF reasoning
    <3>4. reasoning \o <<>> \o <<>> = reasoning
      BY <1>7
    <3> QED BY <3>3, <3>4
  <2> QED BY <2>1, <2>2
<1>9. ComesTo(reasoningOf, FALSE, total, messages)
  BY <1>1, <1>4, EndsEither
<1> QED BY <1>8, <1>9 DEF ComesTo, messages, reasoning, thought

unempty == [tag \in Tags |-> IF tag = Empty THEN <<>> ELSE <<tag>>]

LEMMA UnemptyOf ==
  /\ Gathers(unempty, Tags, Tags) /\ unempty[Empty] = <<>>
  /\ \A tag \in Tags : tag # Empty => unempty[tag] = <<tag>>
PROOF
<1>1. Empty \in Tags /\ \A tag \in Tags : <<tag>> \in Seq(Tags)
  BY DEF Empty, Tags
<1> QED BY <1>1 DEF Gathers, unempty

LEMMA TextComesBack ==
  ASSUME api \in APIs, keepsIDs \in BOOLEAN, NEW turn \in Nat \ {0}, NEW answer \in Answers
  PROVE  LET content == Gather(contentOf, ContentToChatMessages("assistant",
                                            ContentBlocksFromMessage(turn, answer)))
         IN /\ content \in Seq(Tags)
            /\ Gather(unempty, content)
                 = Once(answer.reasoning, Once(api = "gemini", <<Tag(turn, 1)>>))
                     \o Once(answer.text, <<Tag(turn, 2)>>)
PROOF
<1> DEFINE G == AddedFrom(contentOf, TRUE)
           messages == ContentToChatMessages("assistant", ContentBlocksFromMessage(turn, answer))
           content == Gather(contentOf, messages)
           thought == Once(api = "gemini", <<Tag(turn, 1)>>)
           reasoning == Once(answer.reasoning, thought)
           text == Once(answer.text, <<Tag(turn, 2)>>)
           both == reasoning \o text
<1>1. Reads(contentOf, TRUE) /\ "assistant" \in Roles
  BY FieldsRead DEF Roles
<1>2. /\ Gathers(G, Blocks, Tags)
      /\ \E total : GathersFrom(total, G, turn, answer) /\ Ends(contentOf, "assistant", total, messages)
  BY <1>1, FieldComesBack
<1>3. /\ G[EmptyBlock] = <<Empty>> /\ G[TextOf(turn)] = <<Tag(turn, 2)>>
      /\ G[ThoughtOf(turn)] = thought
      /\ \A k \in 1 .. answer.calls : G[CallOf(turn, k)] = <<>>
  BY FieldsOfBlocks
<1> HIDE DEF G, messages
<1>4. PICK total : GathersFrom(total, G, turn, answer) /\ Ends(contentOf, "assistant", total, messages)
  BY <1>2
<1>5. Gather(G, CallsOf(turn, answer)) = <<>>
  BY <1>2, <1>3, CallsGathered
<1>6. messages \in Seq(ChatMessages) /\ (content = total \/ (total = <<>> /\ content = <<Empty>>))
  <2>1. ComesTo(contentOf, TRUE, total, messages)
    BY <1>1, <1>4, EndsEither
  <2> QED BY <2>1 DEF ComesTo
<1>7. content \in Seq(Tags)
  BY <1>1, <1>6, GatherTypes DEF Reads
<1> HIDE DEF content
<1>8. /\ Tag(turn, 1) \in Tags /\ Tag(turn, 2) \in Tags /\ Empty \in Tags
      /\ Tag(turn, 1) # Empty /\ Tag(turn, 2) # Empty
  BY DEF Tag, Tags, Empty
<1>9. answer.reasoning \in BOOLEAN /\ answer.text \in BOOLEAN
  BY BlocksOfAnswer
<1>10. reasoning = Once(answer.reasoning /\ api = "gemini", <<Tag(turn, 1)>>)
  BY <1>9 DEF Once
<1>11. reasoning \in Seq(Tags) /\ Gather(unempty, reasoning) = reasoning
  <2> DEFINE m == Tag(turn, 1)
             there == answer.reasoning /\ api = "gemini"
  <2>1. /\ m \in Tags /\ there \in BOOLEAN /\ unempty[m] = <<m>>
        /\ reasoning = Once(there, <<m>>) /\ Gathers(unempty, Tags, Tags)
    BY <1>8, <1>10, UnemptyOf
  <2> HIDE DEF m, there, reasoning
  <2>2. GathersOnce(unempty, Tags, reasoning, there, m)
    BY <2>1, GatherOnce
  <2> QED BY <2>1, <2>2 DEF GathersOnce
<1>12. text \in Seq(Tags) /\ Gather(unempty, text) = text
  <2> DEFINE m == Tag(turn, 2)
             there == answer.text
  <2>1. /\ m \in Tags /\ there \in BOOLEAN /\ unempty[m] = <<m>>
        /\ text = Once(there, <<m>>) /\ Gathers(unempty, Tags, Tags)
    BY <1>8, <1>9, UnemptyOf
  <2> HIDE DEF m, there, text
  <2>2. GathersOnce(unempty, Tags, text, there, m)
    BY <2>1, GatherOnce
  <2> QED BY <2>1, <2>2 DEF GathersOnce
<1>13. IsNone(answer) => reasoning = <<>> /\ text = <<>>
  BY DEF IsNone, Once
<1>14. ~IsNone(answer) => total = Once(answer.reasoning, thought) \o text \o <<>>
  BY <1>3, <1>4, <1>5, Zenon DEF GathersFrom
<1>15. IsNone(answer) => total = <<Empty>>
  BY <1>3, <1>4 DEF GathersFrom
<1>16. both \in Seq(Tags) /\ Gather(unempty, both) = both
  <2> HIDE DEF reasoning, text
  <2>1. both \in Seq(Tags) /\ both = reasoning \o text
    BY <1>11, <1>12
  <2> HIDE DEF both
  <2>2. GathersBoth(unempty, both, reasoning, text)
    BY <1>11, <1>12, <2>1, UnemptyOf, GatherConcat
  <2> QED BY <1>11, <1>12, <2>1, <2>2 DEF GathersBoth
<1>17. ~IsNone(answer) => total = both
  <2> HIDE DEF text, thought
  <2>1. ~IsNone(answer) => total = both \o <<>>
    BY <1>14
  <2> HIDE DEF both
  <2>2. both \o <<>> = both
    BY <1>16
  <2> QED BY <2>1, <2>2
<1> HIDE DEF reasoning, text
<1>18. Gather(unempty, <<Empty>>) = <<>>
  <2> DEFINE m == Empty
             one == <<m>>
  <2>1. m \in Tags /\ one = <<m>> /\ unempty[m] = <<>>
    BY <1>8, UnemptyOf
  <2> HIDE DEF m, one
  <2>2. Gather(unempty, one) = unempty[m]
    BY <2>1, UnemptyOf, GatherOne
  <2> QED BY <2>1, <2>2 DEF one, m
<1>19. Gather(unempty, content) = both
  <2>1. CASE IsNone(answer)
    <3>1. both = <<>>
      BY <1>13, <2>1
    <3>2. content = <<Empty>>
      BY <1>6, <1>15, <2>1
    <3> QED BY <1>18, <3>1, <3>2
  <2>2. CASE ~IsNone(answer)
    <3> HIDE DEF both
    <3>1. CASE content = total
      BY <1>16, <1>17, <2>2, <3>1
    <3>2. CASE total = <<>> /\ content = <<Empty>>
      BY <1>17, <1>18, <2>2, <3>2
    <3> QED BY <1>6, <3>1, <3>2
  <2> QED BY <2>1, <2>2
<1> QED BY <1>7, <1>19 DEF content, messages, reasoning, text

LEMMA MessagesWithin ==
  ASSUME api \in APIs, NEW role \in Roles, NEW blocks \in Seq(Blocks),
         NEW S, HasTexts(S, role),
         \A k \in 1 .. Len(blocks) : IsOwn(role, blocks[k]) => OwnOf(blocks[k]) \in S
  PROVE  \A j \in 1 .. Len(ContentToChatMessages(role, blocks)) :
           ContentToChatMessages(role, blocks)[j] \in S
PROOF
<1> DEFINE messages == ContentToChatMessages(role, blocks)
           n == Len(blocks)
           none == TextMessage(role, <<<<Empty>>>>)
<1>1. PICK f : PassOver(role, blocks, f) /\ PassEnds(role, f[n], messages)
  BY PassExists
<1>2. n \in Nat /\ 0 \in 0 .. n /\ n \in 0 .. n
  BY LenProperties
<1>3. f[n] \in PassStates /\ f[0] = Start
  BY <1>1, <1>2 DEF PassOver
<1> DEFINE list == <<>>
<1>4. list = f[0].messages /\ list \in Seq(ChatMessages)
  BY <1>3 DEF Start
<1> DEFINE first == 0
           last == n
<1>5. first \in 0 .. n /\ last \in first .. n
  BY <1>2
<1>6. \A k \in 1 .. n : first < k /\ k <= last /\ IsOwn(role, blocks[k]) => OwnOf(blocks[k]) \in S
  OBVIOUS
<1> HIDE DEF first, last, list, messages
<1>7. Grows(f[last].messages, f[first].messages, S)
  BY <1>1, <1>5, <1>6, PassGrows
<1> DEFINE s == f[n]
<1>8. Grows(s.messages, list, S) /\ s \in PassStates /\ PassEnds(role, s, messages)
  BY <1>1, <1>3, <1>4, <1>7 DEF first, last
<1> HIDE DEF s
<1>9. PICK t : /\ ContentFlushed(role, s, t)
               /\ messages = IF t.messages = <<>> THEN <<none>> ELSE t.messages
  BY <1>8 DEF PassEnds
<1>10. Grows(t.messages, list, S)
  BY <1>4, <1>8, <1>9, FlushGrows
<1>11. \A j \in 1 .. Len(t.messages) : t.messages[j] \in S
  <2>1. Len(list) = 0
    BY DEF list
  <2> QED BY <1>10, <2>1 DEF Grows
<1>12. none \in S
  <2> DEFINE parts == <<<<Empty>>>>
  <2>1. parts \in Seq(Seq(Tags))
    BY DEF Empty, Tags
  <2> HIDE DEF parts
  <2>2. TextMessage(role, parts) \in S
    BY <2>1 DEF HasTexts
  <2> QED BY <2>2 DEF parts
<1> HIDE DEF none
<1>13. \A j \in 1 .. Len(messages) : messages[j] \in S
  <2>1. Len(<<none>>) = 1 /\ <<none>>[1] = none
    OBVIOUS
  <2> QED BY <1>9, <1>11, <1>12, <2>1
<1> QED BY <1>13 DEF messages

\* Thinking and text come first in an answer, then its calls.
LEMMA PlacesInAnswer ==
  ASSUME keepsIDs \in BOOLEAN, NEW turn \in Nat, NEW answer \in Answers
  PROVE  LET blocks == ContentBlocksFromMessage(turn, answer)
         IN \E h \in Nat :
              /\ Len(blocks) = h + answer.calls /\ blocks \in Seq(Blocks)
              /\ \A j \in 1 .. h : blocks[j].kind \notin {"call", "result"}
              /\ \A j \in 1 .. answer.calls : blocks[h + j] = CallOf(turn, j)
PROOF
<1> DEFINE blocks == ContentBlocksFromMessage(turn, answer)
           thought == ThoughtOf(turn)
           said == TextOf(turn)
           calls == CallsOf(turn, answer)
           Others == {block \in Blocks : block.kind \notin {"call", "result"}}
           reasoning == Once(answer.reasoning, <<thought>>)
           text == Once(answer.text, <<said>>)
           n == answer.calls
<1>1. /\ n \in Nat
      /\ calls \in Seq(Blocks) /\ Len(calls) = n /\ blocks \in Seq(Blocks)
      /\ blocks = IF IsNone(answer) THEN <<EmptyBlock>> ELSE reasoning \o text \o calls
  BY BlocksOfAnswer, AnswerBlocks
<1>2. thought \in Others /\ said \in Others /\ EmptyBlock \in Others
  <2>1. thought \in Blocks /\ said \in Blocks /\ EmptyBlock \in Blocks
    BY BlocksOfAnswer
  <2>2. thought.kind = "thinking" /\ said.kind = "text" /\ EmptyBlock.kind = "text"
    BY DEF ThoughtOf, TextOf, EmptyBlock, Block
  <2> QED BY <2>1, <2>2
<1>3. \A k \in 1 .. n : calls[k] = CallOf(turn, k)
  BY DEF CallsOf
<1>4. IsNone(answer) => n = 0
  BY DEF IsNone
<1> HIDE DEF blocks, thought, said, calls, Others, n
<1>5. reasoning \in Seq(Others) /\ text \in Seq(Others)
  BY <1>2 DEF Once
<1> HIDE DEF reasoning, text
<1>6. CASE IsNone(answer)
  <2>1. Len(blocks) = 1 /\ blocks[1] = EmptyBlock
    BY <1>1, <1>6
  <2>2. Len(blocks) = 1 + n /\ (\A j \in 1 .. 1 : blocks[j].kind \notin {"call", "result"})
        /\ \A j \in 1 .. n : blocks[1 + j] = CallOf(turn, j)
    BY <1>1, <1>2, <1>4, <1>6, <2>1 DEF Others
  <2> QED BY <1>1, <2>2 DEF blocks, n
<1>7. CASE ~IsNone(answer)
  <2> DEFINE head == reasoning \o text
             h == Len(head)
  <2>1. head \in Seq(Others)
    BY <1>5
  <2>2. blocks = head \o calls
    BY <1>1, <1>7
  <2> HIDE DEF head
  <2>3. h \in Nat /\ \A j \in 1 .. h : head[j] \in Others
    BY <2>1, LenProperties, ElementOfSeq
  <2>4. head \in Seq(Blocks)
    <3>1. Others \subseteq Blocks
      BY DEF Others
    <3> QED BY <2>1, <3>1
  <2>5. /\ Len(blocks) = h + n
        /\ \A j \in 1 .. h : blocks[j] = head[j]
        /\ \A j \in 1 .. n : blocks[h + j] = calls[j]
    <3>1. calls \in Seq(Blocks) /\ Len(calls) = n
      BY <1>1, Zenon
    <3> DEFINE both == head \o calls
    <3>2. Len(both) = Len(head) + Len(calls)
      BY <2>4, <3>1
    <3>3. \A j \in 1 .. Len(head) : both[j] = head[j]
      BY <2>4, <3>1
    <3>4. \A j \in 1 .. Len(calls) : both[Len(head) + j] = calls[j]
      BY <2>4, <3>1
    <3>5. blocks = both
      BY <2>2
    <3> HIDE DEF both
    <3> QED BY <3>1, <3>2, <3>3, <3>4, <3>5
  <2> HIDE DEF h
  <2>6. \A j \in 1 .. h : blocks[j].kind \notin {"call", "result"}
    BY <2>3, <2>5 DEF Others
  <2>7. \A j \in 1 .. n : blocks[h + j] = CallOf(turn, j)
    BY <1>3, <2>5
  <2> QED BY <1>1, <2>3, <2>5, <2>6, <2>7 DEF blocks, n
<1> QED BY <1>6, <1>7

LEMMA RolesComeBack ==
  ASSUME api \in APIs, keepsIDs \in BOOLEAN, NEW turn \in Nat, NEW answer \in Answers
  PROVE  LET messages == ContentToChatMessages("assistant", ContentBlocksFromMessage(turn, answer))
         IN \A j \in 1 .. Len(messages) : messages[j].role = "assistant"
PROOF
<1> DEFINE blocks == ContentBlocksFromMessage(turn, answer)
           S == {m \in ChatMessages : m.role = "assistant"}
<1>1. PICK h \in Nat :
        /\ Len(blocks) = h + answer.calls /\ blocks \in Seq(Blocks)
        /\ \A j \in 1 .. h : blocks[j].kind \notin {"call", "result"}
        /\ \A j \in 1 .. answer.calls : blocks[h + j] = CallOf(turn, j)
  BY PlacesInAnswer
<1>2. answer.calls \in Nat
  BY BlocksOfAnswer
<1> HIDE DEF blocks
<1>3. HasTexts(S, "assistant")
  <2>1. ASSUME NEW parts \in Seq(Seq(Tags)) PROVE TextMessage("assistant", parts) \in S
    <3>1. TextMessage("assistant", parts) \in ChatMessages
      BY MessageTypes DEF Roles
    <3>2. TextMessage("assistant", parts).role = "assistant"
      BY DEF TextMessage, Message
    <3> QED BY <3>1, <3>2
  <2> HIDE DEF S
  <2> QED BY <2>1 DEF HasTexts
<1>4. ASSUME NEW k \in 1 .. Len(blocks) PROVE OwnOf(blocks[k]) \in S
  <2> DEFINE block == blocks[k]
  <2>1. block.kind # "result"
    <3>1. CASE k <= h
      BY <1>1, <1>2, <3>1
    <3>2. CASE k > h
      <4>1. k - h \in 1 .. answer.calls /\ h + (k - h) = k
        BY <1>1, <1>2, <3>2
      <4>2. block = CallOf(turn, k - h)
        BY <1>1, <4>1
      <4> QED BY <4>2 DEF CallOf, Block
    <3> QED BY <1>1, <1>2, <3>1, <3>2
  <2>2. block \in Blocks
    BY <1>1, ElementOfSeq
  <2> HIDE DEF block
  <2>3. OwnOf(block) \in ChatMessages
    BY <2>2, MessageTypes DEF OwnOf
  <2>4. OwnOf(block).role = "assistant"
    BY <2>1 DEF OwnOf, CallMessage, ThinkingMessage, Message
  <2> QED BY <2>3, <2>4 DEF block
<1>5. \A k \in 1 .. Len(blocks) : IsOwn("assistant", blocks[k]) => OwnOf(blocks[k]) \in S
  BY <1>4
<1>6. "assistant" \in Roles
  BY DEF Roles
<1> DEFINE messages == ContentToChatMessages("assistant", blocks)
<1>7. \A j \in 1 .. Len(messages) : messages[j] \in S
  <2> HIDE DEF S
  <2> QED BY <1>1, <1>3, <1>5, <1>6, MessagesWithin
<1> HIDE DEF messages
<1>8. \A j \in 1 .. Len(messages) : messages[j].role = "assistant"
  BY <1>7
<1> QED BY <1>8 DEF messages, blocks

LEMMA InvariantBringsBack == TurnsInvariant => AnswersComeBack
PROOF
<1> SUFFICES ASSUME TurnsInvariant PROVE AnswersComeBack
  OBVIOUS
<1>1. ASSUME NEW k \in 1 .. Len(contents), contents[k].role = "assistant"
      PROVE  LET messages == ContentToChatMessages("assistant", contents[k].blocks)
                 answer == answers[k]
                 reasoning == IF answer.reasoning THEN <<Tag(k, 1)>> ELSE <<>>
                 text == IF answer.text THEN <<Tag(k, 2)>> ELSE <<>>
                 content == Gathered(messages, LAMBDA m : FlattenSeq(m.content))
                 back == Gathered(content, LAMBDA tag : IF tag = Empty THEN <<>> ELSE <<tag>>)
             IN /\ \A j \in 1 .. Len(messages) : messages[j].role = "assistant"
                /\ Gathered(messages, LAMBDA m : m.calls)
                     = [place \in 1 .. answer.calls |-> IDOf(k, place)]
                /\ Gathered(messages, LAMBDA m : m.reasoning)
                     = IF api = "anthropic" THEN reasoning ELSE <<>>
                /\ back = IF api = "anthropic" THEN text ELSE reasoning \o text
  <2> DEFINE answer == answers[k]
             messages == ContentToChatMessages("assistant", contents[k].blocks)
             content == Gathered(messages, LAMBDA m : FlattenSeq(m.content))
             reasoning == IF answer.reasoning THEN <<Tag(k, 1)>> ELSE <<>>
             text == IF answer.text THEN <<Tag(k, 2)>> ELSE <<>>
  <2>1. /\ api \in APIs /\ keepsIDs \in BOOLEAN /\ k \in Nat /\ k \in Nat \ {0}
        /\ answer \in Answers
        /\ messages = ContentToChatMessages("assistant", ContentBlocksFromMessage(k, answer))
    <3>1. k \in 1 .. Len(answers) /\ answers \in Seq(Answers)
      BY DEF TurnsInvariant, TurnsTypeOK
    <3>2. answers[k] \in Answers
      BY <3>1, ElementOfSeq
    <3> QED BY <1>1, <3>2 DEF TurnsInvariant, TurnsTypeOK, TurnsAlternate
  <2> HIDE DEF answer, messages
  <2>2. messages \in Seq(ChatMessages)
    <3> DEFINE blocks == ContentBlocksFromMessage(k, answer)
    <3>1. blocks \in Seq(Blocks) /\ "assistant" \in Roles
      BY <2>1, AnswerBlocks DEF Roles
    <3> HIDE DEF blocks
    <3>2. ContentToChatMessages("assistant", blocks) \in Seq(ChatMessages)
      BY <2>1, <3>1, MessagesOfContent
    <3> QED BY <2>1, <3>2 DEF blocks
  <2>3. \A j \in 1 .. Len(messages) : messages[j].role = "assistant"
    BY <2>1, RolesComeBack
  <2>4. \A j \in 1 .. Len(messages) : messages[j] \in ChatMessages
    BY <2>2, ElementOfSeq
  <2>5. Gathered(messages, LAMBDA m : m.calls) = IDsOf(k, answer)
    <3>1. [j \in 1 .. Len(messages) |-> callsOf[messages[j]]]
            = [j \in 1 .. Len(messages) |-> messages[j].calls]
      BY <2>4 DEF callsOf
    <3>2. Gathered(messages, LAMBDA m : m.calls) = Gather(callsOf, messages)
      BY <3>1 DEF Gathered, Gather
    <3> QED BY <2>1, <3>2, CallsComeBack
  <2>6. Gathered(messages, LAMBDA m : m.reasoning)
          = Once(answer.reasoning, Once(api = "anthropic", <<Tag(k, 1)>>))
    <3>1. [j \in 1 .. Len(messages) |-> reasoningOf[messages[j]]]
            = [j \in 1 .. Len(messages) |-> messages[j].reasoning]
      BY <2>4 DEF reasoningOf
    <3>2. Gathered(messages, LAMBDA m : m.reasoning) = Gather(reasoningOf, messages)
      BY <3>1 DEF Gathered, Gather
    <3> QED BY <2>1, <3>2, ReasoningComesBack
  <2>7. content = Gather(contentOf, messages)
    <3>1. [j \in 1 .. Len(messages) |-> contentOf[messages[j]]]
            = [j \in 1 .. Len(messages) |-> FlattenSeq(messages[j].content)]
      BY <2>4 DEF contentOf
    <3> QED BY <3>1 DEF Gathered, Gather
  <2> HIDE DEF content
  <2>8. /\ content \in Seq(Tags)
        /\ Gather(unempty, content) = Once(answer.reasoning, Once(api = "gemini", <<Tag(k, 1)>>))
                                        \o Once(answer.text, <<Tag(k, 2)>>)
    BY <2>1, <2>7, TextComesBack
  <2>9. Gathered(content, LAMBDA tag : IF tag = Empty THEN <<>> ELSE <<tag>>)
          = Gather(unempty, content)
    <3>1. \A j \in 1 .. Len(content) : content[j] \in Tags
      BY <2>8, ElementOfSeq
    <3>2. [j \in 1 .. Len(content) |-> unempty[content[j]]]
            = [j \in 1 .. Len(content) |-> IF content[j] = Empty THEN <<>> ELSE <<content[j]>>]
      BY <3>1 DEF unempty
    <3> QED BY <3>2 DEF Gathered, Gather
  <2>10. Once(answer.reasoning, Once(api = "anthropic", <<Tag(k, 1)>>))
           = IF api = "anthropic" THEN reasoning ELSE <<>>
    BY DEF Once
  <2>11. text = Once(answer.text, <<Tag(k, 2)>>) /\ text \in Seq(Tags)
    <3>1. Tag(k, 2) \in Tags
      BY <2>1, IDTypes
    <3> QED BY <3>1 DEF Once
  <2>12. Once(answer.reasoning, Once(api = "gemini", <<Tag(k, 1)>>))
           = IF api = "anthropic" THEN <<>> ELSE reasoning
    BY <2>1 DEF Once, APIs
  <2>13. <<>> \o text = text
    BY <2>11
  <2>14. Gather(unempty, content) = IF api = "anthropic" THEN text ELSE reasoning \o text
    <3> HIDE DEF reasoning, text
    <3>1. CASE api = "anthropic"
      BY <2>8, <2>11, <2>12, <2>13, <3>1
    <3>2. CASE api # "anthropic"
      BY <2>8, <2>11, <2>12, <3>2
    <3> QED BY <3>1, <3>2
  <2>15. Gathered(messages, LAMBDA m : m.reasoning) = IF api = "anthropic" THEN reasoning ELSE <<>>
    BY <2>6, <2>10
  <2>16. Gathered(content, LAMBDA tag : IF tag = Empty THEN <<>> ELSE <<tag>>)
           = IF api = "anthropic" THEN text ELSE reasoning \o text
    BY <2>9, <2>14
  <2> QED BY <2>3, <2>5, <2>15, <2>16 DEF IDsOf, answer, messages, content
<1> QED BY <1>1 DEF AnswersComeBack

\* Every answer comes back to the upstream in messages of the assistant, with all its
\* calls in order, its text and its reasoning.  (ContentBlocksFromMessage,
\* ContentFromMessage and ContentToChatMessages)
THEOREM AnswersAlwaysComeBack == BlockSpec => []AnswersComeBack
PROOF
<1> QED BY TurnsInvariantHolds, InvariantBringsBack, PTL

------------------------------------------------------------------------------
(* Results come right after the calls they are results of.                 *)

Neither == {m \in ChatMessages : m.calls = <<>> /\ m.result = <<>>}

LEMMA TextsAreNeither == \A role \in Roles : HasTexts(Neither, role)
PROOF
<1>1. ASSUME NEW role \in Roles, NEW parts \in Seq(Seq(Tags))
      PROVE  TextMessage(role, parts) \in Neither
  <2>1. TextMessage(role, parts) \in ChatMessages
    BY MessageTypes
  <2>2. TextMessage(role, parts).calls = <<>> /\ TextMessage(role, parts).result = <<>>
    BY DEF TextMessage, Message
  <2> QED BY <2>1, <2>2 DEF Neither
<1> QED BY <1>1 DEF HasTexts

LEMMA OthersAreNeither ==
  ASSUME NEW role \in Roles, NEW block \in Blocks, block.kind \notin {"call", "result"}
  PROVE  OwnOf(block) \in Neither
PROOF
<1>1. OwnOf(block) = ThinkingMessage(block)
  BY DEF OwnOf
<1>2. ThinkingMessage(block) \in ChatMessages
  BY MessageTypes
<1>3. ThinkingMessage(block).calls = <<>> /\ ThinkingMessage(block).result = <<>>
  BY DEF ThinkingMessage, Message
<1> QED BY <1>1, <1>2, <1>3 DEF Neither

\* The messages of an answer: none of them is a result, its calls are the last.
CallsAtEnd(messages, turn, h, n) ==
  /\ Len(messages) = h + n
  /\ \A j \in 1 .. h : messages[j].calls = <<>> /\ messages[j].result = <<>>
  /\ \A j \in 1 .. n :
       messages[h + j].calls = <<IDOf(turn, j)>> /\ messages[h + j].result = <<>>

LEMMA CallsComeLast ==
  ASSUME api \in APIs, keepsIDs \in BOOLEAN, NEW turn \in Nat, NEW answer \in Answers
  PROVE  \E h \in Nat :
           CallsAtEnd(ContentToChatMessages("assistant", ContentBlocksFromMessage(turn, answer)),
                      turn, h, answer.calls)
PROOF
<1> DEFINE blocks == ContentBlocksFromMessage(turn, answer)
           role == "assistant"
           messages == ContentToChatMessages(role, blocks)
           n == answer.calls
           all == Len(blocks)
<1>1. PICK h \in Nat :
        /\ Len(blocks) = h + n /\ blocks \in Seq(Blocks)
        /\ \A j \in 1 .. h : blocks[j].kind \notin {"call", "result"}
        /\ \A j \in 1 .. n : blocks[h + j] = CallOf(turn, j)
  BY PlacesInAnswer
<1>2. n \in Nat /\ role \in Roles
  BY BlocksOfAnswer DEF Roles
<1> HIDE DEF blocks, role, n
<1>3. messages \in Seq(ChatMessages)
  BY <1>1, <1>2, MessagesOfContent
<1>4. HasTexts(Neither, role)
  BY <1>2, TextsAreNeither
<1>5. \A j \in 1 .. all : blocks[j] \in Blocks
  BY <1>1, ElementOfSeq
<1>6. CASE n = 0
  <2>1. \A j \in 1 .. Len(blocks) : OwnOf(blocks[j]) \in Neither
    BY <1>1, <1>2, <1>5, <1>6, OthersAreNeither
  <2>2. \A j \in 1 .. Len(messages) : messages[j] \in Neither
    BY <1>1, <1>2, <1>4, <2>1, MessagesWithin
  <2>3. Len(messages) \in Nat
    BY <1>3
  <2> HIDE DEF messages
  <2>4. CallsAtEnd(messages, turn, Len(messages), n)
    BY <1>6, <2>2, <2>3 DEF CallsAtEnd, Neither
  <2> QED BY <2>3, <2>4 DEF messages, blocks, role, n
<1>7. CASE n # 0
  <2>1. PICK f : PassOver(role, blocks, f) /\ PassEnds(role, f[all], messages)
    BY <1>1, <1>2, PassExists
  <2>2. 0 \in 0 .. all /\ h \in 0 .. all /\ all \in h .. all /\ h < all /\ h \in 0 .. h /\ all - h = n
    BY <1>1, <1>2, <1>7
  <2>3. \A k \in 0 .. all : f[k] \in PassStates
    BY <2>1 DEF PassOver
  <2>4. f[h] \in PassStates /\ f[all] \in PassStates
    <3>1. all \in 0 .. all
      BY <2>2
    <3> QED BY <2>2, <2>3, <3>1
  <2> DEFINE list == <<>>
             zero == 0
  <2>5. list = f[zero].messages /\ list \in Seq(ChatMessages) /\ Len(list) = 0
    BY <2>1 DEF PassOver, Start
  <2>6. zero \in 0 .. all /\ h \in zero .. all
    BY <2>2
  <2>7. \A k \in 1 .. all : zero < k /\ k <= h /\ IsOwn(role, blocks[k]) => OwnOf(blocks[k]) \in Neither
    <3>1. ASSUME NEW k \in 1 .. all, k <= h PROVE OwnOf(blocks[k]) \in Neither
      <4>1. k \in 1 .. h /\ blocks[k] \in Blocks
        BY <1>5, <3>1
      <4> QED BY <1>1, <1>2, <4>1, OthersAreNeither
    <3> QED BY <3>1
  <2> HIDE DEF zero, list, messages
  <2>8. Grows(f[h].messages, f[zero].messages, Neither)
    BY <1>1, <1>2, <1>4, <2>1, <2>6, <2>7, PassGrows
  <2> DEFINE s == f[h]
             last == f[all]
  <2>9. Grows(s.messages, list, Neither) /\ s \in PassStates
    BY <2>4, <2>5, <2>8
  <2>10. \A k \in 1 .. all : h < k /\ k <= all => IsOwn(role, blocks[k])
    <3>1. ASSUME NEW k \in 1 .. all, h < k PROVE IsOwn(role, blocks[k])
      <4>1. k - h \in 1 .. n /\ h + (k - h) = k
        BY <1>1, <1>2, <3>1
      <4>2. blocks[k] = CallOf(turn, k - h)
        BY <1>1, <4>1
      <4> QED BY <4>2 DEF CallOf, Block, IsOwn
    <3> QED BY <3>1
  <2>11. PICK base : /\ ContentFlushed(role, s, base)
                     /\ last.text = <<>> /\ last.parts = <<>>
                     /\ IsRun(last.messages, base.messages, blocks, h, all - h)
    BY <1>1, <1>2, <2>1, <2>2, <2>10, OwnRun
  <2> HIDE DEF s
  <2>12. Grows(base.messages, list, Neither)
    BY <1>2, <1>4, <2>5, <2>9, <2>11, FlushGrows
  <2> DEFINE before == base.messages
             H == Len(before)
  <2>13. H \in Nat /\ \A j \in 1 .. H : before[j] \in Neither
    <3>1. before \in Seq(ChatMessages)
      BY <2>11 DEF ContentFlushed, PassStates
    <3> QED BY <2>5, <2>12, <3>1 DEF Grows
  <2>14. messages = last.messages
    <3>1. PICK t : /\ ContentFlushed(role, last, t)
                   /\ messages = IF t.messages = <<>> THEN <<TextMessage(role, <<<<Empty>>>>)>>
                                 ELSE t.messages
      BY <2>1 DEF PassEnds
    <3>2. t.messages = last.messages
      BY <2>11, <3>1 DEF ContentFlushed
    <3>3. Len(last.messages) = H + n
      BY <2>2, <2>11 DEF IsRun
    <3>4. last.messages # <<>>
      BY <1>2, <1>7, <2>13, <3>3
    <3> QED BY <3>1, <3>2, <3>4
  <2> HIDE DEF H
  <2>15. /\ Len(messages) = H + n /\ \A j \in 1 .. H : messages[j] = before[j]
         /\ \A j \in 1 .. n : messages[H + j] = OwnOf(blocks[h + j])
    BY <2>2, <2>11, <2>14 DEF IsRun, H
  <2>16. ASSUME NEW j \in 1 .. n
         PROVE  /\ messages[H + j].calls = <<IDOf(turn, j)>>
                /\ messages[H + j].result = <<>>
    <3>1. messages[H + j] = OwnOf(CallOf(turn, j))
      BY <1>1, <2>15
    <3>2. OwnOf(CallOf(turn, j)) = CallMessage(CallOf(turn, j))
      BY DEF OwnOf, CallOf, Block
    <3>3. /\ CallMessage(CallOf(turn, j)).calls = <<IDOf(turn, j)>>
          /\ CallMessage(CallOf(turn, j)).result = <<>>
      BY DEF CallMessage, Message, CallOf, Block
    <3> QED BY <3>1, <3>2, <3>3
  <2>17. \A j \in 1 .. H : messages[j].calls = <<>> /\ messages[j].result = <<>>
    BY <2>13, <2>15 DEF Neither
  <2>18. CallsAtEnd(messages, turn, H, n)
    BY <2>15, <2>16, <2>17 DEF CallsAtEnd
  <2> QED BY <2>13, <2>18 DEF messages, blocks, role, n
<1> QED BY <1>6, <1>7

\* The messages of a content of a client that begins with its results.
ResultsAtStart(messages, blocks, r) ==
  /\ r <= Len(messages) /\ r <= Len(blocks)
  /\ \A j \in 1 .. r : blocks[j].kind = "result" /\ messages[j] = ResultMessage(blocks[j])
  /\ \A j \in 1 .. Len(messages) : j > r => messages[j] \in Neither

LEMMA ResultsComeFirst ==
  ASSUME api \in APIs, NEW role \in Roles, NEW blocks \in Seq(Blocks),
         \A j \in 1 .. Len(blocks) : blocks[j].kind # "call",
         \A j, k \in 1 .. Len(blocks) :
           j < k /\ blocks[k].kind = "result" => blocks[j].kind = "result"
  PROVE  \E r \in Nat : ResultsAtStart(ContentToChatMessages(role, blocks), blocks, r)
PROOF
<1> DEFINE messages == ContentToChatMessages(role, blocks)
           n == Len(blocks)
           T == {j \in 1 .. n + 1 : j <= n => blocks[j].kind # "result"}
<1>1. n \in Nat /\ \A j \in 1 .. n : blocks[j] \in Blocks
  BY LenProperties, ElementOfSeq
<1>2. T \subseteq Nat /\ n + 1 \in T
  BY <1>1
<1> HIDE DEF T
<1>3. PICK after \in T : \A j \in T : after <= j
  BY <1>2, LeastNumber
<1> DEFINE r == after - 1
<1>4. r \in 0 .. n /\ after \in 1 .. n + 1 /\ r + 1 = after
  BY <1>1, <1>3 DEF T
<1>5. ASSUME NEW j \in 1 .. n PROVE j <= r => blocks[j].kind = "result"
  BY <1>1, <1>3, <1>4 DEF T
<1>6. ASSUME NEW j \in 1 .. n PROVE j > r => blocks[j].kind # "result"
  <2>1. CASE j = after
    BY <1>1, <1>3, <2>1 DEF T
  <2>2. CASE j > after
    <3>1. after \in 1 .. n /\ blocks[after].kind # "result"
      BY <1>1, <1>3, <1>4, <2>2 DEF T
    <3> QED BY <2>2, <3>1
  <2> QED BY <1>4, <2>1, <2>2
<1> HIDE DEF r
<1>7. HasTexts(Neither, role)
  BY TextsAreNeither
<1>8. PICK f : PassOver(role, blocks, f) /\ PassEnds(role, f[n], messages)
  BY PassExists
<1>9. f[0] = Start /\ \A k \in 0 .. n : f[k] \in PassStates
  BY <1>8 DEF PassOver
<1> DEFINE s == f[r]
           list == s.messages
           last == f[n]
<1>10. s \in PassStates /\ last \in PassStates /\ list \in Seq(ChatMessages)
  <2>1. n \in 0 .. n
    BY <1>1
  <2> QED BY <1>4, <1>9, <2>1 DEF PassStates
<1>11. Len(list) = r /\ \A j \in 1 .. r : list[j] = ResultMessage(blocks[j])
  <2>1. CASE r = 0
    BY <1>9, <2>1 DEF Start
  <2>2. CASE r # 0
    <3> DEFINE first == 0
    <3>1. first \in 0 .. n /\ r \in first .. n /\ first < r /\ r - first = r
      BY <1>1, <1>4, <2>2
    <3>2. \A k \in 1 .. n : first < k /\ k <= r => IsOwn(role, blocks[k])
      BY <1>5 DEF IsOwn
    <3>3. f[first] = Start
      BY <1>9
    <3> HIDE DEF first
    <3>4. PICK base : /\ ContentFlushed(role, f[first], base)
                      /\ IsRun(f[r].messages, base.messages, blocks, first, r - first)
      BY <1>8, <3>1, <3>2, OwnRun
    <3>5. base.messages = <<>>
      BY <3>3, <3>4 DEF ContentFlushed, Start
    <3>6. IsRun(list, <<>>, blocks, first, r)
      BY <3>1, <3>4, <3>5
    <3>7. Len(list) = r /\ \A j \in 1 .. r : list[j] = OwnOf(blocks[j])
      <4>1. Len(<<>>) = 0 /\ first = 0
        BY DEF first
      <4>2. /\ Len(list) = 0 + r
            /\ \A j \in 1 .. r : list[0 + j] = OwnOf(blocks[0 + j])
        BY <3>6, <4>1 DEF IsRun
      <4>3. 0 + r = r /\ \A j \in 1 .. r : 0 + j = j
        BY <1>4
      <4> QED BY <4>2, <4>3
    <3>8. \A j \in 1 .. r : OwnOf(blocks[j]) = ResultMessage(blocks[j])
      <4>1. \A j \in 1 .. r : j \in 1 .. n /\ j <= r
        BY <1>1, <1>4
      <4>2. \A j \in 1 .. r : blocks[j].kind = "result"
        BY <1>5, <4>1
      <4> QED BY <4>2 DEF OwnOf
    <3> QED BY <3>7, <3>8
  <2> QED BY <2>1, <2>2
<1>12. Grows(last.messages, list, Neither)
  <2>1. r \in 0 .. n /\ n \in r .. n
    BY <1>1, <1>4
  <2>2. \A k \in 1 .. n : r < k /\ k <= n /\ IsOwn(role, blocks[k]) => OwnOf(blocks[k]) \in Neither
    <3>1. ASSUME NEW k \in 1 .. n, r < k PROVE OwnOf(blocks[k]) \in Neither
      <4>1. blocks[k].kind # "result" /\ blocks[k].kind # "call" /\ blocks[k] \in Blocks
        BY <1>1, <1>4, <1>6, <3>1
      <4> QED BY <4>1, OthersAreNeither
    <3> QED BY <3>1
  <2> HIDE DEF n
  <2> QED BY <1>7, <1>8, <2>1, <2>2, PassGrows DEF n
<1> HIDE DEF s, list, last, messages
<1>13. PICK t : /\ ContentFlushed(role, last, t)
                /\ messages = IF t.messages = <<>> THEN <<TextMessage(role, <<<<Empty>>>>)>>
                              ELSE t.messages
  BY <1>8 DEF PassEnds, last
<1>14. Grows(t.messages, list, Neither)
  BY <1>7, <1>10, <1>12, <1>13, FlushGrows
<1>15. CASE t.messages = <<>>
  <2> DEFINE parts == <<<<Empty>>>>
             none == TextMessage(role, parts)
  <2>1. parts \in Seq(Seq(Tags))
    BY DEF Empty, Tags
  <2> HIDE DEF parts
  <2>2. none \in Neither
    BY <1>7, <2>1 DEF HasTexts
  <2>3. messages = <<none>>
    BY <1>13, <1>15 DEF parts
  <2> HIDE DEF none
  <2>4. Len(messages) = 1 /\ messages[1] = none
    BY <2>3
  <2>5. r = 0
    <3>1. Len(t.messages) = 0
      BY <1>15
    <3> QED BY <1>4, <1>11, <1>14, <3>1 DEF Grows
  <2>6. ResultsAtStart(messages, blocks, r)
    BY <1>1, <1>4, <2>2, <2>4, <2>5 DEF ResultsAtStart
  <2> QED BY <1>4, <2>6 DEF messages
<1>16. CASE t.messages # <<>>
  <2>1. messages = t.messages
    BY <1>13, <1>16
  <2>2. /\ Len(messages) >= r /\ \A j \in 1 .. r : messages[j] = list[j]
        /\ \A j \in 1 .. Len(messages) : j > r => messages[j] \in Neither
    BY <1>11, <1>14, <2>1 DEF Grows
  <2>3. Len(messages) \in Nat
    BY <1>13, <2>1 DEF ContentFlushed, PassStates
  <2>4. \A j \in 1 .. r : blocks[j].kind = "result"
    <3>1. \A j \in 1 .. r : j \in 1 .. n /\ j <= r
      BY <1>1, <1>4
    <3> QED BY <1>5, <3>1
  <2>5. \A j \in 1 .. r : messages[j] = ResultMessage(blocks[j])
    BY <1>11, <2>2
  <2>6. r <= Len(messages) /\ r <= Len(blocks)
    BY <1>4, <2>2, <2>3
  <2>7. ResultsAtStart(messages, blocks, r)
    BY <2>2, <2>4, <2>5, <2>6 DEF ResultsAtStart
  <2> QED BY <1>4, <2>7 DEF messages
<1> QED BY <1>15, <1>16

\* Where one of the messages stands: before the calls, among them, among the results
\* or after them.
LEMMA FourPlaces ==
  ASSUME NEW h \in Nat, NEW n \in Nat, NEW r \in Nat, NEW s \in Nat, NEW m, m = h + n, r <= s,
         NEW j \in 1 .. m + s
  PROVE  /\ j <= h => j \in 1 .. h /\ j \in 1 .. m
         /\ h < j /\ j <= m => j - h \in 1 .. n /\ h + (j - h) = j /\ j \in 1 .. m
         /\ m < j /\ j <= m + r => j - m \in 1 .. r /\ m + (j - m) = j /\ j - m \in 1 .. s
         /\ m + r < j => j - m \in 1 .. s /\ m + (j - m) = j /\ j - m > r
         /\ j <= h \/ (h < j /\ j <= m) \/ (m < j /\ j <= m + r) \/ m + r < j
OBVIOUS

Plain(message) == message.calls = <<>> /\ message.result = <<>>
Asks(message, id) == message.calls = <<id>> /\ message.result = <<>>
Brings(message, id) == message.calls = <<>> /\ message.result = <<id>>

\* What the calls of an answer and the results after it look like to the upstream.
LEMMA ResultsAreNextTo ==
  ASSUME NEW asked \in Seq(ChatMessages), NEW said \in Seq(ChatMessages), NEW blocks,
         NEW turn \in Nat, NEW h \in Nat, NEW n \in Nat, NEW r \in Nat, keepsIDs,
         CallsAtEnd(asked, turn, h, n), ResultsAtStart(said, blocks, r),
         \A j \in 1 .. r : \E place \in 1 .. n : blocks[j].id = IDOf(turn, place),
         NEW messages, messages = asked \o said,
         NEW last \in 1 .. Len(messages), messages[last].result # <<>>
  PROVE  \E first \in 1 .. (last - 1) :
           /\ {j \in 1 .. Len(messages) : messages[j].calls = messages[last].result} = {first}
           /\ \A j \in first .. last : messages[j].calls # <<>> \/ messages[j].result # <<>>
PROOF
<1> DEFINE m == Len(asked)
           s == Len(said)
<1>1. /\ Len(messages) = m + s
      /\ \A j \in 1 .. m : messages[j] = asked[j]
      /\ \A j \in 1 .. s : messages[m + j] = said[j]
  OBVIOUS
<1>2. s \in Nat
  OBVIOUS
<1>3. m = h + n
  BY DEF CallsAtEnd
<1>4. \A block : (ResultMessage(block)).calls = <<>> /\ (ResultMessage(block)).result = <<block.id>>
  BY DEF ResultMessage, Message
<1> HIDE DEF m, s
<1>5. /\ r <= s
      /\ \A j \in 1 .. r : Brings(said[j], blocks[j].id)
      /\ \A j \in 1 .. s : j > r => Plain(said[j])
  BY <1>4 DEF ResultsAtStart, Neither, Plain, Brings, s
<1>6. /\ \A j \in 1 .. h : Plain(asked[j])
      /\ \A j \in 1 .. n : Asks(asked[h + j], IDOf(turn, j))
  BY DEF CallsAtEnd, Plain, Asks
<1>7. r <= s
  BY <1>5
\* Which messages there are.
<1>8. ASSUME NEW j \in 1 .. m + s
      PROVE  /\ j <= h => Plain(messages[j])
             /\ h < j /\ j <= m => j - h \in 1 .. n /\ Asks(messages[j], IDOf(turn, j - h))
             /\ m < j /\ j <= m + r => j - m \in 1 .. r /\ Brings(messages[j], blocks[j - m].id)
             /\ m + r < j => Plain(messages[j])
  <2>1. ASSUME j <= h PROVE Plain(messages[j])
    <3>1. j \in 1 .. h /\ j \in 1 .. m
      BY <1>2, <1>3, <1>7, <2>1, FourPlaces
    <3> QED BY <1>1, <1>6, <3>1
  <2>2. ASSUME h < j, j <= m
        PROVE  j - h \in 1 .. n /\ Asks(messages[j], IDOf(turn, j - h))
    <3>1. j - h \in 1 .. n /\ h + (j - h) = j /\ j \in 1 .. m
      BY <1>2, <1>3, <1>7, <2>2, FourPlaces
    <3>2. Asks(asked[h + (j - h)], IDOf(turn, j - h))
      BY <1>6, <3>1
    <3> QED BY <1>1, <3>1, <3>2
  <2>3. ASSUME m < j, j <= m + r
        PROVE  j - m \in 1 .. r /\ Brings(messages[j], blocks[j - m].id)
    <3>1. j - m \in 1 .. r /\ m + (j - m) = j /\ j - m \in 1 .. s
      BY <1>2, <1>3, <1>7, <2>3, FourPlaces
    <3>2. messages[m + (j - m)] = said[j - m]
      BY <1>1, <3>1
    <3> QED BY <1>5, <3>1, <3>2
  <2>4. ASSUME m + r < j PROVE Plain(messages[j])
    <3>1. j - m \in 1 .. s /\ m + (j - m) = j /\ j - m > r
      BY <1>2, <1>3, <1>7, <2>4, FourPlaces
    <3>2. messages[m + (j - m)] = said[j - m]
      BY <1>1, <3>1
    <3> QED BY <1>5, <3>1, <3>2
  <2> QED BY <2>1, <2>2, <2>3, <2>4
<1>9. ASSUME NEW j \in 1 .. m + s
      PROVE  j <= h \/ (h < j /\ j <= m) \/ (m < j /\ j <= m + r) \/ m + r < j
  BY <1>2, <1>3, <1>7, FourPlaces
<1>10. last \in 1 .. m + s
  BY <1>1
<1>11. m < last /\ last <= m + r
  <2>1. ~Plain(messages[last])
    BY DEF Plain
  <2>2. \A id : ~Asks(messages[last], id)
    BY DEF Asks
  <2> QED BY <1>8, <1>9, <1>10, <2>1, <2>2
<1>12. last - m \in 1 .. r /\ Brings(messages[last], blocks[last - m].id)
  BY <1>8, <1>10, <1>11
<1>13. PICK place \in 1 .. n : blocks[last - m].id = IDOf(turn, place)
  BY <1>12
<1>14. messages[last].result = <<IDOf(turn, place)>>
  BY <1>12, <1>13 DEF Brings
<1> DEFINE first == h + place
<1>15. /\ first \in 1 .. (last - 1) /\ first \in 1 .. m /\ first \in 1 .. m + s
       /\ first - h = place /\ first > h /\ first <= m
  <2>1. place \in 1 .. n /\ m < last
    BY <1>11, <1>13
  <2> QED BY <1>2, <1>3, <1>11, <1>10, <2>1
<1>16. Asks(messages[first], IDOf(turn, place))
  BY <1>8, <1>15
<1>17. ASSUME NEW j \in 1 .. m + s, messages[j].calls = <<IDOf(turn, place)>>
       PROVE  j = first
  <2>1. ~Plain(messages[j])
    <3>1. <<IDOf(turn, place)>> # <<>>
      OBVIOUS
    <3> QED BY <1>17, <3>1 DEF Plain
  <2>2. \A id : ~Brings(messages[j], id)
    <3>1. <<IDOf(turn, place)>> # <<>>
      OBVIOUS
    <3> QED BY <1>17, <3>1 DEF Brings
  <2>3. h < j /\ j <= m
    BY <1>8, <1>9, <2>1, <2>2
  <2>4. j - h \in 1 .. n /\ Asks(messages[j], IDOf(turn, j - h))
    BY <1>8, <2>3
  <2>5. IDOf(turn, j - h) = IDOf(turn, place)
    <3>1. <<IDOf(turn, j - h)>> = <<IDOf(turn, place)>>
      BY <1>17, <2>4 DEF Asks
    <3> QED BY <3>1
  <2>6. ASSUME NEW i \in 1 .. n, IDOf(turn, i) = IDOf(turn, place) PROVE i = place
    <3>1. <<turn, 2 + i>> = <<turn, 2 + place>>
      BY <2>6 DEF IDOf, Tag
    <3>2. 2 + i = 2 + place
      BY <3>1
    <3> QED BY <1>13, <3>2
  <2>7. j - h = place
    BY <2>4, <2>5, <2>6
  <2>8. j \in Nat /\ h \in Nat
    OBVIOUS
  <2> QED BY <2>7, <2>8
<1>18. ASSUME NEW j \in first .. last
       PROVE  messages[j].calls # <<>> \/ messages[j].result # <<>>
  <2>1. j \in 1 .. m + s /\ h < j /\ j <= m + r
    <3>1. last \in Nat /\ last <= m + r /\ last <= m + s
      BY <1>2, <1>3, <1>10, <1>11
    <3>2. m \in Nat /\ place \in Nat /\ place >= 1
      BY <1>3, <1>13
    <3>3. j \in Nat /\ j >= first /\ j <= last
      BY <1>15, <1>18, <3>1
    <3> QED BY <1>2, <3>1, <3>2, <3>3
  <2>2. \/ \E id : Asks(messages[j], id)
        \/ \E id : Brings(messages[j], id)
    <3>1. CASE j <= m
      BY <1>8, <2>1, <3>1
    <3>2. CASE m < j
      BY <1>8, <2>1, <3>2
    <3>3. j <= m \/ m < j
      BY <1>3, <2>1
    <3> QED BY <3>1, <3>2, <3>3
  <2>3. \A x : <<x>> # <<>>
    OBVIOUS
  <2> QED BY <2>2, <2>3 DEF Asks, Brings
<1>19. {j \in 1 .. Len(messages) : messages[j].calls = messages[last].result} = {first}
  <2>1. messages[first].calls = <<IDOf(turn, place)>>
    BY <1>16 DEF Asks
  <2> HIDE DEF first
  <2> QED BY <1>1, <1>14, <1>15, <1>17, <2>1
<1> HIDE DEF first
<1> QED BY <1>15, <1>18, <1>19

\* Of a content of a client and the answer before it.
LEMMA AnswerBefore ==
  ASSUME TurnsInvariant, NEW k \in 2 .. Len(contents), contents[k].role = "user"
  PROVE  /\ contents[k - 1].role = "assistant" /\ answers[k - 1] \in Answers
         /\ contents[k - 1].blocks = ContentBlocksFromMessage(k - 1, answers[k - 1])
         /\ k - 1 \in Nat /\ k - 1 > 0 /\ contents[k].blocks \in Seq(Blocks)
         /\ \A j \in 1 .. Len(contents[k].blocks) :
              ClientsBlock(contents[k].blocks[j], k - 1, answers[k - 1].calls)
PROOF
<1> USE DEF TurnsInvariant
<1>1. /\ Len(contents) \in Nat /\ Len(answers) = Len(contents)
      /\ contents \in Seq(Contents) /\ answers \in Seq(Answers)
  BY LenProperties DEF TurnsTypeOK
<1>2. k \in 1 .. Len(contents) /\ k - 1 \in 1 .. Len(contents) /\ k - 1 \in Nat /\ k - 1 > 0
  BY <1>1
<1>3. k % 2 = 1
  BY <1>2 DEF TurnsAlternate
<1>4. (k - 1) % 2 # 1
  BY <1>2, <1>3
<1>5. contents[k - 1] \in Contents /\ contents[k] \in Contents /\ answers[k - 1] \in Answers
  BY <1>1, <1>2, ElementOfSeq
<1>6. contents[k - 1].role # "user"
  BY <1>2, <1>4 DEF TurnsAlternate
<1>7. contents[k - 1].role = "assistant"
  BY <1>5, <1>6 DEF Contents, Roles
<1>8. contents[k - 1].blocks = ContentBlocksFromMessage(k - 1, answers[k - 1])
  BY <1>2, <1>7 DEF TurnsAlternate
<1>9. contents[k].blocks \in Seq(Blocks)
  BY <1>5 DEF Contents
<1>10. \A j \in 1 .. Len(contents[k].blocks) :
         ClientsBlock(contents[k].blocks[j], k - 1, answers[k - 1].calls)
  BY <1>2 DEF ResultsAreOfCalls
<1> QED BY <1>2, <1>5, <1>7, <1>8, <1>9, <1>10

\* The messages of two contents are those of the one and then those of the other.
LEMMA MessagesOfTwo ==
  ASSUME api \in APIs, contents \in Seq(Contents), NEW k \in 2 .. Len(contents),
         NEW asked, asked = ContentToChatMessages(contents[k - 1].role, contents[k - 1].blocks),
         NEW said, said = ContentToChatMessages(contents[k].role, contents[k].blocks)
  PROVE  /\ asked \in Seq(ChatMessages) /\ said \in Seq(ChatMessages)
         /\ NormalizeContents(SubSeq(contents, k - 1, k)) = asked \o said
PROOF
<1> DEFINE two == SubSeq(contents, k - 1, k)
           lists == [i \in 1 .. Len(two) |-> ContentToChatMessages(two[i].role, two[i].blocks)]
           head == <<asked>>
           tail == <<said>>
<1>1. k \in 1 .. Len(contents) /\ k - 1 \in 1 .. Len(contents)
  BY LenProperties
<1>2. Len(two) = 2 /\ two[1] = contents[k - 1] /\ two[2] = contents[k]
  <2>1. k - 1 \in 1 .. Len(contents) + 1 /\ k \in k - 2 .. Len(contents)
    BY <1>1, LenProperties
  <2>2. k - (k - 1) + 1 = 2 /\ (k - 1) + 1 - 1 = k - 1 /\ (k - 1) + 2 - 1 = k
    BY <1>1
  <2> QED BY <1>1, <2>1, <2>2, SubSeqProperties
<1> HIDE DEF two
<1>3. lists = <<asked, said>>
  BY <1>2
<1>4. contents[k - 1] \in Contents /\ contents[k] \in Contents
  BY <1>1, ElementOfSeq
<1>5. asked \in Seq(ChatMessages)
  <2> DEFINE role == contents[k - 1].role
             blocks == contents[k - 1].blocks
  <2>1. role \in Roles /\ blocks \in Seq(Blocks)
    BY <1>4 DEF Contents
  <2>2. asked = ContentToChatMessages(role, blocks)
    OBVIOUS
  <2> HIDE DEF role, blocks
  <2> QED BY <2>1, <2>2, MessagesOfContent
<1>6. said \in Seq(ChatMessages)
  <2> DEFINE role == contents[k].role
             blocks == contents[k].blocks
  <2>1. role \in Roles /\ blocks \in Seq(Blocks)
    BY <1>4 DEF Contents
  <2>2. said = ContentToChatMessages(role, blocks)
    OBVIOUS
  <2> HIDE DEF role, blocks
  <2> QED BY <2>1, <2>2, MessagesOfContent
<1>7. NormalizeContents(two) = FlattenSeq(lists)
  BY DEF NormalizeContents
<1>8. /\ head \in Seq(Seq(ChatMessages)) /\ tail \in Seq(Seq(ChatMessages))
      /\ lists \in Seq(Seq(ChatMessages)) /\ Follows(lists, head, tail)
      /\ Len(head) = 1 /\ Len(tail) = 1 /\ head[1] = asked /\ tail[1] = said
  <2> HIDE DEF lists
  <2> QED BY <1>3, <1>5, <1>6 DEF Follows
<1> HIDE DEF lists, head, tail
<1>9. FlattenSeq(head) = asked /\ FlattenSeq(tail) = said
  BY <1>8, FlattenOne
<1>10. FlattenSeq(lists) = FlattenSeq(head) \o FlattenSeq(tail)
  BY <1>8, FlattenFollows
<1>11. FlattenSeq(lists) = asked \o said
  BY <1>9, <1>10
<1> QED BY <1>5, <1>6, <1>7, <1>11 DEF two

LEMMA InvariantKeepsResultsClose == TurnsInvariant => ResultsFollowTheirCalls
PROOF
<1> SUFFICES ASSUME TurnsInvariant PROVE ResultsFollowTheirCalls
  OBVIOUS
<1>1. /\ api \in APIs /\ keepsIDs \in BOOLEAN /\ contents \in Seq(Contents)
      /\ Len(contents) \in Nat
  BY LenProperties DEF TurnsInvariant, TurnsTypeOK
<1>2. ASSUME NEW k \in 2 .. Len(contents), keepsIDs, contents[k].role = "user",
             ResultsFirst(contents[k]),
             NEW messages, messages = NormalizeContents(SubSeq(contents, k - 1, k)),
             NEW last \in 1 .. Len(messages), messages[last].result # <<>>
      PROVE  \E first \in 1 .. (last - 1) :
               /\ {j \in 1 .. Len(messages) : messages[j].calls = messages[last].result}
                    = {first}
               /\ \A j \in first .. last : messages[j].calls # <<>> \/ messages[j].result # <<>>
  <2> DEFINE turn == k - 1
             answer == answers[k - 1]
             blocks == contents[k].blocks
             role == "user"
             asked == ContentToChatMessages("assistant", ContentBlocksFromMessage(turn, answer))
             said == ContentToChatMessages(role, blocks)
             n == answer.calls
  <2>1. /\ contents[k - 1].role = "assistant" /\ answer \in Answers
        /\ contents[k - 1].blocks = ContentBlocksFromMessage(turn, answer)
        /\ turn \in Nat /\ turn > 0 /\ blocks \in Seq(Blocks)
        /\ \A j \in 1 .. Len(blocks) : ClientsBlock(blocks[j], turn, n)
    BY <1>2, AnswerBefore
  <2>2. n \in Nat
    BY <2>1, ConversationAssumption DEF Answers
  <2>3. /\ asked = ContentToChatMessages(contents[k - 1].role, contents[k - 1].blocks)
        /\ said = ContentToChatMessages(contents[k].role, contents[k].blocks)
    BY <1>2, <2>1
  <2>4. /\ \A j \in 1 .. Len(blocks) : blocks[j].kind # "call"
        /\ \A j \in 1 .. Len(blocks) : blocks[j].kind = "result" =>
             \E place \in 1 .. n : blocks[j].id = IDOf(turn, place)
    BY <2>1 DEF ClientsBlock
  <2>5. \A i, j \in 1 .. Len(blocks) :
          i < j /\ blocks[j].kind = "result" => blocks[i].kind = "result"
    BY <1>2 DEF ResultsFirst
  <2>6. role \in Roles
    BY DEF Roles
  <2> HIDE DEF turn, answer, blocks, role
  <2>7. PICK h \in Nat : CallsAtEnd(asked, turn, h, n)
    BY <1>1, <2>1, CallsComeLast
  <2>8. PICK r \in Nat : ResultsAtStart(said, blocks, r)
    BY <1>1, <2>1, <2>4, <2>5, <2>6, ResultsComeFirst
  <2> HIDE DEF asked, said, n
  <2>9. /\ asked \in Seq(ChatMessages) /\ said \in Seq(ChatMessages)
        /\ messages = asked \o said
    BY <1>1, <1>2, <2>3, MessagesOfTwo
  <2>10. \A j \in 1 .. r : \E place \in 1 .. n : blocks[j].id = IDOf(turn, place)
    <3>1. Len(blocks) \in Nat /\ r <= Len(blocks)
      BY <2>1, <2>8, LenProperties DEF ResultsAtStart
    <3>2. \A j \in 1 .. r : j \in 1 .. Len(blocks)
      BY <3>1
    <3>3. \A j \in 1 .. r : blocks[j].kind = "result"
      BY <2>8 DEF ResultsAtStart
    <3> QED BY <2>4, <3>2, <3>3
  <2> QED BY <1>2, <2>1, <2>2, <2>7, <2>8, <2>9, <2>10, ResultsAreNextTo
<1> QED BY <1>2 DEF ResultsFollowTheirCalls

\* Of a client that keeps the ids and gives results first, a result comes after the one
\* message that calls for it, with none but calls and results between.  (flushContent
\* before a message of its own)
THEOREM ResultsAlwaysFollow == BlockSpec => []ResultsFollowTheirCalls
PROOF
<1> QED BY TurnsInvariantHolds, InvariantKeepsResultsClose, PTL

------------------------------------------------------------------------------
(* Turns as items: one step of the scan of InputItemsToChatMessages.       *)

CallRefs == [turn : Nat, place : Nat, by : {"call_id", "id"}]
Items == [type : {"reasoning", "message", "call", "output"},
          role : {"", "assistant", "user", "developer", "critic"},
          text : Nat, thought : BOOLEAN, reasoning : Nat, turn : Nat, call : CallRefs]
ReplyMessages == [role : {"system", "user", "assistant", "tool"}, content : Seq(Nat),
                  reasoning : Seq(Nat), calls : Seq(CallRefs), answers : CallRefs]

LEMMA MinIsLeast ==
  ASSUME NEW T, T \subseteq Nat, T # {}
  PROVE  Min(T) \in T /\ \A m \in T : Min(T) <= m
BY LeastNumber DEF Min

\* From a place on the items up to next are in S, and no further one.
RunsTo(list, from, next, S) ==
  /\ next \in from .. (Len(list) + 1)
  /\ \A q \in from .. (next - 1) : list[q] \in S
  /\ next <= Len(list) => list[next] \notin S

LEMMA RunsToEnd ==
  ASSUME NEW list \in Seq(Items), NEW from \in 1 .. (Len(list) + 1), NEW S,
         NEW next, next = Min({j \in from .. (Len(list) + 1) : j > Len(list) \/ list[j] \notin S})
  PROVE  RunsTo(list, from, next, S)
PROOF
<1> DEFINE n == Len(list)
           T == {j \in from .. (n + 1) : j > n \/ list[j] \notin S}
<1>1. n \in Nat
  OBVIOUS
<1> HIDE DEF n
<1>2. T \subseteq Nat /\ n + 1 \in T
  BY <1>1 DEF n
<1> HIDE DEF T
<1>3. next \in T /\ \A m \in T : next <= m
  BY <1>2, MinIsLeast DEF T, n
<1>4. next \in from .. (n + 1) /\ (next > n \/ list[next] \notin S)
  BY <1>3 DEF T
<1>5. ASSUME NEW q \in from .. (next - 1) PROVE list[q] \in S
  <2>1. q \in from .. (n + 1) /\ ~(next <= q)
    BY <1>1, <1>4
  <2>2. q \notin T
    BY <1>3, <2>1
  <2> QED BY <2>1, <2>2 DEF T
<1> QED BY <1>1, <1>4, <1>5 DEF RunsTo, n

LEMMA RunsToOne ==
  ASSUME NEW list, Len(list) \in Nat, NEW from \in Nat, NEW S, NEW a, NEW b,
         RunsTo(list, from, a, S), RunsTo(list, from, b, S)
  PROVE  a = b
PROOF
<1>1. a \in from .. (Len(list) + 1) /\ b \in from .. (Len(list) + 1)
  BY DEF RunsTo
<1>2. ~(a < b)
  <2> SUFFICES ASSUME a < b PROVE FALSE
    OBVIOUS
  <2>1. a \in from .. (b - 1) /\ a <= Len(list)
    BY <1>1
  <2> QED BY <2>1 DEF RunsTo
<1>3. ~(b < a)
  <2> SUFFICES ASSUME b < a PROVE FALSE
    OBVIOUS
  <2>1. b \in from .. (a - 1) /\ b <= Len(list)
    BY <1>1
  <2> QED BY <2>1 DEF RunsTo
<1> QED BY <1>1, <1>2, <1>3

MessageFollowers(item) == {c \in Items : FollowsMessage(item, c)}
CallFollowers(item) == {c \in Items : FollowsCall(item, c)}
Assistants == {c \in Items : IsAssistant(c)}

LEMMA RunEnds ==
  ASSUME NEW list \in Seq(Items), NEW i \in 1 .. Len(list), NEW from \in 1 .. (Len(list) + 1)
  PROVE  /\ RunsTo(list, i + 1, RunEnd(list, i + 1, LAMBDA c : FollowsMessage(list[i], c)),
                   MessageFollowers(list[i]))
         /\ RunsTo(list, i + 1, RunEnd(list, i + 1, LAMBDA c : FollowsCall(list[i], c)),
                   CallFollowers(list[i]))
         /\ RunsTo(list, from, RunEnd(list, from, IsAssistant), Assistants)
PROOF
<1> DEFINE n == Len(list)
           next == i + 1
<1>1. n \in Nat /\ next \in 1 .. (n + 1) /\ from \in 1 .. (n + 1)
  OBVIOUS
<1>2. \A j \in 1 .. (n + 1) : j > n \/ list[j] \in Items
  <2>1. \A j \in 1 .. (n + 1) : j > n \/ j \in 1 .. n
    BY <1>1
  <2> QED BY <2>1
<1>3. \A j \in next .. (n + 1) : j \in 1 .. (n + 1)
  BY <1>1
<1>4. \A j \in from .. (n + 1) : j \in 1 .. (n + 1)
  BY <1>1
<1>5. RunsTo(list, next, RunEnd(list, next, LAMBDA c : FollowsMessage(list[i], c)),
             MessageFollowers(list[i]))
  <2> DEFINE S == MessageFollowers(list[i])
             there == Min({j \in next .. (n + 1) : j > n \/ list[j] \notin S})
  <2>1. {j \in next .. (n + 1) : j > n \/ list[j] \notin S}
          = {j \in next .. (n + 1) : j > n \/ ~FollowsMessage(list[i], list[j])}
    BY <1>2, <1>3 DEF MessageFollowers
  <2>2. RunEnd(list, next, LAMBDA c : FollowsMessage(list[i], c)) = there
    BY <2>1 DEF RunEnd
  <2> HIDE DEF S, next
  <2>3. RunsTo(list, next, there, S)
    BY <1>1, RunsToEnd
  <2> HIDE DEF there
  <2> QED BY <2>2, <2>3 DEF S, next
<1>6. RunsTo(list, next, RunEnd(list, next, LAMBDA c : FollowsCall(list[i], c)),
             CallFollowers(list[i]))
  <2> DEFINE S == CallFollowers(list[i])
             there == Min({j \in next .. (n + 1) : j > n \/ list[j] \notin S})
  <2>1. {j \in next .. (n + 1) : j > n \/ list[j] \notin S}
          = {j \in next .. (n + 1) : j > n \/ ~FollowsCall(list[i], list[j])}
    BY <1>2, <1>3 DEF CallFollowers
  <2>2. RunEnd(list, next, LAMBDA c : FollowsCall(list[i], c)) = there
    BY <2>1 DEF RunEnd
  <2> HIDE DEF S, next
  <2>3. RunsTo(list, next, there, S)
    BY <1>1, RunsToEnd
  <2> HIDE DEF there
  <2> QED BY <2>2, <2>3 DEF S, next
<1>7. RunsTo(list, from, RunEnd(list, from, IsAssistant), Assistants)
  <2> DEFINE S == Assistants
             there == Min({j \in from .. (n + 1) : j > n \/ list[j] \notin S})
  <2>1. {j \in from .. (n + 1) : j > n \/ list[j] \notin S}
          = {j \in from .. (n + 1) : j > n \/ ~IsAssistant(list[j])}
    BY <1>2, <1>4 DEF Assistants
  <2>2. RunEnd(list, from, IsAssistant) = there
    BY <2>1 DEF RunEnd
  <2> HIDE DEF S
  <2>3. RunsTo(list, from, there, S)
    BY <1>1, RunsToEnd
  <2> HIDE DEF there
  <2> QED BY <2>2, <2>3 DEF S
<1> QED BY <1>5, <1>6, <1>7

\* What is gathered from items.
reasoningIn == [c \in Items |-> Given(c.reasoning)]
contentIn == [m \in Items |-> IF m.thought THEN <<>> ELSE Given(m.text)]
thoughtIn == [m \in Items |->
                Given(m.reasoning) \o (IF m.thought THEN Given(m.text) ELSE <<>>)]

LEMMA GivenTypes == \A tag \in Nat : Given(tag) \in Seq(Nat)
BY DEF Given

LEMMA ReadItems ==
  /\ Gathers(reasoningIn, Items, Nat) /\ Gathers(contentIn, Items, Nat)
  /\ Gathers(thoughtIn, Items, Nat)
PROOF
<1>1. \A c \in Items : c.text \in Nat /\ c.reasoning \in Nat
  BY DEF Items
<1>2. \A c \in Items : Given(c.text) \in Seq(Nat) /\ Given(c.reasoning) \in Seq(Nat)
  BY <1>1, GivenTypes
<1>3. Gathers(reasoningIn, Items, Nat)
  BY <1>2 DEF reasoningIn, Gathers
<1>4. Gathers(contentIn, Items, Nat)
  BY <1>2 DEF contentIn, Gathers
<1>5. ASSUME NEW c \in Items
      PROVE  Given(c.reasoning) \o (IF c.thought THEN Given(c.text) ELSE <<>>) \in Seq(Nat)
  BY <1>2
<1>6. Gathers(thoughtIn, Items, Nat)
  BY <1>5 DEF thoughtIn, Gathers
<1> QED BY <1>3, <1>4, <1>6

LEMMA ItemsAreRead ==
  ASSUME NEW list \in Seq(Items)
  PROVE  /\ Gathered(list, LAMBDA call : Given(call.reasoning)) = Gather(reasoningIn, list)
         /\ ContentAfter(list) = Gather(contentIn, list)
         /\ ReasoningAfter(list) = Gather(thoughtIn, list)
         /\ ContentAfter(list) \in Seq(Nat) /\ ReasoningAfter(list) \in Seq(Nat)
PROOF
<1>1. \A k \in 1 .. Len(list) : list[k] \in Items
  OBVIOUS
<1>2. Gathered(list, LAMBDA call : Given(call.reasoning)) = Gather(reasoningIn, list)
  <2>1. [k \in 1 .. Len(list) |-> reasoningIn[list[k]]]
          = [k \in 1 .. Len(list) |-> Given(list[k].reasoning)]
    BY <1>1 DEF reasoningIn
  <2> QED BY <2>1 DEF Gathered, Gather
<1>3. ContentAfter(list) = Gather(contentIn, list)
  <2>1. [k \in 1 .. Len(list) |-> contentIn[list[k]]]
          = [k \in 1 .. Len(list) |-> IF list[k].thought THEN <<>> ELSE Given(list[k].text)]
    BY <1>1 DEF contentIn
  <2> QED BY <2>1 DEF ContentAfter, Gathered, Gather
<1>4. ReasoningAfter(list) = Gather(thoughtIn, list)
  <2>1. [k \in 1 .. Len(list) |-> thoughtIn[list[k]]]
          = [k \in 1 .. Len(list) |->
               Given(list[k].reasoning)
                 \o (IF list[k].thought THEN Given(list[k].text) ELSE <<>>)]
    BY <1>1 DEF thoughtIn
  <2> QED BY <2>1 DEF ReasoningAfter, Gathered, Gather
<1>5. Gather(contentIn, list) \in Seq(Nat) /\ Gather(thoughtIn, list) \in Seq(Nat)
  BY ReadItems, GatherTypes
<1> QED BY <1>2, <1>3, <1>4, <1>5

\* The message of calls, with what came before or after them.
CallRefsOf(calls) == [k \in 1 .. Len(calls) |-> calls[k].call]

LEMMA ToolCallMessageTypes ==
  ASSUME NEW calls \in Seq(Items), NEW content \in Seq(Nat), NEW reasoning \in Seq(Nat)
  PROVE  LET message == AssistantToolCallMessage(calls, content, reasoning)
         IN /\ message \in ReplyMessages /\ message.role = "assistant"
            /\ message.content = content /\ message.calls = CallRefsOf(calls)
            /\ message.reasoning = ReasoningOf(calls, reasoning)
PROOF
<1> DEFINE own == Gathered(calls, LAMBDA call : Given(call.reasoning))
           reason == ReasoningOf(calls, reasoning)
           refs == CallRefsOf(calls)
<1>1. own \in Seq(Nat)
  <2>1. Gather(reasoningIn, calls) \in Seq(Nat)
    BY ReadItems, GatherTypes
  <2>2. own = Gather(reasoningIn, calls)
    BY ItemsAreRead
  <2> QED BY <2>1, <2>2
<1>2. reason = IF reasoning # <<>> \/ own = <<>> THEN reasoning ELSE <<own[1]>>
  BY DEF ReasoningOf
<1> HIDE DEF own, reason
<1>3. own # <<>> => own[1] \in Nat
  BY <1>1
<1>4. reason \in Seq(Nat)
  BY <1>2, <1>3
<1>5. refs \in Seq(CallRefs)
  <2>1. \A k \in 1 .. Len(calls) : calls[k].call \in CallRefs
    <3>1. \A k \in 1 .. Len(calls) : calls[k] \in Items
      OBVIOUS
    <3> QED BY <3>1 DEF Items
  <2> QED BY <2>1 DEF CallRefsOf
<1> HIDE DEF refs
<1>6. AssistantToolCallMessage(calls, content, reasoning)
        = [role |-> "assistant", content |-> content, reasoning |-> reason, calls |-> refs,
           answers |-> NoCall]
  BY DEF AssistantToolCallMessage, ChatMessage, CallRefsOf, refs, reason
<1>7. NoCall \in CallRefs
  BY DEF NoCall, Absent, CallRefs
<1> QED BY <1>4, <1>5, <1>6, <1>7 DEF ReplyMessages, refs, reason

\* An item that takes none along.
OutputMessage(item) == ChatMessage("tool", Given(item.text), <<>>, <<>>, item.call)
OwnMessages(item) ==
  IF item.type = "message" THEN ResponseMessageToChatMessage(item)
  ELSE IF item.type = "output" THEN <<OutputMessage(item)>> ELSE <<>>

AloneStep(list, i, step) ==
  /\ list[i].type # "call" /\ step = [message |-> OwnMessages(list[i]), next |-> i + 1]
  /\ IsAssistant(list[i]) => RunsTo(list, i + 1, i + 1, MessageFollowers(list[i]))

\* A text takes the calls that follow it, calls take the texts.
TextWithCalls(item, calls) ==
  AssistantToolCallMessage(calls, Given(item.text), Given(item.reasoning))
CallsWithTexts(calls, texts) ==
  AssistantToolCallMessage(calls, ContentAfter(texts), ReasoningAfter(texts))

TextStep(list, i, step) ==
  /\ IsAssistant(list[i]) /\ step.next # i + 1
  /\ RunsTo(list, i + 1, step.next, MessageFollowers(list[i]))
  /\ step = [message |-> <<TextWithCalls(list[i], SubSeq(list, i + 1, step.next - 1))>>,
             next |-> step.next]

CallsStep(list, i, j, step) ==
  /\ list[i].type = "call"
  /\ RunsTo(list, i + 1, j, CallFollowers(list[i])) /\ RunsTo(list, j, step.next, Assistants)
  /\ step = [message |-> <<CallsWithTexts(SubSeq(list, i, j - 1),
                                          SubSeq(list, j, step.next - 1))>>,
             next |-> step.next]

StepTaken(list, i, step) ==
  AloneStep(list, i, step) \/ TextStep(list, i, step) \/ \E j : CallsStep(list, i, j, step)

LEMMA StepsTaken ==
  ASSUME NEW list \in Seq(Items), NEW i \in 1 .. Len(list)
  PROVE  StepTaken(list, i, FromItem(list, i))
PROOF
<1> DEFINE item == list[i]
           step == FromItem(list, i)
<1>1. item \in Items
  OBVIOUS
<1>2. item.type \in {"reasoning", "message", "call", "output"}
  BY <1>1 DEF Items
<1>3. CASE item.type = "message"
  <2> DEFINE next == RunEnd(list, i + 1, LAMBDA c : FollowsMessage(list[i], c))
  <2>1. step = IF ~IsAssistant(item) \/ next = i + 1
               THEN [message |-> ResponseMessageToChatMessage(item), next |-> i + 1]
               ELSE [message |-> <<TextWithCalls(item, SubSeq(list, i + 1, next - 1))>>,
                     next |-> next]
    BY <1>3 DEF FromItem, FromMessage, OneByOne, TextWithCalls
  <2>2. RunsTo(list, i + 1, next, MessageFollowers(item))
    <3>1. 1 \in 1 .. (Len(list) + 1)
      OBVIOUS
    <3> QED BY <3>1, RunEnds
  <2> HIDE DEF next
  <2>3. OwnMessages(item) = ResponseMessageToChatMessage(item) /\ item.type # "call"
    BY <1>3 DEF OwnMessages
  <2>4. CASE ~IsAssistant(item)
    BY <2>1, <2>3, <2>4 DEF StepTaken, AloneStep
  <2>5. CASE IsAssistant(item) /\ next = i + 1
    BY <2>1, <2>2, <2>3, <2>5 DEF StepTaken, AloneStep
  <2>6. CASE IsAssistant(item) /\ next # i + 1
    <3>1. step = [message |-> <<TextWithCalls(item, SubSeq(list, i + 1, next - 1))>>,
                  next |-> next]
      BY <2>1, <2>6
    <3>2. step.next = next
      BY <3>1
    <3> HIDE DEF step
    <3>3. TextStep(list, i, step)
      BY <2>2, <2>6, <3>1, <3>2 DEF TextStep
    <3> QED BY <3>3 DEF StepTaken, step
  <2> QED BY <2>4, <2>5, <2>6
<1>4. CASE item.type = "call"
  <2> DEFINE j == RunEnd(list, i + 1, LAMBDA c : FollowsCall(list[i], c))
             next == RunEnd(list, j, IsAssistant)
  <2>1. step = [message |-> <<CallsWithTexts(SubSeq(list, i, j - 1),
                                             SubSeq(list, j, next - 1))>>,
                next |-> next]
    BY <1>4 DEF FromItem, FromCalls, CallsWithTexts
  <2>2. RunsTo(list, i + 1, j, CallFollowers(item))
    <3>1. 1 \in 1 .. (Len(list) + 1)
      OBVIOUS
    <3> QED BY <3>1, RunEnds
  <2> HIDE DEF j
  <2>3. j \in 1 .. (Len(list) + 1)
    BY <2>2 DEF RunsTo
  <2>4. RunsTo(list, j, next, Assistants)
    BY <2>3, RunEnds
  <2> HIDE DEF next
  <2>5. step.next = next
    BY <2>1
  <2> HIDE DEF step
  <2>6. CallsStep(list, i, j, step)
    BY <1>4, <2>1, <2>2, <2>4, <2>5 DEF CallsStep
  <2> QED BY <2>6 DEF StepTaken, step
<1>5. CASE item.type = "output"
  <2>1. step = [message |-> <<OutputMessage(item)>>, next |-> i + 1]
    BY <1>5 DEF FromItem, FromOutput, OutputMessage
  <2>2. ~IsAssistant(item) /\ OwnMessages(item) = <<OutputMessage(item)>>
    BY <1>5 DEF IsAssistant, OwnMessages
  <2> QED BY <1>5, <2>1, <2>2 DEF StepTaken, AloneStep
<1>6. CASE item.type = "reasoning"
  <2>1. step = [message |-> <<>>, next |-> i + 1]
    BY <1>6 DEF FromItem
  <2>2. ~IsAssistant(item) /\ OwnMessages(item) = <<>>
    BY <1>6 DEF IsAssistant, OwnMessages
  <2> QED BY <1>6, <2>1, <2>2 DEF StepTaken, AloneStep
<1> QED BY <1>2, <1>3, <1>4, <1>5, <1>6

LEMMA AloneTypes ==
  \A item \in Items : OwnMessages(item) \in Seq(ReplyMessages) /\ Len(OwnMessages(item)) <= 1
PROOF
<1> SUFFICES ASSUME NEW item \in Items
             PROVE  OwnMessages(item) \in Seq(ReplyMessages) /\ Len(OwnMessages(item)) <= 1
  OBVIOUS
<1> DEFINE content == Given(item.text)
           reasoning == Given(item.reasoning)
<1>1. /\ item.text \in Nat /\ item.reasoning \in Nat /\ item.call \in CallRefs
      /\ item.role \in {"", "assistant", "user", "developer", "critic"}
  BY DEF Items
<1>2. content \in Seq(Nat) /\ reasoning \in Seq(Nat) /\ NoCall \in CallRefs
  BY <1>1, GivenTypes DEF NoCall, Absent, CallRefs
<1>3. <<>> \in Seq(Nat) /\ <<>> \in Seq(CallRefs)
  OBVIOUS
<1> HIDE DEF content, reasoning
<1>4. OutputMessage(item) \in ReplyMessages
  BY <1>1, <1>2, <1>3 DEF OutputMessage, ChatMessage, ReplyMessages, content
<1>5. /\ ResponseMessageToChatMessage(item) \in Seq(ReplyMessages)
      /\ Len(ResponseMessageToChatMessage(item)) <= 1
  <2> DEFINE role == IF item.role = "developer" THEN "system" ELSE item.role
             message == ChatMessage(role, content, reasoning, <<>>, NoCall)
  <2>1. ResponseMessageToChatMessage(item)
          = IF role \notin {"system", "user", "assistant", "tool"} THEN <<>> ELSE <<message>>
    BY DEF ResponseMessageToChatMessage, content, reasoning
  <2>2. role \in {"system", "user", "assistant", "tool"} => message \in ReplyMessages
    BY <1>2, <1>3 DEF ChatMessage, ReplyMessages
  <2> HIDE DEF role, message
  <2> QED BY <2>1, <2>2
<1> QED BY <1>4, <1>5 DEF OwnMessages

\* What a step is, whatever its item.
LEMMA StepTypes ==
  ASSUME NEW list \in Seq(Items), NEW i \in 1 .. Len(list), NEW step, StepTaken(list, i, step)
  PROVE  /\ step.next \in (i + 1) .. (Len(list) + 1)
         /\ step.message \in Seq(ReplyMessages) /\ Len(step.message) <= 1
PROOF
<1> DEFINE n == Len(list)
           item == list[i]
<1>1. item \in Items /\ n \in Nat /\ i \in 1 .. n
  OBVIOUS
<1>2. CASE AloneStep(list, i, step)
  BY <1>1, <1>2, AloneTypes DEF AloneStep
<1>3. CASE TextStep(list, i, step)
  <2> DEFINE calls == SubSeq(list, i + 1, step.next - 1)
             content == Given(item.text)
             reasoning == Given(item.reasoning)
             message == TextWithCalls(item, calls)
  <2>1. step.next \in (i + 1) .. (n + 1) /\ step.message = <<message>>
    BY <1>3 DEF TextStep, RunsTo
  <2>2. calls \in Seq(Items)
    BY <1>1, <2>1
  <2>3. content \in Seq(Nat) /\ reasoning \in Seq(Nat)
    BY <1>1, GivenTypes DEF Items
  <2>4. message = AssistantToolCallMessage(calls, content, reasoning)
    BY DEF TextWithCalls
  <2> HIDE DEF calls, content, reasoning, message
  <2>5. message \in ReplyMessages
    BY <2>2, <2>3, <2>4, ToolCallMessageTypes
  <2> QED BY <2>1, <2>5
<1>4. CASE \E j : CallsStep(list, i, j, step)
  <2>1. PICK j : CallsStep(list, i, j, step)
    BY <1>4
  <2> DEFINE calls == SubSeq(list, i, j - 1)
             texts == SubSeq(list, j, step.next - 1)
             content == ContentAfter(texts)
             reasoning == ReasoningAfter(texts)
             message == CallsWithTexts(calls, texts)
  <2>2. /\ j \in (i + 1) .. (n + 1) /\ step.next \in j .. (n + 1)
        /\ step.message = <<message>>
    BY <2>1 DEF CallsStep, RunsTo
  <2>3. step.next \in (i + 1) .. (n + 1)
    BY <1>1, <2>2
  <2>4. calls \in Seq(Items) /\ texts \in Seq(Items)
    BY <1>1, <2>2
  <2>5. message = AssistantToolCallMessage(calls, content, reasoning)
    BY DEF CallsWithTexts
  <2> HIDE DEF calls, texts, message
  <2>6. content \in Seq(Nat) /\ reasoning \in Seq(Nat)
    BY <2>4, ItemsAreRead
  <2> HIDE DEF content, reasoning
  <2>7. message \in ReplyMessages
    BY <2>4, <2>5, <2>6, ToolCallMessageTypes
  <2> QED BY <2>2, <2>3, <2>7
<1> QED BY <1>2, <1>3, <1>4 DEF StepTaken

------------------------------------------------------------------------------
(* The scan: a function of the place, defined from the end of the list.    *)

StepOf(list, i) == FromItem(list, i)

\* What the scan makes of the items from each place on.
Scans(f, list) ==
  /\ f \in [1 .. (Len(list) + 1) -> Seq(ReplyMessages)] /\ f[Len(list) + 1] = <<>>
  /\ \A i \in 1 .. Len(list) : f[i] = StepOf(list, i).message \o f[StepOf(list, i).next]

LEMMA ScanExists ==
  ASSUME NEW list \in Seq(Items)
  PROVE  \E f : Scans(f, list) /\ InputItemsToChatMessages(list) = f[1]
PROOF
<1> DEFINE n == Len(list)
           M == [i \in 1 .. n |-> StepOf(list, i).message]
           N == [i \in 1 .. n |-> StepOf(list, i).next]
           Body(h) == [i \in 1 .. (n + 1) |->
                         IF i > n THEN <<>>
                         ELSE StepOf(list, i).message \o h[StepOf(list, i).next]]
           from == CHOOSE h : h = Body(h)
<1>1. n \in Nat
  OBVIOUS
<1>2. ASSUME NEW i \in 1 .. n
      PROVE  /\ StepOf(list, i).message \in Seq(ReplyMessages)
             /\ StepOf(list, i).next \in 1 .. (n + 1) /\ StepOf(list, i).next > i
  <2> DEFINE step == StepOf(list, i)
  <2>1. StepTaken(list, i, step)
    BY StepsTaken DEF StepOf
  <2> HIDE DEF step
  <2>2. step.next \in (i + 1) .. (n + 1) /\ step.message \in Seq(ReplyMessages)
    BY <2>1, StepTypes
  <2>3. step.next \in 1 .. (n + 1) /\ step.next > i
    BY <1>1, <2>2
  <2> QED BY <2>2, <2>3 DEF step
<1>3. InputItemsToChatMessages(list) = from[1]
  BY DEF InputItemsToChatMessages, StepOf
<1>4. M \in [1 .. n -> Seq(ReplyMessages)] /\ N \in [1 .. n -> 1 .. (n + 1)]
  BY <1>2
<1>5. \A i \in 1 .. n : N[i] > i /\ N[i] = StepOf(list, i).next /\ M[i] = StepOf(list, i).message
  BY <1>2
<1> HIDE DEF M, N, n
<1>6. PICK g : Filled(g, n, 1, ReplyMessages, M, N)
  BY <1>1, <1>4, <1>5, Filling
<1>7. /\ g \in [1 .. (n + 1) -> Seq(ReplyMessages)] /\ g[n + 1] = <<>>
      /\ \A i \in 1 .. n : g[i] = StepOf(list, i).message \o g[StepOf(list, i).next]
  BY <1>5, <1>6 DEF Filled
<1>8. g = Body(g)
  <2>1. ASSUME NEW i \in 1 .. (n + 1)
        PROVE  g[i] = IF i > n THEN <<>>
                      ELSE StepOf(list, i).message \o g[StepOf(list, i).next]
    <3>1. CASE i > n
      <4>1. i = n + 1
        BY <1>1, <3>1
      <4> QED BY <1>7, <3>1, <4>1
    <3>2. CASE ~(i > n)
      <4>1. i \in 1 .. n
        BY <1>1, <3>2
      <4> QED BY <1>7, <3>2, <4>1
    <3> QED BY <3>1, <3>2
  <2> QED BY <1>7, <2>1
<1>9. from = Body(from)
  BY <1>8, Zenon
<1> HIDE DEF from
<1>10. \A i \in 1 .. (n + 1) :
         from[i] = IF i > n THEN <<>>
                   ELSE StepOf(list, i).message \o from[StepOf(list, i).next]
  BY <1>9
<1> DEFINE T == {i \in 1 .. (n + 1) : from[i] = g[i]}
<1>11. n + 1 \in T
  BY <1>1, <1>7, <1>10
<1>12. ASSUME NEW i \in 1 .. n, \A j \in (i + 1) .. (n + 1) : j \in T PROVE i \in T
  <2>1. i \in 1 .. (n + 1) /\ ~(i > n)
    BY <1>1
  <2> DEFINE next == StepOf(list, i).next
  <2>2. next \in (i + 1) .. (n + 1)
    BY <1>1, <1>2
  <2>3. from[i] = StepOf(list, i).message \o from[next]
    BY <1>10, <2>1
  <2>4. g[i] = StepOf(list, i).message \o g[next]
    BY <1>7
  <2> HIDE DEF next
  <2>5. from[next] = g[next]
    BY <1>12, <2>2
  <2> QED BY <2>1, <2>3, <2>4, <2>5
<1> HIDE DEF T
<1>13. \A i \in 1 .. (n + 1) : i \in T
  BY <1>1, <1>11, <1>12, DownTo
<1>14. 1 \in T
  BY <1>1, <1>13
<1>15. from[1] = g[1]
  BY <1>14 DEF T
<1>16. Scans(g, list)
  BY <1>7 DEF Scans, n
<1> QED BY <1>3, <1>15, <1>16

------------------------------------------------------------------------------
(* Nothing is lost: what the messages hold and what the items hold.        *)

\* A relation of lists that joining keeps.
Related(rel, a, b) == <<a, b>> \in rel
Joinable(rel, T) ==
  /\ Related(rel, <<>>, <<>>)
  /\ \A a, b, c, d \in Seq(T) :
       Related(rel, a, b) /\ Related(rel, c, d) => Related(rel, a \o c, b \o d)

StepGathers(rel, F, G, list, i, step) ==
  Related(rel, Gather(F, step.message), Gather(G, Span(list, i, step.next)))

\* If each step has what its items have, all messages have what all items have.
LEMMA ScanGathers ==
  ASSUME NEW T, NEW rel, Joinable(rel, T), NEW F, Gathers(F, ReplyMessages, T),
         NEW G, Gathers(G, Items, T), NEW list \in Seq(Items), NEW f, Scans(f, list),
         \A i \in 1 .. Len(list) : StepGathers(rel, F, G, list, i, StepOf(list, i))
  PROVE  Related(rel, Gather(F, f[1]), Gather(G, list))
PROOF
<1> DEFINE n == Len(list)
           last == n + 1
           P == {i \in 1 .. (n + 1) :
                   Related(rel, Gather(F, f[i]), Gather(G, Span(list, i, last)))}
<1>1. n \in Nat /\ last \in 1 .. (n + 1) /\ last = n + 1
  OBVIOUS
<1>2. /\ \A i \in 1 .. (n + 1) : f[i] \in Seq(ReplyMessages)
      /\ f[last] = <<>>
      /\ \A i \in 1 .. n : f[i] = StepOf(list, i).message \o f[StepOf(list, i).next]
  BY DEF Scans
<1>3. ASSUME NEW i \in 1 .. n
      PROVE  /\ StepOf(list, i).next \in (i + 1) .. (n + 1)
             /\ StepOf(list, i).message \in Seq(ReplyMessages)
  <2> DEFINE step == StepOf(list, i)
  <2>1. StepTaken(list, i, step)
    BY StepsTaken DEF StepOf
  <2> HIDE DEF step
  <2>2. step.next \in (i + 1) .. (n + 1) /\ step.message \in Seq(ReplyMessages)
    BY <2>1, StepTypes
  <2> QED BY <2>2 DEF step
<1> HIDE DEF last
<1>4. last \in P
  <2> DEFINE rest == Span(list, last, last)
  <2>1. last \in last .. (n + 1)
    BY <1>1
  <2>2. SpanOf(rest, Items, list, last, last)
    BY <1>1, <2>1, SpanTypes
  <2>3. rest \in Seq(Items) /\ Len(rest) = 0
    BY <1>1, <2>2 DEF SpanOf
  <2> HIDE DEF rest
  <2>4. rest = <<>>
    BY <2>3
  <2>5. Gather(G, rest) = <<>> /\ Gather(F, f[last]) = <<>>
    BY <1>2, <2>4, GatherTypes
  <2>6. Related(rel, Gather(F, f[last]), Gather(G, rest))
    BY <2>5 DEF Joinable
  <2> QED BY <1>1, <2>6 DEF rest
<1>5. ASSUME NEW i \in 1 .. n, \A j \in (i + 1) .. (n + 1) : j \in P PROVE i \in P
  <2> DEFINE message == StepOf(list, i).message
             next == StepOf(list, i).next
             after == f[next]
             all == f[i]
             own == Span(list, i, next)
             rest == Span(list, next, last)
             whole == Span(list, i, last)
  <2>1. /\ next \in (i + 1) .. (n + 1) /\ next \in 1 .. (n + 1) /\ next \in i .. (n + 1)
        /\ last \in next .. (n + 1) /\ i \in 1 .. (n + 1) /\ last \in i .. (n + 1)
    BY <1>1, <1>3
  <2>2. /\ message \in Seq(ReplyMessages) /\ after \in Seq(ReplyMessages)
        /\ all \in Seq(ReplyMessages) /\ all = message \o after
    BY <1>2, <1>3, <2>1
  <2>3. Related(rel, Gather(F, message), Gather(G, own))
    BY DEF StepGathers
  <2>4. Related(rel, Gather(F, after), Gather(G, rest))
    BY <1>5, <2>1
  <2> HIDE DEF message, next, after, all
  <2>5. SpanOf(own, Items, list, i, next)
    BY <2>1, SpanTypes
  <2>6. SpanOf(rest, Items, list, next, last)
    BY <2>1, SpanTypes
  <2>7. SpanOf(whole, Items, list, i, last)
    BY <2>1, SpanTypes
  <2>8. SpansJoin(whole, own, rest)
    BY <2>1, SpanJoins
  <2> HIDE DEF own, rest, whole, P
  <2>9. own \in Seq(Items) /\ rest \in Seq(Items) /\ whole \in Seq(Items) /\ whole = own \o rest
    BY <2>5, <2>6, <2>7, <2>8 DEF SpanOf, SpansJoin
  <2>10. GathersBoth(F, all, message, after)
    BY <2>2, GatherConcat
  <2>11. GathersBoth(G, whole, own, rest)
    BY <2>9, GatherConcat
  <2> DEFINE a == Gather(F, message)
             b == Gather(G, own)
             c == Gather(F, after)
             d == Gather(G, rest)
  <2>12. a \in Seq(T) /\ b \in Seq(T) /\ c \in Seq(T) /\ d \in Seq(T)
    BY <2>2, <2>9, GatherTypes
  <2>13. Gather(F, all) = a \o c /\ Gather(G, whole) = b \o d
    BY <2>10, <2>11 DEF GathersBoth
  <2>14. Related(rel, a, b) /\ Related(rel, c, d)
    BY <2>3, <2>4
  <2> HIDE DEF a, b, c, d
  <2>15. Related(rel, a \o c, b \o d)
    BY <2>12, <2>14, Zenon DEF Joinable
  <2>16. Related(rel, Gather(F, all), Gather(G, whole))
    BY <2>13, <2>15
  <2> QED BY <2>1, <2>16 DEF P, all, whole
<1> HIDE DEF P
<1>6. \A i \in 1 .. n : (\A j \in (i + 1) .. (n + 1) : j \in P) => i \in P
  BY <1>5
<1>7. \A i \in 1 .. (n + 1) : i \in P
  BY <1>1, <1>4, <1>6, DownTo
<1>8. 1 \in P
  BY <1>1, <1>7
<1>9. Span(list, 1, last) = list
  <2> DEFINE span == Span(list, 1, last)
  <2>1. 1 \in 1 .. (n + 1) /\ last \in 1 .. (n + 1)
    BY <1>1
  <2>2. SpanOf(span, Items, list, 1, last)
    BY <2>1, SpanTypes
  <2> HIDE DEF span
  <2>3. /\ span \in Seq(Items) /\ Len(span) = n
        /\ \A k \in 1 .. n : span[k] = list[1 + k - 1] /\ 1 + k - 1 = k
    BY <1>1, <2>2 DEF SpanOf
  <2>4. span = list
    BY <2>3, SeqEqual
  <2> QED BY <2>4 DEF span
<1> QED BY <1>8, <1>9 DEF P

\* A step, seen as the items it stands for and the message it makes of them.
OnlyCalls(S) == {c \in S : c.type = "call"}
OnlyAssistants(S) == {c \in S : IsAssistant(c)}

StepShape(span, message, S) ==
  \/ \E item \in S : item.type # "call" /\ span = <<item>> /\ message = OwnMessages(item)
  \/ \E item \in OnlyAssistants(S), calls \in Seq(OnlyCalls(S)) :
       span = <<item>> \o calls /\ message = <<TextWithCalls(item, calls)>>
  \/ \E calls \in Seq(OnlyCalls(S)), texts \in Seq(OnlyAssistants(S)) :
       span = calls \o texts /\ message = <<CallsWithTexts(calls, texts)>>

LEMMA SpanWithin ==
  ASSUME NEW M, NEW list \in Seq(M), NEW S, NEW from \in 1 .. (Len(list) + 1),
         NEW to \in from .. (Len(list) + 1), \A q \in from .. (to - 1) : list[q] \in S
  PROVE  Span(list, from, to) \in Seq(S)
PROOF
<1> DEFINE n == Len(list)
           span == Span(list, from, to)
<1>1. n \in Nat /\ from \in Nat /\ to \in Nat /\ from <= to
  OBVIOUS
<1>2. SpanOf(span, M, list, from, to)
  BY SpanTypes
<1> HIDE DEF span
<1>3. Len(span) = to - from /\ span \in Seq(M) /\ \A k \in 1 .. (to - from) : span[k] = list[from + k - 1]
  BY <1>2 DEF SpanOf
<1>4. \A k \in 1 .. (to - from) : from + k - 1 \in from .. (to - 1)
  BY <1>1
<1>5. \A k \in 1 .. Len(span) : span[k] \in S
  BY <1>3, <1>4
<1>6. span \in Seq(S)
  BY <1>3, <1>5
<1> QED BY <1>6 DEF span

LEMMA SpanOfOne ==
  ASSUME NEW M, NEW list \in Seq(M), NEW i \in 1 .. Len(list)
  PROVE  Span(list, i, i + 1) = <<list[i]>>
PROOF
<1> DEFINE n == Len(list)
           to == i + 1
           span == Span(list, i, to)
<1>1. n \in Nat /\ i \in 1 .. (n + 1) /\ to \in i .. (n + 1) /\ to - i = 1 /\ i + 1 - 1 = i
  OBVIOUS
<1> HIDE DEF to
<1>2. SpanOf(span, M, list, i, to)
  BY <1>1, SpanTypes
<1> HIDE DEF span
<1>3. span \in Seq(M) /\ Len(span) = 1 /\ span[1] = list[i]
  BY <1>1, <1>2 DEF SpanOf
<1>4. span = <<list[i]>>
  BY <1>3
<1> QED BY <1>4 DEF span, to

LEMMA StepShapes ==
  ASSUME NEW S, S \subseteq Items, NEW list \in Seq(S), NEW i \in 1 .. Len(list), NEW step,
         StepTaken(list, i, step)
  PROVE  StepShape(Span(list, i, step.next), step.message, S)
PROOF
<1> DEFINE n == Len(list)
           item == list[i]
           next == step.next
<1>1. n \in Nat /\ i \in 1 .. n /\ item \in S /\ list \in Seq(Items)
  OBVIOUS
<1>2. \A q \in 1 .. n : list[q] \in S
  OBVIOUS
<1>3. next \in (i + 1) .. (n + 1)
  BY <1>1, StepTypes
<1>4. CASE AloneStep(list, i, step)
  <2>1. item.type # "call" /\ next = i + 1 /\ step.message = OwnMessages(item)
    BY <1>4 DEF AloneStep
  <2>2. Span(list, i, next) = <<item>>
    BY <2>1, SpanOfOne
  <2> QED BY <1>1, <2>1, <2>2 DEF StepShape
<1>5. CASE TextStep(list, i, step)
  <2> DEFINE from == i + 1
             calls == Span(list, from, next)
             whole == Span(list, i, next)
  <2>1. /\ item \in OnlyAssistants(S) /\ step.message = <<TextWithCalls(item, calls)>>
        /\ \A q \in from .. (next - 1) : list[q] \in MessageFollowers(item)
    BY <1>1, <1>5 DEF TextStep, RunsTo, OnlyAssistants, Span
  <2>2. /\ from \in 1 .. (n + 1) /\ next \in from .. (n + 1) /\ i \in 1 .. (n + 1)
        /\ from \in i .. (n + 1) /\ next \in i .. (n + 1)
    BY <1>1, <1>3
  <2>3. \A q \in from .. (next - 1) : list[q] \in OnlyCalls(S)
    <3>1. \A q \in from .. (next - 1) : q \in 1 .. n
      BY <1>1, <2>2
    <3> QED BY <1>2, <2>1, <3>1 DEF MessageFollowers, FollowsMessage, OnlyCalls
  <2> HIDE DEF next
  <2>4. calls \in Seq(OnlyCalls(S))
    BY <2>2, <2>3, SpanWithin
  <2> DEFINE own == Span(list, i, from)
  <2>5. own = <<item>>
    BY SpanOfOne
  <2> HIDE DEF from, item
  <2>6. SpansJoin(whole, own, calls)
    BY <2>2, SpanJoins
  <2>7. whole = <<item>> \o calls
    BY <2>5, <2>6 DEF SpansJoin
  <2> HIDE DEF calls
  <2> QED BY <2>1, <2>4, <2>7 DEF StepShape, next
<1>6. CASE \E j : CallsStep(list, i, j, step)
  <2>1. PICK j : CallsStep(list, i, j, step)
    BY <1>6
  <2> DEFINE calls == Span(list, i, j)
             texts == Span(list, j, next)
             whole == Span(list, i, next)
  <2>2. /\ item.type = "call" /\ j \in (i + 1) .. (n + 1) /\ next \in j .. (n + 1)
        /\ \A q \in (i + 1) .. (j - 1) : list[q] \in CallFollowers(item)
        /\ \A q \in j .. (next - 1) : list[q] \in Assistants
        /\ step.message = <<CallsWithTexts(calls, texts)>>
    BY <2>1 DEF CallsStep, RunsTo, Span
  <2>3. /\ i \in 1 .. (n + 1) /\ j \in 1 .. (n + 1) /\ j \in i .. (n + 1)
        /\ next \in i .. (n + 1)
    BY <1>1, <2>2
  <2>4. ASSUME NEW q \in i .. (j - 1) PROVE list[q] \in OnlyCalls(S)
    <3>1. q \in 1 .. n /\ (q = i \/ q \in (i + 1) .. (j - 1))
      BY <1>1, <2>2
    <3> QED BY <1>1, <1>2, <2>2, <3>1 DEF CallFollowers, FollowsCall, OnlyCalls
  <2>5. ASSUME NEW q \in j .. (next - 1) PROVE list[q] \in OnlyAssistants(S)
    <3>1. q \in 1 .. n
      BY <1>1, <2>2, <2>3
    <3> QED BY <1>2, <2>2, <3>1 DEF Assistants, OnlyAssistants
  <2> HIDE DEF next, item
  <2>6. calls \in Seq(OnlyCalls(S))
    BY <2>3, <2>4, SpanWithin
  <2>7. texts \in Seq(OnlyAssistants(S))
    BY <2>2, <2>3, <2>5, SpanWithin
  <2>8. SpansJoin(whole, calls, texts)
    BY <2>2, <2>3, SpanJoins
  <2>9. whole = calls \o texts
    BY <2>8 DEF SpansJoin
  <2> HIDE DEF calls, texts
  <2> QED BY <2>2, <2>6, <2>7, <2>9 DEF StepShape, next
<1> QED BY <1>4, <1>5, <1>6 DEF StepTaken

\* What a field of the messages keeps of a field of the items.
FieldKept(rel, F, G, S) ==
  /\ \A item \in S : item.type # "call" => Related(rel, Gather(F, OwnMessages(item)), G[item])
  /\ \A item \in OnlyAssistants(S), calls \in Seq(OnlyCalls(S)) :
       Related(rel, F[TextWithCalls(item, calls)], G[item] \o Gather(G, calls))
  /\ \A calls \in Seq(OnlyCalls(S)), texts \in Seq(OnlyAssistants(S)) :
       Related(rel, F[CallsWithTexts(calls, texts)], Gather(G, calls) \o Gather(G, texts))

LEMMA MessagesOfCalls ==
  ASSUME NEW S, S \subseteq Items, NEW calls \in Seq(OnlyCalls(S))
  PROVE  /\ \A item \in OnlyAssistants(S) :
              LET message == TextWithCalls(item, calls)
              IN /\ message \in ReplyMessages /\ message.role = "assistant"
                 /\ message.content = Given(item.text) /\ message.calls = CallRefsOf(calls)
                 /\ message.reasoning = ReasoningOf(calls, Given(item.reasoning))
         /\ \A texts \in Seq(OnlyAssistants(S)) :
              LET message == CallsWithTexts(calls, texts)
              IN /\ message \in ReplyMessages /\ message.role = "assistant"
                 /\ message.content = ContentAfter(texts) /\ message.calls = CallRefsOf(calls)
                 /\ message.reasoning = ReasoningOf(calls, ReasoningAfter(texts))
PROOF
<1>1. calls \in Seq(Items)
  <2>1. \A k \in 1 .. Len(calls) : calls[k] \in Items
    <3>1. \A k \in 1 .. Len(calls) : calls[k] \in OnlyCalls(S)
      OBVIOUS
    <3> QED BY <3>1 DEF OnlyCalls
  <2> QED BY <2>1
<1>2. ASSUME NEW item \in OnlyAssistants(S)
      PROVE  LET message == TextWithCalls(item, calls)
             IN /\ message \in ReplyMessages /\ message.role = "assistant"
                /\ message.content = Given(item.text) /\ message.calls = CallRefsOf(calls)
                /\ message.reasoning = ReasoningOf(calls, Given(item.reasoning))
  <2> DEFINE content == Given(item.text)
             reasoning == Given(item.reasoning)
  <2>1. item \in Items
    BY DEF OnlyAssistants
  <2>2. content \in Seq(Nat) /\ reasoning \in Seq(Nat)
    BY <2>1, GivenTypes DEF Items
  <2> HIDE DEF content, reasoning
  <2> QED BY <1>1, <2>2, ToolCallMessageTypes DEF TextWithCalls, content, reasoning
<1>3. ASSUME NEW texts \in Seq(OnlyAssistants(S))
      PROVE  LET message == CallsWithTexts(calls, texts)
             IN /\ message \in ReplyMessages /\ message.role = "assistant"
                /\ message.content = ContentAfter(texts) /\ message.calls = CallRefsOf(calls)
                /\ message.reasoning = ReasoningOf(calls, ReasoningAfter(texts))
  <2> DEFINE content == ContentAfter(texts)
             reasoning == ReasoningAfter(texts)
  <2>1. texts \in Seq(Items)
    <3>1. \A k \in 1 .. Len(texts) : texts[k] \in OnlyAssistants(S)
      OBVIOUS
    <3>2. \A k \in 1 .. Len(texts) : texts[k] \in Items
      BY <3>1 DEF OnlyAssistants
    <3> QED BY <3>2
  <2>2. content \in Seq(Nat) /\ reasoning \in Seq(Nat)
    BY <2>1, ItemsAreRead
  <2> HIDE DEF content, reasoning
  <2> QED BY <1>1, <2>2, ToolCallMessageTypes DEF CallsWithTexts, content, reasoning
<1> QED BY <1>2, <1>3

LEMMA KeptByStep ==
  ASSUME NEW S, S \subseteq Items, NEW T, NEW rel, NEW F, Gathers(F, ReplyMessages, T),
         NEW G, Gathers(G, Items, T), FieldKept(rel, F, G, S),
         NEW span, NEW message, StepShape(span, message, S)
  PROVE  Related(rel, Gather(F, message), Gather(G, span))
PROOF
<1>1. OnlyCalls(S) \subseteq Items /\ OnlyAssistants(S) \subseteq Items
  BY DEF OnlyCalls, OnlyAssistants
<1>2. CASE \E item \in S : item.type # "call" /\ span = <<item>> /\ message = OwnMessages(item)
  <2>1. PICK item \in S : item.type # "call" /\ span = <<item>> /\ message = OwnMessages(item)
    BY <1>2
  <2>2. item \in Items /\ span = <<item>>
    BY <2>1
  <2>3. Gather(G, span) = G[item]
    BY <2>2, GatherOne
  <2> QED BY <2>1, <2>3 DEF FieldKept
<1>3. CASE \E item \in OnlyAssistants(S), calls \in Seq(OnlyCalls(S)) :
             span = <<item>> \o calls /\ message = <<TextWithCalls(item, calls)>>
  <2>1. PICK item \in OnlyAssistants(S), calls \in Seq(OnlyCalls(S)) :
               span = <<item>> \o calls /\ message = <<TextWithCalls(item, calls)>>
    BY <1>3
  <2> DEFINE own == TextWithCalls(item, calls)
             one == <<item>>
  <2>2. calls \in Seq(Items)
    BY <1>1, SeqWithin
  <2>3. item \in Items
    BY <1>1
  <2>4. own \in ReplyMessages /\ message = <<own>>
    BY <2>1, MessagesOfCalls
  <2>5. one \in Seq(Items) /\ one = <<item>> /\ span = one \o calls
    BY <2>1, <2>3
  <2>6. span \in Seq(Items)
    BY <2>2, <2>5
  <2>7. Related(rel, F[own], G[item] \o Gather(G, calls))
    BY DEF FieldKept
  <2> HIDE DEF own, one
  <2>8. Gather(F, message) = F[own]
    BY <2>4, GatherOne
  <2>9. Gather(G, one) = G[item]
    BY <2>3, <2>5, GatherOne
  <2>10. GathersBoth(G, span, one, calls)
    BY <2>2, <2>5, <2>6, GatherConcat
  <2>11. Gather(G, span) = G[item] \o Gather(G, calls)
    BY <2>9, <2>10 DEF GathersBoth
  <2> QED BY <2>7, <2>8, <2>11
<1>4. CASE \E calls \in Seq(OnlyCalls(S)), texts \in Seq(OnlyAssistants(S)) :
             span = calls \o texts /\ message = <<CallsWithTexts(calls, texts)>>
  <2>1. PICK calls \in Seq(OnlyCalls(S)), texts \in Seq(OnlyAssistants(S)) :
               span = calls \o texts /\ message = <<CallsWithTexts(calls, texts)>>
    BY <1>4
  <2> DEFINE own == CallsWithTexts(calls, texts)
  <2>2. calls \in Seq(Items)
    BY <1>1, SeqWithin
  <2>3. texts \in Seq(Items)
    BY <1>1, SeqWithin
  <2>4. own \in ReplyMessages /\ message = <<own>>
    BY <2>1, MessagesOfCalls
  <2>5. span \in Seq(Items) /\ span = calls \o texts
    BY <2>1, <2>2, <2>3
  <2>6. Related(rel, F[own], Gather(G, calls) \o Gather(G, texts))
    BY DEF FieldKept
  <2> HIDE DEF own
  <2>7. Gather(F, message) = F[own]
    BY <2>4, GatherOne
  <2>8. GathersBoth(G, span, calls, texts)
    BY <2>2, <2>3, <2>5, GatherConcat
  <2>9. Gather(G, span) = Gather(G, calls) \o Gather(G, texts)
    BY <2>8 DEF GathersBoth
  <2> QED BY <2>6, <2>7, <2>9
<1> QED BY <1>2, <1>3, <1>4 DEF StepShape

LEMMA KeptByScan ==
  ASSUME NEW S, S \subseteq Items, NEW T, NEW rel, Joinable(rel, T),
         NEW F, Gathers(F, ReplyMessages, T), NEW G, Gathers(G, Items, T),
         FieldKept(rel, F, G, S), NEW list \in Seq(S)
  PROVE  Related(rel, Gather(F, InputItemsToChatMessages(list)), Gather(G, list))
PROOF
<1>1. list \in Seq(Items)
  BY SeqWithin
<1>2. PICK f : Scans(f, list) /\ InputItemsToChatMessages(list) = f[1]
  BY <1>1, ScanExists
<1>3. ASSUME NEW i \in 1 .. Len(list)
      PROVE  StepGathers(rel, F, G, list, i, StepOf(list, i))
  <2> DEFINE step == StepOf(list, i)
             span == Span(list, i, step.next)
             message == step.message
  <2>1. StepTaken(list, i, step)
    BY <1>1, StepsTaken DEF StepOf
  <2> HIDE DEF step
  <2>2. StepShape(span, message, S)
    BY <2>1, StepShapes
  <2> HIDE DEF span, message
  <2>3. Related(rel, Gather(F, message), Gather(G, span))
    BY <2>2, KeptByStep
  <2> QED BY <2>3 DEF StepGathers, step, span, message
<1>4. Related(rel, Gather(F, f[1]), Gather(G, list))
  BY <1>1, <1>2, <1>3, ScanGathers
<1> QED BY <1>2, <1>4

\* The relations: the same list, and the same elements in any order.
SameList(T) == {pair \in Seq(T) \X Seq(T) : pair[1] = pair[2]}
SameElements(T) ==
  {pair \in Seq(T) \X Seq(T) : Len(pair[1]) = Len(pair[2]) /\ ToSet(pair[1]) = ToSet(pair[2])}

LEMMA SameListMeans ==
  ASSUME NEW T, NEW a \in Seq(T), NEW b \in Seq(T)
  PROVE  Related(SameList(T), a, b) <=> a = b
BY DEF Related, SameList

LEMMA SameElementsMeans ==
  ASSUME NEW T, NEW a \in Seq(T), NEW b \in Seq(T)
  PROVE  Related(SameElements(T), a, b) <=> Len(a) = Len(b) /\ ToSet(a) = ToSet(b)
BY Zenon DEF Related, SameElements

LEMMA SameListJoins == ASSUME NEW T PROVE Joinable(SameList(T), T)
PROOF
<1>1. Related(SameList(T), <<>>, <<>>)
  <2>1. <<>> \in Seq(T)
    OBVIOUS
  <2> QED BY <2>1, SameListMeans
<1>2. ASSUME NEW a \in Seq(T), NEW b \in Seq(T), NEW c \in Seq(T), NEW d \in Seq(T),
             Related(SameList(T), a, b), Related(SameList(T), c, d)
      PROVE  Related(SameList(T), a \o c, b \o d)
  <2>1. a = b /\ c = d
    BY <1>2, SameListMeans
  <2> DEFINE e == a \o c
  <2>2. e \in Seq(T)
    OBVIOUS
  <2> HIDE DEF e
  <2>3. Related(SameList(T), e, e)
    BY <2>2, SameListMeans
  <2> QED BY <2>1, <2>3 DEF e
<1> QED BY <1>1, <1>2, Zenon DEF Joinable

LEMMA SameElementsJoin == ASSUME NEW T PROVE Joinable(SameElements(T), T)
PROOF
<1>1. Related(SameElements(T), <<>>, <<>>)
  <2>1. <<>> \in Seq(T)
    OBVIOUS
  <2> QED BY <2>1, SameElementsMeans
<1>2. ASSUME NEW a \in Seq(T), NEW b \in Seq(T), NEW c \in Seq(T), NEW d \in Seq(T),
             Related(SameElements(T), a, b), Related(SameElements(T), c, d)
      PROVE  Related(SameElements(T), a \o c, b \o d)
  <2> DEFINE ac == a \o c
             bd == b \o d
  <2>1. Len(a) = Len(b) /\ ToSet(a) = ToSet(b) /\ Len(c) = Len(d) /\ ToSet(c) = ToSet(d)
    BY <1>2, SameElementsMeans
  <2>2. ac \in Seq(T) /\ bd \in Seq(T) /\ Len(ac) = Len(a) + Len(c) /\ Len(bd) = Len(b) + Len(d)
    OBVIOUS
  <2>3. ac = a \o c /\ bd = b \o d
    OBVIOUS
  <2> HIDE DEF ac, bd
  <2>4. ElementsOfBoth(ac, a, c)
    BY <2>3, SetOfJoined
  <2>5. ElementsOfBoth(bd, b, d)
    BY <2>3, SetOfJoined
  <2>6. Len(ac) = Len(bd) /\ ToSet(ac) = ToSet(bd)
    BY <2>1, <2>2, <2>4, <2>5 DEF ElementsOfBoth
  <2>7. Related(SameElements(T), ac, bd)
    BY <2>2, <2>6, SameElementsMeans
  <2> QED BY <2>7 DEF ac, bd
<1> QED BY <1>1, <1>2, Zenon DEF Joinable

\* What the messages tell and what the items give.
toldCalls == [m \in ReplyMessages |-> m.calls]
toldAnswers == [m \in ReplyMessages |-> IF m.role = "tool" THEN <<m.answers>> ELSE <<>>]
toldStored == [m \in ReplyMessages |-> m.content]
toldResent == [m \in ReplyMessages |-> m.content \o m.reasoning]
givenCalls == [c \in Items |-> IF c.type = "call" THEN <<c.call>> ELSE <<>>]
givenAnswers == [c \in Items |-> IF c.type = "output" THEN <<c.call>> ELSE <<>>]
givenTexts == [c \in Items |-> IF c.type \in {"message", "output"} /\ c.role # "critic"
                               THEN <<c.text>> ELSE <<>>]

LEMMA ToldTypes ==
  /\ Gathers(toldCalls, ReplyMessages, CallRefs) /\ Gathers(toldAnswers, ReplyMessages, CallRefs)
  /\ Gathers(toldStored, ReplyMessages, Nat) /\ Gathers(toldResent, ReplyMessages, Nat)
  /\ Gathers(givenCalls, Items, CallRefs) /\ Gathers(givenAnswers, Items, CallRefs)
  /\ Gathers(givenTexts, Items, Nat)
PROOF
<1>1. \A m \in ReplyMessages : /\ m.content \in Seq(Nat) /\ m.reasoning \in Seq(Nat)
                               /\ m.calls \in Seq(CallRefs) /\ m.answers \in CallRefs
  BY DEF ReplyMessages
<1>2. \A c \in Items : c.call \in CallRefs /\ c.text \in Nat
  BY DEF Items
<1>3. ASSUME NEW m \in ReplyMessages PROVE m.content \o m.reasoning \in Seq(Nat)
  BY <1>1
<1>4. Gathers(toldCalls, ReplyMessages, CallRefs)
  BY <1>1 DEF Gathers, toldCalls
<1>5. Gathers(toldAnswers, ReplyMessages, CallRefs)
  <2>1. ASSUME NEW m \in ReplyMessages
        PROVE  (IF m.role = "tool" THEN <<m.answers>> ELSE <<>>) \in Seq(CallRefs)
    BY <1>1
  <2> QED BY <2>1 DEF Gathers, toldAnswers
<1>6. Gathers(toldStored, ReplyMessages, Nat)
  BY <1>1 DEF Gathers, toldStored
<1>7. Gathers(toldResent, ReplyMessages, Nat)
  BY <1>3 DEF Gathers, toldResent
<1>8. Gathers(givenCalls, Items, CallRefs) /\ Gathers(givenAnswers, Items, CallRefs)
  <2>1. ASSUME NEW c \in Items
        PROVE  /\ (IF c.type = "call" THEN <<c.call>> ELSE <<>>) \in Seq(CallRefs)
               /\ (IF c.type = "output" THEN <<c.call>> ELSE <<>>) \in Seq(CallRefs)
    BY <1>2
  <2> QED BY <2>1 DEF Gathers, givenCalls, givenAnswers
<1>9. Gathers(givenTexts, Items, Nat)
  <2>1. ASSUME NEW c \in Items
        PROVE  (IF c.type \in {"message", "output"} /\ c.role # "critic"
                THEN <<c.text>> ELSE <<>>) \in Seq(Nat)
    BY <1>2
  <2> QED BY <2>1 DEF Gathers, givenTexts
<1> QED BY <1>4, <1>5, <1>6, <1>7, <1>8, <1>9

\* An item that takes none along has one message or none.
Mute(item) ==
  item.type \in {"reasoning", "call"} \/ (item.type = "message" /\ item.role \in {"", "critic"})

AloneSays(item, m) ==
  /\ m \in ReplyMessages /\ OwnMessages(item) = <<m>>
  /\ m.calls = <<>> /\ m.content = Given(item.text)
  /\ \/ /\ item.type = "message" /\ item.role \notin {"", "critic"} /\ m.role # "tool"
        /\ m.reasoning = Given(item.reasoning)
     \/ /\ item.type = "output" /\ m.role = "tool" /\ m.answers = item.call
        /\ m.reasoning = <<>>

LEMMA AloneIs ==
  ASSUME NEW item \in Items
  PROVE  (Mute(item) /\ OwnMessages(item) = <<>>) \/ (\E m : AloneSays(item, m))
PROOF
<1> DEFINE content == Given(item.text)
           reasoning == Given(item.reasoning)
<1>1. /\ item.text \in Nat /\ item.reasoning \in Nat /\ item.call \in CallRefs
      /\ item.type \in {"reasoning", "message", "call", "output"}
      /\ item.role \in {"", "assistant", "user", "developer", "critic"}
  BY DEF Items
<1>2. content \in Seq(Nat) /\ reasoning \in Seq(Nat) /\ NoCall \in CallRefs
  BY <1>1, GivenTypes DEF NoCall, Absent, CallRefs
<1>3. <<>> \in Seq(Nat) /\ <<>> \in Seq(CallRefs)
  OBVIOUS
<1> HIDE DEF content, reasoning
<1>4. CASE item.type \in {"reasoning", "call"}
  BY <1>4 DEF Mute, OwnMessages
<1>5. CASE item.type = "output"
  <2> DEFINE m == OutputMessage(item)
  <2>1. m = [role |-> "tool", content |-> content, reasoning |-> <<>>, calls |-> <<>>,
             answers |-> item.call]
    BY DEF OutputMessage, ChatMessage, content
  <2>2. OwnMessages(item) = <<m>>
    BY <1>5 DEF OwnMessages
  <2> HIDE DEF m
  <2>3. m \in ReplyMessages
    BY <1>1, <1>2, <1>3, <2>1 DEF ReplyMessages
  <2>4. AloneSays(item, m)
    BY <1>5, <2>1, <2>2, <2>3 DEF AloneSays, content
  <2> QED BY <2>4
<1>6. CASE item.type = "message"
  <2> DEFINE role == IF item.role = "developer" THEN "system" ELSE item.role
             m == ChatMessage(role, content, reasoning, <<>>, NoCall)
  <2>1. OwnMessages(item)
          = IF role \notin {"system", "user", "assistant", "tool"} THEN <<>> ELSE <<m>>
    BY <1>6 DEF OwnMessages, ResponseMessageToChatMessage, content, reasoning
  <2>2. m = [role |-> role, content |-> content, reasoning |-> reasoning, calls |-> <<>>,
             answers |-> NoCall]
    BY DEF ChatMessage
  <2>3. CASE item.role \in {"", "critic"}
    BY <1>6, <2>1, <2>3 DEF Mute
  <2>4. CASE item.role \notin {"", "critic"}
    <3>1. role \in {"system", "user", "assistant"}
      BY <1>1, <2>4
    <3> HIDE DEF role, m
    <3>2. m \in ReplyMessages /\ OwnMessages(item) = <<m>>
      BY <1>2, <1>3, <2>1, <2>2, <3>1 DEF ReplyMessages
    <3>3. AloneSays(item, m)
      BY <1>6, <2>2, <2>4, <3>1, <3>2 DEF AloneSays, content, reasoning
    <3> QED BY <3>3
  <2> QED BY <2>3, <2>4
<1> QED BY <1>1, <1>4, <1>5, <1>6

LEMMA GatherNothing ==
  ASSUME NEW M, NEW T, NEW F, Gathers(F, M, T), NEW S, S \subseteq M, NEW list \in Seq(S),
         \A m \in S : F[m] = <<>>
  PROVE  Gather(F, list) = <<>>
PROOF
<1> DEFINE fields == [k \in 1 .. Len(list) |-> F[list[k]]]
<1>1. \A k \in 1 .. Len(list) : list[k] \in S
  OBVIOUS
<1>2. \A k \in 1 .. Len(list) : F[list[k]] = <<>> /\ F[list[k]] \in Seq(T)
  BY <1>1 DEF Gathers
<1>3. fields \in Seq(Seq(T)) /\ Len(fields) = Len(list)
  BY <1>2
<1>5. \A k \in 1 .. Len(list) : fields[k] = <<>>
  BY <1>2
<1> HIDE DEF fields
<1>4. FlattenSeq(fields) = <<>>
  BY <1>3, <1>5, FlattenNothing
<1> QED BY <1>4 DEF Gather, fields

LEMMA GatherSame ==
  ASSUME NEW S, NEW F, NEW G, NEW list \in Seq(S), \A m \in S : F[m] = G[m]
  PROVE  Gather(F, list) = Gather(G, list)
PROOF
<1>1. \A k \in 1 .. Len(list) : list[k] \in S
  OBVIOUS
<1>2. [k \in 1 .. Len(list) |-> F[list[k]]] = [k \in 1 .. Len(list) |-> G[list[k]]]
  BY <1>1
<1> QED BY <1>2 DEF Gather

LEMMA CallsGiven ==
  ASSUME NEW S, S \subseteq Items, NEW calls \in Seq(OnlyCalls(S))
  PROVE  Gather(givenCalls, calls) = CallRefsOf(calls) /\ CallRefsOf(calls) \in Seq(CallRefs)
PROOF
<1> DEFINE refs == CallRefsOf(calls)
           n == Len(calls)
<1>1. \A k \in 1 .. n : calls[k] \in Items /\ calls[k].type = "call"
  <2>1. \A k \in 1 .. n : calls[k] \in OnlyCalls(S)
    OBVIOUS
  <2> QED BY <2>1 DEF OnlyCalls
<1>2. \A k \in 1 .. n : givenCalls[calls[k]] = <<calls[k].call>> /\ calls[k].call \in CallRefs
  BY <1>1 DEF givenCalls, Items
<1>3. n \in Nat
  OBVIOUS
<1> HIDE DEF n
<1>4. refs \in Seq(CallRefs) /\ Len(refs) = n /\ \A k \in 1 .. n : refs[k] = calls[k].call
  BY <1>2, <1>3 DEF CallRefsOf, n
<1> HIDE DEF refs
<1>5. [k \in 1 .. n |-> givenCalls[calls[k]]] = [k \in 1 .. Len(refs) |-> <<refs[k]>>]
  BY <1>2, <1>4
<1>6. FlattenSeq([k \in 1 .. Len(refs) |-> <<refs[k]>>]) = refs
  BY <1>4, FlattenSingles
<1>7. Gather(givenCalls, calls) = refs
  BY <1>5, <1>6 DEF Gather, n
<1> QED BY <1>4, <1>7 DEF refs

LEMMA CallsKept == FieldKept(SameList(CallRefs), toldCalls, givenCalls, Items)
PROOF
<1> DEFINE T == CallRefs
<1>1. ASSUME NEW item \in Items, item.type # "call"
      PROVE  Related(SameList(T), Gather(toldCalls, OwnMessages(item)), givenCalls[item])
  <2>1. givenCalls[item] = <<>>
    BY <1>1 DEF givenCalls
  <2>2. Gather(toldCalls, OwnMessages(item)) = <<>>
    <3>1. CASE OwnMessages(item) = <<>>
      BY <3>1, ToldTypes, GatherTypes
    <3>2. CASE \E m : AloneSays(item, m)
      <4>1. PICK m : AloneSays(item, m)
        BY <3>2
      <4> DEFINE one == OwnMessages(item)
      <4>2. m \in ReplyMessages /\ one = <<m>> /\ toldCalls[m] = <<>>
        BY <4>1 DEF AloneSays, toldCalls
      <4> HIDE DEF one
      <4>3. Gather(toldCalls, one) = toldCalls[m]
        BY <4>2, ToldTypes, GatherOne
      <4> QED BY <4>2, <4>3 DEF one
    <3> QED BY <3>1, <3>2, AloneIs
  <2>3. <<>> \in Seq(T)
    OBVIOUS
  <2>4. Related(SameList(T), <<>>, <<>>)
    BY <2>3, SameListMeans
  <2> QED BY <2>1, <2>2, <2>4
<1>2. ASSUME NEW calls \in Seq(OnlyCalls(Items)), NEW message \in ReplyMessages,
             message.calls = CallRefsOf(calls), NEW other, other = <<>>
      PROVE  /\ Related(SameList(T), toldCalls[message], Gather(givenCalls, calls) \o other)
             /\ Related(SameList(T), toldCalls[message], other \o Gather(givenCalls, calls))
  <2> DEFINE refs == CallRefsOf(calls)
  <2>1. Gather(givenCalls, calls) = refs /\ refs \in Seq(T)
    BY CallsGiven
  <2>2. toldCalls[message] = refs
    BY <1>2 DEF toldCalls
  <2> HIDE DEF refs, T
  <2>3. refs \o other = refs /\ other \o refs = refs
    BY <1>2, <2>1
  <2>4. Related(SameList(T), refs, refs)
    BY <2>1, SameListMeans
  <2> QED BY <2>1, <2>2, <2>3, <2>4
<1>3. ASSUME NEW item \in OnlyAssistants(Items) PROVE givenCalls[item] = <<>>
  BY DEF OnlyAssistants, IsAssistant, givenCalls
<1>4. ASSUME NEW item \in OnlyAssistants(Items), NEW calls \in Seq(OnlyCalls(Items))
      PROVE  Related(SameList(T), toldCalls[TextWithCalls(item, calls)],
                     givenCalls[item] \o Gather(givenCalls, calls))
  <2> DEFINE message == TextWithCalls(item, calls)
             other == givenCalls[item]
  <2>1. message \in ReplyMessages /\ message.calls = CallRefsOf(calls)
    BY MessagesOfCalls
  <2>2. other = <<>>
    BY <1>3
  <2> HIDE DEF message, other
  <2>3. Related(SameList(T), toldCalls[message], other \o Gather(givenCalls, calls))
    BY <1>2, <2>1, <2>2
  <2> QED BY <2>3 DEF message, other
<1>5. ASSUME NEW calls \in Seq(OnlyCalls(Items)), NEW texts \in Seq(OnlyAssistants(Items))
      PROVE  Related(SameList(T), toldCalls[CallsWithTexts(calls, texts)],
                     Gather(givenCalls, calls) \o Gather(givenCalls, texts))
  <2> DEFINE message == CallsWithTexts(calls, texts)
             other == Gather(givenCalls, texts)
  <2>1. message \in ReplyMessages /\ message.calls = CallRefsOf(calls)
    BY MessagesOfCalls
  <2>2. OnlyAssistants(Items) \subseteq Items
    BY DEF OnlyAssistants
  <2>3. other = <<>>
    BY <1>3, <2>2, ToldTypes, GatherNothing
  <2> HIDE DEF message, other
  <2>4. Related(SameList(T), toldCalls[message], Gather(givenCalls, calls) \o other)
    BY <1>2, <2>1, <2>3
  <2> QED BY <2>4 DEF message, other
<1> QED BY <1>1, <1>4, <1>5, Zenon DEF FieldKept

LEMMA AnswersKept == FieldKept(SameList(CallRefs), toldAnswers, givenAnswers, Items)
PROOF
<1> DEFINE T == CallRefs
           none == <<>>
<1>1. none \in Seq(T) /\ none \o none = none
  OBVIOUS
<1>2. Related(SameList(T), none, none)
  BY <1>1, SameListMeans
<1>3. ASSUME NEW item \in Items, item.type # "call"
      PROVE  Related(SameList(T), Gather(toldAnswers, OwnMessages(item)), givenAnswers[item])
  <2>1. CASE Mute(item) /\ OwnMessages(item) = none
    <3>1. givenAnswers[item] = none
      BY <2>1 DEF givenAnswers, Mute
    <3>2. Gather(toldAnswers, OwnMessages(item)) = none
      BY <2>1, ToldTypes, GatherTypes
    <3> QED BY <1>2, <3>1, <3>2
  <2>2. CASE \E m : AloneSays(item, m)
    <3>1. PICK m : AloneSays(item, m)
      BY <2>2
    <3> DEFINE one == OwnMessages(item)
               own == givenAnswers[item]
    <3>2. m \in ReplyMessages /\ one = <<m>>
      BY <3>1 DEF AloneSays
    <3>3. toldAnswers[m] = own
      BY <3>1, <3>2 DEF AloneSays, toldAnswers, givenAnswers
    <3>4. own \in Seq(T)
      BY ToldTypes DEF Gathers
    <3> HIDE DEF one, own, T
    <3>5. Gather(toldAnswers, one) = toldAnswers[m]
      BY <3>2, ToldTypes, GatherOne
    <3>6. Related(SameList(T), own, own)
      BY <3>4, SameListMeans
    <3> QED BY <3>3, <3>5, <3>6 DEF one, own
  <2> QED BY <2>1, <2>2, AloneIs
<1>4. \A item \in OnlyAssistants(Items) : givenAnswers[item] = none
  BY DEF OnlyAssistants, IsAssistant, givenAnswers
<1>5. \A item \in OnlyCalls(Items) : givenAnswers[item] = none
  BY DEF OnlyCalls, givenAnswers
<1>6. \A m \in ReplyMessages : m.role = "assistant" => toldAnswers[m] = none
  BY DEF toldAnswers
<1>7. OnlyAssistants(Items) \subseteq Items /\ OnlyCalls(Items) \subseteq Items
  BY DEF OnlyAssistants, OnlyCalls
<1>8. \A calls \in Seq(OnlyCalls(Items)) : Gather(givenAnswers, calls) = none
  BY <1>5, <1>7, ToldTypes, GatherNothing
<1>9. \A texts \in Seq(OnlyAssistants(Items)) : Gather(givenAnswers, texts) = none
  BY <1>4, <1>7, ToldTypes, GatherNothing
<1> HIDE DEF none
<1>10. ASSUME NEW item \in OnlyAssistants(Items), NEW calls \in Seq(OnlyCalls(Items))
       PROVE  Related(SameList(T), toldAnswers[TextWithCalls(item, calls)],
                      givenAnswers[item] \o Gather(givenAnswers, calls))
  <2>1. toldAnswers[TextWithCalls(item, calls)] = none
    BY <1>6, MessagesOfCalls
  <2> QED BY <1>1, <1>2, <1>4, <1>8, <2>1
<1>11. ASSUME NEW calls \in Seq(OnlyCalls(Items)), NEW texts \in Seq(OnlyAssistants(Items))
       PROVE  Related(SameList(T), toldAnswers[CallsWithTexts(calls, texts)],
                      Gather(givenAnswers, calls) \o Gather(givenAnswers, texts))
  <2>1. toldAnswers[CallsWithTexts(calls, texts)] = none
    BY <1>6, MessagesOfCalls
  <2> QED BY <1>1, <1>2, <1>8, <1>9, <2>1
<1> QED BY <1>3, <1>10, <1>11, Zenon DEF FieldKept

\* The items a conversation has: from the store, and from a client that kept them.
Sound(c) ==
  /\ c.type \in {"message", "output"} => c.text # Absent
  /\ c.type = "message" => c.role # ""
  /\ c.type \in {"output", "call"} => c.role = ""
  /\ c.type = "call" => c.call.turn # Absent /\ c.call.by = "call_id"

StoredItems ==
  {c \in Items : Sound(c) /\ ~c.thought /\ (c.type = "call" => c.turn = c.call.turn)}
ResentItems == {c \in Items : Sound(c) /\ c.reasoning = Absent /\ c.turn = Absent}

\* Elements of lists that are joined, whatever their order.
LEMMA FourJoined ==
  ASSUME NEW T, NEW a \in Seq(T), NEW b \in Seq(T), NEW c \in Seq(T),
         NEW d \in Seq(T), NEW e \in Seq(T), NEW f \in Seq(T),
         NEW ab, ab = a \o b, Related(SameElements(T), ab, c),
         NEW de, de = d \o e, Related(SameElements(T), de, f),
         NEW ad, ad = a \o d, NEW be, be = b \o e, NEW adbe, adbe = ad \o be,
         NEW cf, cf = c \o f
  PROVE  Related(SameElements(T), adbe, cf)
PROOF
<1>1. /\ ab \in Seq(T) /\ de \in Seq(T) /\ ad \in Seq(T) /\ be \in Seq(T) /\ cf \in Seq(T)
      /\ Len(ab) = Len(a) + Len(b) /\ Len(de) = Len(d) + Len(e) /\ Len(ad) = Len(a) + Len(d)
      /\ Len(be) = Len(b) + Len(e) /\ Len(cf) = Len(c) + Len(f)
  OBVIOUS
<1>2. adbe \in Seq(T) /\ Len(adbe) = Len(ad) + Len(be)
  BY <1>1
<1>3. /\ Len(ab) = Len(c) /\ ToSet(ab) = ToSet(c) /\ Len(de) = Len(f) /\ ToSet(de) = ToSet(f)
  BY <1>1, SameElementsMeans
<1>4. /\ ElementsOfBoth(ab, a, b) /\ ElementsOfBoth(de, d, e) /\ ElementsOfBoth(ad, a, d)
      /\ ElementsOfBoth(be, b, e) /\ ElementsOfBoth(cf, c, f)
  BY SetOfJoined
<1>5. ElementsOfBoth(adbe, ad, be)
  BY <1>1, SetOfJoined
<1>6. ToSet(adbe) = ToSet(cf)
  BY <1>3, <1>4, <1>5, Zenon DEF ElementsOfBoth
<1>7. Len(a) \in Nat /\ Len(b) \in Nat /\ Len(d) \in Nat /\ Len(e) \in Nat
  OBVIOUS
<1>8. Len(adbe) = Len(cf)
  <2> DEFINE p == Len(a)
             q == Len(b)
             r == Len(d)
             s == Len(e)
  <2>1. p \in Nat /\ q \in Nat /\ r \in Nat /\ s \in Nat
    BY <1>7
  <2>2. Len(adbe) = (p + r) + (q + s) /\ Len(c) = p + q /\ Len(f) = r + s
    BY <1>1, <1>2, <1>3
  <2>3. Len(cf) = Len(c) + Len(f)
    BY <1>1
  <2> HIDE DEF p, q, r, s
  <2>4. (p + r) + (q + s) = (p + q) + (r + s)
    BY <2>1
  <2> QED BY <2>2, <2>3, <2>4
<1> QED BY <1>1, <1>2, <1>6, <1>8, SameElementsMeans

SplitIn(T, F, G, H, list) ==
  Related(SameElements(T), Gather(F, list) \o Gather(G, list), Gather(H, list))

\* If of each item two fields have what the third has, so they have of a list.
LEMMA SplitGathers ==
  ASSUME NEW M, NEW T, NEW F, Gathers(F, M, T), NEW G, Gathers(G, M, T), NEW H, Gathers(H, M, T),
         NEW S, S \subseteq M, NEW list \in Seq(S),
         \A m \in S : Related(SameElements(T), F[m] \o G[m], H[m])
  PROVE  SplitIn(T, F, G, H, list)
PROOF
<1> DEFINE n == Len(list)
           Prefix(k) == [q \in 1 .. k |-> list[q]]
           P == {k \in 0 .. n : SplitIn(T, F, G, H, Prefix(k))}
<1>1. n \in Nat /\ \A q \in 1 .. n : list[q] \in S /\ list[q] \in M
  OBVIOUS
<1>2. ASSUME NEW k \in 0 .. n PROVE Prefix(k) \in Seq(M) /\ Len(Prefix(k)) = k
  BY <1>1
<1>3. 0 \in P
  <2> DEFINE none == Prefix(0)
  <2>1. none = <<>>
    OBVIOUS
  <2> HIDE DEF none
  <2>2. Gather(F, none) = <<>> /\ Gather(G, none) = <<>> /\ Gather(H, none) = <<>>
    BY <2>1, GatherTypes
  <2>3. <<>> \o <<>> = <<>> /\ Related(SameElements(T), <<>>, <<>>)
    BY SameElementsJoin DEF Joinable
  <2>4. SplitIn(T, F, G, H, none)
    BY <2>2, <2>3 DEF SplitIn
  <2> QED BY <1>1, <2>4 DEF none
<1>4. ASSUME NEW k \in 0 .. n, k \in P, k < n PROVE k + 1 \in P
  <2> DEFINE shorter == Prefix(k)
             longer == Prefix(k + 1)
             m == list[k + 1]
  <2>1. k + 1 \in 1 .. n /\ k + 1 \in 0 .. n
    BY <1>1, <1>4
  <2>2. m \in S /\ m \in M /\ shorter \in Seq(M) /\ longer \in Seq(M)
    BY <1>1, <1>2, <2>1
  <2>3. longer = Append(shorter, m)
    BY <1>1, <2>1
  <2>4. SplitIn(T, F, G, H, shorter)
    BY <1>4
  <2> HIDE DEF shorter, longer, m, P
  <2>5. GathersMore(F, longer, shorter, m)
    BY <2>2, <2>3, GatherOneMore
  <2>6. GathersMore(G, longer, shorter, m)
    BY <2>2, <2>3, GatherOneMore
  <2>7. GathersMore(H, longer, shorter, m)
    BY <2>2, <2>3, GatherOneMore
  <2> DEFINE a == Gather(F, shorter)
             b == Gather(G, shorter)
             c == Gather(H, shorter)
             d == F[m]
             e == G[m]
             f == H[m]
             ab == a \o b
             de == d \o e
             ad == a \o d
             be == b \o e
             cf == c \o f
             all == ad \o be
  <2>8. a \in Seq(T) /\ b \in Seq(T) /\ c \in Seq(T) /\ d \in Seq(T) /\ e \in Seq(T) /\ f \in Seq(T)
    BY <2>2, GatherTypes DEF Gathers
  <2>9. Related(SameElements(T), ab, c) /\ Related(SameElements(T), de, f)
    BY <2>2, <2>4 DEF SplitIn
  <2>10. /\ Gather(F, longer) = ad /\ Gather(G, longer) = be /\ Gather(H, longer) = cf
    BY <2>5, <2>6, <2>7 DEF GathersMore
  <2> HIDE DEF a, b, c, d, e, f
  <2>11. ab = a \o b /\ de = d \o e /\ ad = a \o d /\ be = b \o e /\ cf = c \o f /\ all = ad \o be
    OBVIOUS
  <2> HIDE DEF ab, de, ad, be, cf, all
  <2>12. Related(SameElements(T), all, cf)
    BY <2>8, <2>9, <2>11, FourJoined
  <2>13. SplitIn(T, F, G, H, longer)
    BY <2>10, <2>11, <2>12 DEF SplitIn
  <2> QED BY <2>1, <2>13 DEF P, longer
<1> HIDE DEF P
<1>5. \A k \in 0 .. n : k \in P /\ k < n => k + 1 \in P
  BY <1>4
<1>6. \A k \in 0 .. n : k \in P
  BY <1>1, <1>3, <1>5, UpTo
<1>7. n \in P
  BY <1>1, <1>6
<1>8. Prefix(n) = list
  OBVIOUS
<1> QED BY <1>7, <1>8 DEF P

\* A text of a known role is told once.
LEMMA GivenText ==
  ASSUME NEW c \in Items, Sound(c)
  PROVE  /\ c.type \in {"message", "output"} => Given(c.text) = <<c.text>>
         /\ Mute(c) => givenTexts[c] = <<>>
         /\ ~Mute(c) => givenTexts[c] = <<c.text>> /\ c.type \in {"message", "output"}
BY DEF Sound, Given, Absent, Mute, givenTexts, Items

LEMMA TextsOfCalls ==
  ASSUME NEW S, S \subseteq Items, NEW calls \in Seq(OnlyCalls(S))
  PROVE  Gather(givenTexts, calls) = <<>>
PROOF
<1>1. \A c \in OnlyCalls(S) : givenTexts[c] = <<>>
  BY DEF OnlyCalls, givenTexts
<1>2. OnlyCalls(S) \subseteq Items
  BY DEF OnlyCalls
<1> QED BY <1>1, <1>2, ToldTypes, GatherNothing

LEMMA TextOfAssistant ==
  ASSUME NEW c \in Items, Sound(c), IsAssistant(c)
  PROVE  givenTexts[c] = <<c.text>> /\ Given(c.text) = <<c.text>> /\ c.text \in Nat
BY DEF IsAssistant, Sound, Given, Absent, givenTexts, Items

LEMMA StoredTextsKept == FieldKept(SameElements(Nat), toldStored, givenTexts, StoredItems)
PROOF
<1> DEFINE T == Nat
           S == StoredItems
<1>1. S \subseteq Items /\ \A c \in S : Sound(c) /\ ~c.thought
  BY DEF StoredItems
<1>2. ASSUME NEW a \in Seq(T) PROVE Related(SameElements(T), a, a)
  BY SameElementsMeans
<1> HIDE DEF S
<1>3. ASSUME NEW item \in S, item.type # "call"
      PROVE  Related(SameElements(T), Gather(toldStored, OwnMessages(item)), givenTexts[item])
  <2> DEFINE own == givenTexts[item]
             one == OwnMessages(item)
  <2>1. item \in Items /\ Sound(item)
    BY <1>1
  <2>2. own \in Seq(T)
    BY <2>1, ToldTypes DEF Gathers
  <2>3. Gather(toldStored, one) = own
    <3>1. CASE Mute(item) /\ one = <<>>
      <4>1. own = <<>>
        BY <2>1, <3>1, GivenText
      <4> HIDE DEF one, own
      <4>2. Gather(toldStored, one) = <<>>
        BY <3>1, ToldTypes, GatherTypes
      <4> QED BY <4>1, <4>2
    <3>2. CASE \E m : AloneSays(item, m)
      <4>1. PICK m : AloneSays(item, m)
        BY <3>2
      <4>2. m \in ReplyMessages /\ one = <<m>> /\ m.content = Given(item.text) /\ ~Mute(item)
        BY <4>1 DEF AloneSays, Mute
      <4>3. toldStored[m] = own
        BY <2>1, <4>2, GivenText DEF toldStored
      <4> HIDE DEF one, own
      <4>4. Gather(toldStored, one) = toldStored[m]
        BY <4>2, ToldTypes, GatherOne
      <4> QED BY <4>3, <4>4
    <3> QED BY <2>1, <3>1, <3>2, AloneIs
  <2> HIDE DEF one, own
  <2>4. Related(SameElements(T), own, own)
    BY <1>2, <2>2
  <2> QED BY <2>3, <2>4 DEF one, own
<1>4. \A c \in OnlyAssistants(S) : c \in Items /\ Sound(c) /\ IsAssistant(c) /\ ~c.thought
  BY <1>1 DEF OnlyAssistants
<1>5. ASSUME NEW item \in OnlyAssistants(S), NEW calls \in Seq(OnlyCalls(S))
      PROVE  Related(SameElements(T), toldStored[TextWithCalls(item, calls)],
                     givenTexts[item] \o Gather(givenTexts, calls))
  <2> DEFINE message == TextWithCalls(item, calls)
             text == <<item.text>>
  <2>1. message \in ReplyMessages /\ message.content = Given(item.text)
    BY <1>1, MessagesOfCalls
  <2>2. givenTexts[item] = text /\ Given(item.text) = text /\ text \in Seq(T)
    BY <1>4, TextOfAssistant
  <2>3. Gather(givenTexts, calls) = <<>>
    BY <1>1, TextsOfCalls
  <2> HIDE DEF message, text
  <2>4. toldStored[message] = text
    BY <2>1, <2>2 DEF toldStored
  <2>5. text \o <<>> = text /\ Related(SameElements(T), text, text)
    BY <1>2, <2>2
  <2> QED BY <2>2, <2>3, <2>4, <2>5 DEF message
<1>6. \A c \in OnlyAssistants(S) : contentIn[c] = givenTexts[c]
  <2> SUFFICES ASSUME NEW c \in OnlyAssistants(S) PROVE contentIn[c] = givenTexts[c]
    OBVIOUS
  <2>1. c \in Items /\ Sound(c) /\ IsAssistant(c) /\ ~c.thought
    BY <1>4
  <2>2. contentIn[c] = Given(c.text)
    BY <2>1 DEF contentIn
  <2> QED BY <2>1, <2>2, TextOfAssistant
<1>7. OnlyAssistants(S) \subseteq Items
  BY <1>4
<1>8. ASSUME NEW calls \in Seq(OnlyCalls(S)), NEW texts \in Seq(OnlyAssistants(S))
      PROVE  Related(SameElements(T), toldStored[CallsWithTexts(calls, texts)],
                     Gather(givenTexts, calls) \o Gather(givenTexts, texts))
  <2> DEFINE message == CallsWithTexts(calls, texts)
             content == ContentAfter(texts)
  <2>1. message \in ReplyMessages /\ message.content = content
    BY <1>1, MessagesOfCalls
  <2>2. texts \in Seq(Items)
    BY <1>7, SeqWithin
  <2>3. content = Gather(contentIn, texts) /\ content \in Seq(T)
    BY <2>2, ItemsAreRead
  <2>4. Gather(contentIn, texts) = Gather(givenTexts, texts)
    BY <1>6, GatherSame
  <2>5. Gather(givenTexts, calls) = <<>>
    BY <1>1, TextsOfCalls
  <2> HIDE DEF message, content
  <2>6. toldStored[message] = content
    BY <2>1 DEF toldStored
  <2>7. <<>> \o content = content /\ Related(SameElements(T), content, content)
    BY <1>2, <2>3
  <2> QED BY <2>3, <2>4, <2>5, <2>6, <2>7 DEF message
<1> QED BY <1>3, <1>5, <1>8, Zenon DEF FieldKept, S

LEMMA NoReasoningOfCalls ==
  ASSUME NEW calls \in Seq(OnlyCalls(ResentItems)), NEW reasoning
  PROVE  ReasoningOf(calls, reasoning) = reasoning
PROOF
<1>1. \A c \in OnlyCalls(ResentItems) : c \in Items /\ reasoningIn[c] = <<>>
  BY DEF OnlyCalls, ResentItems, reasoningIn, Given
<1>2. OnlyCalls(ResentItems) \subseteq Items
  BY <1>1
<1>3. calls \in Seq(Items)
  BY <1>2, SeqWithin
<1>4. Gather(reasoningIn, calls) = <<>>
  BY <1>1, <1>2, ReadItems, GatherNothing
<1>5. Gathered(calls, LAMBDA call : Given(call.reasoning)) = <<>>
  BY <1>3, <1>4, ItemsAreRead
<1> QED BY <1>5 DEF ReasoningOf

LEMMA ResentTextsKept == FieldKept(SameElements(Nat), toldResent, givenTexts, ResentItems)
PROOF
<1> DEFINE T == Nat
           S == ResentItems
<1>1. S \subseteq Items /\ \A c \in S : Sound(c) /\ c.reasoning = Absent
  BY DEF ResentItems
<1>2. ASSUME NEW a \in Seq(T) PROVE Related(SameElements(T), a, a)
  BY SameElementsMeans
<1>3. ASSUME NEW item \in S, item.type # "call"
      PROVE  Related(SameElements(T), Gather(toldResent, OwnMessages(item)), givenTexts[item])
  <2> DEFINE own == givenTexts[item]
             one == OwnMessages(item)
  <2>1. item \in Items /\ Sound(item) /\ Given(item.reasoning) = <<>>
    BY <1>1 DEF Given
  <2> HIDE DEF S
  <2>2. own \in Seq(T)
    BY <2>1, ToldTypes DEF Gathers
  <2>3. Gather(toldResent, one) = own
    <3>1. CASE Mute(item) /\ one = <<>>
      <4>1. own = <<>>
        BY <2>1, <3>1, GivenText
      <4> HIDE DEF one, own
      <4>2. Gather(toldResent, one) = <<>>
        BY <3>1, ToldTypes, GatherTypes
      <4> QED BY <4>1, <4>2
    <3>2. CASE \E m : AloneSays(item, m)
      <4>1. PICK m : AloneSays(item, m)
        BY <3>2
      <4>2. /\ m \in ReplyMessages /\ one = <<m>> /\ m.content = Given(item.text) /\ ~Mute(item)
            /\ m.reasoning = <<>>
        BY <2>1, <4>1 DEF AloneSays, Mute
      <4>3. m.content = own
        BY <2>1, <4>2, GivenText
      <4>4. toldResent[m] = m.content \o m.reasoning
        BY <4>2 DEF toldResent
      <4> HIDE DEF one, own
      <4>5. own \o <<>> = own
        BY <2>2
      <4>6. Gather(toldResent, one) = toldResent[m]
        BY <4>2, ToldTypes, GatherOne
      <4> QED BY <4>2, <4>3, <4>4, <4>5, <4>6
    <3> QED BY <2>1, <3>1, <3>2, AloneIs
  <2> HIDE DEF one, own
  <2>4. Related(SameElements(T), own, own)
    BY <1>2, <2>2
  <2> QED BY <2>3, <2>4 DEF one, own
<1>4. \A c \in OnlyAssistants(S) :
        c \in Items /\ Sound(c) /\ IsAssistant(c) /\ Given(c.reasoning) = <<>>
  BY <1>1 DEF OnlyAssistants, Given
<1>5. ASSUME NEW item \in OnlyAssistants(S), NEW calls \in Seq(OnlyCalls(S))
      PROVE  Related(SameElements(T), toldResent[TextWithCalls(item, calls)],
                     givenTexts[item] \o Gather(givenTexts, calls))
  <2> DEFINE message == TextWithCalls(item, calls)
             text == <<item.text>>
  <2>1. /\ message \in ReplyMessages /\ message.content = Given(item.text)
        /\ message.reasoning = ReasoningOf(calls, Given(item.reasoning))
    BY <1>1, MessagesOfCalls
  <2>2. message.reasoning = <<>>
    BY <1>4, <2>1, NoReasoningOfCalls
  <2>3. givenTexts[item] = text /\ Given(item.text) = text /\ text \in Seq(T)
    BY <1>4, TextOfAssistant
  <2>4. Gather(givenTexts, calls) = <<>>
    BY <1>1, TextsOfCalls
  <2> HIDE DEF message, text
  <2>5. toldResent[message] = text \o <<>>
    BY <2>1, <2>2, <2>3 DEF toldResent
  <2>6. text \o <<>> = text /\ Related(SameElements(T), text, text)
    BY <1>2, <2>3
  <2> QED BY <2>3, <2>4, <2>5, <2>6 DEF message
<1>6. ASSUME NEW c \in OnlyAssistants(S)
      PROVE  Related(SameElements(T), contentIn[c] \o thoughtIn[c], givenTexts[c])
  <2> DEFINE text == <<c.text>>
             none == <<>>
             both == contentIn[c] \o thoughtIn[c]
  <2>1. c \in Items /\ Given(c.reasoning) = none
    BY <1>4
  <2>2. givenTexts[c] = text /\ Given(c.text) = text /\ text \in Seq(T)
    BY <1>4, TextOfAssistant
  <2>3. /\ contentIn[c] = IF c.thought THEN none ELSE Given(c.text)
        /\ thoughtIn[c] = Given(c.reasoning) \o (IF c.thought THEN Given(c.text) ELSE none)
    BY <2>1 DEF contentIn, thoughtIn
  <2> HIDE DEF text
  <2>4. text \o none = text /\ none \o text = text /\ none \o none = none
    BY <2>2
  <2> HIDE DEF none
  <2>5. both = text
    BY <2>1, <2>2, <2>3, <2>4
  <2> QED BY <1>2, <2>2, <2>5
<1>7. OnlyAssistants(S) \subseteq Items
  BY <1>4
<1>8. ASSUME NEW calls \in Seq(OnlyCalls(S)), NEW texts \in Seq(OnlyAssistants(S))
      PROVE  Related(SameElements(T), toldResent[CallsWithTexts(calls, texts)],
                     Gather(givenTexts, calls) \o Gather(givenTexts, texts))
  <2> DEFINE message == CallsWithTexts(calls, texts)
             content == ContentAfter(texts)
             reasoning == ReasoningAfter(texts)
             given == Gather(givenTexts, texts)
  <2>1. /\ message \in ReplyMessages /\ message.content = content
        /\ message.reasoning = ReasoningOf(calls, reasoning)
    BY <1>1, MessagesOfCalls
  <2>2. message.reasoning = reasoning
    BY <2>1, NoReasoningOfCalls
  <2>3. texts \in Seq(Items)
    BY <1>7, SeqWithin
  <2>4. content = Gather(contentIn, texts) /\ reasoning = Gather(thoughtIn, texts)
    BY <2>3, ItemsAreRead
  <2>5. SplitIn(T, contentIn, thoughtIn, givenTexts, texts)
    BY <1>6, <1>7, ReadItems, ToldTypes, SplitGathers
  <2>6. given \in Seq(T)
    BY <2>3, ToldTypes, GatherTypes
  <2>7. Gather(givenTexts, calls) = <<>>
    BY <1>1, TextsOfCalls
  <2> HIDE DEF message, content, reasoning, given
  <2>8. toldResent[message] = content \o reasoning
    BY <2>1, <2>2 DEF toldResent
  <2>9. <<>> \o given = given
    BY <2>6
  <2>10. Related(SameElements(T), content \o reasoning, given)
    BY <2>4, <2>5 DEF SplitIn, given
  <2> QED BY <2>7, <2>8, <2>9, <2>10 DEF message, given
<1> QED BY <1>3, <1>5, <1>8, Zenon DEF FieldKept

------------------------------------------------------------------------------
(* Turns as items: the inductive invariant.                                *)

RebuildTypeOK ==
  /\ turns \in Nat /\ inputs \in Nat /\ asStored \in BOOLEAN /\ regular \in BOOLEAN
  /\ expected \in Seq(ReplyMessages)
  /\ items \in Seq(IF asStored THEN StoredItems ELSE ResentItems)

\* What is there was said before.
TagsInv == \A k \in 1 .. Len(items) : items[k].text < Now /\ items[k].call.turn < Now

\* Between two calls of a turn there are calls of that turn only.
Together(list) ==
  \A p, q \in 1 .. Len(list) :
    p < q /\ list[p].type = "call" /\ list[q].type = "call" /\ list[p].turn = list[q].turn =>
      \A r \in p .. q : list[r].type = "call" /\ list[r].turn = list[p].turn

TogetherInv == asStored => Together(items)

\* A text that names no turn is of none that has calls.
TextsApart(list) ==
  \A p, q \in 1 .. Len(list) :
    IsAssistant(list[p]) /\ list[p].turn = Absent /\ list[q].type = "call" =>
      list[p].text # list[q].turn

TextsInv == asStored => TextsApart(items)

ItemsInv == RebuildTypeOK /\ TagsInv /\ TogetherInv /\ TextsInv

LEMMA ItemsTyped == RebuildTypeOK => items \in Seq(Items)
PROOF
<1> SUFFICES ASSUME RebuildTypeOK PROVE items \in Seq(Items)
  OBVIOUS
<1> DEFINE S == IF asStored THEN StoredItems ELSE ResentItems
<1>1. S \subseteq Items /\ items \in Seq(S)
  BY DEF StoredItems, ResentItems, RebuildTypeOK
<1> HIDE DEF S
<1> QED BY <1>1, SeqWithin

LEMMA RebuiltTyped ==
  ASSUME NEW list \in Seq(Items)
  PROVE  InputItemsToChatMessages(list) \in Seq(ReplyMessages)
PROOF
<1>1. PICK f : Scans(f, list) /\ InputItemsToChatMessages(list) = f[1]
  BY ScanExists
<1>2. 1 \in 1 .. (Len(list) + 1)
  OBVIOUS
<1>3. f[1] \in Seq(ReplyMessages)
  BY <1>1, <1>2 DEF Scans
<1> QED BY <1>1, <1>3

LEMMA FieldsGathered ==
  ASSUME NEW list \in Seq(Items)
  PROVE  /\ CallsIn(list) = Gather(givenCalls, list)
         /\ AnsweredCalls(list) = Gather(givenAnswers, list)
         /\ Gathered(list, LAMBDA i : IF i.type \in {"message", "output"} /\ i.role # "critic"
                                      THEN <<i.text>> ELSE <<>>)
              = Gather(givenTexts, list)
PROOF
<1>1. \A k \in 1 .. Len(list) : list[k] \in Items
  OBVIOUS
<1>2. [k \in 1 .. Len(list) |-> givenCalls[list[k]]]
        = [k \in 1 .. Len(list) |-> IF list[k].type = "call" THEN <<list[k].call>> ELSE <<>>]
  BY <1>1 DEF givenCalls
<1>3. [k \in 1 .. Len(list) |-> givenAnswers[list[k]]]
        = [k \in 1 .. Len(list) |-> IF list[k].type = "output" THEN <<list[k].call>> ELSE <<>>]
  BY <1>1 DEF givenAnswers
<1>4. [k \in 1 .. Len(list) |-> givenTexts[list[k]]]
        = [k \in 1 .. Len(list) |->
             IF list[k].type \in {"message", "output"} /\ list[k].role # "critic"
             THEN <<list[k].text>> ELSE <<>>]
  BY <1>1 DEF givenTexts
<1>5. CallsIn(list) = Gather(givenCalls, list)
  BY <1>2 DEF CallsIn, Gathered, Gather
<1>6. AnsweredCalls(list) = Gather(givenAnswers, list)
  BY <1>3 DEF AnsweredCalls, Gathered, Gather
<1>7. Gathered(list, LAMBDA i : IF i.type \in {"message", "output"} /\ i.role # "critic"
                                THEN <<i.text>> ELSE <<>>)
        = Gather(givenTexts, list)
  BY <1>4 DEF Gathered, Gather
<1> QED BY <1>5, <1>6, <1>7

LEMMA FieldsTold ==
  ASSUME NEW list \in Seq(ReplyMessages)
  PROVE  /\ Gathered(list, LAMBDA m : m.calls) = Gather(toldCalls, list)
         /\ Gathered(list, LAMBDA m : IF m.role = "tool" THEN <<m.answers>> ELSE <<>>)
              = Gather(toldAnswers, list)
         /\ Gathered(list, LAMBDA m : IF asStored THEN m.content ELSE m.content \o m.reasoning)
              = IF asStored THEN Gather(toldStored, list) ELSE Gather(toldResent, list)
PROOF
<1>1. \A k \in 1 .. Len(list) : list[k] \in ReplyMessages
  OBVIOUS
<1>2. [k \in 1 .. Len(list) |-> toldCalls[list[k]]] = [k \in 1 .. Len(list) |-> list[k].calls]
  BY <1>1 DEF toldCalls
<1>3. [k \in 1 .. Len(list) |-> toldAnswers[list[k]]]
        = [k \in 1 .. Len(list) |-> IF list[k].role = "tool" THEN <<list[k].answers>> ELSE <<>>]
  BY <1>1 DEF toldAnswers
<1>4. Gathered(list, LAMBDA m : m.calls) = Gather(toldCalls, list)
  BY <1>2 DEF Gathered, Gather
<1>5. Gathered(list, LAMBDA m : IF m.role = "tool" THEN <<m.answers>> ELSE <<>>)
        = Gather(toldAnswers, list)
  BY <1>3 DEF Gathered, Gather
<1>6. Gathered(list, LAMBDA m : IF asStored THEN m.content ELSE m.content \o m.reasoning)
        = IF asStored THEN Gather(toldStored, list) ELSE Gather(toldResent, list)
  <2>1. CASE asStored
    <3>1. [k \in 1 .. Len(list) |-> toldStored[list[k]]]
            = [k \in 1 .. Len(list) |->
                 IF asStored THEN list[k].content ELSE list[k].content \o list[k].reasoning]
      BY <1>1, <2>1 DEF toldStored
    <3> QED BY <2>1, <3>1 DEF Gathered, Gather
  <2>2. CASE ~asStored
    <3>1. [k \in 1 .. Len(list) |-> toldResent[list[k]]]
            = [k \in 1 .. Len(list) |->
                 IF asStored THEN list[k].content ELSE list[k].content \o list[k].reasoning]
      BY <1>1, <2>2 DEF toldResent
    <3> QED BY <2>2, <3>1 DEF Gathered, Gather
  <2> QED BY <2>1, <2>2
<1> QED BY <1>4, <1>5, <1>6

LEMMA TypesLoseNothing == RebuildTypeOK => NothingIsLost
PROOF
<1> SUFFICES ASSUME RebuildTypeOK PROVE NothingIsLost
  OBVIOUS
<1> DEFINE messages == Rebuilt
           texts == Gathered(items, LAMBDA i :
                      IF i.type \in {"message", "output"} /\ i.role # "critic"
                      THEN <<i.text>> ELSE <<>>)
           said == Gathered(messages, LAMBDA m :
                     IF asStored THEN m.content ELSE m.content \o m.reasoning)
           calls == Gathered(messages, LAMBDA m : m.calls)
           answered == Gathered(messages, LAMBDA m : IF m.role = "tool" THEN <<m.answers>> ELSE <<>>)
<1>1. items \in Seq(Items) /\ messages = InputItemsToChatMessages(items)
  BY ItemsTyped DEF Rebuilt
<1> HIDE DEF messages
<1>2. messages \in Seq(ReplyMessages)
  BY <1>1, RebuiltTyped
<1>3. calls = CallsIn(items)
  <2> DEFINE a == Gather(toldCalls, messages)
             b == Gather(givenCalls, items)
  <2>1. Items \subseteq Items
    OBVIOUS
  <2>2. Related(SameList(CallRefs), a, b)
    BY <1>1, <2>1, CallsKept, ToldTypes, SameListJoins, KeptByScan
  <2>3. a \in Seq(CallRefs) /\ b \in Seq(CallRefs)
    BY <1>1, <1>2, ToldTypes, GatherTypes
  <2>4. calls = a /\ CallsIn(items) = b
    BY <1>1, <1>2, FieldsGathered, FieldsTold
  <2> HIDE DEF a, b
  <2>5. a = b
    BY <2>2, <2>3, SameListMeans
  <2> QED BY <2>4, <2>5
<1>4. answered = AnsweredCalls(items)
  <2> DEFINE a == Gather(toldAnswers, messages)
             b == Gather(givenAnswers, items)
  <2>1. Items \subseteq Items
    OBVIOUS
  <2>2. Related(SameList(CallRefs), a, b)
    BY <1>1, <2>1, AnswersKept, ToldTypes, SameListJoins, KeptByScan
  <2>3. a \in Seq(CallRefs) /\ b \in Seq(CallRefs)
    BY <1>1, <1>2, ToldTypes, GatherTypes
  <2>4. answered = a /\ AnsweredCalls(items) = b
    BY <1>1, <1>2, FieldsGathered, FieldsTold
  <2> HIDE DEF a, b
  <2>5. a = b
    BY <2>2, <2>3, SameListMeans
  <2> QED BY <2>4, <2>5
<1>5. Len(said) = Len(texts) /\ ToSet(said) = ToSet(texts)
  <2> DEFINE b == Gather(givenTexts, items)
  <2>1. texts = b /\ b \in Seq(Nat)
    BY <1>1, FieldsGathered, ToldTypes, GatherTypes
  <2>2. said = IF asStored THEN Gather(toldStored, messages) ELSE Gather(toldResent, messages)
    BY <1>2, FieldsTold
  <2> HIDE DEF said, texts
  <2>3. CASE asStored
    <3> DEFINE a == Gather(toldStored, messages)
    <3>1. items \in Seq(StoredItems) /\ StoredItems \subseteq Items
      BY <2>3 DEF RebuildTypeOK, StoredItems
    <3>2. Related(SameElements(Nat), a, b)
      BY <1>1, <3>1, StoredTextsKept, ToldTypes, SameElementsJoin, KeptByScan
    <3>3. a \in Seq(Nat)
      BY <1>2, ToldTypes, GatherTypes
    <3>4. said = a
      BY <2>2, <2>3
    <3> HIDE DEF a, b
    <3>5. Len(a) = Len(b) /\ ToSet(a) = ToSet(b)
      BY <2>1, <3>2, <3>3, SameElementsMeans
    <3> QED BY <2>1, <3>4, <3>5
  <2>4. CASE ~asStored
    <3> DEFINE a == Gather(toldResent, messages)
    <3>1. items \in Seq(ResentItems) /\ ResentItems \subseteq Items
      BY <2>4 DEF RebuildTypeOK, ResentItems
    <3>2. Related(SameElements(Nat), a, b)
      BY <1>1, <3>1, ResentTextsKept, ToldTypes, SameElementsJoin, KeptByScan
    <3>3. a \in Seq(Nat)
      BY <1>2, ToldTypes, GatherTypes
    <3>4. said = a
      BY <2>2, <2>4
    <3> HIDE DEF a, b
    <3>5. Len(a) = Len(b) /\ ToSet(a) = ToSet(b)
      BY <2>1, <3>2, <3>3, SameElementsMeans
    <3> QED BY <2>1, <3>4, <3>5
  <2> QED BY <2>3, <2>4
<1> QED BY <1>3, <1>4, <1>5 DEF NothingIsLost, messages

LEMMA CallsAreItems ==
  ASSUME NEW list \in Seq(Items), NEW call \in ToSet(CallsIn(list))
  PROVE  \E p \in 1 .. Len(list) : list[p].type = "call" /\ list[p].call = call
PROOF
<1>1. call \in ToSet(Gather(givenCalls, list))
  BY FieldsGathered
<1>2. PICK p \in 1 .. Len(list) : call \in ToSet(givenCalls[list[p]])
  BY <1>1, ToldTypes, GatherElements
<1>3. list[p] \in Items
  OBVIOUS
<1>4. ToSet(<<>>) = {} /\ \A c : ToSet(<<c>>) = {c}
  BY DEF ToSet
<1> QED BY <1>2, <1>3, <1>4 DEF givenCalls

\* What an upstream's turn adds: the items OutputItems gives, as they are kept.
TheText(turn) ==
  [MessageItem("assistant", Now) EXCEPT
     !.reasoning = IF turn.reasoning THEN Now ELSE Absent,
     !.turn = IF turn.calls > 0 THEN Now ELSE Absent,
     !.thought = (turn.order = "thought")]
TheCall(turn, k) ==
  [Blank EXCEPT !.type = "call", !.call = CallRef(Now, k, "call_id"), !.turn = Now,
     !.reasoning = IF turn.reasoning /\ k = 1 THEN Now ELSE Absent]
TheReasoning(turn) == IF turn.reasoning THEN <<Blank>> ELSE <<>>

KeptItem(item) == IF asStored THEN item ELSE PublicItem(item)
Kept(list) == [k \in 1 .. Len(list) |-> KeptItem(list[k])]
KeptItems == IF asStored THEN StoredItems ELSE ResentItems

IsTheText(x, turn) ==
  /\ x \in KeptItems /\ x.type = "message" /\ x.role = "assistant" /\ x.text = Now
  /\ x.call = NoCall /\ x.thought = (turn.order = "thought")
  /\ x.turn = IF asStored /\ turn.calls > 0 THEN Now ELSE Absent
  /\ x.reasoning = IF asStored /\ turn.reasoning THEN Now ELSE Absent
IsTheCall(x, turn, k) ==
  /\ x \in KeptItems /\ x.type = "call" /\ x.text = Absent /\ ~x.thought
  /\ x.call = CallRef(Now, k, "call_id")
  /\ x.turn = IF asStored THEN Now ELSE Absent
  /\ x.reasoning = IF asStored /\ turn.reasoning /\ k = 1 THEN Now ELSE Absent

LEMMA NowIsNew == RebuildTypeOK => Now \in Nat /\ Now # Absent
BY DEF RebuildTypeOK, Now, Absent

LEMMA TurnFields ==
  ASSUME NEW turn \in Turns
  PROVE  /\ turn.text \in BOOLEAN /\ turn.reasoning \in BOOLEAN /\ turn.calls \in Nat
         /\ turn.calls \in 0 .. MaxCalls
         /\ turn.order \in {"usual", "late", "calls_first", "thought"}
         /\ turn.order = "late" => turn.text /\ turn.reasoning
         /\ turn.order \in {"calls_first", "thought"} =>
              ~asStored /\ turn.text /\ turn.calls > 0
PROOF
<1>1. /\ turn \in [text : BOOLEAN, reasoning : BOOLEAN, calls : 0 .. MaxCalls,
                   order : {"usual", "late", "calls_first", "thought"}]
      /\ turn.order = "late" => turn.text /\ turn.reasoning
      /\ turn.order \in {"calls_first", "thought"} => ~asStored /\ turn.text /\ turn.calls > 0
  BY DEF Turns
<1> QED BY <1>1

RecordOf(type, role, text, thought, reasoning, turn, call) ==
  [type |-> type, role |-> role, text |-> text, thought |-> thought,
   reasoning |-> reasoning, turn |-> turn, call |-> call]

NoThought == FALSE
NoRole == ""

LEMMA PublicRecord ==
  ASSUME NEW type, NEW role, NEW text, NEW thought, NEW reasoning, NEW turn, NEW call,
         NEW x, x = RecordOf(type, role, text, thought, reasoning, turn, call)
  PROVE  PublicItem(x) = RecordOf(type, role, text, thought, Absent, Absent, call)
PROOF
<1> DEFINE y == [x EXCEPT !.reasoning = Absent]
<1>1. y = RecordOf(type, role, text, thought, Absent, turn, call)
  BY DEF RecordOf
<1>2. PublicItem(x) = [y EXCEPT !.turn = Absent]
  BY DEF PublicItem
<1> HIDE DEF y
<1> QED BY <1>1, <1>2 DEF RecordOf

LEMMA MessageRecord ==
  ASSUME NEW role, NEW text
  PROVE  MessageItem(role, text)
           = RecordOf("message", role, text, NoThought, Absent, Absent, NoCall)
PROOF
<1> DEFINE x == [Blank EXCEPT !.type = "message"]
           y == [x EXCEPT !.role = role]
<1>1. Blank = RecordOf("reasoning", NoRole, Absent, NoThought, Absent, Absent, NoCall)
  BY DEF Blank, RecordOf, NoThought, NoRole
<1>2. MessageItem(role, text) = [y EXCEPT !.text = text]
  BY DEF MessageItem
<1>3. x = RecordOf("message", NoRole, Absent, NoThought, Absent, Absent, NoCall)
  BY <1>1 DEF RecordOf
<1> HIDE DEF x
<1>4. y = RecordOf("message", role, Absent, NoThought, Absent, Absent, NoCall)
  BY <1>3 DEF RecordOf
<1> HIDE DEF y
<1> QED BY <1>2, <1>4 DEF RecordOf

LEMMA TextRecord ==
  ASSUME NEW turn
  PROVE  TheText(turn)
           = RecordOf("message", "assistant", Now, turn.order = "thought",
                      IF turn.reasoning THEN Now ELSE Absent,
                      IF turn.calls > 0 THEN Now ELSE Absent, NoCall)
PROOF
<1> DEFINE reasoning == IF turn.reasoning THEN Now ELSE Absent
           from == IF turn.calls > 0 THEN Now ELSE Absent
           thought == turn.order = "thought"
           w == MessageItem("assistant", Now)
           x == [w EXCEPT !.reasoning = reasoning]
           y == [x EXCEPT !.turn = from]
           z == [y EXCEPT !.thought = thought]
<1>1. w = RecordOf("message", "assistant", Now, NoThought, Absent, Absent, NoCall)
  BY MessageRecord
<1>2. TheText(turn) = z
  BY Zenon DEF TheText
<1> HIDE DEF w, reasoning, from, thought
<1>3. x = RecordOf("message", "assistant", Now, NoThought, reasoning, Absent, NoCall)
  BY <1>1 DEF RecordOf
<1> HIDE DEF x
<1>4. y = RecordOf("message", "assistant", Now, NoThought, reasoning, from, NoCall)
  BY <1>3 DEF RecordOf
<1> HIDE DEF y
<1>5. z = RecordOf("message", "assistant", Now, thought, reasoning, from, NoCall)
  BY <1>4 DEF RecordOf
<1> QED BY <1>2, <1>5 DEF thought, reasoning, from

LEMMA CallRecord ==
  ASSUME NEW turn, NEW k
  PROVE  TheCall(turn, k)
           = RecordOf("call", NoRole, Absent, NoThought,
                      IF turn.reasoning /\ k = 1 THEN Now ELSE Absent, Now,
                      CallRef(Now, k, "call_id"))
PROOF
<1> DEFINE reasoning == IF turn.reasoning /\ k = 1 THEN Now ELSE Absent
           call == CallRef(Now, k, "call_id")
           w == [Blank EXCEPT !.type = "call"]
           x == [w EXCEPT !.call = call]
           y == [x EXCEPT !.turn = Now]
           z == [y EXCEPT !.reasoning = reasoning]
<1>1. Blank = RecordOf("reasoning", NoRole, Absent, NoThought, Absent, Absent, NoCall)
  BY DEF Blank, RecordOf, NoThought, NoRole
<1>2. TheCall(turn, k) = z
  BY Zenon DEF TheCall
<1> HIDE DEF call, reasoning
<1>3. w = RecordOf("call", NoRole, Absent, NoThought, Absent, Absent, NoCall)
  BY <1>1 DEF RecordOf
<1> HIDE DEF w
<1>4. x = RecordOf("call", NoRole, Absent, NoThought, Absent, Absent, call)
  BY <1>3 DEF RecordOf
<1> HIDE DEF x
<1>5. y = RecordOf("call", NoRole, Absent, NoThought, Absent, Now, call)
  BY <1>4 DEF RecordOf
<1> HIDE DEF y
<1>6. z = RecordOf("call", NoRole, Absent, NoThought, reasoning, Now, call)
  BY <1>5 DEF RecordOf
<1> QED BY <1>2, <1>6 DEF call, reasoning

LEMMA BlankKept ==
  /\ Blank \in Items /\ KeptItem(Blank) = Blank /\ Blank \in KeptItems /\ Blank.type = "reasoning"
  /\ Blank.text = Absent /\ Blank.call = NoCall /\ NoCall.turn = Absent /\ ~IsAssistant(Blank)
PROOF
<1>1. Blank = [type |-> "reasoning", role |-> "", text |-> 0, thought |-> FALSE,
               reasoning |-> 0, turn |-> 0, call |-> NoCall]
  BY DEF Blank, Absent
<1>2. NoCall \in CallRefs /\ NoCall.turn = Absent
  BY DEF NoCall, CallRefs, Absent
<1>3. Blank \in Items
  BY <1>1, <1>2 DEF Items
<1>4. PublicItem(Blank) = Blank
  <2>1. Blank = RecordOf("reasoning", NoRole, Absent, NoThought, Absent, Absent, NoCall)
    BY DEF Blank, RecordOf, NoThought, NoRole
  <2> QED BY <2>1, PublicRecord
<1>5. Blank \in StoredItems /\ Blank \in ResentItems
  BY <1>1, <1>3 DEF StoredItems, ResentItems, Sound, Absent
<1>6. KeptItem(Blank) = Blank /\ Blank \in KeptItems
  BY <1>4, <1>5 DEF KeptItem, KeptItems
<1> QED BY <1>1, <1>2, <1>3, <1>6 DEF IsAssistant, Absent

LEMMA TextKept ==
  ASSUME RebuildTypeOK, NEW turn \in Turns
  PROVE  TheText(turn) \in Items /\ IsTheText(KeptItem(TheText(turn)), turn)
PROOF
<1> DEFINE reasoning == IF turn.reasoning THEN Now ELSE Absent
           from == IF turn.calls > 0 THEN Now ELSE Absent
           thought == turn.order = "thought"
           x == TheText(turn)
<1>1. Now \in Nat /\ Now # Absent /\ Absent \in Nat
  BY NowIsNew DEF Absent
<1>2. reasoning \in Nat /\ from \in Nat /\ thought \in BOOLEAN /\ (asStored => ~thought)
  BY <1>1, TurnFields
<1>3. NoCall \in CallRefs
  BY DEF NoCall, CallRefs, Absent
<1>4. x = [type |-> "message", role |-> "assistant", text |-> Now, thought |-> thought,
           reasoning |-> reasoning, turn |-> from, call |-> NoCall]
  BY TextRecord DEF RecordOf
<1> HIDE DEF x, thought, reasoning, from
<1>5. x \in Items
  BY <1>1, <1>2, <1>3, <1>4 DEF Items
<1>6. CASE asStored
  <2>1. KeptItem(x) = x
    BY <1>6 DEF KeptItem
  <2>2. x \in StoredItems
    BY <1>1, <1>2, <1>4, <1>5, <1>6 DEF StoredItems, Sound
  <2>3. x \in KeptItems
    BY <1>6, <2>2 DEF KeptItems
  <2>4. IsTheText(x, turn)
    BY <1>4, <1>6, <2>3 DEF IsTheText, thought, reasoning, from
  <2> QED BY <1>5, <2>1, <2>4 DEF x
<1>7. CASE ~asStored
  <2> DEFINE y == PublicItem(x)
  <2>1. y = [type |-> "message", role |-> "assistant", text |-> Now, thought |-> thought,
             reasoning |-> Absent, turn |-> Absent, call |-> NoCall]
    BY <1>4, PublicRecord DEF RecordOf
  <2>2. KeptItem(x) = y
    BY <1>7 DEF KeptItem
  <2> HIDE DEF y
  <2>3. y \in Items
    BY <1>1, <1>2, <1>3, <2>1 DEF Items
  <2>4. y \in ResentItems
    BY <1>1, <2>1, <2>3 DEF ResentItems, Sound
  <2>5. y \in KeptItems
    BY <1>7, <2>4 DEF KeptItems
  <2>6. IsTheText(y, turn)
    BY <1>7, <2>1, <2>5 DEF IsTheText, thought
  <2> QED BY <1>5, <2>2, <2>6 DEF x
<1> QED BY <1>6, <1>7

LEMMA CallKept ==
  ASSUME RebuildTypeOK, NEW turn \in Turns, NEW k \in 1 .. turn.calls
  PROVE  TheCall(turn, k) \in Items /\ IsTheCall(KeptItem(TheCall(turn, k)), turn, k)
PROOF
<1> DEFINE reasoning == IF turn.reasoning /\ k = 1 THEN Now ELSE Absent
           ref == CallRef(Now, k, "call_id")
           x == TheCall(turn, k)
<1>1. Now \in Nat /\ Now # Absent /\ Absent \in Nat /\ k \in Nat
  BY NowIsNew, TurnFields DEF Absent
<1>2. reasoning \in Nat
  BY <1>1
<1>3. ref = [turn |-> Now, place |-> k, by |-> "call_id"]
  BY DEF CallRef
<1> HIDE DEF ref
<1>4. ref \in CallRefs /\ ref.turn = Now /\ ref.by = "call_id"
  BY <1>1, <1>3 DEF CallRefs
<1>5. x = [type |-> "call", role |-> "", text |-> Absent, thought |-> FALSE,
           reasoning |-> reasoning, turn |-> Now, call |-> ref]
  BY CallRecord DEF RecordOf, ref, NoThought, NoRole
<1> HIDE DEF x, reasoning
<1>6. x \in Items
  BY <1>1, <1>2, <1>4, <1>5 DEF Items
<1>7. CASE asStored
  <2>1. KeptItem(x) = x
    BY <1>7 DEF KeptItem
  <2>2. x \in StoredItems
    BY <1>1, <1>4, <1>5, <1>6 DEF StoredItems, Sound
  <2>3. x \in KeptItems
    BY <1>7, <2>2 DEF KeptItems
  <2>4. IsTheCall(x, turn, k)
    BY <1>5, <1>7, <2>3 DEF IsTheCall, reasoning, ref
  <2> QED BY <1>6, <2>1, <2>4 DEF x
<1>8. CASE ~asStored
  <2> DEFINE y == PublicItem(x)
  <2>7. x = RecordOf("call", NoRole, Absent, NoThought, reasoning, Now, ref)
    BY CallRecord DEF x, reasoning, ref
  <2>8. y = RecordOf("call", NoRole, Absent, NoThought, Absent, Absent, ref)
    BY <2>7, PublicRecord
  <2>1. y = [type |-> "call", role |-> "", text |-> Absent, thought |-> FALSE,
             reasoning |-> Absent, turn |-> Absent, call |-> ref]
    BY <2>8 DEF RecordOf, NoThought, NoRole
  <2>2. KeptItem(x) = y
    BY <1>8 DEF KeptItem
  <2> HIDE DEF y
  <2>3. y \in Items
    BY <1>1, <1>4, <2>1 DEF Items
  <2>4. y \in ResentItems
    BY <1>1, <1>4, <2>1, <2>3 DEF ResentItems, Sound
  <2>5. y \in KeptItems
    BY <1>8, <2>4 DEF KeptItems
  <2>6. IsTheCall(y, turn, k)
    BY <1>8, <2>1, <2>5 DEF IsTheCall, ref
  <2> QED BY <1>6, <2>2, <2>6 DEF x
<1> QED BY <1>7, <1>8

KeptText(turn) == KeptItem(TheText(turn))
KeptCalls(turn) == [k \in 1 .. turn.calls |-> KeptItem(TheCall(turn, k))]

\* Before its calls and after them.
NewHead(turn) ==
  IF turn.order = "usual" THEN TheReasoning(turn) \o Once(turn.text, <<KeptText(turn)>>)
  ELSE IF turn.order = "late" THEN <<KeptText(turn)>> \o <<Blank>> ELSE <<>>
NewTail(turn) == IF turn.order \in {"usual", "late"} THEN <<>> ELSE <<KeptText(turn)>>
NewItems(turn) == (NewHead(turn) \o KeptCalls(turn)) \o NewTail(turn)

KeptBoth(ab, a, b) == Kept(ab) = Kept(a) \o Kept(b)

LEMMA KeptTypes ==
  ASSUME NEW a \in Seq(Items)
  PROVE  Kept(a) \in Seq({KeptItem(x) : x \in Items})
PROOF
<1>1. \A k \in 1 .. Len(a) : a[k] \in Items
  OBVIOUS
<1>2. \A k \in 1 .. Len(a) : KeptItem(a[k]) \in {KeptItem(x) : x \in Items}
  BY <1>1
<1> QED BY <1>2 DEF Kept

LEMMA KeptJoins ==
  ASSUME NEW a \in Seq(Items), NEW b \in Seq(Items), NEW ab, ab = a \o b
  PROVE  KeptBoth(ab, a, b)
PROOF
<1> DEFINE M == {KeptItem(x) : x \in Items}
           ka == Kept(a)
           kb == Kept(b)
           kab == Kept(ab)
           both == ka \o kb
           p == Len(a)
           q == Len(b)
<1>1. ab \in Seq(Items) /\ Len(ab) = Len(a) + Len(b)
      /\ \A k \in 1 .. Len(a) + Len(b) : ab[k] = IF k <= Len(a) THEN a[k] ELSE b[k - Len(a)]
  BY ConcatProperties, Zenon
<1>2. p \in Nat /\ q \in Nat
  OBVIOUS
<1>3. ka \in Seq(M) /\ kb \in Seq(M) /\ kab \in Seq(M)
  BY <1>1, KeptTypes
<1>4. /\ Len(ka) = p /\ Len(kb) = q /\ Len(kab) = p + q
      /\ \A k \in 1 .. p : ka[k] = KeptItem(a[k])
      /\ \A k \in 1 .. q : kb[k] = KeptItem(b[k])
      /\ \A k \in 1 .. (p + q) : kab[k] = KeptItem(ab[k])
  BY <1>1 DEF Kept
<1>5. \A k \in 1 .. (p + q) : ab[k] = IF k <= p THEN a[k] ELSE b[k - p]
  BY <1>1
<1> HIDE DEF M, ka, kb, kab
<1>6. /\ both \in Seq(M) /\ Len(both) = Len(ka) + Len(kb)
      /\ \A k \in 1 .. Len(ka) + Len(kb) :
           both[k] = IF k <= Len(ka) THEN ka[k] ELSE kb[k - Len(ka)]
  BY <1>3, ConcatProperties, Zenon
<1> HIDE DEF both, p, q
<1>7. /\ Len(both) = p + q
      /\ \A k \in 1 .. (p + q) : both[k] = IF k <= p THEN ka[k] ELSE kb[k - p]
  BY <1>4, <1>6
<1>8. \A k \in 1 .. (p + q) : IF k <= p THEN k \in 1 .. p ELSE k - p \in 1 .. q
  BY <1>2
<1>9. ASSUME NEW k \in 1 .. (p + q) PROVE both[k] = kab[k]
  <2>1. kab[k] = KeptItem(ab[k])
    BY <1>4
  <2>2. CASE k <= p
    <3>1. both[k] = ka[k] /\ ab[k] = a[k] /\ k \in 1 .. p
      BY <1>5, <1>7, <1>8, <2>2
    <3>2. ka[k] = KeptItem(a[k])
      BY <1>4, <3>1
    <3> QED BY <2>1, <3>1, <3>2
  <2>3. CASE ~(k <= p)
    <3>1. both[k] = kb[k - p] /\ ab[k] = b[k - p] /\ k - p \in 1 .. q
      BY <1>5, <1>7, <1>8, <2>3
    <3>2. kb[k - p] = KeptItem(b[k - p])
      BY <1>4, <3>1
    <3> QED BY <2>1, <3>1, <3>2
  <2> QED BY <2>2, <2>3
<1>10. Len(kab) = p + q
  BY <1>4
<1>11. both = kab
  BY <1>3, <1>6, <1>7, <1>9, <1>10, SeqEqual
<1> QED BY <1>11 DEF KeptBoth, both, kab, ka, kb

LEMMA KeptOne == ASSUME NEW x \in Items PROVE Kept(<<x>>) = <<KeptItem(x)>> /\ Kept(<<>>) = <<>>
PROOF
<1>1. [k \in 1 .. Len(<<x>>) |-> KeptItem(<<x>>[k])] = <<KeptItem(x)>>
  OBVIOUS
<1>2. [k \in 1 .. Len(<<>>) |-> KeptItem(<<>>[k])] = <<>>
  OBVIOUS
<1> QED BY <1>1, <1>2 DEF Kept

LEMMA ItemsOfTurn ==
  ASSUME RebuildTypeOK, NEW turn \in Turns
  PROVE  OutputItems(turn) \in Seq(Items) /\ Kept(OutputItems(turn)) = NewItems(turn)
PROOF
<1> DEFINE reasoning == TheReasoning(turn)
           text == TextItem(turn)
           calls == CallItems(turn)
           keptText == Once(turn.text, <<KeptText(turn)>>)
           none == <<>>
<1>1. TheText(turn) \in Items /\ Blank \in Items /\ KeptItem(Blank) = Blank
  BY TextKept, BlankKept
<1>2. text = Once(turn.text, <<TheText(turn)>>)
  BY DEF TextItem, TheText, Once
<1>3. text \in Seq(Items) /\ Kept(text) = keptText
  <2>1. CASE turn.text
    <3>1. text = <<TheText(turn)>> /\ keptText = <<KeptText(turn)>>
      BY <1>2, <2>1 DEF Once
    <3>2. Kept(<<TheText(turn)>>) = <<KeptText(turn)>>
      BY <1>1, KeptOne DEF KeptText
    <3> HIDE DEF text, keptText
    <3> QED BY <1>1, <3>1, <3>2
  <2>2. CASE ~turn.text
    <3>1. text = <<>> /\ keptText = <<>>
      BY <1>2, <2>2 DEF Once
    <3>2. Kept(<<>>) = <<>>
      BY <1>1, KeptOne
    <3> HIDE DEF text, keptText
    <3> QED BY <3>1, <3>2
  <2> QED BY <2>1, <2>2
<1>4. reasoning \in Seq(Items) /\ Kept(reasoning) = reasoning
  <2>1. CASE turn.reasoning
    <3>1. reasoning = <<Blank>>
      BY <2>1 DEF TheReasoning
    <3>2. Kept(<<Blank>>) = <<Blank>>
      BY <1>1, KeptOne
    <3> QED BY <1>1, <3>1, <3>2
  <2>2. CASE ~turn.reasoning
    <3>1. reasoning = <<>>
      BY <2>2 DEF TheReasoning
    <3>2. Kept(<<>>) = <<>>
      BY <1>1, KeptOne
    <3> QED BY <3>1, <3>2
  <2> QED BY <2>1, <2>2
<1>5. calls \in Seq(Items) /\ Kept(calls) = KeptCalls(turn)
  <2>1. calls = [k \in 1 .. turn.calls |-> TheCall(turn, k)]
    BY DEF CallItems, TheCall
  <2>2. turn.calls \in Nat /\ \A k \in 1 .. turn.calls : TheCall(turn, k) \in Items
    BY TurnFields, CallKept
  <2>3. calls \in Seq(Items) /\ Len(calls) = turn.calls
        /\ \A k \in 1 .. turn.calls : calls[k] = TheCall(turn, k)
    BY <2>1, <2>2
  <2> HIDE DEF calls
  <2>4. Kept(calls) = KeptCalls(turn)
    BY <2>3 DEF Kept, KeptCalls
  <2> QED BY <2>3, <2>4
<1>6. /\ turn.text \in BOOLEAN /\ turn.order \in {"usual", "late", "calls_first", "thought"}
      /\ turn.order = "late" => turn.text /\ turn.reasoning
      /\ turn.order \in {"calls_first", "thought"} => turn.text
  BY TurnFields
<1>7. OutputItems(turn)
        = CASE turn.order = "usual" -> reasoning \o text \o calls
            [] turn.order = "late" -> text \o reasoning \o calls
            [] OTHER -> calls \o text
  BY DEF OutputItems, TheReasoning
<1>8. NewItems(turn)
        = ((IF turn.order = "usual" THEN reasoning \o keptText
            ELSE IF turn.order = "late" THEN <<KeptText(turn)>> \o <<Blank>> ELSE <<>>)
             \o KeptCalls(turn))
            \o (IF turn.order \in {"usual", "late"} THEN <<>> ELSE <<KeptText(turn)>>)
  BY DEF NewItems, NewHead, NewTail
<1>9. turn.text => keptText = <<KeptText(turn)>>
  BY DEF Once
<1>10. turn.reasoning => reasoning = <<Blank>>
  BY DEF TheReasoning
<1> DEFINE kept == KeptCalls(turn)
           M == {KeptItem(x) : x \in Items}
<1>11. keptText \in Seq(M) /\ reasoning \in Seq(M) /\ kept \in Seq(M)
  BY <1>3, <1>4, <1>5, KeptTypes
<1> HIDE DEF reasoning, text, calls, keptText, kept, M
<1>12. CASE turn.order = "usual"
  <2> DEFINE head == reasoning \o text
             all == head \o calls
  <2>1. OutputItems(turn) = all
    BY <1>7, <1>12
  <2>2. head \in Seq(Items) /\ head = reasoning \o text /\ all = head \o calls
    BY <1>3, <1>4
  <2>8. all \in Seq(Items)
    BY <1>5, <2>2
  <2> HIDE DEF head, all
  <2>3. KeptBoth(head, reasoning, text)
    BY <1>3, <1>4, <2>2, KeptJoins
  <2>4. KeptBoth(all, head, calls)
    BY <1>5, <2>2, KeptJoins
  <2>5. Kept(all) = (reasoning \o keptText) \o kept
    BY <1>3, <1>4, <1>5, <2>3, <2>4 DEF KeptBoth, kept
  <2>6. NewItems(turn) = ((reasoning \o keptText) \o kept) \o <<>>
    BY <1>8, <1>12 DEF kept
  <2>7. ((reasoning \o keptText) \o kept) \o <<>> = (reasoning \o keptText) \o kept
    BY <1>11
  <2> QED BY <2>1, <2>5, <2>6, <2>7, <2>8
<1>13. CASE turn.order = "late"
  <2> DEFINE head == text \o reasoning
             all == head \o calls
  <2>1. OutputItems(turn) = all
    BY <1>7, <1>13
  <2>2. head \in Seq(Items) /\ head = text \o reasoning /\ all = head \o calls
    BY <1>3, <1>4
  <2>8. all \in Seq(Items)
    BY <1>5, <2>2
  <2> HIDE DEF head, all
  <2>3. KeptBoth(head, text, reasoning)
    BY <1>3, <1>4, <2>2, KeptJoins
  <2>4. KeptBoth(all, head, calls)
    BY <1>5, <2>2, KeptJoins
  <2>5. Kept(all) = (keptText \o reasoning) \o kept
    BY <1>3, <1>4, <1>5, <2>3, <2>4 DEF KeptBoth, kept
  <2>6. NewItems(turn) = ((keptText \o reasoning) \o kept) \o <<>>
    BY <1>6, <1>8, <1>9, <1>10, <1>13 DEF kept
  <2>7. ((keptText \o reasoning) \o kept) \o <<>> = (keptText \o reasoning) \o kept
    BY <1>11
  <2> QED BY <2>1, <2>5, <2>6, <2>7, <2>8
<1>14. CASE turn.order \notin {"usual", "late"}
  <2> DEFINE all == calls \o text
  <2>1. OutputItems(turn) = all
    BY <1>7, <1>14
  <2>2. all = calls \o text
    OBVIOUS
  <2>8. all \in Seq(Items)
    BY <1>3, <1>5
  <2> HIDE DEF all
  <2>3. KeptBoth(all, calls, text)
    BY <1>3, <1>5, <2>2, KeptJoins
  <2>4. Kept(all) = kept \o keptText
    BY <1>3, <1>5, <2>3 DEF KeptBoth, kept
  <2>5. NewItems(turn) = (<<>> \o kept) \o keptText
    BY <1>6, <1>8, <1>9, <1>14 DEF kept
  <2>6. <<>> \o kept = kept
    BY <1>11
  <2> QED BY <2>1, <2>4, <2>5, <2>6, <2>8
<1> QED BY <1>12, <1>13, <1>14

\* Items that are no calls, and calls.
Quiet(turn) == {x \in KeptItems : x = Blank \/ (IsTheText(x, turn) /\ turn.text)}
Loud(turn) == {x \in KeptItems : \E k \in 1 .. turn.calls : IsTheCall(x, turn, k)}

LEMMA PartsOfTurn ==
  ASSUME RebuildTypeOK, NEW turn \in Turns
  PROVE  /\ NewHead(turn) \in Seq(Quiet(turn)) /\ NewTail(turn) \in Seq(Quiet(turn))
         /\ KeptCalls(turn) \in Seq(Loud(turn)) /\ Len(KeptCalls(turn)) = turn.calls
         /\ \A k \in 1 .. turn.calls : IsTheCall(KeptCalls(turn)[k], turn, k)
PROOF
<1> DEFINE x == KeptText(turn)
           calls == KeptCalls(turn)
           S == Quiet(turn)
<1>1. Blank \in S /\ (turn.text => x \in S)
  BY BlankKept, TextKept DEF Quiet, KeptText, IsTheText
<1>2. /\ turn.order \in {"usual", "late", "calls_first", "thought"} /\ turn.calls \in Nat
      /\ (turn.order # "usual" => turn.text)
  BY TurnFields
<1>3. TheReasoning(turn) \in Seq(S)
  BY <1>1 DEF TheReasoning
<1>4. Once(turn.text, <<x>>) \in Seq(S)
  BY <1>1 DEF Once
<1> HIDE DEF S
<1>5. TheReasoning(turn) \o Once(turn.text, <<x>>) \in Seq(S)
  BY <1>3, <1>4
<1>6. turn.text => <<x>> \o <<Blank>> \in Seq(S) /\ <<x>> \in Seq(S)
  BY <1>1
<1>7. <<>> \in Seq(S)
  OBVIOUS
<1>8. NewHead(turn) \in Seq(S)
  BY <1>2, <1>5, <1>6, <1>7, Zenon DEF NewHead
<1>9. NewTail(turn) \in Seq(S)
  BY <1>2, <1>6, <1>7 DEF NewTail
<1>10. \A k \in 1 .. turn.calls : IsTheCall(KeptItem(TheCall(turn, k)), turn, k)
  BY CallKept
<1>11. \A k \in 1 .. turn.calls : KeptItem(TheCall(turn, k)) \in Loud(turn)
  BY <1>10 DEF Loud, IsTheCall
<1>12. calls \in Seq(Loud(turn)) /\ Len(calls) = turn.calls
  BY <1>2, <1>11 DEF KeptCalls
<1>13. \A k \in 1 .. turn.calls : IsTheCall(calls[k], turn, k)
  BY <1>10 DEF KeptCalls
<1> QED BY <1>8, <1>9, <1>12, <1>13 DEF S

\* The calls of a turn follow each other.
NewFacts(new, turn) ==
  /\ new \in Seq(KeptItems)
  /\ \A k \in 1 .. Len(new) : new[k] \in Quiet(turn) \/ new[k] \in Loud(turn)
  /\ \E first, last \in Nat : \A k \in 1 .. Len(new) : new[k].type = "call" <=> k \in first .. last

LEMMA NewItemsFacts ==
  ASSUME RebuildTypeOK, NEW turn \in Turns
  PROVE  NewFacts(NewItems(turn), turn)
PROOF
<1> DEFINE head == NewHead(turn)
           calls == KeptCalls(turn)
           tail == NewTail(turn)
           front == head \o calls
           new == front \o tail
           M == KeptItems
           p == Len(head)
           q == Len(calls)
           r == Len(tail)
<1>1. head \in Seq(Quiet(turn)) /\ tail \in Seq(Quiet(turn)) /\ calls \in Seq(Loud(turn))
  BY PartsOfTurn
<1>2. Quiet(turn) \subseteq M /\ Loud(turn) \subseteq M
  BY DEF Quiet, Loud
<1>3. new = NewItems(turn)
  BY DEF NewItems
<1> HIDE DEF head, calls, tail, M
<1>4. head \in Seq(M) /\ calls \in Seq(M) /\ tail \in Seq(M)
  BY <1>1, <1>2, SeqWithin
<1>5. /\ front \in Seq(M) /\ Len(front) = Len(head) + Len(calls)
      /\ \A k \in 1 .. Len(head) + Len(calls) :
           front[k] = IF k <= Len(head) THEN head[k] ELSE calls[k - Len(head)]
  BY <1>4, ConcatProperties, Zenon
<1> HIDE DEF front
<1>15. front \in Seq(M)
  BY <1>5
<1>6. /\ new \in Seq(M) /\ Len(new) = Len(front) + Len(tail)
      /\ \A k \in 1 .. Len(front) + Len(tail) :
           new[k] = IF k <= Len(front) THEN front[k] ELSE tail[k - Len(front)]
  BY <1>4, <1>15, ConcatProperties, Zenon
<1> HIDE DEF new
<1>7. /\ p \in Nat /\ q \in Nat /\ r \in Nat
      /\ \A k \in 1 .. p : head[k] \in Quiet(turn)
      /\ \A k \in 1 .. q : calls[k] \in Loud(turn)
      /\ \A k \in 1 .. r : tail[k] \in Quiet(turn)
  BY <1>1
<1>8. /\ Len(front) = p + q /\ Len(new) = (p + q) + r
      /\ \A k \in 1 .. (p + q) : front[k] = IF k <= p THEN head[k] ELSE calls[k - p]
      /\ \A k \in 1 .. ((p + q) + r) :
           new[k] = IF k <= p + q THEN front[k] ELSE tail[k - (p + q)]
  BY <1>5, <1>6
<1> HIDE DEF p, q, r
<1>9. ASSUME NEW k \in 1 .. ((p + q) + r)
      PROVE  IF k \in (p + 1) .. (p + q) THEN new[k] \in Loud(turn) ELSE new[k] \in Quiet(turn)
  <2>1. CASE k <= p
    <3>1. k \in 1 .. p /\ k \in 1 .. (p + q) /\ k <= p + q /\ ~(k \in (p + 1) .. (p + q))
      BY <1>7, <2>1
    <3>2. new[k] = head[k]
      BY <1>8, <2>1, <3>1
    <3> QED BY <1>7, <3>1, <3>2
  <2>2. CASE ~(k <= p) /\ k <= p + q
    <3>1. k - p \in 1 .. q /\ k \in 1 .. (p + q) /\ k \in (p + 1) .. (p + q)
      BY <1>7, <2>2
    <3>2. new[k] = calls[k - p]
      BY <1>8, <2>2, <3>1
    <3> QED BY <1>7, <3>1, <3>2
  <2>3. CASE ~(k <= p + q)
    <3>1. k - (p + q) \in 1 .. r /\ ~(k \in (p + 1) .. (p + q))
      BY <1>7, <2>3
    <3>2. new[k] = tail[k - (p + q)]
      BY <1>8, <2>3
    <3> QED BY <1>7, <3>1, <3>2
  <2> QED BY <2>1, <2>2, <2>3
<1>10. /\ \A x \in Loud(turn) : x.type = "call"
       /\ \A x \in Quiet(turn) : x.type # "call"
  BY BlankKept DEF Loud, Quiet, IsTheCall, IsTheText
<1> DEFINE first == p + 1
           last == p + q
<1>11. first \in Nat /\ last \in Nat
  BY <1>7
<1>12. \A k \in 1 .. Len(new) : new[k].type = "call" <=> k \in first .. last
  BY <1>8, <1>9, <1>10
<1>13. \A k \in 1 .. Len(new) : new[k] \in Quiet(turn) \/ new[k] \in Loud(turn)
  BY <1>8, <1>9
<1> HIDE DEF first, last
<1>14. NewFacts(new, turn)
  BY <1>6, <1>11, <1>12, <1>13 DEF NewFacts, M
<1> QED BY <1>3, <1>14

\* What is added to the items at a step.
AddedFacts(new) ==
  /\ new \in Seq(KeptItems)
  /\ \A k \in 1 .. Len(new) : new[k].text <= Now /\ new[k].call.turn <= Now
  /\ \A k \in 1 .. Len(new) : new[k].type = "call" => new[k].call.turn = Now
  /\ \A k \in 1 .. Len(new) :
       asStored /\ IsAssistant(new[k]) /\ new[k].turn = Absent =>
         new[k].text = Now /\ \A q \in 1 .. Len(new) : new[q].type # "call"
  /\ \E first, last \in Nat : \A k \in 1 .. Len(new) : new[k].type = "call" <=> k \in first .. last

LEMMA ItemsGrow ==
  ASSUME ItemsInv, NEW new, AddedFacts(new), items' = items \o new, UNCHANGED asStored,
         Now' = Now + 1
  PROVE  items' \in Seq(KeptItems) /\ TagsInv' /\ TogetherInv' /\ TextsInv'
PROOF
<1> DEFINE old == items
           all == items'
           M == KeptItems
           n == Len(old)
           m == Len(new)
           now == Now
<1>1. old \in Seq(M) /\ new \in Seq(M) /\ now \in Nat /\ now # Absent
  BY NowIsNew DEF ItemsInv, RebuildTypeOK, KeptItems, AddedFacts
<1>2. \A x \in M : /\ x.text \in Nat /\ x.call.turn \in Nat
                   /\ asStored /\ x.type = "call" => x.turn = x.call.turn
  <2>1. M \subseteq Items /\ \A x \in M : asStored /\ x.type = "call" => x.turn = x.call.turn
    BY DEF KeptItems, StoredItems, ResentItems
  <2>2. \A x \in Items : x.text \in Nat /\ x.call.turn \in Nat
    BY DEF Items, CallRefs
  <2> QED BY <2>1, <2>2
<1> HIDE DEF M
<1>3. /\ all \in Seq(M) /\ Len(all) = Len(old) + Len(new)
      /\ \A k \in 1 .. Len(old) + Len(new) :
           all[k] = IF k <= Len(old) THEN old[k] ELSE new[k - Len(old)]
  <2>1. all = old \o new
    OBVIOUS
  <2> HIDE DEF all, old
  <2>2. /\ old \o new \in Seq(M) /\ Len(old \o new) = Len(old) + Len(new)
        /\ \A k \in 1 .. Len(old) + Len(new) :
             (old \o new)[k] = IF k <= Len(old) THEN old[k] ELSE new[k - Len(old)]
    BY <1>1, ConcatProperties, Zenon
  <2> QED BY <2>1, <2>2, Zenon
<1>4. n \in Nat /\ m \in Nat /\ Len(all) = n + m
  BY <1>1, <1>3
<1>5. \A k \in 1 .. (n + m) : all[k] = IF k <= n THEN old[k] ELSE new[k - n]
  BY <1>3
<1>6. /\ \A k \in 1 .. n : old[k] \in M
      /\ \A k \in 1 .. m : new[k] \in M
  BY <1>1
<1>7. /\ \A k \in 1 .. n : old[k].text < now /\ old[k].call.turn < now
      /\ \A k \in 1 .. m : new[k].text <= now /\ new[k].call.turn <= now
      /\ \A k \in 1 .. m : new[k].type = "call" => new[k].call.turn = now
  BY DEF ItemsInv, TagsInv, AddedFacts
<1>8. PICK first, last \in Nat : \A k \in 1 .. m : new[k].type = "call" <=> k \in first .. last
  BY DEF AddedFacts
<1>9. asStored => \A k \in 1 .. m : IsAssistant(new[k]) /\ new[k].turn = Absent =>
                     new[k].text = now /\ \A q \in 1 .. m : new[q].type # "call"
  BY DEF AddedFacts
<1>10. asStored =>
         \A p, q \in 1 .. n :
           /\ p < q /\ old[p].type = "call" /\ old[q].type = "call" /\ old[p].turn = old[q].turn =>
                \A r \in p .. q : old[r].type = "call" /\ old[r].turn = old[p].turn
           /\ IsAssistant(old[p]) /\ old[p].turn = Absent /\ old[q].type = "call" =>
                old[p].text # old[q].turn
  BY DEF ItemsInv, TogetherInv, TextsInv, Together, TextsApart
<1>11. Now' = now + 1 /\ asStored' = asStored
  OBVIOUS
<1> HIDE DEF n, m, now, old, all
<1>12. \A k \in 1 .. (n + m) : IF k <= n THEN k \in 1 .. n ELSE k - n \in 1 .. m
  BY <1>4
<1>13. ASSUME NEW k \in 1 .. (n + m) PROVE all[k].text < now + 1 /\ all[k].call.turn < now + 1
  <2>1. CASE k <= n
    <3>1. k \in 1 .. n /\ all[k] = old[k]
      BY <1>5, <1>12, <2>1
    <3>2. /\ old[k].text < now /\ old[k].call.turn < now
          /\ old[k].text \in Nat /\ old[k].call.turn \in Nat
      BY <1>2, <1>6, <1>7, <3>1
    <3> QED BY <1>1, <3>1, <3>2
  <2>2. CASE ~(k <= n)
    <3>1. PICK j \in 1 .. m : all[k] = new[j]
      BY <1>5, <1>12, <2>2
    <3>2. /\ new[j].text <= now /\ new[j].call.turn <= now
          /\ new[j].text \in Nat /\ new[j].call.turn \in Nat
      BY <1>2, <1>6, <1>7
    <3> QED BY <1>1, <3>1, <3>2
  <2> QED BY <2>1, <2>2
<1>14. TagsInv'
  BY <1>4, <1>11, <1>13 DEF TagsInv, all
<1>15. ASSUME asStored, NEW k \in 1 .. (n + m), all[k].type = "call"
       PROVE  IF k <= n THEN all[k].turn < now /\ all[k].turn # now ELSE all[k].turn = now
  <2>1. CASE k <= n
    <3>1. k \in 1 .. n /\ all[k] = old[k]
      BY <1>5, <1>12, <2>1
    <3>2. old[k].call.turn < now /\ old[k].turn = old[k].call.turn /\ old[k].call.turn \in Nat
      BY <1>2, <1>6, <1>7, <1>15, <3>1
    <3> QED BY <1>1, <2>1, <3>1, <3>2
  <2>2. CASE ~(k <= n)
    <3>1. k - n \in 1 .. m /\ all[k] = new[k - n]
      BY <1>5, <1>12, <2>2
    <3>2. new[k - n].call.turn = now /\ new[k - n].turn = new[k - n].call.turn
      BY <1>2, <1>6, <1>7, <1>15, <3>1
    <3> QED BY <2>2, <3>1, <3>2
  <2> QED BY <2>1, <2>2
<1>16. ASSUME asStored, NEW p \in 1 .. (n + m), NEW q \in 1 .. (n + m), p < q,
              all[p].type = "call", all[q].type = "call", all[p].turn = all[q].turn,
              NEW r \in p .. q
       PROVE  all[r].type = "call" /\ all[r].turn = all[p].turn
  <2>1. r \in 1 .. (n + m)
    BY <1>4
  <2>2. CASE q <= n
    <3>1. p \in 1 .. n /\ q \in 1 .. n /\ r \in 1 .. n /\ p <= n /\ r <= n
      BY <1>4, <1>16, <2>2
    <3>2. all[p] = old[p] /\ all[q] = old[q] /\ all[r] = old[r]
      BY <1>5, <2>1, <2>2, <3>1
    <3> QED BY <1>10, <1>16, <3>1, <3>2
  <2>3. CASE p <= n /\ ~(q <= n)
    BY <1>15, <1>16, <2>3
  <2>4. CASE ~(p <= n)
    <3>1. /\ p - n \in 1 .. m /\ q - n \in 1 .. m /\ r - n \in 1 .. m
          /\ ~(q <= n) /\ ~(r <= n) /\ r - n \in (p - n) .. (q - n)
      BY <1>4, <1>16, <2>1, <2>4
    <3>2. all[p] = new[p - n] /\ all[q] = new[q - n] /\ all[r] = new[r - n]
      BY <1>5, <2>1, <2>4, <3>1
    <3>3. p - n \in first .. last /\ q - n \in first .. last
      BY <1>8, <1>16, <3>1, <3>2
    <3>4. r - n \in first .. last
      BY <1>4, <3>1, <3>3
    <3>5. all[r].type = "call"
      BY <1>8, <3>1, <3>2, <3>4
    <3>6. all[r].turn = now /\ all[p].turn = now
      BY <1>15, <1>16, <2>1, <2>4, <3>1, <3>5
    <3> QED BY <3>5, <3>6
  <2> QED BY <2>2, <2>3, <2>4
<1>17. TogetherInv'
  <2>1. asStored => \A p, q \in 1 .. (n + m) :
          p < q /\ all[p].type = "call" /\ all[q].type = "call" /\ all[p].turn = all[q].turn =>
            \A r \in p .. q : all[r].type = "call" /\ all[r].turn = all[p].turn
    BY <1>16
  <2>2. asStored' = asStored /\ Len(all) = n + m
    BY <1>4, <1>11
  <2>3. asStored' =>
          \A p, q \in 1 .. Len(all) :
            p < q /\ all[p].type = "call" /\ all[q].type = "call" /\ all[p].turn = all[q].turn =>
              \A r \in p .. q : all[r].type = "call" /\ all[r].turn = all[p].turn
    BY <2>1, <2>2
  <2> QED BY <2>3, Zenon DEF TogetherInv, Together, all
<1>18. ASSUME asStored, NEW p \in 1 .. (n + m), NEW q \in 1 .. (n + m),
              IsAssistant(all[p]), all[p].turn = Absent, all[q].type = "call"
       PROVE  all[p].text # all[q].turn
  <2>1. CASE p <= n /\ q <= n
    <3>1. p \in 1 .. n /\ q \in 1 .. n /\ all[p] = old[p] /\ all[q] = old[q]
      BY <1>5, <1>12, <2>1
    <3> QED BY <1>10, <1>18, <3>1
  <2>2. CASE p <= n /\ ~(q <= n)
    <3>1. all[q].turn = now
      BY <1>15, <1>18, <2>2
    <3>2. p \in 1 .. n /\ all[p] = old[p]
      BY <1>5, <1>12, <2>2
    <3>3. old[p].text < now /\ old[p].text \in Nat
      BY <1>2, <1>6, <1>7, <3>2
    <3> QED BY <1>1, <3>1, <3>2, <3>3
  <2>3. CASE ~(p <= n)
    <3>1. p - n \in 1 .. m /\ all[p] = new[p - n]
      BY <1>5, <1>12, <2>3
    <3>2. all[p].text = now /\ \A k \in 1 .. m : new[k].type # "call"
      BY <1>9, <1>18, <3>1
    <3>3. q <= n
      <4> SUFFICES ASSUME ~(q <= n) PROVE FALSE
        OBVIOUS
      <4>1. q - n \in 1 .. m /\ all[q] = new[q - n]
        BY <1>5, <1>12
      <4> QED BY <1>18, <3>2, <4>1
    <3>4. all[q].turn # now
      BY <1>15, <1>18, <3>3
    <3> QED BY <3>2, <3>4
  <2> QED BY <2>1, <2>2, <2>3
<1>19. TextsInv'
  <2>1. asStored => \A p, q \in 1 .. (n + m) :
          IsAssistant(all[p]) /\ all[p].turn = Absent /\ all[q].type = "call" =>
            all[p].text # all[q].turn
    BY <1>18
  <2> QED BY <1>4, <1>11, <2>1 DEF TextsInv, TextsApart, IsAssistant, all
<1>20. items' \in Seq(KeptItems)
  BY <1>3 DEF all, M
<1> QED BY <1>14, <1>17, <1>19, <1>20

LEMMA TurnAdds ==
  ASSUME RebuildTypeOK, NEW turn \in Turns
  PROVE  AddedFacts(NewItems(turn))
PROOF
<1> DEFINE new == NewItems(turn)
<1>1. NewFacts(new, turn)
  BY NewItemsFacts
<1> HIDE DEF new
<1>2. /\ new \in Seq(KeptItems)
      /\ \A k \in 1 .. Len(new) : new[k] \in Quiet(turn) \/ new[k] \in Loud(turn)
      /\ \E first, last \in Nat :
           \A k \in 1 .. Len(new) : new[k].type = "call" <=> k \in first .. last
  BY <1>1 DEF NewFacts
<1>3. Now \in Nat /\ Now # Absent /\ Absent = 0
  BY NowIsNew DEF Absent
<1>4. turn.calls \in Nat
  BY TurnFields
<1>5. ASSUME NEW x \in Quiet(turn)
      PROVE  /\ x.text <= Now /\ x.call.turn <= Now /\ x.type # "call"
             /\ asStored /\ IsAssistant(x) /\ x.turn = Absent => x.text = Now /\ turn.calls = 0
  <2>1. CASE x = Blank
    BY <1>3, <2>1, BlankKept
  <2>2. CASE IsTheText(x, turn)
    <3>1. /\ x.text = Now /\ x.call = NoCall /\ x.type = "message"
          /\ x.turn = IF asStored /\ turn.calls > 0 THEN Now ELSE Absent
      BY <2>2 DEF IsTheText
    <3>2. NoCall.turn = 0
      BY <1>3, BlankKept
    <3> QED BY <1>3, <1>4, <3>1, <3>2
  <2> QED BY <2>1, <2>2 DEF Quiet
<1>6. ASSUME NEW x \in Loud(turn)
      PROVE  /\ x.text <= Now /\ x.call.turn = Now /\ x.type = "call" /\ ~IsAssistant(x)
             /\ turn.calls # 0
  <2>1. PICK k \in 1 .. turn.calls : IsTheCall(x, turn, k)
    BY DEF Loud
  <2>2. x.text = Absent /\ x.type = "call" /\ x.call = CallRef(Now, k, "call_id")
    BY <2>1 DEF IsTheCall
  <2>3. x.call.turn = Now
    BY <2>2 DEF CallRef
  <2> QED BY <1>3, <1>4, <2>1, <2>2, <2>3 DEF IsAssistant
<1>7. \A k \in 1 .. Len(new) : new[k].text <= Now /\ new[k].call.turn <= Now
  <2>1. Now <= Now
    BY <1>3
  <2> QED BY <1>2, <1>5, <1>6, <2>1
<1>8. \A k \in 1 .. Len(new) : new[k].type = "call" => new[k].call.turn = Now
  BY <1>2, <1>5, <1>6
<1>9. ASSUME NEW k \in 1 .. Len(new), asStored, IsAssistant(new[k]), new[k].turn = Absent
      PROVE  new[k].text = Now /\ \A q \in 1 .. Len(new) : new[q].type # "call"
  <2>1. new[k] \in Quiet(turn)
    BY <1>2, <1>6, <1>9
  <2>2. new[k].text = Now /\ turn.calls = 0
    BY <1>5, <1>9, <2>1
  <2>3. ASSUME NEW q \in 1 .. Len(new) PROVE new[q].type # "call"
    BY <1>2, <1>5, <1>6, <2>2
  <2> QED BY <2>2, <2>3
<1>10. AddedFacts(new)
  BY <1>2, <1>7, <1>8, <1>9 DEF AddedFacts
<1> QED BY <1>10 DEF new

\* One item that is neither a call nor the upstream's.
LEMMA OneAdds ==
  ASSUME RebuildTypeOK, NEW x \in KeptItems, x.type # "call", ~IsAssistant(x),
         x.text = Now, x.call.turn <= Now
  PROVE  AddedFacts(<<x>>)
PROOF
<1>1. Now \in Nat
  BY NowIsNew
<1>2. Len(<<x>>) = 1 /\ <<x>>[1] = x /\ <<x>> \in Seq(KeptItems)
  OBVIOUS
<1>3. \A k \in 1 .. Len(<<x>>) : <<x>>[k] = x
  BY <1>2
<1>4. \A k \in 1 .. Len(<<x>>) : <<x>>[k].type = "call" <=> k \in 1 .. 0
  BY <1>3
<1>5. 1 \in Nat /\ 0 \in Nat
  OBVIOUS
<1>6. \E first, last \in Nat :
        \A k \in 1 .. Len(<<x>>) : <<x>>[k].type = "call" <=> k \in first .. last
  BY <1>4, <1>5
<1> QED BY <1>1, <1>2, <1>3, <1>6 DEF AddedFacts

LEMMA OutputRecord ==
  ASSUME NEW call
  PROVE  [Blank EXCEPT !.type = "output", !.text = Now, !.call = call]
           = RecordOf("output", NoRole, Now, NoThought, Absent, Absent, call)
PROOF
<1> DEFINE x == [Blank EXCEPT !.type = "output"]
           y == [x EXCEPT !.text = Now]
<1>1. Blank = RecordOf("reasoning", NoRole, Absent, NoThought, Absent, Absent, NoCall)
  BY DEF Blank, RecordOf, NoThought, NoRole
<1>2. [Blank EXCEPT !.type = "output", !.text = Now, !.call = call] = [y EXCEPT !.call = call]
  OBVIOUS
<1>3. x = RecordOf("output", NoRole, Absent, NoThought, Absent, Absent, NoCall)
  BY <1>1 DEF RecordOf
<1> HIDE DEF x
<1>4. y = RecordOf("output", NoRole, Now, NoThought, Absent, Absent, NoCall)
  BY <1>3 DEF RecordOf
<1> HIDE DEF y
<1> QED BY <1>2, <1>4 DEF RecordOf

\* The item of an input: of a message, and of an output that names the call.
LEMMA InputItems ==
  ASSUME RebuildTypeOK
  PROVE  /\ \A role \in {"user", "developer", "critic"} :
              LET x == MessageItem(role, Now)
              IN /\ x \in KeptItems /\ x.type = "message" /\ x.role = role /\ x.text = Now
                 /\ x.call = NoCall /\ x.reasoning = Absent
         /\ \A call \in CallRefs :
              LET x == [Blank EXCEPT !.type = "output", !.text = Now, !.call = call]
              IN /\ x \in KeptItems /\ x.type = "output" /\ x.role = "" /\ x.text = Now
                 /\ x.call = call
PROOF
<1>1. Now \in Nat /\ Now # Absent /\ Absent \in Nat /\ NoCall \in CallRefs
  BY NowIsNew DEF Absent, NoCall, CallRefs
<1>2. ASSUME NEW role \in {"user", "developer", "critic"}
      PROVE  LET x == MessageItem(role, Now)
             IN /\ x \in KeptItems /\ x.type = "message" /\ x.role = role /\ x.text = Now
                /\ x.call = NoCall /\ x.reasoning = Absent
  <2> DEFINE x == MessageItem(role, Now)
  <2>1. x = RecordOf("message", role, Now, NoThought, Absent, Absent, NoCall)
    BY MessageRecord
  <2> HIDE DEF x
  <2>2. x.type = "message" /\ x.role = role /\ x.text = Now /\ x.call = NoCall
        /\ x.reasoning = Absent /\ x.turn = Absent /\ ~x.thought
    BY <2>1 DEF RecordOf, NoThought
  <2>3. x \in Items
    BY <1>1, <2>1 DEF RecordOf, NoThought, Items
  <2>4. Sound(x)
    BY <1>1, <2>2 DEF Sound
  <2>5. x \in StoredItems /\ x \in ResentItems
    BY <2>2, <2>3, <2>4 DEF StoredItems, ResentItems
  <2>6. x \in KeptItems
    BY <2>5 DEF KeptItems
  <2> QED BY <2>2, <2>6 DEF x
<1>3. ASSUME NEW call \in CallRefs
      PROVE  LET x == [Blank EXCEPT !.type = "output", !.text = Now, !.call = call]
             IN /\ x \in KeptItems /\ x.type = "output" /\ x.role = "" /\ x.text = Now
                /\ x.call = call
  <2> DEFINE x == [Blank EXCEPT !.type = "output", !.text = Now, !.call = call]
  <2>1. x = RecordOf("output", NoRole, Now, NoThought, Absent, Absent, call)
    BY OutputRecord
  <2> HIDE DEF x
  <2>2. x.type = "output" /\ x.role = "" /\ x.text = Now /\ x.call = call
        /\ x.reasoning = Absent /\ x.turn = Absent /\ ~x.thought
    BY <2>1 DEF RecordOf, NoThought, NoRole
  <2>3. x \in Items
    BY <1>1, <2>1 DEF RecordOf, NoThought, NoRole, Items
  <2>4. Sound(x)
    BY <1>1, <2>2 DEF Sound
  <2>5. x \in StoredItems /\ x \in ResentItems
    BY <2>2, <2>3, <2>4 DEF StoredItems, ResentItems
  <2>6. x \in KeptItems
    BY <2>5 DEF KeptItems
  <2> QED BY <2>2, <2>6 DEF x
<1> QED BY <1>2, <1>3

\* An output names its call, by whichever of its ids the client did.
LEMMA ReferenceResolved ==
  ASSUME NEW call \in CallRefs, call.by = "call_id", NEW by \in {"call_id", "id"},
         by = "id" => asStored
  PROVE  ResolveReference([call EXCEPT !.by = by]) = call
PROOF
<1> DEFINE ref == [call EXCEPT !.by = by]
<1>1. call \in [turn : Nat, place : Nat, by : {"call_id", "id"}]
  BY DEF CallRefs
<1>2. [ref EXCEPT !.by = "call_id"] = call
  BY <1>1
<1>3. by = "call_id" => ref = call
  BY <1>1
<1> QED BY <1>2, <1>3 DEF ResolveReference

\* The calls that can be answered.
LEMMA KnownCalls ==
  ASSUME ItemsInv, NEW call \in ToSet(CallsIn(items))
  PROVE  call \in CallRefs /\ call.by = "call_id" /\ call.turn < Now
PROOF
<1>1. items \in Seq(Items) /\ items \in Seq(KeptItems)
  BY ItemsTyped DEF ItemsInv, RebuildTypeOK, KeptItems
<1>2. PICK p \in 1 .. Len(items) : items[p].type = "call" /\ items[p].call = call
  BY <1>1, CallsAreItems
<1>3. items[p] \in Items /\ items[p] \in KeptItems
  BY <1>1
<1>4. Sound(items[p])
  BY <1>3 DEF KeptItems, StoredItems, ResentItems
<1>5. call.turn < Now
  BY <1>2 DEF ItemsInv, TagsInv
<1> QED BY <1>2, <1>3, <1>4, <1>5 DEF Sound, Items

LEMMA RebuildStart == RebuildInit => ItemsInv
PROOF
<1> SUFFICES ASSUME RebuildInit PROVE ItemsInv
  OBVIOUS
<1>1. items = <<>> /\ expected = <<>> /\ Len(items) = 0
  BY DEF RebuildInit
<1>2. RebuildTypeOK
  BY <1>1 DEF RebuildInit, RebuildTypeOK
<1>3. TagsInv /\ TogetherInv /\ TextsInv
  BY <1>1 DEF TagsInv, TogetherInv, TextsInv, Together, TextsApart
<1> QED BY <1>2, <1>3 DEF ItemsInv

LEMMA CallRefTyped ==
  ASSUME NEW turn \in Nat, NEW place \in Nat
  PROVE  CallRef(turn, place, "call_id") \in CallRefs
BY DEF CallRef, CallRefs

\* The message of a turn.
LEMMA MessageOfTyped ==
  ASSUME RebuildTypeOK, NEW turn \in Turns
  PROVE  MessageOf(turn) \in Seq(ReplyMessages)
PROOF
<1> DEFINE calls == [k \in 1 .. turn.calls |-> CallRef(Now, k, "call_id")]
           content == IF turn.text /\ ~(turn.order = "thought") THEN <<Now>> ELSE <<>>
           reasoning == IF turn.order = "thought" \/ (asStored /\ turn.reasoning) THEN <<Now>>
                        ELSE <<>>
           m == ChatMessage("assistant", content, reasoning, calls, NoCall)
<1>1. Now \in Nat /\ turn.calls \in Nat
  BY NowIsNew, TurnFields
<1>2. calls \in Seq(CallRefs)
  <2> DEFINE n == turn.calls
  <2>1. ASSUME NEW k \in 1 .. n PROVE CallRef(Now, k, "call_id") \in CallRefs
    BY <1>1, CallRefTyped
  <2>2. n \in Nat
    BY <1>1
  <2> HIDE DEF n
  <2>3. [k \in 1 .. n |-> CallRef(Now, k, "call_id")] \in Seq(CallRefs)
    BY <2>1, <2>2
  <2> QED BY <2>3 DEF n
<1>3. content \in Seq(Nat) /\ reasoning \in Seq(Nat)
  BY <1>1
<1>4. NoCall \in CallRefs
  BY BlankKept DEF Items
<1>5. MessageOf(turn) = IF ~turn.text /\ turn.calls = 0 THEN <<>> ELSE <<m>>
  BY DEF MessageOf
<1> HIDE DEF calls, content, reasoning
<1>6. m \in ReplyMessages
  BY <1>2, <1>3, <1>4 DEF ChatMessage, ReplyMessages
<1> HIDE DEF m
<1> QED BY <1>5, <1>6

LEMMA TurnKeeps ==
  ASSUME ItemsInv, NEW turn \in Turns, TakeTurn(turn)
  PROVE  ItemsInv' /\ items' = items \o NewItems(turn)
PROOF
<1> DEFINE o == OutputItems(turn)
           new == NewItems(turn)
           said == MessageOf(turn)
<1>1. RebuildTypeOK
  BY DEF ItemsInv
<1>2. o \in Seq(Items) /\ Kept(o) = new
  BY <1>1, ItemsOfTurn
<1>3. AddedFacts(new)
  BY <1>1, TurnAdds
<1>4. said \in Seq(ReplyMessages)
  BY <1>1, MessageOfTyped
<1>5. /\ items' = items \o (IF asStored THEN o ELSE [k \in 1 .. Len(o) |-> PublicItem(o[k])])
      /\ expected' = expected \o said
      /\ regular' = (regular /\ Regular(turn))
      /\ turns' = turns + 1 /\ asStored' = asStored /\ inputs' = inputs
  BY Zenon DEF TakeTurn
<1> HIDE DEF o, new, said
<1>6. asStored => o = Kept(o)
  BY <1>2 DEF Kept, KeptItem
<1>7. ~asStored => [k \in 1 .. Len(o) |-> PublicItem(o[k])] = Kept(o)
  BY DEF Kept, KeptItem
<1>8. items' = items \o new
  BY <1>2, <1>5, <1>6, <1>7
<1>9. /\ turns \in Nat /\ inputs \in Nat /\ asStored \in BOOLEAN /\ regular \in BOOLEAN
      /\ expected \in Seq(ReplyMessages)
  BY <1>1 DEF RebuildTypeOK
<1>10. Now' = Now + 1
  BY <1>5, <1>9 DEF Now
<1>11. items' \in Seq(KeptItems) /\ TagsInv' /\ TogetherInv' /\ TextsInv'
  BY <1>3, <1>5, <1>8, <1>10, ItemsGrow
<1>12. expected' \in Seq(ReplyMessages)
  BY <1>4, <1>5, <1>9
<1>13. regular' \in BOOLEAN
  BY <1>5, <1>9 DEF Regular
<1>14. RebuildTypeOK'
  BY <1>5, <1>9, <1>11, <1>12, <1>13 DEF RebuildTypeOK, KeptItems
<1> QED BY <1>8, <1>11, <1>14 DEF ItemsInv, new

\* An input adds its item and its message.
LEMMA InputKeeps ==
  ASSUME ItemsInv, NEW x \in KeptItems, x.type # "call", ~IsAssistant(x), x.text = Now,
         x.call.turn <= Now, items' = Append(items, x), inputs' = inputs + 1,
         UNCHANGED <<asStored, turns, regular>>, expected' \in Seq(ReplyMessages)
  PROVE  ItemsInv' /\ items' = items \o <<x>>
PROOF
<1>1. RebuildTypeOK
  BY DEF ItemsInv
<1>2. AddedFacts(<<x>>)
  BY <1>1, OneAdds
<1>3. items \in Seq(KeptItems)
  BY <1>1 DEF RebuildTypeOK, KeptItems
<1>4. items' = items \o <<x>>
  <2> DEFINE old == items
             all == items'
             one == <<x>>
             M == KeptItems
  <2>1. x \in M /\ old \in Seq(M) /\ all = Append(old, x) /\ one = <<x>>
    BY <1>3
  <2> HIDE DEF old, all, one, M
  <2>2. SpansJoin(all, old, one)
    BY <2>1, AppendJoins
  <2> QED BY <2>2 DEF SpansJoin, old, all, one
<1>5. /\ turns \in Nat /\ inputs \in Nat /\ asStored \in BOOLEAN /\ regular \in BOOLEAN
      /\ turns' = turns /\ asStored' = asStored /\ regular' = regular
  BY <1>1 DEF RebuildTypeOK
<1>6. Now' = Now + 1
  BY <1>5 DEF Now
<1>7. items' \in Seq(KeptItems) /\ TagsInv' /\ TogetherInv' /\ TextsInv'
  <2> DEFINE new == <<x>>
  <2>1. AddedFacts(new) /\ items' = items \o new
    BY <1>2, <1>4
  <2> HIDE DEF new
  <2> QED BY <1>5, <1>6, <2>1, ItemsGrow
<1>8. RebuildTypeOK'
  BY <1>5, <1>7 DEF RebuildTypeOK, KeptItems
<1> QED BY <1>4, <1>7, <1>8 DEF ItemsInv

\* What an input is to the upstream.
InputMessage(role) ==
  CASE role = "user" -> <<ChatMessage("user", <<Now>>, <<>>, <<>>, NoCall)>>
    [] role = "developer" -> <<ChatMessage("system", <<Now>>, <<>>, <<>>, NoCall)>>
    [] OTHER -> <<>>

LEMMA InputMessageTyped ==
  ASSUME RebuildTypeOK, NEW role
  PROVE  InputMessage(role) \in Seq(ReplyMessages)
PROOF
<1>1. Now \in Nat /\ <<Now>> \in Seq(Nat) /\ NoCall \in CallRefs
  <2>1. Now \in Nat
    BY NowIsNew
  <2>2. NoCall \in CallRefs
    BY BlankKept DEF Items
  <2> QED BY <2>1, <2>2
<1>2. /\ ChatMessage("user", <<Now>>, <<>>, <<>>, NoCall) \in ReplyMessages
      /\ ChatMessage("system", <<Now>>, <<>>, <<>>, NoCall) \in ReplyMessages
  BY <1>1 DEF ChatMessage, ReplyMessages
<1> QED BY <1>2 DEF InputMessage

LEMMA TakeInputKeeps ==
  ASSUME ItemsInv, NEW role \in {"user", "developer", "critic"}, TakeInput(role)
  PROVE  ItemsInv' /\ items' = items \o <<MessageItem(role, Now)>>
PROOF
<1> DEFINE x == MessageItem(role, Now)
<1>1. RebuildTypeOK
  BY DEF ItemsInv
<1>2. /\ x \in KeptItems /\ x.type = "message" /\ x.role = role /\ x.text = Now
      /\ x.call = NoCall
  BY <1>1, InputItems
<1>3. /\ items' = Append(items, x) /\ expected' = expected \o InputMessage(role)
      /\ inputs' = inputs + 1 /\ UNCHANGED <<asStored, turns, regular>>
  BY Zenon DEF TakeInput, InputMessage
<1> HIDE DEF x
<1>4. Now \in Nat /\ NoCall.turn = 0
  BY <1>1, NowIsNew, BlankKept DEF Absent
<1>5. x.type # "call" /\ ~IsAssistant(x) /\ x.call.turn <= Now
  BY <1>2, <1>4 DEF IsAssistant
<1>6. expected' \in Seq(ReplyMessages)
  <2>1. expected \in Seq(ReplyMessages) /\ InputMessage(role) \in Seq(ReplyMessages)
    BY <1>1, InputMessageTyped DEF RebuildTypeOK
  <2> QED BY <1>3, <2>1
<1>7. ItemsInv' /\ items' = items \o <<x>>
  BY <1>2, <1>3, <1>5, <1>6, InputKeeps
<1> QED BY <1>7 DEF x

\* The item of an output names its call.
OutputItem(call) == [Blank EXCEPT !.type = "output", !.text = Now, !.call = call]

LEMMA GiveKeeps ==
  ASSUME ItemsInv, NEW call \in ToSet(CallsIn(items)), NEW by \in {"call_id", "id"},
         by = "id" => asStored, GiveOutput(call, by)
  PROVE  /\ ItemsInv' /\ items' = items \o <<OutputItem(call)>>
         /\ expected' = expected \o <<ChatMessage("tool", <<Now>>, <<>>, <<>>, call)>>
PROOF
<1> DEFINE x == OutputItem(call)
           m == ChatMessage("tool", <<Now>>, <<>>, <<>>, call)
<1>1. RebuildTypeOK
  BY DEF ItemsInv
<1>2. call \in CallRefs /\ call.by = "call_id" /\ call.turn < Now
  BY KnownCalls
<1>3. ResolveReference([call EXCEPT !.by = by]) = call
  BY <1>2, ReferenceResolved
<1>4. /\ items' = Append(items, [Blank EXCEPT !.type = "output", !.text = Now,
                                   !.call = ResolveReference([call EXCEPT !.by = by])])
      /\ expected' = Append(expected, m)
      /\ inputs' = inputs + 1 /\ UNCHANGED <<asStored, turns, regular>>
  BY Zenon DEF GiveOutput
<1>5. items' = Append(items, x)
  BY <1>3, <1>4, Zenon DEF OutputItem
<1>6. /\ x \in KeptItems /\ x.type = "output" /\ x.role = "" /\ x.text = Now /\ x.call = call
  BY <1>1, <1>2, InputItems DEF OutputItem
<1>7. Now \in Nat /\ call.turn \in Nat
  BY <1>1, <1>2, NowIsNew DEF CallRefs
<1>8. m \in ReplyMessages
  <2>1. <<Now>> \in Seq(Nat)
    BY <1>7
  <2> QED BY <1>2, <2>1 DEF ChatMessage, ReplyMessages
<1> HIDE DEF x, m
<1>9. x.type # "call" /\ ~IsAssistant(x) /\ x.call.turn <= Now
  <2>1. x.type = "output" /\ x.call = call
    BY <1>6
  <2>2. call.turn <= Now
    BY <1>2, <1>7
  <2> QED BY <2>1, <2>2 DEF IsAssistant
<1>10. expected' \in Seq(ReplyMessages) /\ expected' = expected \o <<m>>
  <2>1. expected \in Seq(ReplyMessages)
    BY <1>1 DEF RebuildTypeOK
  <2> QED BY <1>4, <1>8, <2>1
<1>11. ItemsInv' /\ items' = items \o <<x>>
  BY <1>4, <1>5, <1>6, <1>9, <1>10, InputKeeps
<1> QED BY <1>10, <1>11 DEF x, m

LEMMA RebuildStep == ItemsInv /\ [RebuildNext]_rebuildVars => ItemsInv'
PROOF
<1> SUFFICES ASSUME ItemsInv, [RebuildNext]_rebuildVars PROVE ItemsInv'
  OBVIOUS
<1>1. ASSUME NEW turn \in Turns, TakeTurn(turn) PROVE ItemsInv'
  BY <1>1, TurnKeeps
<1>2. CASE Ask
  BY <1>2, TakeInputKeeps DEF Ask
<1>3. CASE Output
  <2>1. PICK call \in ToSet(CallsIn(items)), by \in {"call_id", "id"} :
          (by = "id" => asStored) /\ GiveOutput(call, by)
    BY <1>3 DEF Output
  <2> QED BY <2>1, GiveKeeps
<1>4. CASE AllSaid \/ UNCHANGED rebuildVars
  <2>1. /\ items' = items /\ asStored' = asStored /\ turns' = turns /\ inputs' = inputs
        /\ expected' = expected /\ regular' = regular
    BY <1>4 DEF AllSaid, rebuildVars
  <2>2. RebuildTypeOK'
    BY <2>1, Zenon DEF ItemsInv, RebuildTypeOK
  <2>3. TagsInv'
    BY <2>1, Zenon DEF ItemsInv, TagsInv, Now
  <2>4. items' = items /\ (asStored' => asStored)
    BY <2>1
  <2>5. TogetherInv /\ TextsInv
    BY DEF ItemsInv
  <2>6. TogetherInv'
    BY <2>4, <2>5 DEF TogetherInv, Together
  <2>7. TextsInv'
    BY <2>4, <2>5 DEF TextsInv, TextsApart, IsAssistant
  <2> QED BY <2>2, <2>3, <2>6, <2>7 DEF ItemsInv
<1> QED BY <1>1, <1>2, <1>3, <1>4 DEF RebuildNext

\* Items from the store keep the calls of a turn side by side, as the answer that had
\* them did, and a text that is stored without its turn's number is of a turn without
\* calls: what InputItemsToChatMessages relies on.  (OutputItemsFromChatCompletion,
\* streamResponse, PublicItem, NormalizeFunctionCallOutput)
THEOREM RebuildInvariant == RebuildSpec => []ItemsInv
BY RebuildStart, RebuildStep, PTL DEF RebuildSpec

\* However many turns, calls and inputs there are and in whatever order their items
\* come, the messages of the next request have every call and every output once, in
\* the order of the items, and every text.  (InputItemsToChatMessages)
THEOREM NothingIsEverLost == RebuildSpec => []NothingIsLost
PROOF
<1>1. ItemsInv => NothingIsLost
  BY TypesLoseNothing DEF ItemsInv
<1> QED BY <1>1, RebuildInvariant, PTL

------------------------------------------------------------------------------
(* The calls of a turn are in one message.                                 *)

LEMMA CallsOfSpan ==
  ASSUME NEW list \in Seq(StoredItems), NEW from \in 1 .. (Len(list) + 1),
         NEW to \in from .. (Len(list) + 1), \A q \in from .. (to - 1) : list[q].type = "call",
         NEW a \in ToSet(CallRefsOf(Span(list, from, to)))
  PROVE  \E q \in from .. (to - 1) : list[q].type = "call" /\ list[q].turn = a.turn
PROOF
<1> DEFINE n == Len(list)
           span == Span(list, from, to)
           refs == CallRefsOf(span)
           M == StoredItems
<1>1. n \in Nat /\ from \in Nat /\ to \in Nat /\ from >= 1 /\ from <= to /\ to <= n + 1
  OBVIOUS
<1> HIDE DEF M
<1>2. SpanOf(span, M, list, from, to)
  BY SpanTypes DEF M
<1> HIDE DEF span
<1>3. span \in Seq(M) /\ Len(span) = to - from /\ \A k \in 1 .. (to - from) : span[k] = list[from + k - 1]
  BY <1>2 DEF SpanOf
<1>4. Len(refs) = Len(span) /\ \A k \in 1 .. Len(span) : refs[k] = span[k].call
  BY <1>3 DEF CallRefsOf
<1>5. a \in {refs[k] : k \in 1 .. Len(refs)}
  BY DEF ToSet, span
<1> HIDE DEF refs
<1>6. PICK k \in 1 .. (to - from) : a = list[from + k - 1].call
  <2>1. PICK k \in 1 .. Len(refs) : a = refs[k]
    BY <1>5
  <2>2. k \in 1 .. Len(span) /\ k \in 1 .. (to - from)
    BY <1>3, <1>4, <2>1
  <2>3. a = span[k].call
    BY <1>4, <2>1, <2>2
  <2>4. span[k] = list[from + k - 1]
    BY <1>3, <2>2
  <2> QED BY <2>2, <2>3, <2>4
<1> DEFINE q == from + k - 1
<1>7. q \in from .. (to - 1) /\ q \in 1 .. n /\ a = list[q].call
  BY <1>1, <1>6
<1> HIDE DEF q
<1>8. list[q].type = "call" /\ list[q] \in StoredItems
  BY <1>7
<1>9. list[q].turn = list[q].call.turn
  BY <1>8 DEF StoredItems
<1> QED BY <1>7, <1>8, <1>9

\* A message of the items from i up to next has calls of these only, and of no turn
\* that has a call further on.
MessageApart(m, list, i, next) ==
  /\ \A a \in ToSet(m.calls) :
       \E p \in i .. (next - 1) : list[p].type = "call" /\ list[p].turn = a.turn
  /\ \A a \in ToSet(m.calls), q \in next .. Len(list) :
       list[q].type = "call" => list[q].turn # a.turn
  /\ \A a, b \in ToSet(m.calls) :
       a.turn # b.turn => m.content # <<>> /\ a.turn \notin ToSet(m.content)

LEMMA StepApart ==
  ASSUME NEW list \in Seq(StoredItems), Together(list), TextsApart(list),
         NEW i \in 1 .. Len(list), NEW step, StepTaken(list, i, step),
         NEW k \in 1 .. Len(step.message)
  PROVE  MessageApart(step.message[k], list, i, step.next)
PROOF
<1> DEFINE n == Len(list)
           item == list[i]
           next == step.next
           m == step.message[k]
<1>1. n \in Nat /\ i \in 1 .. n /\ item \in StoredItems /\ StoredItems \subseteq Items
  BY DEF StoredItems
<1>2. \A q \in 1 .. n : list[q] \in StoredItems /\ list[q] \in Items
  BY DEF StoredItems
<1>3. list \in Seq(Items)
  BY <1>1, SeqWithin
<1>4. next \in (i + 1) .. (n + 1)
  BY <1>3, StepTypes
<1>5. \A q \in 1 .. n : list[q].type = "call" => list[q].turn # Absent
  BY <1>2 DEF StoredItems, Sound
<1>6. CASE AloneStep(list, i, step)
  <2>1. step.message = OwnMessages(item)
    BY <1>6 DEF AloneStep
  <2>2. PICK x : AloneSays(item, x)
    <3>1. Len(OwnMessages(item)) # 0
      BY <2>1
    <3> QED BY <1>1, <3>1, AloneIs
  <2>3. m.calls = <<>>
    <3>1. step.message = <<x>> /\ x.calls = <<>>
      BY <2>1, <2>2 DEF AloneSays
    <3> QED BY <3>1
  <2>4. ToSet(m.calls) = {}
    BY <2>3 DEF ToSet
  <2> QED BY <2>4 DEF MessageApart
<1>7. CASE TextStep(list, i, step)
  <2> DEFINE from == i + 1
             calls == Span(list, from, next)
  <2>1. /\ IsAssistant(item) /\ step.message = <<TextWithCalls(item, calls)>>
        /\ \A q \in from .. (next - 1) : list[q] \in MessageFollowers(item)
        /\ next <= Len(list) => list[next] \notin MessageFollowers(item)
    BY <1>1, <1>7 DEF TextStep, RunsTo, Span
  <2>2. /\ from \in 1 .. (n + 1) /\ next \in from .. (n + 1)
        /\ \A q \in from .. (next - 1) : q \in 1 .. n
    BY <1>1, <1>4
  <2>3. \A q \in from .. (next - 1) : list[q] \in OnlyCalls(Items) /\ list[q].type = "call"
    BY <1>2, <2>1, <2>2 DEF MessageFollowers, FollowsMessage, OnlyCalls
  <2>4. m = TextWithCalls(item, calls)
    BY <2>1
  <2>5. item \in OnlyAssistants(Items) /\ Sound(item)
    BY <1>1, <2>1 DEF OnlyAssistants, StoredItems
  <2>6. m.calls = CallRefsOf(calls) /\ m.content = Given(item.text)
    <3> HIDE DEF from, item, next
    <3>1. calls \in Seq(OnlyCalls(Items))
      BY <1>3, <2>2, <2>3, SpanWithin
    <3> HIDE DEF calls
    <3> QED BY <2>4, <2>5, <3>1, MessagesOfCalls
  <2>7. m.content = <<item.text>>
    BY <1>1, <2>1, <2>5, <2>6, TextOfAssistant
  <2>8. ASSUME NEW a \in ToSet(m.calls)
        PROVE  \E p \in from .. (next - 1) : list[p].type = "call" /\ list[p].turn = a.turn
    <3> HIDE DEF from, item, next, m
    <3> QED BY <2>2, <2>3, <2>6, <2>8, CallsOfSpan
  <2>9. ASSUME NEW a \in ToSet(m.calls), NEW q \in next .. n, list[q].type = "call"
        PROVE  list[q].turn # a.turn
    <3> SUFFICES ASSUME list[q].turn = a.turn PROVE FALSE
      OBVIOUS
    <3>1. PICK p \in from .. (next - 1) : list[p].type = "call" /\ list[p].turn = a.turn
      BY <2>8
    <3>2. p \in 1 .. n /\ q \in 1 .. n /\ p < q /\ next \in p .. q /\ next \in 1 .. n
      BY <1>1, <1>4, <2>2
    <3>3. list[next].type = "call" /\ list[next].turn = list[p].turn
      BY <2>9, <3>1, <3>2 DEF Together
    <3>4. list[p].turn # Absent
      BY <1>5, <3>1, <3>2
    <3>5. FollowsMessage(item, list[p]) /\ ~FollowsMessage(item, list[next])
      <4>1. list[next] \in Items
        BY <1>2, <3>2
      <4> QED BY <2>1, <3>2, <4>1 DEF MessageFollowers
    <3> QED BY <3>1, <3>3, <3>4, <3>5 DEF FollowsMessage, SameKimiTurn
  <2>10. ASSUME NEW a \in ToSet(m.calls), NEW b \in ToSet(m.calls), a.turn # b.turn
         PROVE  m.content # <<>> /\ a.turn \notin ToSet(m.content)
    <3>1. PICK p \in from .. (next - 1) : list[p].type = "call" /\ list[p].turn = a.turn
      BY <2>8
    <3>2. PICK q \in from .. (next - 1) : list[q].type = "call" /\ list[q].turn = b.turn
      BY <2>8
    <3>3. FollowsMessage(item, list[p]) /\ FollowsMessage(item, list[q])
      BY <2>1 DEF MessageFollowers
    <3>4. item.turn = Absent
      BY <2>10, <3>1, <3>2, <3>3 DEF FollowsMessage, SameKimiTurn
    <3>5. item.text # a.turn
      BY <1>1, <2>1, <2>2, <3>1, <3>4 DEF TextsApart
    <3>6. ToSet(m.content) = {item.text}
      BY <2>7 DEF ToSet
    <3> QED BY <2>7, <3>5, <3>6
  <2>11. \A a \in ToSet(m.calls) :
           \E p \in i .. (next - 1) : list[p].type = "call" /\ list[p].turn = a.turn
    <3>1. \A p \in from .. (next - 1) : p \in i .. (next - 1)
      BY <1>1, <1>4
    <3> QED BY <2>8, <3>1
  <2> HIDE DEF m, next
  <2>12. MessageApart(m, list, i, next)
    BY <2>9, <2>10, <2>11 DEF MessageApart
  <2> QED BY <2>12 DEF m, next
<1>8. CASE \E j : CallsStep(list, i, j, step)
  <2>1. PICK j : CallsStep(list, i, j, step)
    BY <1>8
  <2> DEFINE calls == Span(list, i, j)
             texts == Span(list, j, next)
  <2>2. /\ item.type = "call" /\ j \in (i + 1) .. (n + 1) /\ next \in j .. (n + 1)
        /\ \A q \in (i + 1) .. (j - 1) : list[q] \in CallFollowers(item)
        /\ j <= Len(list) => list[j] \notin CallFollowers(item)
        /\ \A q \in j .. (next - 1) : list[q] \in Assistants
        /\ step.message = <<CallsWithTexts(calls, texts)>>
    BY <2>1 DEF CallsStep, RunsTo, Span
  <2>3. /\ i \in 1 .. (n + 1) /\ j \in 1 .. (n + 1) /\ j \in i .. (n + 1)
        /\ next \in i .. (n + 1)
    BY <1>1, <2>2
  <2>4. ASSUME NEW q \in i .. (j - 1)
        PROVE  list[q] \in OnlyCalls(Items) /\ list[q].type = "call" /\ list[q].turn = item.turn
    <3>1. q \in 1 .. n /\ (q = i \/ q \in (i + 1) .. (j - 1))
      BY <1>1, <2>2
    <3>2. list[q].turn # Absent \/ list[q].type # "call"
      BY <1>5, <3>1
    <3>3. item.turn # Absent
      BY <1>1, <1>5, <2>2
    <3> QED BY <1>1, <1>2, <2>2, <3>1, <3>2, <3>3
            DEF CallFollowers, FollowsCall, SameKimiTurn, OnlyCalls
  <2>5. ASSUME NEW q \in j .. (next - 1) PROVE list[q] \in OnlyAssistants(Items)
    <3>1. q \in 1 .. n
      BY <1>1, <2>2, <2>3
    <3> QED BY <1>2, <2>2, <3>1 DEF Assistants, OnlyAssistants
  <2>6. m = CallsWithTexts(calls, texts)
    BY <2>2
  <2>7. m.calls = CallRefsOf(calls)
    <3> HIDE DEF next, item
    <3>1. calls \in Seq(OnlyCalls(Items))
      BY <1>3, <2>3, <2>4, SpanWithin
    <3>2. texts \in Seq(OnlyAssistants(Items))
      BY <1>3, <2>2, <2>3, <2>5, SpanWithin
    <3> HIDE DEF calls, texts
    <3> QED BY <2>6, <3>1, <3>2, MessagesOfCalls
  <2>8. ASSUME NEW a \in ToSet(m.calls)
        PROVE  \E p \in i .. (j - 1) : list[p].type = "call" /\ list[p].turn = a.turn
    <3> HIDE DEF item, next, m
    <3>1. \A q \in i .. (j - 1) : list[q].type = "call"
      BY <2>4
    <3> QED BY <2>3, <2>7, <2>8, <3>1, CallsOfSpan
  <2>9. \A a \in ToSet(m.calls) : a.turn = item.turn
    BY <2>4, <2>8
  <2>10. ASSUME NEW a \in ToSet(m.calls), NEW q \in next .. n, list[q].type = "call"
         PROVE  list[q].turn # a.turn
    <3> SUFFICES ASSUME list[q].turn = a.turn PROVE FALSE
      OBVIOUS
    <3>1. PICK p \in i .. (j - 1) : list[p].type = "call" /\ list[p].turn = a.turn
      BY <2>8
    <3>2. p \in 1 .. n /\ q \in 1 .. n /\ p < q /\ j \in p .. q /\ j \in 1 .. n
      BY <1>1, <1>4, <2>2
    <3>3. list[j].type = "call" /\ list[j].turn = list[p].turn
      BY <2>10, <3>1, <3>2 DEF Together
    <3>4. list[j].turn # Absent /\ list[j].turn = item.turn
      BY <1>5, <2>9, <3>1, <3>2, <3>3
    <3>5. ~FollowsCall(item, list[j])
      <4>1. list[j] \in Items
        BY <1>2, <3>2
      <4> QED BY <2>2, <3>2, <4>1 DEF CallFollowers
    <3> QED BY <3>3, <3>4, <3>5 DEF FollowsCall, SameKimiTurn
  <2>11. \A a \in ToSet(m.calls) :
           \E p \in i .. (next - 1) : list[p].type = "call" /\ list[p].turn = a.turn
    <3>1. \A p \in i .. (j - 1) : p \in i .. (next - 1)
      BY <1>1, <2>2
    <3> QED BY <2>8, <3>1
  <2> HIDE DEF m, next
  <2>12. MessageApart(m, list, i, next)
    BY <2>9, <2>10, <2>11 DEF MessageApart
  <2> QED BY <2>12 DEF m, next
<1> QED BY <1>6, <1>7, <1>8 DEF StepTaken

MessagesApart(messages) ==
  \A j, k \in 1 .. Len(messages) :
    \A a \in ToSet(messages[j].calls), b \in ToSet(messages[k].calls) :
      /\ a.turn = b.turn => j = k
      /\ j = k /\ a.turn # b.turn =>
           messages[j].content # <<>> /\ a.turn \notin ToSet(messages[j].content)

\* The calls of the messages are of the items from i on.
ApartFrom(messages, list, i) ==
  /\ \A k \in 1 .. Len(messages) : \A a \in ToSet(messages[k].calls) :
       \E p \in i .. Len(list) : list[p].type = "call" /\ list[p].turn = a.turn
  /\ MessagesApart(messages)

LEMMA AddApart ==
  ASSUME NEW list, Len(list) \in Nat, NEW i \in 1 .. Len(list),
         NEW next \in (i + 1) .. (Len(list) + 1),
         NEW R, NEW one \in Seq(R), Len(one) <= 1,
         \A k \in 1 .. Len(one) : MessageApart(one[k], list, i, next),
         NEW rest \in Seq(R), ApartFrom(rest, list, next), NEW all, all = one \o rest
  PROVE  ApartFrom(all, list, i)
PROOF
<1>1. CASE one = <<>>
  <2>1. all = rest
    BY <1>1
  <2>2. \A p \in next .. Len(list) : p \in i .. Len(list)
    OBVIOUS
  <2> QED BY <2>1, <2>2 DEF ApartFrom
<1>2. CASE one # <<>>
  <2> DEFINE m == one[1]
             n == Len(rest)
  <2>1. Len(one) = 1 /\ n \in Nat
    <3>1. Len(one) \in Nat /\ Len(one) # 0 /\ n \in Nat
      BY <1>2
    <3> DEFINE o == Len(one)
    <3>2. o \in Nat /\ o # 0 /\ o <= 1
      BY <3>1
    <3> HIDE DEF o
    <3>3. o = 1
      BY <3>2
    <3> QED BY <3>1, <3>3 DEF o
  <2>2. MessageApart(m, list, i, next)
    BY <2>1
  <2>3. /\ Len(all) = n + 1
        /\ \A k \in 1 .. (n + 1) : all[k] = IF k = 1 THEN m ELSE rest[k - 1]
    <3>1. /\ Len(all) = Len(one) + Len(rest)
          /\ \A k \in 1 .. Len(one) + Len(rest) :
               all[k] = IF k <= Len(one) THEN one[k] ELSE rest[k - Len(one)]
      BY ConcatProperties, Zenon
    <3> HIDE DEF n
    <3>2. Len(one) = 1 /\ Len(rest) = n /\ n \in Nat
      BY <2>1 DEF n
    <3>3. ASSUME NEW k \in 1 .. (n + 1) PROVE all[k] = IF k = 1 THEN m ELSE rest[k - 1]
      <4>1. k \in 1 .. 1 + n /\ (k <= 1 <=> k = 1)
        BY <3>2
      <4> QED BY <3>1, <3>2, <4>1
    <3> QED BY <3>1, <3>2, <3>3
  <2> HIDE DEF m, n
  <2>4. all[1] = m /\ \A k \in 1 .. (n + 1) : k = 1 \/ (k - 1 \in 1 .. n /\ all[k] = rest[k - 1])
    <3>1. 1 \in 1 .. (n + 1)
      BY <2>1
    <3>2. all[1] = m
      BY <2>3, <3>1
    <3>3. ASSUME NEW k \in 1 .. (n + 1), k # 1 PROVE k - 1 \in 1 .. n /\ all[k] = rest[k - 1]
      <4>1. k - 1 \in 1 .. n
        BY <2>1, <3>3
      <4>2. all[k] = rest[k - 1]
        BY <2>3, <3>3
      <4> QED BY <4>1, <4>2
    <3> QED BY <3>2, <3>3
  <2>5. \A k \in 1 .. n : \A a \in ToSet(rest[k].calls) :
          \E p \in next .. Len(list) : list[p].type = "call" /\ list[p].turn = a.turn
    BY DEF ApartFrom, n
  <2>6. \A k \in 1 .. (n + 1) : \A a \in ToSet(all[k].calls) :
          \E p \in i .. Len(list) : list[p].type = "call" /\ list[p].turn = a.turn
    <3>1. /\ \A p \in next .. Len(list) : p \in i .. Len(list)
          /\ \A p \in i .. (next - 1) : p \in i .. Len(list)
      OBVIOUS
    <3>2. \A a \in ToSet(m.calls) :
            \E p \in i .. (next - 1) : list[p].type = "call" /\ list[p].turn = a.turn
      BY <2>2 DEF MessageApart
    <3>3. ASSUME NEW k \in 1 .. (n + 1), NEW a \in ToSet(all[k].calls)
          PROVE  \E p \in i .. Len(list) : list[p].type = "call" /\ list[p].turn = a.turn
      <4>1. CASE k = 1
        <5>1. a \in ToSet(m.calls)
          BY <2>4, <3>3, <4>1
        <5> QED BY <3>1, <3>2, <5>1
      <4>2. CASE k # 1
        <5>1. k - 1 \in 1 .. n /\ a \in ToSet(rest[k - 1].calls)
          BY <2>4, <3>3, <4>2
        <5> QED BY <2>5, <3>1, <5>1
      <4> QED BY <4>1, <4>2
    <3> QED BY <3>3
  <2>7. ASSUME NEW a \in ToSet(m.calls), NEW k \in 1 .. n, NEW b \in ToSet(rest[k].calls)
        PROVE  a.turn # b.turn
    <3>1. PICK p \in next .. Len(list) : list[p].type = "call" /\ list[p].turn = b.turn
      BY <2>5
    <3> QED BY <2>2, <3>1 DEF MessageApart
  <2>8. ASSUME NEW j \in 1 .. (n + 1), NEW k \in 1 .. (n + 1),
               NEW a \in ToSet(all[j].calls), NEW b \in ToSet(all[k].calls)
        PROVE  /\ a.turn = b.turn => j = k
               /\ j = k /\ a.turn # b.turn =>
                    all[j].content # <<>> /\ a.turn \notin ToSet(all[j].content)
    <3>1. CASE j = 1 /\ k = 1
      BY <2>2, <2>4, <3>1 DEF MessageApart
    <3>2. CASE j = 1 /\ k # 1
      <4>1. k - 1 \in 1 .. n /\ b \in ToSet(rest[k - 1].calls) /\ a \in ToSet(m.calls)
        BY <2>4, <3>2
      <4> QED BY <2>7, <3>2, <4>1
    <3>3. CASE j # 1 /\ k = 1
      <4>1. j - 1 \in 1 .. n /\ a \in ToSet(rest[j - 1].calls) /\ b \in ToSet(m.calls)
        BY <2>4, <3>3
      <4>2. b.turn # a.turn
        BY <2>7, <4>1
      <4> QED BY <3>3, <4>2
    <3>4. CASE j # 1 /\ k # 1
      <4>1. /\ j - 1 \in 1 .. n /\ k - 1 \in 1 .. n /\ all[j] = rest[j - 1] /\ all[k] = rest[k - 1]
        BY <2>4, <3>4
      <4> DEFINE x == j - 1
                 y == k - 1
      <4>2. MessagesApart(rest) /\ n = Len(rest)
        BY DEF ApartFrom, n
      <4>3. x \in 1 .. Len(rest) /\ y \in 1 .. Len(rest) /\ all[j] = rest[x] /\ all[k] = rest[y]
        BY <4>1, <4>2
      <4> HIDE DEF x, y
      <4>4. a \in ToSet(rest[x].calls) /\ b \in ToSet(rest[y].calls)
        BY <2>8, <4>3
      <4>5. \A c \in ToSet(rest[x].calls), d \in ToSet(rest[y].calls) :
              /\ c.turn = d.turn => x = y
              /\ x = y /\ c.turn # d.turn =>
                   rest[x].content # <<>> /\ c.turn \notin ToSet(rest[x].content)
        BY <4>2, <4>3, Zenon DEF MessagesApart
      <4>6. /\ a.turn = b.turn => x = y
            /\ x = y /\ a.turn # b.turn =>
                 rest[x].content # <<>> /\ a.turn \notin ToSet(rest[x].content)
        BY <4>4, <4>5, Zenon
      <4>7. /\ a.turn = b.turn => j - 1 = k - 1
            /\ j - 1 = k - 1 /\ a.turn # b.turn =>
                 all[j].content # <<>> /\ a.turn \notin ToSet(all[j].content)
        BY <4>3, <4>6 DEF x, y
      <4>8. j = k <=> j - 1 = k - 1
        BY <2>1
      <4> QED BY <4>7, <4>8
    <3> QED BY <3>1, <3>2, <3>3, <3>4
  <2>9. Len(all) = n + 1
    BY <2>3
  <2>10. MessagesApart(all)
    BY <2>8, <2>9, Zenon DEF MessagesApart
  <2> QED BY <2>6, <2>9, <2>10, Zenon DEF ApartFrom
<1> QED BY <1>1, <1>2

LEMMA ScanApart ==
  ASSUME NEW list \in Seq(StoredItems), Together(list), TextsApart(list)
  PROVE  MessagesApart(InputItemsToChatMessages(list))
PROOF
<1> DEFINE n == Len(list)
           R == ReplyMessages
<1>1. list \in Seq(Items)
  <2>1. StoredItems \subseteq Items
    BY DEF StoredItems
  <2> QED BY <2>1, SeqWithin
<1>2. PICK f : Scans(f, list) /\ InputItemsToChatMessages(list) = f[1]
  BY <1>1, ScanExists
<1>3. n \in Nat /\ Len(list) \in Nat
  OBVIOUS
<1> HIDE DEF R
<1>4. /\ f \in [1 .. (n + 1) -> Seq(R)] /\ f[n + 1] = <<>>
      /\ \A i \in 1 .. n : f[i] = StepOf(list, i).message \o f[StepOf(list, i).next]
  BY <1>2 DEF Scans, R
<1> DEFINE T == {i \in 1 .. (n + 1) : ApartFrom(f[i], list, i)}
<1>5. n + 1 \in T
  <2>1. Len(f[n + 1]) = 0
    BY <1>4
  <2>2. ApartFrom(f[n + 1], list, n + 1)
    BY <2>1 DEF ApartFrom, MessagesApart
  <2> QED BY <1>3, <2>2
<1>6. ASSUME NEW i \in 1 .. n, \A j \in (i + 1) .. (n + 1) : j \in T PROVE i \in T
  <2> DEFINE step == StepOf(list, i)
             one == step.message
             next == step.next
             rest == f[next]
             all == f[i]
  <2>1. StepTaken(list, i, step)
    BY <1>1, StepsTaken DEF StepOf
  <2> HIDE DEF step
  <2>2. next \in (i + 1) .. (n + 1) /\ one \in Seq(R) /\ Len(one) <= 1
    BY <1>1, <2>1, StepTypes DEF R
  <2>3. \A k \in 1 .. Len(one) : MessageApart(one[k], list, i, next)
    BY <2>1, StepApart
  <2>4. rest \in Seq(R) /\ ApartFrom(rest, list, next)
    BY <1>4, <1>6, <2>2
  <2>5. all = one \o rest
    BY <1>4 DEF step
  <2> HIDE DEF one, next, rest, all
  <2>6. ApartFrom(all, list, i)
    BY <1>3, <2>2, <2>3, <2>4, <2>5, AddApart
  <2>7. i \in 1 .. (n + 1)
    BY <1>3
  <2> QED BY <2>6, <2>7 DEF all
<1> HIDE DEF T
<1>7. \A i \in 1 .. n : (\A j \in (i + 1) .. (n + 1) : j \in T) => i \in T
  BY <1>6
<1> HIDE DEF n
<1>8. \A i \in 1 .. (n + 1) : i \in T
  BY <1>3, <1>5, <1>7, DownTo
<1>9. 1 \in T
  BY <1>3, <1>8
<1> QED BY <1>2, <1>9 DEF T, ApartFrom

\* The calls of a stored turn are never spread over several messages, and a message
\* that has the calls of two turns is one of a text of neither.  (SameKimiTurn)
THEOREM CallsAlwaysStayTogether == RebuildSpec => []CallsStayTogether
PROOF
<1>1. ItemsInv => CallsStayTogether
  <2> SUFFICES ASSUME ItemsInv, asStored PROVE MessagesApart(Rebuilt)
    BY DEF CallsStayTogether, MessagesApart
  <2>1. items \in Seq(StoredItems)
    BY DEF ItemsInv, RebuildTypeOK
  <2>2. Together(items)
    BY DEF ItemsInv, TogetherInv
  <2>3. TextsApart(items)
    BY DEF ItemsInv, TextsInv
  <2> QED BY <2>1, <2>2, <2>3, ScanApart DEF Rebuilt
<1> QED BY <1>1, RebuildInvariant, PTL

------------------------------------------------------------------------------
(* Where the scan of a list can be cut: between items that take no others  *)
(* along.                                                                  *)

\* There is one step from each place.
LEMMA StepIsOne ==
  ASSUME NEW list \in Seq(Items), NEW i \in 1 .. Len(list), NEW s, StepTaken(list, i, s),
         NEW t, StepTaken(list, i, t)
  PROVE  s = t
PROOF
<1> DEFINE n == Len(list)
           from == i + 1
<1>1. n \in Nat /\ from \in Nat /\ Len(list) \in Nat
  OBVIOUS
<1>2. \A S, a, b : RunsTo(list, from, a, S) /\ RunsTo(list, from, b, S) => a = b
  <2> SUFFICES ASSUME NEW S, NEW a, NEW b, RunsTo(list, from, a, S), RunsTo(list, from, b, S)
               PROVE  a = b
    OBVIOUS
  <2> HIDE DEF from
  <2> QED BY <1>1, RunsToOne
<1>3. ~(AloneStep(list, i, s) /\ TextStep(list, i, t))
  <2> SUFFICES ASSUME AloneStep(list, i, s), TextStep(list, i, t) PROVE FALSE
    OBVIOUS
  <2>1. /\ RunsTo(list, from, from, MessageFollowers(list[i]))
        /\ RunsTo(list, from, t.next, MessageFollowers(list[i])) /\ t.next # from
    BY DEF AloneStep, TextStep
  <2> HIDE DEF from
  <2> QED BY <1>2, <2>1
<1>4. ~(AloneStep(list, i, t) /\ TextStep(list, i, s))
  <2> SUFFICES ASSUME AloneStep(list, i, t), TextStep(list, i, s) PROVE FALSE
    OBVIOUS
  <2>1. /\ RunsTo(list, from, from, MessageFollowers(list[i]))
        /\ RunsTo(list, from, s.next, MessageFollowers(list[i])) /\ s.next # from
    BY DEF AloneStep, TextStep
  <2> HIDE DEF from
  <2> QED BY <1>2, <2>1
<1>5. CASE AloneStep(list, i, s) /\ AloneStep(list, i, t)
  BY <1>5 DEF AloneStep
<1>6. CASE TextStep(list, i, s) /\ TextStep(list, i, t)
  <2>1. s.next = t.next
    BY <1>2, <1>6 DEF TextStep
  <2> QED BY <1>6, <2>1, Zenon DEF TextStep
<1>7. CASE (\E j : CallsStep(list, i, j, s)) /\ (\E j : CallsStep(list, i, j, t))
  <2>1. PICK j : CallsStep(list, i, j, s)
    BY <1>7
  <2>2. PICK k : CallsStep(list, i, k, t)
    BY <1>7
  <2>3. j = k
    BY <1>2, <2>1, <2>2 DEF CallsStep
  <2>4. RunsTo(list, j, s.next, Assistants) /\ RunsTo(list, j, t.next, Assistants) /\ j \in Nat
    <3>1. j \in from .. (n + 1)
      BY <2>1 DEF CallsStep, RunsTo
    <3>2. j \in Nat
      BY <1>1, <3>1
    <3> QED BY <2>1, <2>2, <2>3, <3>2 DEF CallsStep
  <2>5. s.next = t.next
    BY <1>1, <2>4, RunsToOne
  <2> QED BY <2>1, <2>2, <2>3, <2>5, Zenon DEF CallsStep
<1>8. /\ \A u : AloneStep(list, i, u) \/ TextStep(list, i, u) => list[i].type # "call"
      /\ \A u, j : CallsStep(list, i, j, u) => list[i].type = "call"
  BY DEF AloneStep, TextStep, CallsStep, IsAssistant
<1> QED BY <1>3, <1>4, <1>5, <1>6, <1>7, <1>8 DEF StepTaken

\* Items that take others along or go along with them.
Bound == {c \in Items : c.type = "call" \/ IsAssistant(c)}

\* A list is part of another one, and nothing after it goes along with it.
Carried(list, all, d) ==
  /\ d + Len(list) <= Len(all)
  /\ \A q \in 1 .. Len(list) : all[d + q] = list[q]
Closed(list, all, d) ==
  \/ d + Len(list) = Len(all)
  \/ list[Len(list)] \notin Bound
  \/ all[d + Len(list) + 1] \notin Bound

LEMMA RunCarried ==
  ASSUME NEW list, NEW all, NEW d \in Nat, Len(list) \in Nat, Len(all) \in Nat,
         Carried(list, all, d), Closed(list, all, d), NEW S, S \subseteq Bound,
         NEW from \in 1 .. (Len(list) + 1), NEW to, RunsTo(list, from, to, S),
         from <= Len(list) \/ list[Len(list)] \in Bound
  PROVE  /\ RunsTo(all, d + from, d + to, S)
         /\ to <= Len(list) \/ list[Len(list)] \in Bound
PROOF
<1> DEFINE n == Len(list)
           m == Len(all)
<1>1. /\ n \in Nat /\ m \in Nat /\ d + n <= m
      /\ \A q \in 1 .. n : all[d + q] = list[q]
  BY DEF Carried
<1>2. d + n = m \/ list[n] \notin Bound \/ all[d + n + 1] \notin Bound
  BY DEF Closed
<1>3. /\ to \in from .. (n + 1)
      /\ \A q \in from .. (to - 1) : list[q] \in S
      /\ to <= n => list[to] \notin S
  BY DEF RunsTo
<1>4. from <= n \/ list[n] \in Bound
  OBVIOUS
<1> HIDE DEF n, m
<1>5. to <= n \/ list[n] \in Bound
  <2>1. CASE to <= n
    BY <2>1
  <2>2. CASE ~(to <= n) /\ from <= n
    <3>1. n \in from .. (to - 1)
      BY <1>1, <1>3, <2>2
    <3> QED BY <1>3, <3>1
  <2> QED BY <1>4, <2>1, <2>2
<1>6. d + to \in (d + from) .. (m + 1)
  BY <1>1, <1>3
<1>7. ASSUME NEW q \in (d + from) .. (d + to - 1) PROVE all[q] \in S
  <2> DEFINE r == q - d
  <2>1. r \in from .. (to - 1) /\ r \in 1 .. n /\ q = d + r
    BY <1>1, <1>3
  <2> HIDE DEF r
  <2> QED BY <1>1, <1>3, <2>1
<1>8. ASSUME d + to <= m PROVE all[d + to] \notin S
  <2>1. CASE to <= n
    <3>1. to \in 1 .. n
      BY <1>3, <2>1
    <3> QED BY <1>1, <1>3, <2>1, <3>1
  <2>2. CASE ~(to <= n)
    <3>1. to = n + 1 /\ d + to = d + n + 1 /\ d + n # m
      BY <1>1, <1>3, <1>8, <2>2
    <3>2. all[d + n + 1] \notin Bound
      BY <1>2, <1>5, <2>2, <3>1
    <3> QED BY <3>1, <3>2
  <2> QED BY <2>1, <2>2
<1>9. RunsTo(all, d + from, d + to, S)
  BY <1>6, <1>7, <1>8 DEF RunsTo, m
<1> QED BY <1>5, <1>9 DEF n

LEMMA SpanCarried ==
  ASSUME NEW M, NEW list \in Seq(M), NEW all \in Seq(M), NEW d \in Nat,
         Carried(list, all, d), NEW from \in 1 .. (Len(list) + 1),
         NEW to \in from .. (Len(list) + 1)
  PROVE  Span(all, d + from, d + to) = Span(list, from, to)
PROOF
<1> DEFINE n == Len(list)
           m == Len(all)
           f == d + from
           t == d + to
           a == Span(all, f, t)
           b == Span(list, from, to)
<1>1. /\ n \in Nat /\ m \in Nat /\ d + n <= m
      /\ \A q \in 1 .. n : all[d + q] = list[q]
  BY DEF Carried
<1>2. f \in 1 .. (m + 1) /\ t \in f .. (m + 1) /\ t - f = to - from
  BY <1>1
<1>3. \A k \in 1 .. (to - from) : all[f + k - 1] = list[from + k - 1]
  <2> SUFFICES ASSUME NEW k \in 1 .. (to - from) PROVE all[f + k - 1] = list[from + k - 1]
    OBVIOUS
  <2> DEFINE q == from + k - 1
  <2>1. q \in 1 .. n /\ f + k - 1 = d + q
    BY <1>1
  <2> QED BY <1>1, <2>1
<1>4. to - from \in Nat
  BY <1>1
<1>5. SpanOf(b, M, list, from, to)
  BY SpanTypes
<1> HIDE DEF f, t
<1>6. SpanOf(a, M, all, f, t)
  BY <1>2, SpanTypes
<1> HIDE DEF a, b
<1>7. /\ a \in Seq(M) /\ Len(a) = to - from /\ \A k \in 1 .. (to - from) : a[k] = all[f + k - 1]
      /\ b \in Seq(M) /\ Len(b) = to - from /\ \A k \in 1 .. (to - from) : b[k] = list[from + k - 1]
  BY <1>2, <1>5, <1>6 DEF SpanOf
<1>8. \A k \in 1 .. (to - from) : a[k] = b[k]
  BY <1>3, <1>7
<1>9. a = b
  BY <1>4, <1>7, <1>8
<1> QED BY <1>9 DEF a, b, f, t

CarriedStep(step, d) == [message |-> step.message, next |-> d + step.next]

LEMMA StepCarried ==
  ASSUME NEW list \in Seq(Items), NEW all \in Seq(Items), NEW d \in Nat,
         Carried(list, all, d), Closed(list, all, d),
         NEW i \in 1 .. Len(list), NEW step, StepTaken(list, i, step)
  PROVE  StepTaken(all, d + i, CarriedStep(step, d))
PROOF
<1> DEFINE n == Len(list)
           m == Len(all)
           next == step.next
           item == list[i]
           c == CarriedStep(step, d)
<1>1. /\ n \in Nat /\ m \in Nat /\ i \in 1 .. n /\ i \in 1 .. (n + 1)
      /\ \A q \in 1 .. n : all[d + q] = list[q] /\ list[q] \in Items
  BY DEF Carried
<1>2. all[d + i] = item /\ item \in Items
  BY <1>1
<1>3. next \in (i + 1) .. (n + 1)
  BY StepTypes
<1>4. c.message = step.message /\ c.next = d + next /\ c = [message |-> step.message, next |-> d + next]
  BY DEF CarriedStep
<1>5. /\ \A x : MessageFollowers(x) \subseteq Bound /\ CallFollowers(x) \subseteq Bound
      /\ Assistants \subseteq Bound
      /\ MessageFollowers(item) \subseteq Bound /\ CallFollowers(item) \subseteq Bound
  BY DEF MessageFollowers, FollowsMessage, CallFollowers, FollowsCall, Assistants, Bound
<1>6. i + 1 <= n \/ i = n
  BY <1>1
<1>7. d + (i + 1) = (d + i) + 1 /\ i + 1 \in 1 .. (n + 1)
  BY <1>1
<1>8. item.type = "call" \/ IsAssistant(item) => i + 1 <= Len(list) \/ list[Len(list)] \in Bound
  BY <1>2, <1>6 DEF Bound
<1> HIDE DEF c
<1>9. CASE AloneStep(list, i, step)
  <2>1. /\ item.type # "call" /\ step.message = OwnMessages(item) /\ next = i + 1
        /\ IsAssistant(item) => RunsTo(list, i + 1, i + 1, MessageFollowers(item))
    BY <1>9 DEF AloneStep
  <2>2. c = [message |-> OwnMessages(item), next |-> (d + i) + 1]
    BY <1>4, <1>7, <2>1
  <2>3. ASSUME IsAssistant(item)
        PROVE  RunsTo(all, (d + i) + 1, (d + i) + 1, MessageFollowers(item))
    <3> DEFINE from == i + 1
               S == MessageFollowers(item)
    <3>1. /\ from \in 1 .. (Len(list) + 1) /\ (from <= Len(list) \/ list[Len(list)] \in Bound)
          /\ RunsTo(list, from, from, S) /\ S \subseteq Bound /\ d + from = (d + i) + 1
      BY <1>5, <1>7, <1>8, <2>1, <2>3
    <3> HIDE DEF from, S, item, n, m
    <3>2. RunsTo(all, d + from, d + from, S)
      BY <1>1, <3>1, RunCarried DEF n, m
    <3> QED BY <3>1, <3>2 DEF S
  <2> QED BY <1>2, <2>1, <2>2, <2>3 DEF StepTaken, AloneStep, c
<1>10. CASE TextStep(list, i, step)
  <2> DEFINE from == i + 1
             S == MessageFollowers(item)
             calls == Span(list, from, next)
  <2>1. /\ IsAssistant(item) /\ next # from
        /\ RunsTo(list, from, next, S)
        /\ step.message = <<TextWithCalls(item, calls)>>
    BY <1>10 DEF TextStep, Span
  <2>2. /\ from \in 1 .. (Len(list) + 1) /\ (from <= Len(list) \/ list[Len(list)] \in Bound)
        /\ S \subseteq Bound /\ d + from = (d + i) + 1 /\ next \in from .. (Len(list) + 1)
    BY <1>3, <1>5, <1>7, <1>8, <2>1
  <2> HIDE DEF from, S, item, n, m, next
  <2>3. RunsTo(all, d + from, d + next, S)
    BY <1>1, <2>1, <2>2, RunCarried DEF n, m
  <2>4. Span(all, d + from, d + next) = calls
    BY <2>2, SpanCarried
  <2>5. d + next # d + from
    BY <2>1, <2>2 DEF from
  <2>6. /\ IsAssistant(all[d + i]) /\ c.next # (d + i) + 1
        /\ RunsTo(all, (d + i) + 1, c.next, MessageFollowers(all[d + i]))
    BY <1>2, <1>4, <2>1, <2>2, <2>3, <2>5 DEF S
  <2>7. Span(all, (d + i) + 1, c.next) = calls
    BY <1>4, <2>2, <2>4
  <2>8. c = [message |-> <<TextWithCalls(all[d + i], Span(all, (d + i) + 1, c.next))>>,
             next |-> c.next]
    BY <1>2, <1>4, <2>1, <2>7, Zenon
  <2>9. TextStep(all, d + i, c)
    BY <2>6, <2>8, Zenon DEF TextStep, Span
  <2> QED BY <2>9 DEF StepTaken, c
<1>11. CASE \E j : CallsStep(list, i, j, step)
  <2>1. PICK j : CallsStep(list, i, j, step)
    BY <1>11
  <2> DEFINE from == i + 1
             S == CallFollowers(item)
             calls == Span(list, i, j)
             texts == Span(list, j, next)
  <2>2. /\ item.type = "call" /\ RunsTo(list, from, j, S) /\ RunsTo(list, j, next, Assistants)
        /\ step.message = <<CallsWithTexts(calls, texts)>>
    BY <2>1 DEF CallsStep, Span
  <2>3. j \in from .. (n + 1) /\ next \in j .. (n + 1)
    BY <2>2 DEF RunsTo
  <2>4. /\ from \in 1 .. (Len(list) + 1) /\ (from <= Len(list) \/ list[Len(list)] \in Bound)
        /\ S \subseteq Bound /\ d + from = (d + i) + 1
        /\ j \in 1 .. (Len(list) + 1) /\ j \in i .. (Len(list) + 1)
        /\ i \in 1 .. (Len(list) + 1) /\ next \in j .. (Len(list) + 1)
    BY <1>1, <1>5, <1>7, <1>8, <2>2, <2>3
  <2> HIDE DEF from, S, item, n, m, next
  <2>5. RunsTo(all, d + from, d + j, S) /\ (j <= Len(list) \/ list[Len(list)] \in Bound)
    BY <1>1, <2>2, <2>4, RunCarried DEF n, m
  <2>6. RunsTo(all, d + j, d + next, Assistants)
    BY <1>1, <1>5, <2>2, <2>4, <2>5, RunCarried DEF n, m
  <2>7. Span(all, d + i, d + j) = calls /\ Span(all, d + j, d + next) = texts
    BY <2>4, SpanCarried
  <2>8. /\ all[d + i].type = "call" /\ RunsTo(all, (d + i) + 1, d + j, CallFollowers(all[d + i]))
        /\ RunsTo(all, d + j, c.next, Assistants)
    BY <1>2, <1>4, <2>2, <2>4, <2>5, <2>6 DEF S
  <2>9. c = [message |-> <<CallsWithTexts(Span(all, d + i, d + j), Span(all, d + j, c.next))>>,
             next |-> c.next]
    BY <1>4, <2>2, <2>7, Zenon
  <2>10. CallsStep(all, d + i, d + j, c)
    BY <2>8, <2>9, Zenon DEF CallsStep, Span
  <2> QED BY <2>10 DEF StepTaken, c
<1> QED BY <1>9, <1>10, <1>11 DEF StepTaken

\* A list may be cut where no item before the cut takes one after it along.
Cut(a, b) ==
  a = <<>> \/ b = <<>> \/ a[Len(a)] \notin Bound \/ b[1] \notin Bound

ScansApart(ab, a, b) ==
  InputItemsToChatMessages(ab) = InputItemsToChatMessages(a) \o InputItemsToChatMessages(b)

JoinOf(ab, a, b, M) ==
  /\ ab \in Seq(M) /\ Len(ab) = Len(a) + Len(b)
  /\ Carried(b, ab, Len(a)) /\ Carried(a, ab, 0)
  /\ b # <<>> => ab[0 + Len(a) + 1] = b[1]

LEMMA JoinCarries ==
  ASSUME NEW M, NEW a \in Seq(M), NEW b \in Seq(M), NEW ab, ab = a \o b
  PROVE  JoinOf(ab, a, b, M)
PROOF
<1> DEFINE n == Len(a)
           m == Len(b)
<1>1. /\ ab \in Seq(M) /\ Len(ab) = Len(a) + Len(b)
      /\ \A k \in 1 .. Len(a) + Len(b) : ab[k] = IF k <= Len(a) THEN a[k] ELSE b[k - Len(a)]
  BY ConcatProperties, Zenon
<1>2. n \in Nat /\ m \in Nat /\ Len(ab) = n + m
  BY <1>1
<1>3. \A k \in 1 .. (n + m) : ab[k] = IF k <= n THEN a[k] ELSE b[k - n]
  BY <1>1
<1>4. m = 0 => b = <<>>
  OBVIOUS
<1> HIDE DEF n, m
<1>5. \A q \in 1 .. m : ab[n + q] = b[q]
  <2> SUFFICES ASSUME NEW q \in 1 .. m PROVE ab[n + q] = b[q]
    OBVIOUS
  <2> DEFINE k == n + q
  <2>1. k \in 1 .. (n + m) /\ ~(k <= n) /\ k - n = q
    BY <1>2
  <2> HIDE DEF k
  <2>2. ab[k] = b[q]
    BY <1>3, <2>1
  <2> QED BY <2>2 DEF k
<1>6. \A q \in 1 .. n : ab[0 + q] = a[q]
  <2> SUFFICES ASSUME NEW q \in 1 .. n PROVE ab[0 + q] = a[q]
    OBVIOUS
  <2>1. 0 + q = q /\ q \in 1 .. (n + m) /\ q <= n
    BY <1>2
  <2> QED BY <1>3, <2>1
<1>7. Carried(b, ab, n) /\ Carried(a, ab, 0)
  BY <1>2, <1>5, <1>6 DEF Carried, n, m
<1>8. ASSUME b # <<>> PROVE ab[0 + n + 1] = b[1]
  <2> DEFINE k == 0 + n + 1
  <2>1. k \in 1 .. (n + m) /\ ~(k <= n) /\ k - n = 1
    BY <1>2, <1>4, <1>8
  <2> HIDE DEF k
  <2>2. ab[k] = b[1]
    BY <1>3, <2>1
  <2> QED BY <2>2 DEF k
<1> QED BY <1>1, <1>7, <1>8, Zenon DEF n, JoinOf

LEMMA CutCarries ==
  ASSUME NEW a \in Seq(Items), NEW b \in Seq(Items), Cut(a, b), NEW ab, ab = a \o b
  PROVE  /\ ab \in Seq(Items) /\ Len(ab) = Len(a) + Len(b)
         /\ Carried(b, ab, Len(a)) /\ Closed(b, ab, Len(a))
         /\ a # <<>> => Carried(a, ab, 0) /\ Closed(a, ab, 0)
PROOF
<1>1. /\ ab \in Seq(Items) /\ Len(ab) = Len(a) + Len(b)
      /\ Carried(b, ab, Len(a)) /\ Carried(a, ab, 0)
      /\ b # <<>> => ab[0 + Len(a) + 1] = b[1]
  <2>1. JoinOf(ab, a, b, Items)
    BY JoinCarries
  <2> QED BY <2>1 DEF JoinOf
<1>2. Len(a) \in Nat /\ Len(<<>>) = 0
  OBVIOUS
<1>3. Closed(b, ab, Len(a))
  BY <1>1 DEF Closed
<1>4. ASSUME b = <<>> PROVE Closed(a, ab, 0)
  <2> DEFINE n == Len(a)
             m == Len(b)
  <2>1. n \in Nat /\ m = 0 /\ Len(ab) = n + m
    BY <1>1, <1>2, <1>4
  <2> HIDE DEF n, m
  <2>2. 0 + n = Len(ab)
    BY <2>1
  <2> QED BY <2>2 DEF Closed, n
<1>5. ASSUME a # <<>>, b # <<>> PROVE Closed(a, ab, 0)
  BY <1>1, <1>5 DEF Cut, Closed
<1> QED BY <1>1, <1>3, <1>4, <1>5, Zenon

LEMMA CleanCut ==
  ASSUME NEW a \in Seq(Items), NEW b \in Seq(Items), Cut(a, b), NEW ab, ab = a \o b
  PROVE  ScansApart(ab, a, b)
PROOF
<1> DEFINE n == Len(a)
           m == Len(b)
           R == ReplyMessages
<1>1. /\ ab \in Seq(Items) /\ Len(ab) = n + m
      /\ Carried(b, ab, n) /\ Closed(b, ab, n)
      /\ a # <<>> => Carried(a, ab, 0) /\ Closed(a, ab, 0)
  BY CutCarries
<1>2. n \in Nat /\ m \in Nat
  OBVIOUS
<1>3. PICK f : Scans(f, ab) /\ InputItemsToChatMessages(ab) = f[1]
  BY <1>1, ScanExists
<1>4. PICK g : Scans(g, a) /\ InputItemsToChatMessages(a) = g[1]
  BY ScanExists
<1>5. PICK h : Scans(h, b) /\ InputItemsToChatMessages(b) = h[1]
  BY ScanExists
<1>6. /\ f \in [1 .. ((n + m) + 1) -> Seq(R)] /\ f[(n + m) + 1] = <<>>
      /\ \A i \in 1 .. (n + m) : f[i] = StepOf(ab, i).message \o f[StepOf(ab, i).next]
  BY <1>1, <1>3 DEF Scans
<1>7. /\ g \in [1 .. (n + 1) -> Seq(R)] /\ g[n + 1] = <<>>
      /\ \A i \in 1 .. n : g[i] = StepOf(a, i).message \o g[StepOf(a, i).next]
  BY <1>4 DEF Scans
<1>8. /\ h \in [1 .. (m + 1) -> Seq(R)] /\ h[m + 1] = <<>>
      /\ \A i \in 1 .. m : h[i] = StepOf(b, i).message \o h[StepOf(b, i).next]
  BY <1>5 DEF Scans
<1> HIDE DEF R
<1> DEFINE T == {i \in 1 .. (m + 1) : f[n + i] = h[i]}
<1>9. m + 1 \in T
  <2>1. n + (m + 1) = (n + m) + 1 /\ m + 1 \in 1 .. (m + 1)
    BY <1>2
  <2> QED BY <1>6, <1>8, <2>1
<1>10. ASSUME NEW i \in 1 .. m, \A j \in (i + 1) .. (m + 1) : j \in T PROVE i \in T
  <2> DEFINE s == StepOf(b, i)
             t == StepOf(ab, n + i)
  <2>1. n + i \in 1 .. (n + m) /\ n + i \in 1 .. Len(ab) /\ i \in 1 .. (m + 1)
    BY <1>1, <1>2
  <2>2. StepTaken(b, i, s)
    BY StepsTaken DEF StepOf
  <2>3. StepTaken(ab, n + i, t)
    <3> DEFINE k == n + i
    <3>1. k \in 1 .. Len(ab)
      BY <2>1
    <3> HIDE DEF k
    <3>2. StepTaken(ab, k, StepOf(ab, k))
      BY <1>1, <3>1, StepsTaken DEF StepOf
    <3> QED BY <3>2 DEF k
  <2> HIDE DEF s, t
  <2>4. StepTaken(ab, n + i, CarriedStep(s, n))
    BY <1>1, <1>2, <2>2, StepCarried
  <2>5. t = CarriedStep(s, n)
    <3> DEFINE k == n + i
               c == CarriedStep(s, n)
    <3>1. k \in 1 .. Len(ab) /\ StepTaken(ab, k, c) /\ StepTaken(ab, k, t)
      BY <2>1, <2>3, <2>4
    <3> HIDE DEF k, c
    <3>2. t = c
      BY <1>1, <3>1, StepIsOne
    <3> QED BY <3>2 DEF c
  <2>6. t.message = s.message /\ t.next = n + s.next
    BY <2>5 DEF CarriedStep
  <2>7. s.next \in (i + 1) .. (m + 1)
    BY <2>2, StepTypes
  <2>8. f[n + s.next] = h[s.next]
    BY <1>10, <2>7
  <2>9. f[n + i] = t.message \o f[t.next]
    BY <1>6, <2>1 DEF t
  <2>10. h[i] = s.message \o h[s.next]
    BY <1>8 DEF s
  <2>11. f[n + i] = h[i]
    BY <2>6, <2>8, <2>9, <2>10
  <2> QED BY <2>1, <2>11
<1> HIDE DEF T
<1>11. \A i \in 1 .. m : (\A j \in (i + 1) .. (m + 1) : j \in T) => i \in T
  BY <1>10
<1>12. 1 \in T
  <2> HIDE DEF n, m
  <2>1. \A i \in 1 .. (m + 1) : i \in T
    BY <1>2, <1>9, <1>11, DownTo
  <2> QED BY <1>2, <2>1
<1>13. f[n + 1] = h[1] /\ h[1] \in Seq(R)
  <2>1. 1 \in 1 .. (m + 1)
    BY <1>2
  <2> QED BY <1>8, <1>12, <2>1 DEF T
<1> DEFINE U == {i \in 1 .. (n + 1) : f[i] = g[i] \o h[1]}
           rest == h[1]
<1> HIDE DEF rest
<1>14. n + 1 \in U
  <2>1. <<>> \o rest = rest
    BY <1>13 DEF rest
  <2>2. n + 1 \in 1 .. (n + 1)
    BY <1>2
  <2> QED BY <1>7, <1>13, <2>1, <2>2 DEF rest
<1>15. ASSUME NEW i \in 1 .. n, \A j \in (i + 1) .. (n + 1) : j \in U PROVE i \in U
  <2> DEFINE s == StepOf(a, i)
             t == StepOf(ab, i)
  <2>1. i \in 1 .. (n + m) /\ i \in 1 .. Len(ab) /\ i \in 1 .. (n + 1) /\ a # <<>>
    BY <1>1, <1>2
  <2>2. StepTaken(a, i, s)
    BY StepsTaken DEF StepOf
  <2>3. StepTaken(ab, i, t)
    BY <1>1, <2>1, StepsTaken DEF StepOf
  <2> HIDE DEF s, t
  <2>4. StepTaken(ab, 0 + i, CarriedStep(s, 0))
    BY <1>1, <1>2, <2>1, <2>2, StepCarried
  <2>5. 0 + i = i
    BY <1>2
  <2>6. t = CarriedStep(s, 0)
    <3> DEFINE c == CarriedStep(s, 0)
    <3>1. StepTaken(ab, i, c)
      BY <2>4, <2>5
    <3> HIDE DEF c
    <3>2. t = c
      BY <1>1, <2>1, <2>3, <3>1, StepIsOne
    <3> QED BY <3>2 DEF c
  <2>7. s.next \in (i + 1) .. (n + 1) /\ s.message \in Seq(R)
    BY <2>2, StepTypes DEF R
  <2>8. t.message = s.message /\ t.next = s.next
    <3>1. t.message = s.message /\ t.next = 0 + s.next
      BY <2>6 DEF CarriedStep
    <3>2. 0 + s.next = s.next
      BY <1>2, <2>7
    <3> QED BY <3>1, <3>2
  <2>9. f[s.next] = g[s.next] \o rest /\ g[s.next] \in Seq(R)
    BY <1>7, <1>15, <2>7 DEF rest
  <2>10. f[i] = s.message \o f[s.next]
    BY <1>6, <2>1, <2>8 DEF t
  <2>11. g[i] = s.message \o g[s.next]
    BY <1>7 DEF s
  <2>12. f[i] = g[i] \o rest
    <3> DEFINE x == s.message
               y == g[s.next]
               z == f[s.next]
    <3>1. x \in Seq(R) /\ y \in Seq(R) /\ rest \in Seq(R)
      BY <1>13, <2>7, <2>9 DEF rest
    <3>2. f[i] = x \o z /\ z = y \o rest /\ g[i] = x \o y
      BY <2>9, <2>10, <2>11
    <3> HIDE DEF x, y, z
    <3>3. SpansJoin(f[i], g[i], rest)
      BY <3>1, <3>2, ThreeJoin
    <3> QED BY <3>3 DEF SpansJoin
  <2> QED BY <2>1, <2>12 DEF rest
<1> HIDE DEF U
<1>16. \A i \in 1 .. n : (\A j \in (i + 1) .. (n + 1) : j \in U) => i \in U
  BY <1>15
<1>17. 1 \in U
  <2> HIDE DEF n, m
  <2>1. \A i \in 1 .. (n + 1) : i \in U
    BY <1>2, <1>14, <1>16, DownTo
  <2> QED BY <1>2, <2>1
<1>18. f[1] = g[1] \o h[1]
  BY <1>17 DEF U
<1> QED BY <1>3, <1>4, <1>5, <1>18, Zenon DEF ScansApart

\* A list that is one step.
LEMMA ScanOnce ==
  ASSUME NEW list \in Seq(Items), list # <<>>, NEW step, StepTaken(list, 1, step),
         step.next = Len(list) + 1
  PROVE  InputItemsToChatMessages(list) = step.message
PROOF
<1>1. PICK f : Scans(f, list) /\ InputItemsToChatMessages(list) = f[1]
  BY ScanExists
<1>2. 1 \in 1 .. Len(list)
  <2> DEFINE n == Len(list)
  <2>1. n \in Nat /\ n # 0
    OBVIOUS
  <2> HIDE DEF n
  <2>2. 1 \in 1 .. n
    BY <2>1
  <2> QED BY <2>2 DEF n
<1>3. StepTaken(list, 1, StepOf(list, 1))
  BY <1>2, StepsTaken DEF StepOf
<1>4. StepOf(list, 1) = step
  BY <1>2, <1>3, StepIsOne
<1>5. f[1] = step.message \o <<>>
  BY <1>1, <1>2, <1>4 DEF Scans
<1>6. step.message \in Seq(ReplyMessages)
  BY <1>2, StepTypes
<1> DEFINE R == ReplyMessages
           x == step.message
<1>7. x \in Seq(R) /\ f[1] = x \o <<>>
  BY <1>5, <1>6
<1> HIDE DEF R, x
<1>8. f[1] = x
  BY <1>7
<1> QED BY <1>1, <1>8 DEF x

LEMMA ScanNothing == InputItemsToChatMessages(<<>>) = <<>>
PROOF
<1> DEFINE list == <<>>
<1>1. list \in Seq(Items) /\ Len(list) + 1 = 1
  OBVIOUS
<1> HIDE DEF list
<1>2. PICK f : Scans(f, list) /\ InputItemsToChatMessages(list) = f[1]
  BY <1>1, ScanExists
<1>3. InputItemsToChatMessages(list) = <<>>
  BY <1>1, <1>2 DEF Scans
<1> QED BY <1>3 DEF list

LEMMA WholeSpan ==
  ASSUME NEW M, NEW list \in Seq(M)
  PROVE  Span(list, 1, Len(list) + 1) = list
PROOF
<1> DEFINE n == Len(list)
           to == n + 1
           span == Span(list, 1, to)
<1>1. n \in Nat /\ 1 \in 1 .. (Len(list) + 1) /\ to \in 1 .. (Len(list) + 1) /\ to - 1 = n
  OBVIOUS
<1> HIDE DEF to
<1>2. SpanOf(span, M, list, 1, to)
  BY <1>1, SpanTypes
<1> HIDE DEF span
<1>3. span \in Seq(M) /\ Len(span) = n /\ \A k \in 1 .. n : span[k] = list[1 + k - 1]
  BY <1>1, <1>2 DEF SpanOf
<1>4. \A k \in 1 .. n : span[k] = list[k]
  <2> SUFFICES ASSUME NEW k \in 1 .. n PROVE span[k] = list[k]
    OBVIOUS
  <2>1. 1 + k - 1 = k
    BY <1>1
  <2> QED BY <1>3, <2>1
<1>5. span = list
  BY <1>3, <1>4
<1> QED BY <1>5 DEF span, to

SpansAre(ab, a, b) ==
  Span(ab, 1, Len(a) + 1) = a /\ Span(ab, Len(a) + 1, Len(ab) + 1) = b

LEMMA SpansOfTwo ==
  ASSUME NEW M, NEW a \in Seq(M), NEW b \in Seq(M), NEW ab, ab = a \o b
  PROVE  SpansAre(ab, a, b)
PROOF
<1> DEFINE n == Len(a)
           m == Len(b)
<1>1. /\ ab \in Seq(M) /\ Len(ab) = Len(a) + Len(b)
      /\ Carried(b, ab, Len(a)) /\ Carried(a, ab, 0)
  <2>1. JoinOf(ab, a, b, M)
    BY JoinCarries
  <2> QED BY <2>1 DEF JoinOf
<1>2. n \in Nat /\ m \in Nat /\ Len(ab) = n + m
  BY <1>1
<1>3. Span(ab, 0 + 1, 0 + (n + 1)) = Span(a, 1, n + 1)
  <2> DEFINE from == 1
             to == n + 1
             d == 0
  <2>1. from \in 1 .. (Len(a) + 1) /\ to \in from .. (Len(a) + 1) /\ d \in Nat /\ Carried(a, ab, d)
    BY <1>1, <1>2
  <2> HIDE DEF from, to, d
  <2>2. Span(ab, d + from, d + to) = Span(a, from, to)
    BY <1>1, <2>1, SpanCarried
  <2> QED BY <2>2 DEF from, to, d
<1>4. Span(ab, n + 1, n + (m + 1)) = Span(b, 1, m + 1)
  <2> DEFINE from == 1
             to == m + 1
  <2>1. from \in 1 .. (Len(b) + 1) /\ to \in from .. (Len(b) + 1) /\ n \in Nat /\ Carried(b, ab, n)
    BY <1>1, <1>2
  <2> HIDE DEF from, to, n
  <2>2. Span(ab, n + from, n + to) = Span(b, from, to)
    BY <1>1, <2>1, SpanCarried
  <2> QED BY <2>2 DEF from, to
<1>5. 0 + 1 = 1 /\ 0 + (n + 1) = n + 1 /\ n + (m + 1) = Len(ab) + 1
  BY <1>2
<1>6. Span(a, 1, n + 1) = a /\ Span(b, 1, m + 1) = b
  BY WholeSpan
<1> QED BY <1>3, <1>4, <1>5, <1>6 DEF SpansAre

\* The scan of one item, of a text with its calls, of calls with their texts.
LEMMA ScanOfOne ==
  ASSUME NEW item \in Items, item.type # "call", NEW list, list = <<item>>
  PROVE  InputItemsToChatMessages(list) = OwnMessages(item)
PROOF
<1>1. list \in Seq(Items) /\ list # <<>> /\ Len(list) = 1 /\ list[1] = item
  OBVIOUS
<1> DEFINE step == [message |-> OwnMessages(item), next |-> 2]
<1>2. step.message = OwnMessages(item) /\ step.next = Len(list) + 1
  BY <1>1
<1>3. \A S : RunsTo(list, 2, 2, S)
  BY <1>1 DEF RunsTo
<1>4. AloneStep(list, 1, step)
  BY <1>1, <1>3 DEF AloneStep
<1>5. StepTaken(list, 1, step)
  BY <1>4 DEF StepTaken
<1> HIDE DEF step
<1> QED BY <1>1, <1>2, <1>5, ScanOnce

LEMMA ScanOfText ==
  ASSUME NEW item \in Items, IsAssistant(item), NEW calls \in Seq(Items), calls # <<>>,
         \A k \in 1 .. Len(calls) : FollowsMessage(item, calls[k]),
         NEW list, list = <<item>> \o calls
  PROVE  InputItemsToChatMessages(list) = <<TextWithCalls(item, calls)>>
PROOF
<1> DEFINE one == <<item>>
           n == Len(calls)
           next == Len(list) + 1
           step == [message |-> <<TextWithCalls(item, calls)>>, next |-> next]
<1>1. one \in Seq(Items) /\ Len(one) = 1 /\ one[1] = item /\ list = one \o calls
  OBVIOUS
<1> HIDE DEF one
<1>2. /\ list \in Seq(Items) /\ Len(list) = Len(one) + Len(calls)
      /\ Carried(calls, list, Len(one)) /\ Carried(one, list, 0)
  <2>1. JoinOf(list, one, calls, Items)
    BY <1>1, JoinCarries
  <2> QED BY <2>1 DEF JoinOf
<1>3. Span(list, Len(one) + 1, Len(list) + 1) = calls
  <2>1. SpansAre(list, one, calls)
    BY <1>1, SpansOfTwo
  <2> QED BY <2>1 DEF SpansAre
<1>4. n \in Nat /\ n # 0 /\ Len(list) = 1 + n /\ next = 2 + n
  BY <1>1, <1>2
<1>5. list[1] = item
  <2>1. list[0 + 1] = one[1]
    BY <1>1, <1>2 DEF Carried
  <2> QED BY <1>1, <2>1
<1>6. \A q \in 1 .. n : list[1 + q] = calls[q]
  BY <1>1, <1>2 DEF Carried
<1>7. Span(list, 2, next) = calls
  BY <1>1, <1>3
<1>8. RunsTo(list, 2, next, MessageFollowers(item))
  <2>1. ASSUME NEW q \in 2 .. (next - 1) PROVE list[q] \in MessageFollowers(item)
    <3> DEFINE r == q - 1
    <3>1. r \in 1 .. n /\ 1 + r = q
      BY <1>4
    <3> HIDE DEF r
    <3>2. list[q] = calls[r] /\ calls[r] \in Items
      BY <1>6, <3>1 DEF n
    <3>3. FollowsMessage(item, calls[r])
      BY <3>1 DEF n
    <3> QED BY <3>2, <3>3 DEF MessageFollowers
  <2>2. next \in 2 .. (Len(list) + 1) /\ ~(next <= Len(list))
    BY <1>4
  <2> QED BY <2>1, <2>2 DEF RunsTo
<1>9. next # 1 + 1 /\ 1 + 1 = 2 /\ list # <<>>
  <2>1. next # 2
    BY <1>4
  <2>2. list # <<>>
    BY <1>4
  <2> QED BY <2>1, <2>2
<1> HIDE DEF next, n
<1>10. step.next = next /\ step.message = <<TextWithCalls(item, calls)>>
  OBVIOUS
<1>11. TextStep(list, 1, step)
  <2>1. step = [message |-> <<TextWithCalls(list[1], Span(list, 1 + 1, step.next))>>,
                next |-> step.next]
    BY <1>5, <1>7, <1>9, <1>10
  <2> QED BY <1>5, <1>8, <1>9, <1>10, <2>1, Zenon DEF TextStep, Span
<1>12. StepTaken(list, 1, step)
  BY <1>11 DEF StepTaken
<1> HIDE DEF step
<1> QED BY <1>2, <1>9, <1>10, <1>12, ScanOnce DEF next

LEMMA ScanOfCalls ==
  ASSUME NEW calls \in Seq(Items), calls # <<>>,
         \A k \in 1 .. Len(calls) : FollowsCall(calls[1], calls[k]),
         NEW texts \in Seq(Items), \A k \in 1 .. Len(texts) : IsAssistant(texts[k]),
         NEW list, list = calls \o texts
  PROVE  InputItemsToChatMessages(list) = <<CallsWithTexts(calls, texts)>>
PROOF
<1> DEFINE n == Len(calls)
           m == Len(texts)
           j == n + 1
           next == Len(list) + 1
           item == calls[1]
           step == [message |-> <<CallsWithTexts(calls, texts)>>, next |-> next]
<1>1. /\ list \in Seq(Items) /\ Len(list) = Len(calls) + Len(texts)
      /\ Carried(texts, list, Len(calls)) /\ Carried(calls, list, 0)
  <2>1. JoinOf(list, calls, texts, Items)
    BY JoinCarries
  <2> QED BY <2>1 DEF JoinOf
<1>2. Span(list, 1, j) = calls /\ Span(list, j, next) = texts
  <2>1. SpansAre(list, calls, texts)
    BY SpansOfTwo
  <2> QED BY <2>1 DEF SpansAre
<1>3. n \in Nat /\ n # 0 /\ m \in Nat /\ Len(list) = n + m /\ next = (n + m) + 1
  BY <1>1
<1>4. \A q \in 1 .. n : list[q] = calls[q]
  <2> SUFFICES ASSUME NEW q \in 1 .. n PROVE list[q] = calls[q]
    OBVIOUS
  <2>1. 0 + q = q
    BY <1>3
  <2> QED BY <1>1, <2>1 DEF Carried
<1>5. \A q \in 1 .. m : list[n + q] = texts[q]
  BY <1>1 DEF Carried
<1>6. /\ \A q \in 1 .. n : calls[q] \in Items /\ FollowsCall(item, calls[q])
      /\ \A q \in 1 .. m : texts[q] \in Items /\ IsAssistant(texts[q])
  OBVIOUS
<1>7. item.type = "call"
  <2>1. 1 \in 1 .. n
    BY <1>3
  <2>2. FollowsCall(item, calls[1])
    BY <1>6, <2>1
  <2> QED BY <2>2 DEF FollowsCall
<1> HIDE DEF n, m, item
<1>8. list[1] = item /\ list # <<>>
  <2>1. 1 \in 1 .. n
    BY <1>3
  <2>2. Len(list) # 0
    BY <1>3
  <2> QED BY <1>4, <2>1, <2>2 DEF item
<1>9. \A q \in (1 + 1) .. (j - 1) : list[q] \in CallFollowers(item)
  <2> SUFFICES ASSUME NEW q \in (1 + 1) .. (j - 1) PROVE list[q] \in CallFollowers(item)
    OBVIOUS
  <2>1. q \in 1 .. n
    BY <1>3
  <2> QED BY <1>4, <1>6, <2>1 DEF CallFollowers
<1>10. ASSUME NEW q \in j .. (next - 1) PROVE list[q] \in Assistants
  <2> DEFINE r == q - n
  <2>1. r \in 1 .. m /\ n + r = q
    BY <1>3
  <2> HIDE DEF r
  <2>2. list[q] = texts[r]
    BY <1>5, <2>1
  <2> QED BY <1>6, <2>1, <2>2 DEF Assistants
<1>11. j <= Len(list) => list[j] \notin CallFollowers(item)
  <2> SUFFICES ASSUME j <= Len(list) PROVE list[j] \notin CallFollowers(item)
    OBVIOUS
  <2>1. j \in j .. (next - 1)
    BY <1>3
  <2>2. IsAssistant(list[j])
    BY <1>10, <2>1 DEF Assistants
  <2> QED BY <2>2 DEF CallFollowers, FollowsCall, IsAssistant
<1>12. RunsTo(list, 1 + 1, j, CallFollowers(item))
  <2>1. j \in (1 + 1) .. (Len(list) + 1)
    BY <1>3
  <2> QED BY <1>9, <1>11, <2>1 DEF RunsTo
<1>13. RunsTo(list, j, next, Assistants)
  <2>1. next \in j .. (Len(list) + 1) /\ ~(next <= Len(list))
    BY <1>3
  <2> QED BY <1>10, <2>1 DEF RunsTo
<1> HIDE DEF next, j
<1>14. step.next = next /\ step.message = <<CallsWithTexts(calls, texts)>>
  OBVIOUS
<1>15. CallsStep(list, 1, j, step)
  <2>1. step = [message |-> <<CallsWithTexts(Span(list, 1, j), Span(list, j, step.next))>>,
                next |-> step.next]
    BY <1>2, <1>14
  <2> QED BY <1>7, <1>8, <1>12, <1>13, <1>14, <2>1, Zenon DEF CallsStep, Span
<1>16. StepTaken(list, 1, step)
  BY <1>15 DEF StepTaken
<1> HIDE DEF step
<1> QED BY <1>1, <1>8, <1>14, <1>16, ScanOnce DEF next

------------------------------------------------------------------------------
(* The items of a turn are its message again.                              *)

LEMMA CallsOfTurn ==
  ASSUME RebuildTypeOK, NEW turn \in Turns
  PROVE  LET calls == KeptCalls(turn)
         IN /\ calls \in Seq(Items) /\ calls \in Seq(OnlyCalls(KeptItems))
            /\ Len(calls) = turn.calls
            /\ CallRefsOf(calls) = [k \in 1 .. turn.calls |-> CallRef(Now, k, "call_id")]
            /\ \A k \in 1 .. Len(calls) :
                 /\ IsTheCall(calls[k], turn, k) /\ calls[k] \in Items
                 /\ FollowsCall(calls[1], calls[k])
PROOF
<1> DEFINE calls == KeptCalls(turn)
           n == turn.calls
<1>1. /\ calls \in Seq(Loud(turn)) /\ Len(calls) = n
      /\ \A k \in 1 .. n : IsTheCall(calls[k], turn, k)
  BY PartsOfTurn
<1>2. n \in Nat /\ Now # Absent
  BY TurnFields, NowIsNew
<1>3. KeptItems \subseteq Items
  BY DEF KeptItems, StoredItems, ResentItems
<1>4. Loud(turn) \subseteq OnlyCalls(KeptItems) /\ Loud(turn) \subseteq Items
  BY <1>3 DEF Loud, OnlyCalls, IsTheCall
<1> HIDE DEF calls, n
<1>5. calls \in Seq(Items) /\ calls \in Seq(OnlyCalls(KeptItems))
  BY <1>1, <1>4, SeqWithin
<1>6. \A k \in 1 .. n : calls[k].call = CallRef(Now, k, "call_id")
  BY <1>1 DEF IsTheCall
<1>7. CallRefsOf(calls) = [k \in 1 .. n |-> CallRef(Now, k, "call_id")]
  BY <1>1, <1>6 DEF CallRefsOf
<1>8. ASSUME NEW k \in 1 .. n PROVE calls[k] \in Items /\ FollowsCall(calls[1], calls[k])
  <2>1. 1 \in 1 .. n
    BY <1>2
  <2>2. IsTheCall(calls[1], turn, 1) /\ IsTheCall(calls[k], turn, k)
    BY <1>1, <2>1
  <2>3. /\ calls[k].type = "call" /\ calls[k] \in KeptItems
        /\ calls[1].turn = calls[k].turn
    BY <2>2 DEF IsTheCall
  <2> QED BY <1>3, <2>3 DEF FollowsCall, SameKimiTurn
<1> QED BY <1>1, <1>5, <1>7, <1>8 DEF calls, n

\* The reasoning of a turn, as far as the items can tell.
TurnReasoning(turn) == IF asStored /\ turn.reasoning THEN <<Now>> ELSE <<>>

LEMMA ReasoningOfTurn ==
  ASSUME RebuildTypeOK, NEW turn \in Turns, turn.calls # 0,
         NEW reasoning, reasoning = <<>> \/ reasoning = TurnReasoning(turn)
  PROVE  ReasoningOf(KeptCalls(turn), reasoning) = TurnReasoning(turn)
PROOF
<1> DEFINE calls == KeptCalls(turn)
           n == Len(calls)
           own == Gathered(calls, LAMBDA call : Given(call.reasoning))
           F == reasoningIn
           now == Now
           there == asStored /\ turn.reasoning
<1>1. /\ calls \in Seq(Items) /\ n = turn.calls
      /\ \A k \in 1 .. n : IsTheCall(calls[k], turn, k) /\ calls[k] \in Items
  BY CallsOfTurn
<1>2. n \in Nat /\ n # 0 /\ now \in Nat /\ now # Absent
  BY <1>1, TurnFields, NowIsNew
<1>3. own = Gather(F, calls)
  BY <1>1, ItemsAreRead
<1>4. Gathers(F, Items, Nat) /\ \A c \in Items : F[c] = Given(c.reasoning)
  BY ReadItems DEF reasoningIn
<1>5. \A k \in 1 .. n : calls[k].reasoning = IF there /\ k = 1 THEN now ELSE Absent
  BY <1>1 DEF IsTheCall
<1>6. TurnReasoning(turn) = IF there THEN <<now>> ELSE <<>>
  BY DEF TurnReasoning
<1>7. ReasoningOf(calls, reasoning) =
        IF reasoning # <<>> \/ own = <<>> THEN reasoning ELSE <<own[1]>>
  BY DEF ReasoningOf
<1> DEFINE S == {c \in Items : F[c] = <<>>}
<1> HIDE DEF calls, own, F, now, there
<1>8. ASSUME NEW k \in 1 .. n, ~there \/ k # 1 PROVE calls[k] \in S
  <2>1. calls[k].reasoning = Absent
    BY <1>5, <1>8
  <2> QED BY <1>1, <1>4, <2>1 DEF Given
<1>9. CASE ~there
  <2>1. calls \in Seq(S)
    BY <1>1, <1>8, <1>9 DEF n
  <2>2. S \subseteq Items /\ \A m \in S : F[m] = <<>>
    OBVIOUS
  <2> HIDE DEF S
  <2>3. Gather(F, calls) = <<>>
    BY <1>4, <2>1, <2>2, GatherNothing
  <2> QED BY <1>3, <1>6, <1>7, <1>9, <2>3 DEF calls
<1>10. CASE there
  <2> DEFINE two == 1 + 1
             end == n + 1
             one == Span(calls, 1, two)
             rest == Span(calls, two, end)
             whole == Span(calls, 1, end)
  <2>1. /\ 1 \in 1 .. (Len(calls) + 1) /\ two \in 1 .. (Len(calls) + 1)
        /\ end \in two .. (Len(calls) + 1) /\ 1 \in 1 .. Len(calls)
        /\ \A q \in two .. (end - 1) : q \in 1 .. n /\ q # 1
    BY <1>2 DEF n
  <2>2. \A q \in two .. (end - 1) : calls[q] \in S
    BY <1>8, <2>1
  <2>3. whole = calls
    BY <1>1, WholeSpan DEF n
  <2>4. one = <<calls[1]>>
    BY <1>1, <2>1, SpanOfOne
  <2> HIDE DEF two, end
  <2>5. SpansJoin(whole, one, rest)
    BY <1>1, <2>1, SpanJoins
  <2>6. rest \in Seq(S)
    BY <1>1, <2>1, <2>2, SpanWithin
  <2>7. S \subseteq Items /\ \A m \in S : F[m] = <<>>
    OBVIOUS
  <2> HIDE DEF one, rest, whole, S
  <2>8. Gather(F, rest) = <<>>
    BY <1>4, <2>6, <2>7, GatherNothing
  <2>9. calls[1] \in Items /\ calls[1].reasoning = now
    BY <1>1, <1>5, <1>10, <2>1 DEF n
  <2>10. Gather(F, one) = <<now>>
    <3>1. Gather(F, one) = F[calls[1]]
      BY <1>4, <2>4, <2>9, GatherOne
    <3> QED BY <1>2, <1>4, <2>9, <3>1 DEF Given
  <2>11. rest \in Seq(Items) /\ one \in Seq(Items)
    BY <2>4, <2>6, <2>7, <2>9, SeqWithin
  <2>12. calls = one \o rest
    BY <2>3, <2>5 DEF SpansJoin
  <2>13. GathersBoth(F, calls, one, rest)
    BY <1>1, <1>4, <2>11, <2>12, GatherConcat
  <2>14. own = <<now>> \o <<>>
    BY <1>3, <2>8, <2>10, <2>13 DEF GathersBoth
  <2>15. own = <<now>>
    BY <2>14
  <2> QED BY <1>6, <1>7, <1>10, <2>15 DEF calls
<1> QED BY <1>9, <1>10

\* A message of the upstream with the calls of a turn.
SentMessage(turn, content, reasoning) ==
  ChatMessage("assistant", content, reasoning,
              [k \in 1 .. turn.calls |-> CallRef(Now, k, "call_id")], NoCall)

TurnContent(turn) == IF turn.text /\ turn.order # "thought" THEN <<Now>> ELSE <<>>

LEMMA MessageOfMeans ==
  ASSUME RebuildTypeOK, NEW turn \in Turns
  PROVE  /\ ~turn.text /\ turn.calls = 0 => MessageOf(turn) = <<>>
         /\ (turn.text \/ turn.calls # 0) /\ turn.order # "thought" =>
              MessageOf(turn) = <<SentMessage(turn, TurnContent(turn), TurnReasoning(turn))>>
         /\ turn.order = "thought" => MessageOf(turn) = <<SentMessage(turn, <<>>, <<Now>>)>>
PROOF
<1>1. turn.order = "thought" => turn.text
  BY TurnFields
<1> QED BY <1>1 DEF MessageOf, SentMessage, TurnContent, TurnReasoning

\* What the text of a turn says.
LEMMA TextOfTurn ==
  ASSUME RebuildTypeOK, NEW turn \in Turns
  PROVE  LET x == KeptText(turn)
         IN /\ x \in Items /\ IsAssistant(x) /\ x.type = "message" /\ Given(x.text) = <<Now>>
            /\ Given(x.reasoning) = TurnReasoning(turn)
            /\ x.thought = (turn.order = "thought")
            /\ x.turn = IF asStored /\ turn.calls > 0 THEN Now ELSE Absent
PROOF
<1> DEFINE x == KeptText(turn)
<1>1. IsTheText(x, turn)
  BY TextKept DEF KeptText
<1> HIDE DEF x
<1>2. /\ x \in KeptItems /\ x.type = "message" /\ x.role = "assistant" /\ x.text = Now
      /\ x.thought = (turn.order = "thought")
      /\ x.turn = IF asStored /\ turn.calls > 0 THEN Now ELSE Absent
      /\ x.reasoning = IF asStored /\ turn.reasoning THEN Now ELSE Absent
  BY <1>1 DEF IsTheText
<1>3. Now # Absent
  BY NowIsNew
<1>4. x \in Items
  BY <1>2 DEF KeptItems, StoredItems, ResentItems
<1>5. Given(x.text) = <<Now>> /\ Given(x.reasoning) = TurnReasoning(turn) /\ IsAssistant(x)
  BY <1>2, <1>3 DEF Given, TurnReasoning, IsAssistant
<1> QED BY <1>2, <1>4, <1>5 DEF x

LEMMA SentMessageMeans ==
  ASSUME RebuildTypeOK, NEW turn \in Turns, NEW content, NEW before,
         before = <<>> \/ before = TurnReasoning(turn), turn.calls # 0
  PROVE  AssistantToolCallMessage(KeptCalls(turn), content, before)
           = SentMessage(turn, content, TurnReasoning(turn))
PROOF
<1> DEFINE calls == KeptCalls(turn)
<1>1. ReasoningOf(calls, before) = TurnReasoning(turn)
  BY ReasoningOfTurn
<1>2. CallRefsOf(calls) = [k \in 1 .. turn.calls |-> CallRef(Now, k, "call_id")]
  BY CallsOfTurn
<1> HIDE DEF calls
<1>3. AssistantToolCallMessage(calls, content, before)
        = ChatMessage("assistant", content, ReasoningOf(calls, before), CallRefsOf(calls), NoCall)
  BY DEF AssistantToolCallMessage, CallRefsOf
<1> QED BY <1>1, <1>2, <1>3, Zenon DEF SentMessage, calls

LEMMA ScanOfTextItem ==
  ASSUME RebuildTypeOK, NEW turn \in Turns, turn.text, turn.calls = 0,
         NEW list, list = <<KeptText(turn)>>
  PROVE  InputItemsToChatMessages(list)
           = <<SentMessage(turn, <<Now>>, TurnReasoning(turn))>>
PROOF
<1> DEFINE x == KeptText(turn)
           refs == [k \in 1 .. turn.calls |-> CallRef(Now, k, "call_id")]
<1>1. /\ x \in Items /\ IsAssistant(x) /\ x.type = "message" /\ Given(x.text) = <<Now>>
      /\ Given(x.reasoning) = TurnReasoning(turn)
  BY TextOfTurn
<1> HIDE DEF x
<1>2. InputItemsToChatMessages(list) = OwnMessages(x)
  BY <1>1, ScanOfOne DEF x
<1>3. x.role = "assistant"
  BY <1>1 DEF IsAssistant
<1>4. OwnMessages(x) = <<ChatMessage("assistant", Given(x.text), Given(x.reasoning), <<>>, NoCall)>>
  BY <1>1, <1>3 DEF OwnMessages, ResponseMessageToChatMessage
<1>5. refs = <<>>
  OBVIOUS
<1> HIDE DEF refs
<1>6. SentMessage(turn, <<Now>>, TurnReasoning(turn))
        = ChatMessage("assistant", <<Now>>, TurnReasoning(turn), <<>>, NoCall)
  BY <1>5, Zenon DEF SentMessage, refs
<1> QED BY <1>1, <1>2, <1>4, <1>6

LEMMA ScanOfBoth ==
  ASSUME RebuildTypeOK, NEW turn \in Turns, turn.text, turn.calls # 0,
         NEW list, list = <<KeptText(turn)>> \o KeptCalls(turn)
  PROVE  InputItemsToChatMessages(list)
           = <<SentMessage(turn, <<Now>>, TurnReasoning(turn))>>
PROOF
<1> DEFINE x == KeptText(turn)
           calls == KeptCalls(turn)
<1>1. /\ x \in Items /\ IsAssistant(x) /\ Given(x.text) = <<Now>>
      /\ Given(x.reasoning) = TurnReasoning(turn)
      /\ x.turn = IF asStored /\ turn.calls > 0 THEN Now ELSE Absent
  BY TextOfTurn
<1>2. /\ calls \in Seq(Items) /\ Len(calls) = turn.calls
      /\ \A k \in 1 .. Len(calls) : IsTheCall(calls[k], turn, k)
  BY CallsOfTurn
<1>3. turn.calls \in Nat /\ turn.calls > 0 /\ Now # Absent
  <2>1. turn.calls \in Nat
    BY TurnFields
  <2> QED BY <2>1, NowIsNew
<1>4. AssistantToolCallMessage(calls, <<Now>>, TurnReasoning(turn))
        = SentMessage(turn, <<Now>>, TurnReasoning(turn))
  <2> DEFINE content == <<Now>>
             before == TurnReasoning(turn)
  <2> HIDE DEF content
  <2>1. AssistantToolCallMessage(calls, content, before) = SentMessage(turn, content, before)
    BY SentMessageMeans
  <2> QED BY <2>1 DEF content
<1>5. list = <<x>> \o calls
  OBVIOUS
<1> HIDE DEF x, calls
<1>6. \A k \in 1 .. Len(calls) : FollowsMessage(x, calls[k])
  <2> SUFFICES ASSUME NEW k \in 1 .. Len(calls) PROVE FollowsMessage(x, calls[k])
    OBVIOUS
  <2>1. IsTheCall(calls[k], turn, k)
    BY <1>2
  <2>2. calls[k].type = "call" /\ calls[k].turn = IF asStored THEN Now ELSE Absent
    BY <2>1 DEF IsTheCall
  <2> QED BY <1>1, <1>3, <2>2 DEF FollowsMessage, SameKimiTurn
<1>7. calls # <<>>
  BY <1>2, <1>3
<1>8. InputItemsToChatMessages(list) = <<TextWithCalls(x, calls)>>
  BY <1>1, <1>2, <1>5, <1>6, <1>7, ScanOfText
<1> QED BY <1>1, <1>4, <1>8 DEF TextWithCalls

LEMMA ScanOfCallItems ==
  ASSUME RebuildTypeOK, NEW turn \in Turns, turn.calls # 0,
         NEW list, list = KeptCalls(turn)
  PROVE  InputItemsToChatMessages(list) = <<SentMessage(turn, <<>>, TurnReasoning(turn))>>
PROOF
<1> DEFINE calls == KeptCalls(turn)
           none == <<>>
<1>1. /\ calls \in Seq(Items) /\ Len(calls) = turn.calls
      /\ \A k \in 1 .. Len(calls) : FollowsCall(calls[1], calls[k])
  BY CallsOfTurn
<1>2. turn.calls \in Nat
  BY TurnFields
<1>3. none \in Seq(Items) /\ Len(none) = 0
  OBVIOUS
<1>4. list = calls \o none /\ calls # <<>>
  BY <1>1, <1>2
<1>5. Gather(contentIn, none) = <<>> /\ Gather(thoughtIn, none) = <<>>
  <2>1. none \in Seq({}) /\ {} \subseteq Items
    OBVIOUS
  <2> HIDE DEF none
  <2> QED BY <2>1, ReadItems, GatherNothing
<1>6. ContentAfter(none) = <<>> /\ ReasoningAfter(none) = <<>>
  <2> HIDE DEF none
  <2> QED BY <1>3, <1>5, ItemsAreRead
<1> DEFINE before == <<>>
<1>7. AssistantToolCallMessage(calls, before, before)
        = SentMessage(turn, before, TurnReasoning(turn))
  <2>1. before = <<>>
    OBVIOUS
  <2> HIDE DEF before
  <2> QED BY <2>1, SentMessageMeans
<1> HIDE DEF calls, none
<1>8. \A k \in 1 .. Len(none) : IsAssistant(none[k])
  BY <1>3
<1>9. InputItemsToChatMessages(list) = <<CallsWithTexts(calls, none)>>
  BY <1>1, <1>3, <1>4, <1>8, ScanOfCalls
<1> QED BY <1>6, <1>7, <1>9 DEF CallsWithTexts

LEMMA ScanOfCallsFirst ==
  ASSUME RebuildTypeOK, NEW turn \in Turns, turn.order \in {"calls_first", "thought"},
         NEW list, list = KeptCalls(turn) \o <<KeptText(turn)>>
  PROVE  InputItemsToChatMessages(list) = MessageOf(turn)
PROOF
<1> DEFINE calls == KeptCalls(turn)
           x == KeptText(turn)
           one == <<x>>
<1>1. ~asStored /\ turn.text /\ turn.calls \in Nat /\ turn.calls # 0
  BY TurnFields
<1>2. /\ x \in Items /\ IsAssistant(x) /\ Given(x.text) = <<Now>>
      /\ Given(x.reasoning) = TurnReasoning(turn)
      /\ x.thought = (turn.order = "thought")
  BY TextOfTurn
<1>3. /\ calls \in Seq(Items) /\ Len(calls) = turn.calls
      /\ calls \in Seq(OnlyCalls(KeptItems))
      /\ CallRefsOf(calls) = [k \in 1 .. turn.calls |-> CallRef(Now, k, "call_id")]
      /\ \A k \in 1 .. Len(calls) : FollowsCall(calls[1], calls[k])
  BY CallsOfTurn
<1>4. calls # <<>> /\ list = calls \o one
  BY <1>1, <1>3
<1>5. TurnReasoning(turn) = <<>>
  BY <1>1 DEF TurnReasoning
<1> HIDE DEF calls, x
<1>6. one \in Seq(Items) /\ one = <<x>> /\ \A k \in 1 .. Len(one) : IsAssistant(one[k])
  BY <1>2
<1> HIDE DEF one
<1>7. InputItemsToChatMessages(list) = <<CallsWithTexts(calls, one)>>
  BY <1>3, <1>4, <1>6, ScanOfCalls
<1>8. Gather(contentIn, one) = contentIn[x] /\ Gather(thoughtIn, one) = thoughtIn[x]
  BY <1>2, <1>6, ReadItems, GatherOne
<1>9. ContentAfter(one) = Gather(contentIn, one) /\ ReasoningAfter(one) = Gather(thoughtIn, one)
  BY <1>6, ItemsAreRead
<1>10. /\ contentIn[x] = IF x.thought THEN <<>> ELSE <<Now>>
       /\ thoughtIn[x] = <<>> \o (IF x.thought THEN <<Now>> ELSE <<>>)
  BY <1>2, <1>5 DEF contentIn, thoughtIn
<1> DEFINE content == IF x.thought THEN <<>> ELSE <<Now>>
           reasoning == IF x.thought THEN <<Now>> ELSE <<>>
<1>11. ContentAfter(one) = content /\ ReasoningAfter(one) = reasoning
  BY <1>8, <1>9, <1>10
<1>12. ReasoningOf(calls, reasoning) = reasoning
  <2>1. calls \in Seq(OnlyCalls(ResentItems))
    BY <1>1, <1>3 DEF KeptItems
  <2> HIDE DEF reasoning
  <2> QED BY <2>1, NoReasoningOfCalls
<1> HIDE DEF content, reasoning
<1>13. CallsWithTexts(calls, one) = SentMessage(turn, content, reasoning)
  BY <1>3, <1>11, <1>12, Zenon DEF CallsWithTexts, AssistantToolCallMessage, SentMessage, CallRefsOf
<1>14. MessageOf(turn) = <<SentMessage(turn, content, reasoning)>>
  <2>1. CASE turn.order = "thought"
    <3>1. content = <<>> /\ reasoning = <<Now>>
      BY <1>2, <2>1 DEF content, reasoning
    <3> QED BY <2>1, <3>1, MessageOfMeans
  <2>2. CASE turn.order # "thought"
    <3>1. content = TurnContent(turn) /\ reasoning = TurnReasoning(turn)
      BY <1>1, <1>2, <1>5, <2>2 DEF content, reasoning, TurnContent
    <3> QED BY <1>1, <2>2, <3>1, MessageOfMeans
  <2> QED BY <2>1, <2>2
<1> QED BY <1>7, <1>13, <1>14

LEMMA ScanOfBlank ==
  ASSUME NEW list, list = <<>> \/ list = <<Blank>>
  PROVE  InputItemsToChatMessages(list) = <<>>
PROOF
<1>1. Blank \in Items /\ Blank.type = "reasoning"
  BY BlankKept
<1>2. OwnMessages(Blank) = <<>>
  BY <1>1 DEF OwnMessages
<1>3. CASE list = <<>>
  BY <1>3, ScanNothing
<1>4. CASE list = <<Blank>>
  <2>1. Blank.type # "call"
    BY <1>1
  <2>2. InputItemsToChatMessages(list) = OwnMessages(Blank)
    BY <1>1, <1>4, <2>1, ScanOfOne
  <2> QED BY <1>2, <2>2
<1> QED BY <1>3, <1>4

\* The items of a turn give its message back, but for a late reasoning before calls.
LEMMA TurnScan ==
  ASSUME RebuildTypeOK, NEW turn \in Turns, ~(turn.order = "late" /\ turn.calls > 0)
  PROVE  InputItemsToChatMessages(NewItems(turn)) = MessageOf(turn)
PROOF
<1> DEFINE x == KeptText(turn)
           calls == KeptCalls(turn)
           before == TheReasoning(turn)
           text == Once(turn.text, <<x>>)
           message == <<SentMessage(turn, TurnContent(turn), TurnReasoning(turn))>>
           new == NewItems(turn)
           M == Items
<1>1. /\ turn.order \in {"usual", "late", "calls_first", "thought"} /\ turn.calls \in Nat
      /\ turn.text \in BOOLEAN /\ (turn.order # "usual" => turn.text)
  BY TurnFields
<1>2. x \in M /\ calls \in Seq(M) /\ Len(calls) = turn.calls /\ IsAssistant(x)
  BY TextOfTurn, CallsOfTurn
<1>3. Blank \in M /\ Blank \notin Bound
  <2>1. Blank.type # "call"
    BY BlankKept
  <2> QED BY <2>1, BlankKept DEF Bound
<1>4. turn.calls = 0 => calls = <<>>
  BY <1>2
<1>5. CASE turn.order = "usual"
  <2> DEFINE body == text \o calls
             head == before \o text
             all == before \o body
  <2>1. new = (head \o calls) \o <<>>
    BY <1>5, Zenon DEF NewItems, NewHead, NewTail
  <2>2. (before = <<>> \/ before = <<Blank>>) /\ (turn.text => text = <<x>>) /\ (~turn.text => text = <<>>)
    BY DEF TheReasoning, Once
  <2> HIDE DEF x, calls, before, text, message, M
  <2>3. before \in Seq(M) /\ text \in Seq(M) /\ calls \in Seq(M)
    <3>1. <<>> \in Seq(M) /\ <<x>> \in Seq(M) /\ <<Blank>> \in Seq(M)
      BY <1>2, <1>3
    <3> QED BY <1>1, <1>2, <2>2, <3>1, Zenon
  <2>4. SpansJoin(all, head, calls)
    <3>1. all = before \o body /\ body = text \o calls /\ head = before \o text
      OBVIOUS
    <3> HIDE DEF all, body, head
    <3> QED BY <2>3, <3>1, ThreeJoin
  <2>5. body \in Seq(M) /\ head \in Seq(M)
    BY <2>3
  <2>6. head \o calls \in Seq(M)
    <3> HIDE DEF head
    <3> QED BY <2>3, <2>5
  <2>7. new = head \o calls
    <3> DEFINE front == head \o calls
    <3>1. front \in Seq(M) /\ new = front \o <<>>
      BY <2>1, <2>6
    <3> HIDE DEF front
    <3>2. new = front
      BY <3>1
    <3> QED BY <3>2 DEF front
  <2>8. new = all
    BY <2>4, <2>7 DEF SpansJoin
  <2>9. Cut(before, body)
    <3>1. CASE before = <<>>
      BY <3>1 DEF Cut
    <3>2. CASE before = <<Blank>>
      <4>1. before[Len(before)] = Blank
        BY <3>2
      <4> QED BY <1>3, <4>1 DEF Cut
    <3> QED BY <2>2, <3>1, <3>2
  <2>10. InputItemsToChatMessages(before) = <<>>
    BY <2>2, ScanOfBlank
  <2>11. ScansApart(all, before, body)
    <3>1. all = before \o body /\ before \in Seq(Items) /\ body \in Seq(Items)
      BY <2>3, <2>5 DEF M
    <3> HIDE DEF all, body
    <3> QED BY <2>9, <3>1, CleanCut
  <2>12. InputItemsToChatMessages(all)
           = <<>> \o InputItemsToChatMessages(body)
    BY <2>10, <2>11, Zenon DEF ScansApart
  <2>13. InputItemsToChatMessages(body) = MessageOf(turn)
    <3>1. CASE turn.text /\ turn.calls = 0
      <4>1. body = <<x>>
        <5>1. body = <<x>> \o <<>>
          BY <1>4, <2>2, <3>1
        <5>2. <<x>> \o <<>> = <<x>>
          OBVIOUS
        <5> QED BY <5>1, <5>2, Zenon
      <4>2. TurnContent(turn) = <<Now>>
        BY <1>5, <3>1 DEF TurnContent
      <4> HIDE DEF body
      <4>3. InputItemsToChatMessages(body) = <<SentMessage(turn, <<Now>>, TurnReasoning(turn))>>
        BY <3>1, <4>1, ScanOfTextItem DEF x
      <4>4. MessageOf(turn) = message
        BY <1>5, <3>1, MessageOfMeans DEF message
      <4> QED BY <4>2, <4>3, <4>4 DEF message
    <3>2. CASE turn.text /\ turn.calls # 0
      <4>1. body = <<x>> \o calls
        BY <2>2, <3>2
      <4>2. TurnContent(turn) = <<Now>>
        BY <1>5, <3>2 DEF TurnContent
      <4> HIDE DEF body
      <4>3. InputItemsToChatMessages(body) = <<SentMessage(turn, <<Now>>, TurnReasoning(turn))>>
        BY <3>2, <4>1, ScanOfBoth DEF x, calls
      <4>4. MessageOf(turn) = message
        BY <1>5, <3>2, MessageOfMeans DEF message
      <4> QED BY <4>2, <4>3, <4>4 DEF message
    <3>3. CASE ~turn.text /\ turn.calls # 0
      <4>1. body = calls
        BY <2>2, <2>3, <3>3
      <4>2. TurnContent(turn) = <<>>
        BY <3>3 DEF TurnContent
      <4> HIDE DEF body
      <4>3. InputItemsToChatMessages(body) = <<SentMessage(turn, <<>>, TurnReasoning(turn))>>
        BY <3>3, <4>1, ScanOfCallItems DEF calls
      <4>4. MessageOf(turn) = message
        BY <1>5, <3>3, MessageOfMeans DEF message
      <4> QED BY <4>2, <4>3, <4>4 DEF message
    <3>4. CASE ~turn.text /\ turn.calls = 0
      <4>1. body = <<>>
        BY <1>4, <2>2, <3>4
      <4>2. MessageOf(turn) = <<>>
        BY <3>4, MessageOfMeans
      <4> QED BY <4>1, <4>2, ScanNothing
    <3> QED BY <1>1, <3>1, <3>2, <3>3, <3>4
  <2>14. <<>> \o MessageOf(turn) = MessageOf(turn)
    <3>1. MessageOf(turn) \in Seq(ReplyMessages)
      BY MessageOfTyped
    <3> DEFINE m == MessageOf(turn)
               R == ReplyMessages
    <3>2. m \in Seq(R)
      BY <3>1
    <3> HIDE DEF m, R
    <3>3. <<>> \o m = m
      BY <3>2
    <3> QED BY <3>3 DEF m
  <2> HIDE DEF new, body, all
  <2>15. InputItemsToChatMessages(new) = MessageOf(turn)
    BY <2>8, <2>12, <2>13, <2>14
  <2> QED BY <2>15 DEF new
<1>6. CASE turn.order = "late"
  <2> DEFINE one == <<x>>
             blank == <<Blank>>
             both == one \o blank
  <2>1. turn.calls = 0 /\ turn.text
    BY <1>1, <1>6
  <2>2. new = (both \o calls) \o <<>>
    BY <1>6, Zenon DEF NewItems, NewHead, NewTail
  <2>3. one = <<x>> /\ blank = <<Blank>>
    OBVIOUS
  <2> HIDE DEF x, calls
  <2>4. one \in Seq(M) /\ blank \in Seq(M) /\ both \in Seq(M)
    BY <1>2, <1>3
  <2>5. new = both
    <3> HIDE DEF both, new, M
    <3> QED BY <1>4, <2>1, <2>2, <2>4
  <2>6. Cut(one, blank)
    <3>1. blank[1] = Blank
      OBVIOUS
    <3> HIDE DEF one, blank
    <3> QED BY <1>3, <3>1 DEF Cut
  <2>7. ScansApart(both, one, blank)
    <3>1. both = one \o blank
      OBVIOUS
    <3> HIDE DEF both, one, blank
    <3> QED BY <2>4, <2>6, <3>1, CleanCut
  <2> HIDE DEF one, blank, both, new
  <2>8. InputItemsToChatMessages(blank) = <<>>
    BY <2>3, ScanOfBlank
  <2>9. InputItemsToChatMessages(one) = <<SentMessage(turn, <<Now>>, TurnReasoning(turn))>>
    BY <2>1, <2>3, ScanOfTextItem DEF x
  <2>10. MessageOf(turn) = <<SentMessage(turn, TurnContent(turn), TurnReasoning(turn))>>
    BY <1>6, <2>1, MessageOfMeans
  <2>11. TurnContent(turn) = <<Now>>
    BY <1>6, <2>1 DEF TurnContent
  <2> DEFINE m == SentMessage(turn, <<Now>>, TurnReasoning(turn))
  <2> HIDE DEF m
  <2>12. InputItemsToChatMessages(both) = <<m>> \o <<>>
    BY <2>7, <2>8, <2>9, Zenon DEF ScansApart, m
  <2>13. <<m>> \o <<>> = <<m>>
    OBVIOUS
  <2>14. InputItemsToChatMessages(new) = MessageOf(turn)
    BY <2>5, <2>10, <2>11, <2>12, <2>13, Zenon DEF m
  <2> QED BY <2>14 DEF new
<1>7. CASE turn.order \in {"calls_first", "thought"}
  <2> DEFINE one == <<x>>
  <2>1. NewHead(turn) = <<>> /\ NewTail(turn) = <<x>>
    BY <1>7 DEF NewHead, NewTail
  <2>2. new = (<<>> \o calls) \o one
    BY <2>1, Zenon DEF NewItems
  <2> HIDE DEF x, calls, new
  <2>3. new = calls \o one
    <3> HIDE DEF one, M
    <3>1. <<>> \o calls = calls
      BY <1>2
    <3> QED BY <2>2, <3>1
  <2>4. InputItemsToChatMessages(new) = MessageOf(turn)
    BY <1>7, <2>3, ScanOfCallsFirst DEF x, calls
  <2> QED BY <2>4 DEF new
<1> QED BY <1>1, <1>5, <1>6, <1>7

\* More items after a clean cut have more messages.
LEMMA RebuiltGrows ==
  ASSUME ItemsInv, TurnsAreRebuilt, regular, NEW new \in Seq(Items), Cut(items, new),
         items' = items \o new, NEW said, InputItemsToChatMessages(new) = said,
         expected' = expected \o said
  PROVE  Rebuilt' = expected'
PROOF
<1>1. items \in Seq(Items)
  BY ItemsTyped DEF ItemsInv
<1>2. ScansApart(items', items, new)
  BY <1>1, CleanCut
<1>3. InputItemsToChatMessages(items') = InputItemsToChatMessages(items) \o said
  BY <1>2, Zenon DEF ScansApart
<1>4. InputItemsToChatMessages(items) = expected
  BY DEF TurnsAreRebuilt, Rebuilt
<1> QED BY <1>3, <1>4 DEF Rebuilt

LEMMA RebuiltStart == RebuildInit => TurnsAreRebuilt
BY ScanNothing DEF RebuildInit, TurnsAreRebuilt, Rebuilt

LEMMA KeptWithin == KeptItems \subseteq Items
BY DEF KeptItems, StoredItems, ResentItems

LEMMA TurnRebuilt ==
  ASSUME ItemsInv, TurnsAreRebuilt, NEW turn \in Turns, TakeTurn(turn)
  PROVE  TurnsAreRebuilt'
PROOF
<1> SUFFICES ASSUME regular' PROVE Rebuilt' = expected'
  BY DEF TurnsAreRebuilt
<1> DEFINE new == NewItems(turn)
<1>1. regular /\ Regular(turn) /\ expected' = expected \o MessageOf(turn)
  BY DEF TakeTurn
<1>2. items' = items \o new
  BY TurnKeeps
<1>3. RebuildTypeOK
  BY DEF ItemsInv
<1>4. InputItemsToChatMessages(new) = MessageOf(turn)
  BY <1>1, <1>3, TurnScan DEF Regular
<1>5. new \in Seq(Items)
  <2>1. new \in Seq(KeptItems)
    BY <1>3, NewItemsFacts DEF NewFacts
  <2> HIDE DEF new
  <2> QED BY <2>1, KeptWithin, SeqWithin
<1>6. Cut(items, new)
  <2>1. CASE items = <<>>
    BY <2>1 DEF Cut
  <2>2. CASE items # <<>>
    <3> DEFINE last == items[Len(items)]
    <3>1. last.type = "output" \/ last.role \notin {"", "assistant"}
      BY <1>1, <2>2 DEF Regular
    <3>2. last \in KeptItems
      <4>1. items \in Seq(KeptItems)
        BY <1>3 DEF RebuildTypeOK, KeptItems
      <4> DEFINE M == KeptItems
      <4>2. items \in Seq(M)
        BY <4>1
      <4> HIDE DEF M
      <4>3. items[Len(items)] \in M
        BY <2>2, <4>2
      <4> QED BY <4>3 DEF M
    <3> HIDE DEF last
    <3>3. last.type = "call" => last.role = ""
      BY <3>2 DEF KeptItems, StoredItems, ResentItems, Sound
    <3>4. last \notin Bound
      BY <3>1, <3>3 DEF Bound, IsAssistant
    <3> QED BY <3>4 DEF Cut, last
  <2> QED BY <2>1, <2>2
<1> HIDE DEF new
<1> QED BY <1>1, <1>2, <1>4, <1>5, <1>6, RebuiltGrows

\* An input is one message, or none for a role the upstream does not know.
LEMMA InputScan ==
  ASSUME RebuildTypeOK, NEW role \in {"user", "developer", "critic"}
  PROVE  OwnMessages(MessageItem(role, Now)) = InputMessage(role)
PROOF
<1> DEFINE x == MessageItem(role, Now)
<1>1. /\ x.type = "message" /\ x.role = role /\ x.text = Now /\ x.reasoning = Absent
  BY InputItems
<1>2. Now # Absent
  BY NowIsNew
<1> HIDE DEF x
<1>3. Given(x.text) = <<Now>> /\ Given(x.reasoning) = <<>>
  BY <1>1, <1>2 DEF Given
<1>4. OwnMessages(x) = ResponseMessageToChatMessage(x)
  BY <1>1 DEF OwnMessages
<1>5. CASE role = "user"
  BY <1>1, <1>3, <1>4, <1>5 DEF ResponseMessageToChatMessage, InputMessage, x
<1>6. CASE role = "developer"
  BY <1>1, <1>3, <1>4, <1>6 DEF ResponseMessageToChatMessage, InputMessage, x
<1>7. CASE role = "critic"
  BY <1>1, <1>4, <1>7 DEF ResponseMessageToChatMessage, InputMessage, x
<1> QED BY <1>5, <1>6, <1>7

\* One item of the client.
LEMMA InputRebuilt ==
  ASSUME ItemsInv, TurnsAreRebuilt, regular, NEW x \in Items, x.type # "call", ~IsAssistant(x),
         items' = items \o <<x>>, NEW said, OwnMessages(x) = said, expected' = expected \o said
  PROVE  Rebuilt' = expected'
PROOF
<1> DEFINE new == <<x>>
<1>1. new \in Seq(Items) /\ new[1] = x /\ new = <<x>> /\ items' = items \o new
  OBVIOUS
<1>2. x \notin Bound
  BY DEF Bound
<1> HIDE DEF new
<1>3. InputItemsToChatMessages(new) = said
  BY <1>1, ScanOfOne
<1>4. Cut(items, new)
  BY <1>1, <1>2 DEF Cut
<1> QED BY <1>1, <1>3, <1>4, RebuiltGrows

LEMMA TakeInputRebuilt ==
  ASSUME ItemsInv, TurnsAreRebuilt, NEW role \in {"user", "developer", "critic"}, TakeInput(role)
  PROVE  TurnsAreRebuilt'
PROOF
<1> SUFFICES ASSUME regular' PROVE Rebuilt' = expected'
  BY DEF TurnsAreRebuilt
<1> DEFINE x == MessageItem(role, Now)
           said == InputMessage(role)
<1>1. RebuildTypeOK
  BY DEF ItemsInv
<1>2. regular
  BY DEF TakeInput
<1>3. expected' = expected \o said
  BY Zenon DEF TakeInput, InputMessage
<1>4. items' = items \o <<x>>
  BY TakeInputKeeps
<1>5. x \in KeptItems /\ x.type = "message" /\ x.role = role
  BY <1>1, InputItems
<1>6. OwnMessages(x) = said
  BY <1>1, InputScan
<1> HIDE DEF x, said
<1>7. x \in Items /\ x.type # "call" /\ ~IsAssistant(x)
  BY <1>5, KeptWithin DEF IsAssistant
<1> QED BY <1>2, <1>3, <1>4, <1>6, <1>7, InputRebuilt

LEMMA OutputRebuilt ==
  ASSUME ItemsInv, TurnsAreRebuilt, NEW call \in ToSet(CallsIn(items)),
         NEW by \in {"call_id", "id"}, by = "id" => asStored, GiveOutput(call, by)
  PROVE  TurnsAreRebuilt'
PROOF
<1> SUFFICES ASSUME regular' PROVE Rebuilt' = expected'
  BY DEF TurnsAreRebuilt
<1> DEFINE x == OutputItem(call)
           said == <<ChatMessage("tool", <<Now>>, <<>>, <<>>, call)>>
<1>1. RebuildTypeOK
  BY DEF ItemsInv
<1>2. regular
  BY DEF GiveOutput
<1>3. items' = items \o <<x>> /\ expected' = expected \o said
  BY GiveKeeps
<1>4. call \in CallRefs
  BY KnownCalls
<1>5. x \in KeptItems /\ x.type = "output" /\ x.text = Now /\ x.call = call
  BY <1>1, <1>4, InputItems DEF OutputItem
<1> HIDE DEF x
<1>6. Given(x.text) = <<Now>>
  BY <1>1, <1>5, NowIsNew DEF Given
<1>7. OwnMessages(x) = said
  BY <1>5, <1>6 DEF OwnMessages, OutputMessage
<1> HIDE DEF said
<1>8. x \in Items /\ x.type # "call" /\ ~IsAssistant(x)
  BY <1>5, KeptWithin DEF IsAssistant
<1> QED BY <1>2, <1>3, <1>7, <1>8, InputRebuilt

LEMMA RebuiltStep ==
  ItemsInv /\ TurnsAreRebuilt /\ [RebuildNext]_rebuildVars => TurnsAreRebuilt'
PROOF
<1> SUFFICES ASSUME ItemsInv, TurnsAreRebuilt, [RebuildNext]_rebuildVars PROVE TurnsAreRebuilt'
  OBVIOUS
<1>1. ASSUME NEW turn \in Turns, TakeTurn(turn) PROVE TurnsAreRebuilt'
  BY <1>1, TurnRebuilt
<1>2. CASE Ask
  BY <1>2, TakeInputRebuilt DEF Ask
<1>3. CASE Output
  <2>1. PICK call \in ToSet(CallsIn(items)), by \in {"call_id", "id"} :
          (by = "id" => asStored) /\ GiveOutput(call, by)
    BY <1>3 DEF Output
  <2> QED BY <2>1, OutputRebuilt
<1>4. CASE AllSaid \/ UNCHANGED rebuildVars
  <2>1. items' = items /\ expected' = expected /\ regular' = regular
    BY <1>4 DEF AllSaid, rebuildVars
  <2> QED BY <2>1 DEF TurnsAreRebuilt, Rebuilt
<1> QED BY <1>1, <1>2, <1>3, <1>4 DEF RebuildNext

\* A conversation with an input between any two turns comes back to the upstream as the
\* messages that were exchanged, for any number of turns and calls.
\* (InputItemsToChatMessages against OutputItemsFromChatCompletion, streamResponse)
THEOREM TurnsAreAlwaysRebuilt == RebuildSpec => []TurnsAreRebuilt
PROOF
<1>1. RebuildInit => ItemsInv /\ TurnsAreRebuilt
  BY RebuildStart, RebuiltStart
<1>2. (ItemsInv /\ TurnsAreRebuilt) /\ [RebuildNext]_rebuildVars => (ItemsInv /\ TurnsAreRebuilt)'
  BY RebuildStep, RebuiltStep
<1> QED BY <1>1, <1>2, PTL DEF RebuildSpec

=============================================================================
