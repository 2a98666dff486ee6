---------------------------- MODULE ClogToolsProofs ----------------------------
(***************************************************************************)
(* Proofs about ClogTools: types, and what an answer about a namespace may *)
(* and must hold; and how old fields spread.                               *)
(***************************************************************************)
EXTENDS ClogTools, TLAPS

USE NamespaceAssumption, PlaceAssumption, PrefixAssumption, MappingAssumption, ToolAssumption

\* The tools' records, looked up once.
LEMMA ToolTypes ==
    ASSUME NEW t \in Tools
    PROVE  /\ Tool[t].index \in Indices
           /\ Scopes(t) \subseteq Namespaces \cup {NoNamespace}
           /\ Tool[t].scope # "none" => Tool[t].needs = {"container"}
BY DEF Tools, Tool, Scopes, Indices, clogProfileHandler, clogListNamespaces, clogListContainers,
       clogFindTargets, clogContainerLogs, clogIngressMetrics, clogIngressTopRoutes

LEMMA MaybeOne == \A S : Maybe({}, S) /\ \A x \in S : Maybe({x}, S)
BY DEF Maybe

LEMMA MappingTyped == ASSUME NEW d \in Homes PROVE Mappings[d] \subseteq Caps
OBVIOUS

\* What _field_caps answers is well-formed, whatever the indices are.
LEMMA MergedTyped ==
    ASSUME TypeOK, NEW i \in Indices
    PROVE  Merged(i) \in Caps
<1>1. Covered(i) \subseteq Homes
  BY DEF TypeOK, Covered, Homes
<1>2. \A d \in Covered(i), f \in Fields : mapping[d][f] \in Cap
  BY <1>1 DEF TypeOK, Caps
<1> DEFINE C(f) == [types |-> UNION {mapping[d][f].types : d \in Covered(i)},
                    aggregatable |-> \E d \in Covered(i) : mapping[d][f].aggregatable,
                    keyword |-> \E d \in Covered(i) : mapping[d][f].keyword]
<1>3. ASSUME NEW f \in Fields PROVE C(f) \in Cap
  <2>1. C(f).types \subseteq Types
    BY <1>2 DEF Cap
  <2>2. (\E d \in Covered(i) : mapping[d][f].aggregatable)
          => UNION {mapping[d][f].types : d \in Covered(i)} # {}
    BY <1>2 DEF Cap
  <2> QED
    BY <2>1, <2>2 DEF Cap
<1>4. Merged(i) = [f \in Fields |-> C(f)]
  BY DEF Merged
<1> QED
  BY <1>3, <1>4 DEF Caps

-----------------------------------------------------------------------------
\* The variables keep their types, for any handlers, namespaces, fields and
\* mappings (the maps of capsCache, the stages of the clog_* handlers).
THEOREM TypeCorrect == Spec => []TypeOK
<1> USE DEF Indices
<1>1. Init => TypeOK
  <2> SUFFICES ASSUME Init PROVE TypeOK
    OBVIOUS
  <2>1. mapping \in [Homes -> Caps]
    BY DEF Init
  <2> QED
    BY <2>1, MaybeOne DEF Init, TypeOK, PcStates, Tools
<1>2. TypeOK /\ [Next]_vars => TypeOK'
  <2> SUFFICES ASSUME TypeOK, [Next]_vars PROVE TypeOK'
    OBVIOUS
  <2>1. ASSUME NEW h \in Handlers, Return(h), UNCHANGED <<clusterVars, cache>> PROVE TypeOK'
    BY <2>1, MaybeOne DEF TypeOK, Return, Goto, PcStates, Tools, clusterVars
  <2>2. ASSUME NEW h \in Handlers, NEW V, V \subseteq logs, Answered(h, V), pc[h] \in {"search", "again"},
               UNCHANGED <<clusterVars, cache, callVars>>
        PROVE  TypeOK'
    <3>1. PICK found \in SUBSET V : hits' = [hits EXCEPT ![h] = found]
      BY <2>2 DEF Answered
    <3>2. found \subseteq Places
      BY <2>2, <3>1 DEF TypeOK
    <3>3. sure' \in [Handlers -> BOOLEAN]
      <4>1. SameFields(h, Merged(idx[h])) \in BOOLEAN
        BY DEF SameFields
      <4> QED
        BY <2>2, <4>1 DEF TypeOK, Answered
    <3>4. agree' \in [Handlers -> SUBSET Places]
      BY <2>2 DEF TypeOK, Answered
    <3> QED
      BY <2>2, <3>1, <3>2, <3>3, <3>4 DEF TypeOK, Answered, Goto, PcStates, clusterVars, callVars
  <2>3. ASSUME NEW d \in Places, Appear(d) \/ Vanish(d) PROVE TypeOK'
    BY <2>3 DEF TypeOK, Appear, Vanish, callVars
  <2>4. ASSUME NEW d \in Homes, NEW m \in Mappings[d], Remap(d, m) PROVE TypeOK'
    BY <2>4, MappingTyped DEF TypeOK, Remap, callVars, answerVars
  <2>5. ASSUME NEW i \in Indices, Age(i) PROVE TypeOK'
    BY <2>5, MaybeOne DEF TypeOK, Age, clusterVars, callVars, answerVars
  <2>6. ASSUME NEW h \in Handlers, NEW t \in Tools, NEW n \in Namespaces \cup {NoNamespace}, Call(h, t, n)
        PROVE  TypeOK'
    BY <2>6, ToolTypes DEF TypeOK, Call, Goto, PcStates, clusterVars, answerVars
  <2>7. ASSUME NEW h \in Handlers, Fetch(h) PROVE TypeOK'
    <3>1. Maybe({Merged(idx[h])}, Caps)
      BY MaybeOne, MergedTyped DEF TypeOK
    <3> QED
      BY <2>7, <3>1 DEF TypeOK, Fetch, Goto, PcStates, clusterVars, answerVars
  <2>8. ASSUME NEW h \in Handlers, FetchFails(h) PROVE TypeOK'
    <3>1. CASE Return(h)
      BY <2>8, <3>1, <2>1 DEF FetchFails
    <3>2. CASE ~Return(h)
      BY <2>8, <3>2 DEF TypeOK, FetchFails, Goto, PcStates, clusterVars, answerVars
    <3> QED
      BY <3>1, <3>2
  <2>9. ASSUME NEW h \in Handlers, Step(h) PROVE TypeOK'
    <3>1. CASE Lookup(h)
      BY <3>1 DEF TypeOK, Lookup, Goto, PcStates, clusterVars, answerVars
    <3>2. CASE Store(h)
      BY <3>2 DEF TypeOK, Store, Goto, PcStates, clusterVars, callVars, answerVars
    <3>3. CASE Unresolved(h) \/ SearchFails(h) \/ Leave(h)
      BY <3>3, <2>1 DEF Unresolved, SearchFails, Leave
    <3>4. CASE Profile(h)
      <4>1. CASE Return(h)
        BY <3>4, <4>1, <2>1 DEF Profile
      <4>2. CASE ~Return(h)
        <5>1. /\ idx' = [idx EXCEPT ![h] = "ingress"] /\ pc' = [pc EXCEPT ![h] = "lookup"]
              /\ caps' = [caps EXCEPT ![h] = {}]
              /\ UNCHANGED <<clusterVars, cache, tool, scope, answerVars>>
          BY <3>4, <4>2 DEF Profile, Goto
        <5>2. DOMAIN caps' = Handlers /\ \A g \in Handlers : Maybe(caps'[g], Caps)
          BY <5>1, MaybeOne DEF TypeOK
        <5>3. \A g \in Handlers : g # h => caps'[g] = caps[g] /\ pc'[g] = pc[g]
          BY <5>1 DEF TypeOK
        <5>4. pc' \in [Handlers -> PcStates] /\ pc'[h] = "lookup" /\ idx' \in [Handlers -> Indices]
          BY <5>1 DEF TypeOK, PcStates
        <5> QED
          BY <5>1, <5>2, <5>3, <5>4 DEF TypeOK, clusterVars, answerVars
      <4> QED
        BY <4>1, <4>2
    <3>5. CASE Resolve(h)
      BY <3>5 DEF TypeOK, Resolve, Goto, PcStates, clusterVars, callVars
    <3>6. CASE SearchAll(h)
      BY <3>6, <2>2 DEF SearchAll
    <3>7. CASE SearchNamespace(h)
      <4>1. CASE OwnStream(h) \in logs
        BY <3>7, <4>1, <2>2 DEF SearchNamespace
      <4>2. CASE OwnStream(h) \notin logs
        BY <3>7, <4>2 DEF TypeOK, SearchNamespace, Goto, PcStates, clusterVars, callVars, answerVars
      <4> QED
        BY <4>1, <4>2
    <3>8. CASE SearchFallback(h)
      BY <3>8, <2>2 DEF SearchFallback
    <3> QED
      BY <2>9, <3>1, <3>2, <3>3, <3>4, <3>5, <3>6, <3>7, <3>8 DEF Step
  <2>10. CASE UNCHANGED vars
    BY <2>10 DEF TypeOK, vars, clusterVars, callVars, answerVars
  <2> QED
    BY <2>3, <2>4, <2>5, <2>6, <2>7, <2>8, <2>9, <2>10 DEF Next, Cluster
<1> QED
  BY <1>1, <1>2, PTL DEF Spec
-----------------------------------------------------------------------------
(* What a search returns.                                                  *)

\* The field that termField picks is one that a term means equality on.
LEMMA TermFieldExact ==
    ASSUME NEW m \in Caps, NEW cands \in Seq(Fields), termField(m, cands) # NoField
    PROVE  /\ termField(m, cands) \in FieldRef
           /\ ~Lacks(termField(m, cands), m) /\ ~Analysed(termField(m, cands), m)
<1> DEFINE serves(i) == Itself(m[cands[i]]) \/ m[cands[i]].keyword
           first == {i \in DOMAIN cands : serves(i) /\ \A j \in 1 .. (i - 1) : ~serves(j)}
           k == CHOOSE i \in first : TRUE
           f == cands[k]
<1>1. termField(m, cands) = IF first = {} THEN NoField ELSE [name |-> f, keyword |-> ~Itself(m[f])]
  BY Zenon DEF termField
<1>2. first # {}
  BY <1>1
<1>3. k \in first
  BY <1>2
<1>4. k \in DOMAIN cands /\ (Itself(m[f]) \/ m[f].keyword)
  BY <1>3, Zenon
<1>5. f \in Fields
  BY <1>4
<1>6. m[f] \in Cap
  BY <1>5 DEF Caps
<1>7. Itself(m[f]) => m[f].types # {} /\ "text" \notin m[f].types
  BY <1>6 DEF Itself, Cap
<1>8. termField(m, cands) = [name |-> f, keyword |-> ~Itself(m[f])]
  BY <1>1, <1>2
<1>9. Itself(m[f]) \in BOOLEAN
  BY <1>6 DEF Itself, Cap
<1> HIDE DEF f, first, k
<1>10. termField(m, cands).name = f /\ (termField(m, cands).keyword <=> ~Itself(m[f]))
  <2> DEFINE b == ~Itself(m[f])
  <2>1. b \in BOOLEAN /\ termField(m, cands) = [name |-> f, keyword |-> b]
    BY <1>8, <1>9
  <2> HIDE DEF b
  <2>2. termField(m, cands).name = f /\ termField(m, cands).keyword = b
    BY <2>1
  <2> QED
    BY <2>2, Zenon DEF b
<1>11. /\ Lacks(termField(m, cands), m)
              <=> IF ~Itself(m[f]) THEN ~m[f].keyword ELSE m[f].types = {}
       /\ Analysed(termField(m, cands), m) <=> Itself(m[f]) /\ "text" \in m[f].types
  BY <1>10, Zenon DEF Lacks, Analysed
<1>12. termField(m, cands) \in FieldRef
  <2> DEFINE b == ~Itself(m[f])
  <2>1. b \in BOOLEAN /\ termField(m, cands) = [name |-> f, keyword |-> b]
    BY <1>8, <1>9
  <2> HIDE DEF b
  <2> QED
    BY <1>5, <2>1 DEF FieldRef
<1> QED
  BY <1>4, <1>7, <1>11, <1>12

\* A call about a namespace is made by a tool that needs a container.
ScopesFit == \A h \in Handlers : scope[h] \in Scopes(tool[h])

LEMMA ScopedNeeds ==
    ASSUME TypeOK, ScopesFit, NEW h \in Handlers, Scoped(h)
    PROVE  Tool[tool[h]].needs = {"container"}
<1>1. tool[h] \in Tools /\ scope[h] \in Scopes(tool[h]) /\ scope[h] # NoNamespace
  BY DEF TypeOK, ScopesFit, Scoped
<1>2. Tool[tool[h]].scope # "none"
  BY <1>1 DEF Scopes
<1> QED
  BY <1>1, <1>2, ToolTypes

\* A field that a scoped call works with, and that capabilities m give as well.
LEMMA ScopedField ==
    ASSUME TypeOK, ScopesFit, NEW h \in Handlers, Scoped(h), NEW m \in Caps, SameFields(h, m),
           NEW f \in Named(h)
    PROVE  f \in FieldRef /\ ~Lacks(f, m) /\ ~Analysed(f, m)
<1>1. Used(h) = {"container", "namespace"}
  BY ScopedNeeds DEF Used
<1>2. PICK r \in Used(h), c \in caps[h] : f = resolve(c, r) /\ f # NoField
  BY DEF Named
<1>3. f = resolve(m, r)
  BY <1>2 DEF SameFields
<1>4. f = termField(m, Candidates[r])
  BY <1>1, <1>2, <1>3, Zenon DEF resolve
<1>5. Candidates[r] \in Seq(Fields)
  BY <1>1, <1>2, CandidateAssumption DEF Roles
<1> QED
  BY <1>2, <1>4, <1>5, TermFieldExact

\* In an index that alone would have given the same fields, a scoped query finds
\* exactly what its namespace filter lets through.
LEMMA AgreedAnswer ==
    ASSUME TypeOK, ScopesFit, NEW h \in Handlers, Scoped(h),
           NEW V \in SUBSET Places, NEW found \in SUBSET V, Matches(h, V, found),
           NEW d \in V, SameFields(h, mapping[d])
    PROVE  d \in found <=> (FilteredByNamespace(h) => d[1] = scope[h])
<1>1. mapping[d] \in Caps
  BY DEF TypeOK, Homes
<1>2. \A f \in Named(h) : ~Lacks(f, mapping[d]) /\ ~Analysed(f, mapping[d])
  BY <1>1, ScopedField
<1> QED
  BY <1>2, Zenon DEF Matches

\* With the fields that all log indices together give now, a scoped query finds nothing
\* outside its filter in any of them, though one of them alone may give others.
LEMMA InsideAnswer ==
    ASSUME TypeOK, ScopesFit, NEW h \in Handlers, Scoped(h), idx[h] = "logs",
           NEW V \in SUBSET logs, NEW found \in SUBSET V, Matches(h, V, found),
           SameFields(h, Merged(idx[h])), FilteredByNamespace(h), NEW d \in found
    PROVE  d[1] = scope[h]
<1>1. Merged(idx[h]) \in Caps /\ d \in logs /\ d \in V
  BY MergedTyped DEF TypeOK
<1>2. \A f \in Named(h) : ~Lacks(f, mapping[d])
  BY <1>1, Zenon DEF Matches
<1>3. ASSUME NEW f \in Named(h) PROVE ~Analysed(f, mapping[d])
  <2>1. f \in FieldRef /\ ~Analysed(f, Merged(idx[h]))
    BY <1>1, ScopedField
  <2>2. f.name \in Fields
    BY <2>1 DEF FieldRef
  <2>3. Merged(idx[h])[f.name].types = UNION {mapping[e][f.name].types : e \in logs}
    BY <2>2 DEF Merged, Covered
  <2>4. mapping[d][f.name].types \subseteq Merged(idx[h])[f.name].types
    BY <1>1, <2>3
  <2> QED
    BY <2>1, <2>4 DEF Analysed
<1> QED
  BY <1>1, <1>2, <1>3, Zenon DEF Matches

-----------------------------------------------------------------------------
(* The inductive invariant.                                                *)

\* What holds of one handler: its histories agree with the logs while it
\* searches, the data stream was missing when the second search became
\* necessary, and its answer is the one promised.
HistoryFits(h) ==
    /\ Searching(h) => lasting[h] \subseteq logs /\ logs \subseteq ever[h]
    /\ pc[h] = "again" => Scoped(h) /\ OwnStream(h) \notin lasting[h]

StaysInside(h) ==
    pc[h] = "answered" /\ FilteredByNamespace(h) /\ sure[h] => \A d \in hits[h] : d[1] = scope[h]

FindsLasting(h) ==
    pc[h] = "answered" /\ Scoped(h) /\ scope[h] \notin Prefixed =>
        /\ OwnStream(h) \in lasting[h] \cap agree[h] => OwnStream(h) \in hits[h]
        /\ <<scope[h], "shared">> \in lasting[h] \cap agree[h] /\ OwnStream(h) \notin ever[h]
             => <<scope[h], "shared">> \in hits[h]

\* The tools that take a namespace work on the logs.
OnLogs(h) == Scoped(h) => idx[h] = "logs"

Good(h) == scope[h] \in Scopes(tool[h]) /\ OnLogs(h) /\ HistoryFits(h) /\ StaysInside(h) /\ FindsLasting(h)

IInv == \A h \in Handlers : Good(h)

LEMMA IInvMeans ==
    IInv => ScopesFit /\ FilteredAnswersStayInside /\ LastingLogsAreFound
BY DEF IInv, Good, ScopesFit, StaysInside, FindsLasting, FilteredAnswersStayInside, LastingLogsAreFound

\* Nothing that Good(g) is about changes.
Keeps(g) ==
    /\ logs' = logs
    /\ pc'[g] = pc[g] /\ tool'[g] = tool[g] /\ scope'[g] = scope[g] /\ caps'[g] = caps[g]
    /\ idx'[g] = idx[g] /\ hits'[g] = hits[g] /\ sure'[g] = sure[g] /\ agree'[g] = agree[g]
    /\ lasting'[g] = lasting[g] /\ ever'[g] = ever[g]

LEMMA KeepsGood ==
    ASSUME NEW g \in Handlers, Good(g), Keeps(g)
    PROVE  Good(g)'
BY DEF Good, Keeps, OnLogs, HistoryFits, StaysInside, FindsLasting, Searching, Scoped, FilteredByNamespace, OwnStream

LEMMA InitGood == Init => IInv
<1>1. NoNamespace \in Scopes("profile")
  BY DEF Scopes, Tool, Tools, clogProfileHandler
<1> SUFFICES ASSUME Init, NEW h \in Handlers PROVE Good(h)
  BY DEF IInv
<1>2. pc[h] = "idle" /\ tool[h] = "profile" /\ scope[h] = NoNamespace
  BY DEF Init
<1> QED
  BY <1>1, <1>2 DEF Good, OnLogs, HistoryFits, StaysInside, FindsLasting, Searching, Scoped

\* A handler that has no search and no answer has nothing to fit.
LEMMA QuietGood ==
    ASSUME NEW h \in Handlers, pc'[h] \notin {"search", "again", "answered"},
           scope'[h] \in Scopes(tool'[h]), OnLogs(h)'
    PROVE  Good(h)'
BY DEF Good, HistoryFits, StaysInside, FindsLasting, Searching

LEMMA ReturnGood ==
    ASSUME TypeOK, NEW h \in Handlers, Return(h)
    PROVE  Good(h)'
<1>1. pc'[h] = "idle" /\ scope'[h] = NoNamespace /\ tool'[h] = "profile"
  BY DEF TypeOK, Return, Goto
<1>2. NoNamespace \in Scopes("profile")
  BY DEF Scopes, Tool, Tools, clogProfileHandler
<1> QED
  BY <1>1, <1>2, QuietGood DEF OnLogs, Scoped

\* An answer from the own stream, or from all logs once the stream was missing.
LEMMA AnswerGood ==
    ASSUME TypeOK, IInv, NEW h \in Handlers, NEW V, Scoped(h), Searching(h), Answered(h, V),
           UNCHANGED <<clusterVars, cache, callVars>>,
           \/ OwnStream(h) \in logs /\ V = {OwnStream(h)}
           \/ pc[h] = "again" /\ V = logs
    PROVE  Good(h)'
<1>1. PICK found \in SUBSET V : Matches(h, V, found) /\ hits' = [hits EXCEPT ![h] = found]
  BY DEF Answered
<1>2. /\ pc'[h] = "answered" /\ hits'[h] = found /\ sure'[h] = SameFields(h, Merged(idx[h]))
      /\ agree'[h] = {d \in Places : SameFields(h, mapping[d])} /\ idx' = idx
      /\ lasting' = lasting /\ ever' = ever /\ scope' = scope /\ tool' = tool /\ caps' = caps /\ logs' = logs
  BY <1>1 DEF Answered, Goto, TypeOK, clusterVars, callVars
<1>3. ScopesFit /\ idx[h] = "logs" /\ V \subseteq logs /\ logs \subseteq Places
  BY IInvMeans DEF IInv, Good, OnLogs, TypeOK
<1>4. FilteredByNamespace(h)' <=> FilteredByNamespace(h)
  BY <1>2 DEF FilteredByNamespace, Scoped
<1>5. StaysInside(h)'
  <2>1. sure'[h] /\ FilteredByNamespace(h) => \A d \in found : d[1] = scope[h]
    BY <1>1, <1>2, <1>3, InsideAnswer
  <2> QED
    BY <1>2, <1>4, <2>1 DEF StaysInside
<1>6. FindsLasting(h)'
  <2> SUFFICES ASSUME scope[h] \notin Prefixed
               PROVE  /\ OwnStream(h) \in lasting[h] \cap agree'[h] => OwnStream(h) \in found
                      /\ <<scope[h], "shared">> \in lasting[h] \cap agree'[h]
                           /\ OwnStream(h) \notin ever[h] => <<scope[h], "shared">> \in found
    BY <1>2 DEF FindsLasting, OwnStream
  <2>1. OwnStream(h) = <<scope[h], "own">>
    BY DEF OwnStream, namespaceIndex
  <2>2. /\ lasting[h] \subseteq logs /\ logs \subseteq ever[h]
        /\ pc[h] = "again" => OwnStream(h) \notin lasting[h]
    BY DEF IInv, Good, HistoryFits
  <2>3. ASSUME NEW d \in V, d \in agree'[h], d[1] = scope[h] PROVE d \in found
    BY <1>1, <1>2, <1>3, <2>3, AgreedAnswer
  <2>4. CASE OwnStream(h) \in logs /\ V = {OwnStream(h)}
    BY <2>1, <2>2, <2>3, <2>4
  <2>5. CASE pc[h] = "again" /\ V = logs
    BY <2>1, <2>2, <2>3, <2>5
  <2> QED
    BY <2>4, <2>5
<1>7. Good(h)
  BY DEF IInv
<1> QED
  BY <1>2, <1>5, <1>6, <1>7 DEF Good, OnLogs, HistoryFits, Searching, Scoped

-----------------------------------------------------------------------------
LEMMA Invariance == TypeOK /\ TypeOK' /\ IInv /\ [Next]_vars => IInv'
<1> SUFFICES ASSUME TypeOK, TypeOK', IInv, [Next]_vars PROVE IInv'
  OBVIOUS
<1>1. ASSUME NEW h \in Handlers, Good(h)',
             \A g \in Handlers \ {h} : Keeps(g)
      PROVE  IInv'
  BY <1>1, KeepsGood DEF IInv
<1>2. ASSUME NEW h \in Handlers, Return(h), UNCHANGED <<clusterVars, cache>> PROVE IInv'
  <2>1. \A g \in Handlers \ {h} : Keeps(g)
    BY <1>2 DEF Return, Goto, Keeps, TypeOK, clusterVars
  <2> QED
    BY <1>1, <1>2, <2>1, ReturnGood
<1>3. ASSUME NEW d \in Places, Appear(d) PROVE IInv'
  <2>1. ASSUME NEW g \in Handlers PROVE Good(g)'
    <3>1. Good(g)
      BY DEF IInv
    <3>2. /\ pc' = pc /\ scope' = scope /\ tool' = tool /\ caps' = caps /\ hits' = hits
          /\ idx' = idx /\ sure' = sure /\ agree' = agree /\ lasting' = lasting /\ logs' = logs \cup {d}
          /\ ever'[g] = IF Searching(g) THEN ever[g] \cup {d} ELSE ever[g]
      BY <1>3 DEF Appear, callVars
    <3> QED
      BY <3>1, <3>2 DEF Good, OnLogs, HistoryFits, StaysInside, FindsLasting, Searching, Scoped,
                        FilteredByNamespace, OwnStream
  <2> QED
    BY <2>1 DEF IInv
<1>4. ASSUME NEW d \in Places, Vanish(d) PROVE IInv'
  <2>1. ASSUME NEW g \in Handlers PROVE Good(g)'
    <3>1. Good(g)
      BY DEF IInv
    <3>2. /\ pc' = pc /\ scope' = scope /\ tool' = tool /\ caps' = caps /\ hits' = hits
          /\ idx' = idx /\ sure' = sure /\ agree' = agree /\ ever' = ever /\ logs' = logs \ {d} /\ lasting'[g] = lasting[g] \ {d}
      BY <1>4 DEF Vanish, callVars
    <3> QED
      BY <3>1, <3>2 DEF Good, OnLogs, HistoryFits, StaysInside, FindsLasting, Searching, Scoped,
                        FilteredByNamespace, OwnStream
  <2> QED
    BY <2>1 DEF IInv
<1>5. ASSUME NEW d \in Homes, NEW m \in Mappings[d], Remap(d, m) PROVE IInv'
  BY <1>5, KeepsGood DEF IInv, Remap, Keeps, callVars, answerVars
<1>6. ASSUME NEW i \in Indices, Age(i) PROVE IInv'
  BY <1>6, KeepsGood DEF IInv, Age, Keeps, clusterVars, callVars, answerVars
<1>7. ASSUME NEW h \in Handlers, NEW t \in Tools, NEW n \in Namespaces \cup {NoNamespace}, Call(h, t, n)
      PROVE  IInv'
  <2>1. Good(h)'
    <3>1. Scoped(h)' => Tool[t].index = "logs"
      BY <1>7 DEF Call, Scoped, Scopes, Tool, Tools, TypeOK, clogProfileHandler, clogListNamespaces,
                  clogListContainers, clogFindTargets, clogContainerLogs, clogIngressMetrics,
                  clogIngressTopRoutes
    <3> QED
      BY <1>7, <3>1, QuietGood DEF Call, Goto, TypeOK, OnLogs
  <2>2. \A g \in Handlers \ {h} : Keeps(g)
    BY <1>7 DEF Call, Goto, Keeps, TypeOK, clusterVars, answerVars
  <2> QED
    BY <1>1, <2>1, <2>2
<1>8. ASSUME NEW h \in Handlers, pc'[h] \notin {"search", "again", "answered"},
             scope' = scope, tool' = tool, UNCHANGED <<clusterVars, answerVars>>,
             idx' = idx \/ tool[h] = "profile",
             \A g \in Handlers \ {h} : pc'[g] = pc[g] /\ caps'[g] = caps[g] /\ idx'[g] = idx[g]
      PROVE  IInv'
  <2>1. Good(h)'
    <3>1. Good(h)
      BY DEF IInv
    <3>2. tool[h] = "profile" => scope[h] = NoNamespace
      BY <3>1 DEF Good, Scopes, Tool, Tools, clogProfileHandler
    <3> QED
      BY <1>8, <3>1, <3>2, QuietGood DEF Good, OnLogs, Scoped
  <2>2. \A g \in Handlers \ {h} : Keeps(g)
    BY <1>8 DEF Keeps, clusterVars, answerVars
  <2> QED
    BY <1>1, <2>1, <2>2
<1>9. ASSUME NEW h \in Handlers, Fetch(h) \/ Lookup(h) \/ Store(h) PROVE IInv'
  BY <1>8, <1>9 DEF Fetch, Lookup, Store, Goto, TypeOK, callVars
<1>10. ASSUME NEW h \in Handlers, FetchFails(h) PROVE IInv'
  <2>1. CASE Return(h)
    BY <1>2, <1>10, <2>1 DEF FetchFails
  <2>2. CASE ~Return(h)
    BY <1>8, <1>10, <2>2 DEF FetchFails, Goto, TypeOK
  <2> QED
    BY <2>1, <2>2
<1>11. ASSUME NEW h \in Handlers, Profile(h) PROVE IInv'
  <2>1. CASE Return(h)
    BY <1>2, <1>11, <2>1 DEF Profile
  <2>2. CASE ~Return(h)
    BY <1>8, <1>11, <2>2 DEF Profile, Goto, TypeOK
  <2> QED
    BY <2>1, <2>2
<1>12. ASSUME NEW h \in Handlers, Unresolved(h) \/ SearchFails(h) \/ Leave(h) PROVE IInv'
  BY <1>2, <1>12 DEF Unresolved, SearchFails, Leave
<1>13. ASSUME NEW h \in Handlers, Resolve(h) PROVE IInv'
  <2>1. Good(h)'
    <3>1. OnLogs(h)' /\ pc'[h] = "search" /\ lasting'[h] = logs /\ ever'[h] = logs /\ logs' = logs
      BY <1>13 DEF Resolve, Goto, TypeOK, clusterVars, callVars, IInv, Good, OnLogs, Scoped
    <3>2. scope'[h] \in Scopes(tool'[h])
      BY <1>13 DEF Resolve, callVars, IInv, Good
    <3> QED
      BY <3>1, <3>2 DEF Good, OnLogs, HistoryFits, StaysInside, FindsLasting
  <2>2. \A g \in Handlers \ {h} : Keeps(g)
    BY <1>13 DEF Resolve, Goto, Keeps, TypeOK, clusterVars, callVars
  <2> QED
    BY <1>1, <2>1, <2>2
<1>14. ASSUME NEW h \in Handlers, NEW V, Answered(h, V), UNCHANGED <<clusterVars, cache, callVars>>
       PROVE  \A g \in Handlers \ {h} : Keeps(g)
  BY <1>14 DEF Answered, Goto, Keeps, TypeOK, clusterVars, callVars
<1>15. ASSUME NEW h \in Handlers, SearchAll(h) PROVE IInv'
  <2> DEFINE V == IF idx[h] = "logs" THEN logs ELSE {}
  <2>1. Answered(h, V) /\ UNCHANGED <<clusterVars, cache, callVars>> /\ ~Scoped(h)
    BY <1>15 DEF SearchAll
  <2> HIDE DEF V
  <2>2. Good(h)'
    <3>1. pc'[h] = "answered" /\ scope'[h] = NoNamespace /\ scope'[h] \in Scopes(tool'[h])
      BY <2>1 DEF Answered, Goto, TypeOK, Scoped, callVars, IInv, Good
    <3> QED
      BY <3>1 DEF Good, OnLogs, HistoryFits, StaysInside, FindsLasting, Searching, Scoped, FilteredByNamespace
  <2> QED
    BY <1>1, <1>14, <2>1, <2>2
<1>16. ASSUME NEW h \in Handlers, SearchNamespace(h) PROVE IInv'
  <2>1. CASE OwnStream(h) \in logs
    BY <1>1, <1>14, <1>16, <2>1, AnswerGood DEF SearchNamespace, Searching
  <2>2. CASE OwnStream(h) \notin logs
    <3>1. pc'[h] = "again" /\ UNCHANGED <<clusterVars, callVars, answerVars>>
      BY <1>16, <2>2 DEF SearchNamespace, Goto, TypeOK
    <3>2. Good(h) /\ pc[h] = "search" /\ Scoped(h)
      BY <1>16 DEF SearchNamespace, IInv
    <3>3. Good(h)'
      BY <2>2, <3>1, <3>2 DEF Good, OnLogs, HistoryFits, StaysInside, FindsLasting, Searching, OwnStream,
                              Scoped, clusterVars, callVars, answerVars
    <3>4. \A g \in Handlers \ {h} : Keeps(g)
      BY <1>16, <2>2, <3>1 DEF SearchNamespace, Goto, Keeps, TypeOK, clusterVars, callVars, answerVars
    <3> QED
      BY <1>1, <3>3, <3>4
  <2> QED
    BY <2>1, <2>2
<1>17. ASSUME NEW h \in Handlers, SearchFallback(h) PROVE IInv'
  <2>1. Scoped(h)
    BY <1>17 DEF SearchFallback, IInv, Good, HistoryFits
  <2> QED
    BY <1>1, <1>14, <1>17, <2>1, AnswerGood DEF SearchFallback, Searching
<1>18. CASE UNCHANGED vars
  BY <1>18, KeepsGood DEF IInv, vars, Keeps, clusterVars, callVars, answerVars
<1> QED
  BY <1>3, <1>4, <1>5, <1>6, <1>7, <1>9, <1>10, <1>11, <1>12, <1>13, <1>15, <1>16, <1>17, <1>18
  DEF Next, Cluster, Step

\* The strengthening from which both promises about answers follow.
THEOREM InductiveInvariant == Spec => []IInv
<1>1. Init => IInv
  BY InitGood
<1> QED
  BY <1>1, Invariance, TypeCorrect, PTL DEF Spec

\* An answer about a namespace that has a field stays inside it as long as the
\* cluster would still give the same fields, whatever the mapping of each index that
\* was searched (searchNamespace and its fallback).
THEOREM FilterHolds == Spec => []FilteredAnswersStayInside
BY InductiveInvariant, IInvMeans, PTL

\* Logs that last for the whole search are found, by the data stream or by the
\* fallback (searchNamespace), also when streams come and go in between, in every
\* index that alone would have given the same fields.
THEOREM SearchFindsLasting == Spec => []LastingLogsAreFound
BY InductiveInvariant, IInvMeans, PTL

-----------------------------------------------------------------------------
(* How old fields spread, and why they do not for ever.                    *)

\* A handler has no capabilities before the lookup or the answer gives it some.
CapsFit == \A h \in Handlers : pc[h] \in {"idle", "lookup", "fetch"} => caps[h] = {}

\* What the cache and the handlers hold is what the cluster would answer now.
FreshEntry(i) == cache[i] \subseteq {Merged(i)}
FreshCaps(h) == caps[h] \subseteq {Merged(idx[h])}
AllFresh == (\A i \in Indices : FreshEntry(i)) /\ (\A h \in Handlers : FreshCaps(h))

\* Handlers with an old answer of _field_caps that is still to be stored.
LateStores == {h \in Handlers : pc[h] = "store" /\ ~FreshCaps(h)}

\* As long as logs and mappings stay as they are: nobody gets an old answer; an entry
\* becomes old only when an old answer that was under way is stored, once for each of
\* them; and a handler takes old fields only from an old entry.
OldFieldsRunOut ==
    UNCHANGED clusterVars =>
        /\ LateStores' \subseteq LateStores
        /\ \A i \in Indices : ~FreshEntry(i)' =>
              ~FreshEntry(i) \/ \E h \in LateStores \ LateStores' : idx[h] = i
        /\ \A h \in Handlers : ~FreshCaps(h)' =>
              ~FreshCaps(h) \/ (pc[h] = "lookup" /\ ~FreshEntry(idx[h]))

LEMMA CapsFitHolds == Spec => []CapsFit
<1>1. Init => CapsFit
  BY DEF Init, CapsFit
<1>2. TypeOK /\ CapsFit /\ [Next]_vars => CapsFit'
  <2> SUFFICES ASSUME TypeOK, CapsFit, [Next]_vars, NEW g \in Handlers
               PROVE  pc'[g] \in {"idle", "lookup", "fetch"} => caps'[g] = {}
    BY DEF CapsFit
  <2> USE DEF TypeOK, CapsFit, Goto
  <2>1. ASSUME NEW h \in Handlers, Return(h)
        PROVE  pc'[g] \in {"idle", "lookup", "fetch"} => caps'[g] = {}
    BY <2>1 DEF Return
  <2>2. CASE Cluster \/ UNCHANGED vars
    BY <2>2 DEF Cluster, Appear, Vanish, Remap, Age, vars, callVars
  <2>3. ASSUME NEW h \in Handlers, NEW t \in Tools, NEW n \in Namespaces \cup {NoNamespace}, Call(h, t, n)
        PROVE  pc'[g] \in {"idle", "lookup", "fetch"} => caps'[g] = {}
    BY <2>3 DEF Call
  <2>4. ASSUME NEW h \in Handlers, Fetch(h) \/ FetchFails(h)
        PROVE  pc'[g] \in {"idle", "lookup", "fetch"} => caps'[g] = {}
    BY <2>1, <2>4 DEF Fetch, FetchFails
  <2>5. ASSUME NEW h \in Handlers, Step(h)
        PROVE  pc'[g] \in {"idle", "lookup", "fetch"} => caps'[g] = {}
    <3>1. CASE Lookup(h) \/ Store(h)
      BY <3>1 DEF Lookup, Store, callVars
    <3>2. CASE Unresolved(h) \/ Profile(h) \/ SearchFails(h) \/ Leave(h)
      BY <2>1, <3>2 DEF Unresolved, Profile, SearchFails, Leave
    <3>3. CASE Resolve(h) \/ SearchAll(h) \/ SearchNamespace(h) \/ SearchFallback(h)
      BY <3>3 DEF Resolve, SearchAll, SearchNamespace, SearchFallback, Answered, callVars
    <3> QED
      BY <2>5, <3>1, <3>2, <3>3 DEF Step
  <2> QED
    BY <2>2, <2>3, <2>4, <2>5 DEF Next
<1> QED
  BY <1>1, <1>2, TypeCorrect, PTL DEF Spec

LEMMA OldFieldsStep == TypeOK /\ CapsFit /\ [Next]_vars => OldFieldsRunOut
<1> SUFFICES ASSUME TypeOK, CapsFit, [Next]_vars, UNCHANGED clusterVars
             PROVE  /\ LateStores' \subseteq LateStores
                    /\ \A i \in Indices : ~FreshEntry(i)' =>
                          ~FreshEntry(i) \/ \E h \in LateStores \ LateStores' : idx[h] = i
                    /\ \A h \in Handlers : ~FreshCaps(h)' =>
                          ~FreshCaps(h) \/ (pc[h] = "lookup" /\ ~FreshEntry(idx[h]))
  BY DEF OldFieldsRunOut
<1>1. \A i : Merged(i)' = Merged(i)
  BY DEF clusterVars, Merged, Covered
\* What a handler does to its own fields.
<1> DEFINE Forgets(g) == caps'[g] = {}
           KeepsCaps(g) == caps'[g] = caps[g] /\ idx'[g] = idx[g] /\ (pc'[g] = "store" => pc[g] = "store")
           Hits(g) == pc[g] = "lookup" /\ caps'[g] = cache[idx[g]] /\ idx'[g] = idx[g] /\ pc'[g] # "store"
           Fetches(g) == caps'[g] = {Merged(idx[g])} /\ idx'[g] = idx[g]
<1>2. ASSUME NEW g \in Handlers
      PROVE  Forgets(g) \/ KeepsCaps(g) \/ Hits(g) \/ Fetches(g)
  <2> USE DEF TypeOK, CapsFit, Goto
  <2>1. ASSUME NEW h \in Handlers, Return(h)
        PROVE  Forgets(g) \/ KeepsCaps(g)
    BY <2>1 DEF Return
  <2>2. CASE Cluster \/ UNCHANGED vars
    BY <2>2 DEF Cluster, Appear, Vanish, Remap, Age, vars, callVars
  <2>3. ASSUME NEW h \in Handlers, NEW t \in Tools, NEW n \in Namespaces \cup {NoNamespace}, Call(h, t, n)
        PROVE  Forgets(g) \/ KeepsCaps(g)
    BY <2>3 DEF Call
  <2>4. ASSUME NEW h \in Handlers, Fetch(h) \/ FetchFails(h)
        PROVE  Forgets(g) \/ KeepsCaps(g) \/ Fetches(g)
    BY <2>1, <2>4 DEF Fetch, FetchFails
  <2>5. ASSUME NEW h \in Handlers, Step(h)
        PROVE  Forgets(g) \/ KeepsCaps(g) \/ Hits(g)
    <3>1. CASE Lookup(h) \/ Store(h)
      BY <3>1 DEF Lookup, Store, callVars
    <3>2. CASE Unresolved(h) \/ Profile(h) \/ SearchFails(h) \/ Leave(h)
      BY <2>1, <3>2 DEF Unresolved, Profile, SearchFails, Leave
    <3>3. CASE Resolve(h) \/ SearchAll(h) \/ SearchNamespace(h) \/ SearchFallback(h)
      BY <3>3 DEF Resolve, SearchAll, SearchNamespace, SearchFallback, Answered, callVars
    <3> QED
      BY <2>5, <3>1, <3>2, <3>3 DEF Step
  <2> QED
    BY <2>2, <2>3, <2>4, <2>5 DEF Next
<1>3. LateStores' \subseteq LateStores
  BY <1>1, <1>2 DEF LateStores, FreshCaps
<1>4. ASSUME NEW h \in Handlers, ~FreshCaps(h)'
      PROVE  ~FreshCaps(h) \/ (pc[h] = "lookup" /\ ~FreshEntry(idx[h]))
  BY <1>1, <1>2, <1>4 DEF FreshCaps, FreshEntry
<1>5. ASSUME NEW i \in Indices, ~FreshEntry(i)', FreshEntry(i)
      PROVE  \E h \in LateStores \ LateStores' : idx[h] = i
  <2>1. cache'[i] # cache[i] /\ cache'[i] # {}
    BY <1>1, <1>5 DEF FreshEntry
  <2>2. PICK h \in Handlers : Store(h)
    BY <2>1 DEF Next, Cluster, Appear, Vanish, Remap, Age, Call, Fetch, FetchFails, Step, Lookup,
       Unresolved, Profile, Resolve, SearchAll, SearchNamespace, SearchFallback, SearchFails, Leave,
       vars, TypeOK
  <2>3. idx[h] = i /\ cache'[i] = caps[h] /\ pc[h] = "store" /\ pc'[h] # "store"
    BY <2>1, <2>2 DEF Store, Goto, TypeOK
  <2>4. ~FreshCaps(h)
    BY <1>1, <1>5, <2>3 DEF FreshCaps, FreshEntry
  <2> QED
    BY <2>3, <2>4 DEF LateStores
<1> QED
  BY <1>3, <1>4, <1>5

\* The safety of StaleFieldsDie: the mutex of capsCache is not held during _field_caps, so
\* that a slow call can store an old answer over a newer one; but while nothing changes
\* there are ever fewer such calls, and no other way to old fields.
THEOREM OldFieldsDwindle == Spec => [][OldFieldsRunOut]_vars
BY TypeCorrect, CapsFitHolds, OldFieldsStep, PTL DEF Spec

\* Once no entry and no call has old fields, and as long as logs and mappings stay as they
\* are, the tools work with the fields there are.
THEOREM FreshFieldsLast ==
    Spec => []((AllFresh /\ [][FALSE]_clusterVars) =>
                 [](\A h \in Handlers : Resolved(h) => caps[h] = {Merged(idx[h])}))
<1>1. TypeOK /\ CapsFit /\ AllFresh /\ [Next]_vars /\ [FALSE]_clusterVars => AllFresh'
  <2> SUFFICES ASSUME TypeOK, CapsFit, AllFresh, [Next]_vars, UNCHANGED clusterVars
               PROVE  AllFresh'
    OBVIOUS
  <2>1. OldFieldsRunOut /\ idx \in [Handlers -> Indices]
    BY OldFieldsStep DEF TypeOK
  <2> QED
    BY <2>1 DEF OldFieldsRunOut, AllFresh, LateStores
<1>2. TypeOK /\ AllFresh => \A h \in Handlers : Resolved(h) => caps[h] = {Merged(idx[h])}
  BY DEF TypeOK, AllFresh, FreshCaps, Resolved
<1> QED
  BY <1>1, <1>2, TypeCorrect, CapsFitHolds, PTL DEF Spec

=============================================================================
