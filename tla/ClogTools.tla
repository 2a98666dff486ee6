------------------------------- MODULE ClogTools -------------------------------
(***************************************************************************)
(* The clog_* tools: handlers that share a cache of field capabilities,    *)
(* and the Elasticsearch cluster whose mappings and data streams change    *)
(* while they work.                                                        *)
(*                                                                         *)
(* A tool first asks which fields exist (from the cache, or from the       *)
(* cluster without holding the mutex), picks for every role the first      *)
(* candidate that serves, and only then searches.  A tool that is asked    *)
(* about one namespace searches the data stream of the namespace, and all  *)
(* log indices with the same query if there is no such stream.             *)
(***************************************************************************)
EXTENDS Naturals, Sequences

CONSTANTS
    Handlers,       \* HTTP handler goroutines
    ToolsOf,        \* bound of the model: the tools each handler calls
    Namespaces,     \* Kubernetes namespaces
    NoNamespace,    \* the namespace argument is absent
    Places,         \* bound of the model: where logs may be, see logs
    Prefixed,       \* namespaces whose name starts with CLOG_LOGS_PREFIX ...
    Unprefixed,     \* ... and what is left of such a name without it
    Fields,         \* field names
    Candidates,     \* role -> candidates, the preferred one first
    NoField,        \* no candidate serves
    Mappings        \* place, or Ingress -> the mappings its index goes through

Indices == {"logs", "ingress"}
Roles == {"namespace", "container", "service", "pod",
          "status", "latency", "host", "path"}

\* The ingress index, and where documents are at all.
Ingress == <<NoNamespace, "ingress">>
Homes == Places \cup {Ingress}

\* What _field_caps says of a field: its types over all indices of a pattern,
\* whether one of them is aggregatable, and whether the field has a sub-field
\* .keyword that is.  No types: the field is not mapped.
Types == {"keyword", "text", "number"}
Cap == {c \in [types : SUBSET Types, aggregatable : BOOLEAN, keyword : BOOLEAN] :
          c.aggregatable => c.types # {}}

Caps == [Fields -> Cap]

\* A field as a query names it: itself, or its sub-field .keyword.
FieldRef == [name : Fields, keyword : BOOLEAN]

-----------------------------------------------------------------------------
(* What tells the tools apart: the index whose fields they need, the roles  *)
(* they cannot do without, and whether they take a namespace.               *)

clogProfileHandler   == [index |-> "logs",    needs |-> {},            scope |-> "none"]
clogListNamespaces   == [index |-> "logs",    needs |-> {"namespace"}, scope |-> "none"]
clogListContainers   == [index |-> "logs",    needs |-> {"container"}, scope |-> "optional"]
clogFindTargets      == [index |-> "logs",    needs |-> {},            scope |-> "none"]
clogContainerLogs    == [index |-> "logs",    needs |-> {"container"}, scope |-> "required"]
clogIngressMetrics   == [index |-> "ingress", needs |-> {"status"},    scope |-> "none"]
clogIngressTopRoutes == [index |-> "ingress", needs |-> {"path"},      scope |-> "none"]

Tools == {"profile", "list_namespaces", "list_containers", "find_targets",
          "container_logs", "ingress_metrics", "ingress_top_routes"}

Tool == [t \in Tools |->
           CASE t = "profile"            -> clogProfileHandler
             [] t = "list_namespaces"    -> clogListNamespaces
             [] t = "list_containers"    -> clogListContainers
             [] t = "find_targets"       -> clogFindTargets
             [] t = "container_logs"     -> clogContainerLogs
             [] t = "ingress_metrics"    -> clogIngressMetrics
             [] t = "ingress_top_routes" -> clogIngressTopRoutes]

\* The namespace arguments that tool t accepts.
Scopes(t) ==
    CASE Tool[t].scope = "none"     -> {NoNamespace}
      [] Tool[t].scope = "optional" -> Namespaces \cup {NoNamespace}
      [] Tool[t].scope = "required" -> Namespaces

ASSUME NamespaceAssumption == NoNamespace \notin Namespaces
ASSUME PlaceAssumption == Places \subseteq Namespaces \X {"own", "shared"}
ASSUME PrefixAssumption == Unprefixed \in [Prefixed -> Namespaces] /\ Prefixed \subseteq Namespaces
ASSUME FieldAssumption == NoField \notin FieldRef
ASSUME CandidateAssumption == Candidates \in [Roles -> Seq(Fields)]
ASSUME MappingAssumption == Mappings \in [Homes -> SUBSET Caps]
ASSUME ToolAssumption == ToolsOf \in [Handlers -> SUBSET Tools]

-----------------------------------------------------------------------------
(* Field resolution                                                         *)

\* Mutant: a text field is taken as it is if it is aggregatable somewhere.
ItselfIfAggregatable(cap) == cap.aggregatable

\* A keyword field serves itself; one that is text in any index does not.
Itself(cap) == cap.aggregatable /\ "text" \notin cap.types

\* The first candidate that serves, itself or by its .keyword.
termField(caps, candidates) ==
    LET serves(i) == Itself(caps[candidates[i]]) \/ caps[candidates[i]].keyword
        first == {i \in DOMAIN candidates : serves(i) /\ \A j \in 1 .. (i - 1) : ~serves(j)}
    IN  IF first = {} THEN NoField
        ELSE LET f == candidates[CHOOSE i \in first : TRUE]
             IN  [name |-> f, keyword |-> ~Itself(caps[f])]

\* The first candidate that is a number in some index.
numericField(caps, candidates) ==
    LET serves(i) == "number" \in caps[candidates[i]].types
        first == {i \in DOMAIN candidates : serves(i) /\ \A j \in 1 .. (i - 1) : ~serves(j)}
    IN  IF first = {} THEN NoField
        ELSE [name |-> candidates[CHOOSE i \in first : TRUE], keyword |-> FALSE]

\* The field of every role; a status may be a number or a keyword.
resolve(caps, role) ==
    LET number == numericField(caps, Candidates[role])
        term == termField(caps, Candidates[role])
    IN  CASE role = "latency" -> number
          [] role = "status"  -> IF number # NoField THEN number ELSE term
          [] OTHER            -> term

-----------------------------------------------------------------------------
VARIABLES
    logs,       \* where there are logs: <<namespace, "own" or "shared">>
    mapping,    \* place, or Ingress -> the mapping of its index now
    cache,      \* index -> the capabilities cached within capsTTL, none or one
    pc,         \* where each handler is
    tool,       \* the tool it runs
    scope,      \* the namespace it is asked about
    idx,        \* the index whose fields it resolves
    caps,       \* the capabilities it got, none or one
    hits,       \* whose logs its answer covers
    sure,       \* history: its fields were the cluster's when it searched
    agree,      \* history: the places that would have given the same fields
    lasting,    \* history: the logs that were there during its whole search
    ever        \* history: the logs that were there at some time of it

clusterVars == <<logs, mapping>>
callVars == <<tool, scope, idx, caps>>
answerVars == <<hits, sure, agree, lasting, ever>>
vars == <<clusterVars, cache, pc, callVars, answerVars>>

PcStates == {"idle", "lookup", "fetch", "store", "resolve", "search", "again", "answered"}

\* None or one of S.
Maybe(s, S) == s \subseteq S /\ \A x, y \in s : x = y

TypeOK ==
    /\ logs \subseteq Places
    /\ mapping \in [Homes -> Caps]
    /\ DOMAIN cache = Indices /\ \A i \in Indices : Maybe(cache[i], Caps)
    /\ pc \in [Handlers -> PcStates]
    /\ tool \in [Handlers -> Tools]
    /\ scope \in [Handlers -> Namespaces \cup {NoNamespace}]
    /\ idx \in [Handlers -> Indices]
    /\ DOMAIN caps = Handlers /\ \A h \in Handlers : Maybe(caps[h], Caps)
    /\ \A h \in Handlers : pc[h] \in {"store", "resolve", "search", "again", "answered"} => caps[h] # {}
    /\ hits \in [Handlers -> SUBSET Places]
    /\ sure \in [Handlers -> BOOLEAN]
    /\ agree \in [Handlers -> SUBSET Places]
    /\ lasting \in [Handlers -> SUBSET Places]
    /\ ever \in [Handlers -> SUBSET Places]

Init ==
    /\ logs \in SUBSET Places
    /\ mapping \in {M \in [Homes -> UNION {Mappings[d] : d \in Homes}] :
                        \A d \in Homes : M[d] \in Mappings[d]}
    /\ cache = [i \in Indices |-> {}]
    /\ pc = [h \in Handlers |-> "idle"]
    /\ tool = [h \in Handlers |-> "profile"]
    /\ scope = [h \in Handlers |-> NoNamespace]
    /\ idx = [h \in Handlers |-> "logs"]
    /\ caps = [h \in Handlers |-> {}]
    /\ hits = [h \in Handlers |-> {}]
    /\ sure = [h \in Handlers |-> FALSE]
    /\ agree = [h \in Handlers |-> {}]
    /\ lasting = [h \in Handlers |-> {}]
    /\ ever = [h \in Handlers |-> {}]

-----------------------------------------------------------------------------
(* The cluster, and time                                                    *)

Searching(h) == pc[h] \in {"search", "again"}

\* A namespace starts to log, to a data stream of its own or to a shared index.
Appear(d) ==
    /\ d \notin logs
    /\ logs' = logs \cup {d}
    /\ ever' = [h \in Handlers |-> IF Searching(h) THEN ever[h] \cup {d} ELSE ever[h]]
    /\ UNCHANGED <<mapping, cache, pc, callVars, hits, sure, agree, lasting>>

\* Retention removes logs; a data stream goes with them.
Vanish(d) ==
    /\ d \in logs
    /\ logs' = logs \ {d}
    /\ lasting' = [h \in Handlers |-> lasting[h] \ {d}]
    /\ UNCHANGED <<mapping, cache, pc, callVars, hits, sure, agree, ever>>

\* A rollover or a new template changes what the fields of an index are.
Remap(d, m) ==
    /\ m \in Mappings[d] /\ m # mapping[d]
    /\ mapping' = [mapping EXCEPT ![d] = m]
    /\ UNCHANGED <<logs, cache, pc, callVars, answerVars>>

\* Mutant: the age of an entry is not looked at.
AgeNever(i) ==
    /\ FALSE
    /\ cache' = [cache EXCEPT ![i] = {}]
    /\ UNCHANGED <<clusterVars, pc, callVars, answerVars>>

\* An entry of the cache reaches capsTTL, from when on it is as if it were not there.
Age(i) ==
    /\ cache[i] # {}
    /\ cache' = [cache EXCEPT ![i] = {}]
    /\ UNCHANGED <<clusterVars, pc, callVars, answerVars>>

-----------------------------------------------------------------------------
(* A call                                                                   *)

Goto(h, label) == pc' = [pc EXCEPT ![h] = label]

\* The handler answers or fails, and forgets.
Return(h) ==
    /\ Goto(h, "idle")
    /\ tool' = [tool EXCEPT ![h] = "profile"]
    /\ scope' = [scope EXCEPT ![h] = NoNamespace]
    /\ idx' = [idx EXCEPT ![h] = "logs"]
    /\ caps' = [caps EXCEPT ![h] = {}]
    /\ hits' = [hits EXCEPT ![h] = {}]
    /\ sure' = [sure EXCEPT ![h] = FALSE]
    /\ agree' = [agree EXCEPT ![h] = {}]
    /\ lasting' = [lasting EXCEPT ![h] = {}]
    /\ ever' = [ever EXCEPT ![h] = {}]

\* A tool call with the arguments it requires, and a client for its source; a
\* call without either fails before it touches anything.
Call(h, t, n) ==
    /\ pc[h] = "idle" /\ t \in ToolsOf[h] /\ n \in Scopes(t)
    /\ Goto(h, "lookup")
    /\ tool' = [tool EXCEPT ![h] = t]
    /\ scope' = [scope EXCEPT ![h] = n]
    /\ idx' = [idx EXCEPT ![h] = Tool[t].index]
    /\ UNCHANGED <<clusterVars, cache, caps, answerVars>>

\* capsCache.get under the mutex: an entry younger than capsTTL is a hit.
Lookup(h) ==
    /\ pc[h] = "lookup"
    /\ IF cache[idx[h]] # {}
       THEN caps' = [caps EXCEPT ![h] = cache[idx[h]]] /\ Goto(h, "resolve")
       ELSE Goto(h, "fetch") /\ UNCHANGED caps
    /\ UNCHANGED <<clusterVars, cache, tool, scope, idx, answerVars>>

\* What an index pattern covers.
Covered(i) == IF i = "logs" THEN logs ELSE {Ingress}

\* fetchFieldCaps over an index pattern: the types of a field are those it has in
\* any index, and it is aggregatable if it is in one of them.
Merged(i) ==
    [f \in Fields |->
        [types |-> UNION {mapping[d][f].types : d \in Covered(i)},
         aggregatable |-> \E d \in Covered(i) : mapping[d][f].aggregatable,
         keyword |-> \E d \in Covered(i) : mapping[d][f].keyword]]

\* It is called without the mutex: the cluster answers what holds now ...
Fetch(h) ==
    /\ pc[h] = "fetch"
    /\ caps' = [caps EXCEPT ![h] = {Merged(idx[h])}]
    /\ Goto(h, "store")
    /\ UNCHANGED <<clusterVars, cache, tool, scope, idx, answerVars>>

\* Mutant: the error of _field_caps is dropped.
FetchFailsGoesOn(h) ==
    /\ pc[h] = "fetch"
    /\ Goto(h, "resolve")
    /\ UNCHANGED <<clusterVars, cache, callVars, answerVars>>

\* ... or fails.  clog_profile asks for the second index all the same.
FetchFails(h) ==
    /\ pc[h] = "fetch"
    /\ IF tool[h] = "profile" /\ idx[h] = "logs"
       THEN /\ idx' = [idx EXCEPT ![h] = "ingress"]
            /\ Goto(h, "lookup")
            /\ UNCHANGED <<tool, scope, caps, answerVars>>
       ELSE Return(h)
    /\ UNCHANGED <<clusterVars, cache>>

\* capsCache.get under the mutex again: the entry is as young as the store, not
\* as the answer, and replaces whatever a faster call has stored since.
Store(h) ==
    /\ pc[h] = "store"
    /\ cache' = [cache EXCEPT ![idx[h]] = caps[h]]
    /\ Goto(h, "resolve")
    /\ UNCHANGED <<clusterVars, callVars, answerVars>>

Missing(h) ==
    \E r \in Tool[tool[h]].needs, c \in caps[h] : resolve(c, r) = NoField

\* requireField: a role the tool cannot do without has no field.
Unresolved(h) ==
    /\ pc[h] = "resolve" /\ Missing(h)
    /\ Return(h)
    /\ UNCHANGED <<clusterVars, cache>>

\* clog_profile only shows the fields, of one index and then of the other.
Profile(h) ==
    /\ pc[h] = "resolve" /\ tool[h] = "profile"
    /\ IF idx[h] = "logs"
       THEN /\ idx' = [idx EXCEPT ![h] = "ingress"]
            /\ caps' = [caps EXCEPT ![h] = {}]
            /\ Goto(h, "lookup")
            /\ UNCHANGED <<tool, scope, answerVars>>
       ELSE Return(h)
    /\ UNCHANGED <<clusterVars, cache>>

\* The query is built once, from the fields resolved; then the search starts.
Resolve(h) ==
    /\ pc[h] = "resolve" /\ ~Missing(h) /\ tool[h] # "profile"
    /\ Goto(h, "search")
    /\ lasting' = [lasting EXCEPT ![h] = logs]
    /\ ever' = [ever EXCEPT ![h] = logs]
    /\ UNCHANGED <<clusterVars, cache, callVars, hits, sure, agree>>

-----------------------------------------------------------------------------
(* The search                                                               *)

\* Whose data stream is searched for namespace n: a name that starts with the
\* prefix is taken for the name of a stream.
namespaceIndex(n) == IF n \in Prefixed THEN Unprefixed[n] ELSE n

OwnStream(h) == <<namespaceIndex(scope[h]), "own">>
Scoped(h) == scope[h] # NoNamespace

\* The roles the query has a field for: the namespace only if one was resolved.
Used(h) == Tool[tool[h]].needs \cup (IF Scoped(h) THEN {"namespace"} ELSE {})
Named(h) == {resolve(c, r) : c \in caps[h], r \in Used(h)} \ {NoField}

FilteredByNamespace(h) ==
    Scoped(h) /\ \E c \in caps[h] : resolve(c, "namespace") # NoField

\* In an index with mapping m: field f is not there, or it is analysed.
Lacks(f, m) == IF f.keyword THEN ~m[f.name].keyword ELSE m[f.name].types = {}
Analysed(f, m) == ~f.keyword /\ "text" \in m[f.name].types

\* What a query over the places in visible returns.  Where a field is not mapped it
\* finds nothing; on an analysed field it matches by words, and may find anything.
Matches(h, visible, found) ==
    \A d \in visible :
        LET lacking == \E f \in Named(h) : Lacks(f, mapping[d])
            vague == \E f \in Named(h) : Analysed(f, mapping[d])
        IN  /\ lacking => d \notin found
            /\ ~lacking /\ ~vague => (d \in found <=> (FilteredByNamespace(h) => d[1] = scope[h]))

\* Capabilities m give the fields that the handler works with.
SameFields(h, m) == \A c \in caps[h] : \A r \in Used(h) : resolve(c, r) = resolve(m, r)

Answered(h, visible) ==
    /\ \E found \in SUBSET visible :
         Matches(h, visible, found) /\ hits' = [hits EXCEPT ![h] = found]
    /\ sure' = [sure EXCEPT ![h] = SameFields(h, Merged(idx[h]))]
    /\ agree' = [agree EXCEPT ![h] = {d \in Places : SameFields(h, mapping[d])}]
    /\ Goto(h, "answered")
    /\ UNCHANGED <<lasting, ever>>

\* The only search of a call without a namespace: all log indices, or ingress.
SearchAll(h) ==
    /\ pc[h] = "search" /\ ~Scoped(h)
    /\ Answered(h, IF idx[h] = "logs" THEN logs ELSE {})
    /\ UNCHANGED <<clusterVars, cache, callVars>>

\* Mutant: an empty answer of the data stream is taken as it is.
SearchNamespaceOnly(h) ==
    /\ pc[h] = "search" /\ Scoped(h)
    /\ Answered(h, {OwnStream(h)} \cap logs)
    /\ UNCHANGED <<clusterVars, cache, callVars>>

\* searchNamespace: the namespace's own data stream, if some shard answers.
SearchNamespace(h) ==
    /\ pc[h] = "search" /\ Scoped(h)
    /\ IF OwnStream(h) \in logs
       THEN Answered(h, {OwnStream(h)})
       ELSE Goto(h, "again") /\ UNCHANGED answerVars
    /\ UNCHANGED <<clusterVars, cache, callVars>>

\* The same query again on all log indices.
SearchFallback(h) ==
    /\ pc[h] = "again"
    /\ Answered(h, logs)
    /\ UNCHANGED <<clusterVars, cache, callVars>>

\* runSearch fails: its deadline, or an error of the cluster.
SearchFails(h) ==
    /\ Searching(h)
    /\ Return(h)
    /\ UNCHANGED <<clusterVars, cache>>

Leave(h) ==
    /\ pc[h] = "answered"
    /\ Return(h)
    /\ UNCHANGED <<clusterVars, cache>>

-----------------------------------------------------------------------------
Step(h) ==
    \/ Lookup(h) \/ Store(h) \/ Unresolved(h) \/ Profile(h) \/ Resolve(h)
    \/ SearchAll(h) \/ SearchNamespace(h) \/ SearchFallback(h) \/ SearchFails(h)
    \/ Leave(h)

Cluster ==
    \/ \E d \in Places : Appear(d) \/ Vanish(d)
    \/ \E d \in Homes : \E m \in Mappings[d] : Remap(d, m)
    \/ \E i \in Indices : Age(i)

Next ==
    \/ Cluster
    \/ \E h \in Handlers, t \in Tools, n \in Namespaces \cup {NoNamespace} : Call(h, t, n)
    \/ \E h \in Handlers : Fetch(h) \/ FetchFails(h) \/ Step(h)

Spec == Init /\ [][Next]_vars

\* Handlers are scheduled, a search ends by its deadline, and entries age.  No
\* fairness for calls, for the cluster's changes, or for _field_caps, which has
\* no deadline of its own.
FairSpec ==
    /\ Spec
    /\ \A h \in Handlers : WF_vars(Step(h))
    /\ \A i \in Indices : WF_vars(Age(i))

-----------------------------------------------------------------------------
(* Properties                                                               *)

\* An answer about a namespace for which a field was resolved holds no logs of
\* another namespace, though every index maps its fields in its own way and the
\* fallback searches them all: as long as the fields are those that the cluster's
\* capabilities still give, however old the cache entry is.
FilteredAnswersStayInside ==
    \A h \in Handlers :
        pc[h] = "answered" /\ FilteredByNamespace(h) /\ sure[h] =>
            \A d \in hits[h] : d[1] = scope[h]

\* Logs that are there during the whole search are not missed: those in the
\* namespace's own data stream, and, while it has none, those in shared indices,
\* also when the stream comes or goes between the two searches.  Unless their index
\* alone would have given other fields than all log indices together (which may
\* hide logs from every answer), or the name is taken for the name of a stream.
LastingLogsAreFound ==
    \A h \in Handlers :
        pc[h] = "answered" /\ Scoped(h) /\ scope[h] \notin Prefixed =>
            LET expected == lasting[h] \cap agree[h]
                shared == <<scope[h], "shared">>
            IN  /\ OwnStream(h) \in expected => OwnStream(h) \in hits[h]
                /\ shared \in expected /\ OwnStream(h) \notin ever[h] => shared \in hits[h]

Resolved(h) == pc[h] \in {"resolve", "search", "again", "answered"}

\* Once logs and mappings change no more, the tools work with the fields there are:
\* an entry that a slow call stored late is used for a while, but not for ever.
StaleFieldsDie ==
    <>[][FALSE]_clusterVars =>
        <>[](\A h \in Handlers : Resolved(h) => caps[h] = {Merged(idx[h])})

\* "... and, if it does not exist, every log index with the namespace filter"
\* (searchNamespace): an answer about a namespace is about that namespace.
AnswersStayInNamespace ==
    \A h \in Handlers :
        pc[h] = "answered" /\ Scoped(h) /\ sure[h] /\ scope[h] \notin Prefixed =>
            \A d \in hits[h] : d[1] = scope[h]

=============================================================================
