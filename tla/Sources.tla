------------------------------- MODULE Sources -------------------------------
(***************************************************************************)
(* From the environment to the source a tool works on: every adapter       *)
(* ranges over the environment, collects the settings under its prefix by  *)
(* name and keeps the names that are complete; a tool then finds a source  *)
(* by a name that is unique neither across kinds nor across cases.         *)
(*                                                                         *)
(* Two spellings of one key are interchangeable, and the range over the Go *)
(* map decides which of the two is stored last.                            *)
(***************************************************************************)
EXTENDS Naturals

CONSTANTS
    SourceNames,  \* names as they are spelled in variables and in calls
    Upper,        \* name -> its spelling in upper case
    NameRank,     \* name -> its place in the order of strings
    SourceEnvs    \* the sets of variables considered

Kinds == {"clickhouse", "elasticsearch", "mongodb", "mysql", "postgres",
          "redis", "sqlite"}

\* The canonical keys that the choice of a source can depend on.
ConfigKeys == {"HOST", "DB", "USER", "PATH", "URI", "URL", "WRITE"}

\* <PREFIX><NAME>_<KEY>=value.  Values are trimmed: "" is a variable that holds
\* nothing but blanks, "on" one that IsTruthy takes for true, "off" any other.
Setting == [kind : Kinds, name : SourceNames, key : ConfigKeys, long : BOOLEAN,
            value : {"", "on", "off"}]

\* The keys with a readable spelling besides the short one.
keyAliases == {"DB", "USER", "WRITE"}

OneSetting(e) ==
    \A v, w \in e : (v.kind = w.kind /\ v.name = w.name /\ v.key = w.key /\ v.long = w.long)
                        => v = w

ASSUME NameAssumption ==
    /\ Upper \in [SourceNames -> SourceNames]
    /\ \A n \in SourceNames : Upper[Upper[n]] = Upper[n]
    /\ NameRank \in [SourceNames -> Nat]
    /\ \A n, m \in SourceNames : NameRank[n] = NameRank[m] => n = m
ASSUME SettingAssumption ==
    \A e \in SourceEnvs :
        /\ e \subseteq Setting /\ OneSetting(e)
        /\ \A v \in e : v.long => v.key \in keyAliases

Source == [kind : Kinds, name : SourceNames]
Slot == [kind : Kinds, name : SourceNames, key : ConfigKeys]
SlotOf(v) == [kind |-> v.kind, name |-> v.name, key |-> v.key]
SourceOf(v) == [kind |-> v.kind, name |-> v.name]

-----------------------------------------------------------------------------
VARIABLES
    settings,   \* the variables of sources, the same at every start
    unread,     \* those that the range of their adapter has not come to
    cfg,        \* slot -> value, a partial function
    sources,    \* the sources discovered
    serving     \* DiscoverAll has returned

sourceVars == <<settings, unread, cfg, sources, serving>>

SourcesTypeOK ==
    /\ settings \in SourceEnvs
    /\ unread \subseteq settings
    /\ DOMAIN cfg \subseteq {SlotOf(v) : v \in settings}
    /\ \A k \in DOMAIN cfg : cfg[k] \in {"", "on", "off", "true", "false"}
    /\ sources \subseteq Source
    /\ serving \in BOOLEAN

SourcesStart(e) ==
    /\ unread = e /\ cfg = <<>> /\ sources = {} /\ serving = FALSE

SourcesInit ==
    /\ settings \in SourceEnvs
    /\ SourcesStart(settings)

SourcesRestart ==
    /\ unread' = settings /\ cfg' = <<>> /\ sources' = {} /\ serving' = FALSE
    /\ UNCHANGED settings

-----------------------------------------------------------------------------
(* ParsePrefixed and Discover                                              *)

\* Adapters are registered, walked and sorted by their kinds.
KindRank == [k \in Kinds |->
    CASE k = "clickhouse" -> 1 [] k = "elasticsearch" -> 2 [] k = "mongodb" -> 3
      [] k = "mysql" -> 4 [] k = "postgres" -> 5 [] k = "redis" -> 6 [] k = "sqlite" -> 7]

IsTruthy(v) == v = "on"

\* WRITE is normalised, every other value stays as it is.
Parsed(v) ==
    IF v.key = "WRITE" THEN (IF IsTruthy(v.value) THEN "true" ELSE "false") ELSE v.value

\* One step of the range over the environment by the adapter of v, after those
\* of smaller kinds; another spelling of the key that came earlier is overwritten.
ReadSetting(v) ==
    /\ ~serving /\ v \in unread
    /\ \A w \in unread : KindRank[v.kind] <= KindRank[w.kind]
    /\ unread' = unread \ {v}
    /\ cfg' = [k \in DOMAIN cfg \cup {SlotOf(v)} |->
                 IF k = SlotOf(v) THEN Parsed(v) ELSE cfg[k]]
    /\ UNCHANGED <<settings, sources, serving>>

\* What the value of a key is, "" when nothing set it.
Value(s, key) ==
    LET k == [kind |-> s.kind, name |-> s.name, key |-> key] IN
    IF k \in DOMAIN cfg THEN cfg[k] ELSE ""

\* The settings without which Discover skips a name silently.
Required(k) ==
    CASE k \in {"postgres", "mysql"}      -> {{"HOST", "DB", "USER"}}
      [] k = "clickhouse"                 -> {{"HOST"}}
      [] k = "sqlite"                     -> {{"PATH"}}
      [] k = "mongodb"                    -> {{"URI"}, {"HOST"}}
      [] k \in {"redis", "elasticsearch"} -> {{"URL"}, {"HOST"}}

Complete(s) == \E R \in Required(s.kind) : \A key \in R : Value(s, key) # ""

\* Discover of every adapter has kept its complete names; DiscoverAll sorts them.
DiscoverAll ==
    /\ ~serving /\ unread = {}
    /\ serving' = TRUE
    /\ sources' = {s \in {SourceOf(v) : v \in settings} : Complete(s)}
    /\ UNCHANGED <<settings, unread, cfg>>

-----------------------------------------------------------------------------
(* findSource                                                              *)

\* What the db_* tools prefer when kinds share a name, the least first.
sqlKinds == [k \in {"postgres", "mysql", "clickhouse", "sqlite", "mongodb"} |->
    CASE k = "postgres" -> 1 [] k = "mysql" -> 2 [] k = "clickhouse" -> 3
      [] k = "sqlite" -> 4 [] k = "mongodb" -> 5]

\* What a tool passes as prefer: the generic tools sqlKinds, the others their kind.
Tools == {"db", "redis", "mongo", "es"}
Prefer(tool) ==
    CASE tool = "db"    -> sqlKinds
      [] tool = "redis" -> [k \in {"redis"} |-> 1]
      [] tool = "mongo" -> [k \in {"mongodb"} |-> 1]
      [] tool = "es"    -> [k \in {"elasticsearch"} |-> 1]

\* Mutant: by kind alone, so that the order of a map decides between names.
SortedByKind(s, q) == KindRank[s.kind] <= KindRank[q.kind]

\* (Kind, Name) order, in which DiscoverAll returns the sources.
Sorted(s, q) ==
    \/ KindRank[s.kind] < KindRank[q.kind]
    \/ s.kind = q.kind /\ NameRank[s.name] <= NameRank[q.name]

\* S: the sources to choose from.
Matches(S, n) == {s \in S : Upper[s.name] = Upper[n]}

\* s is what a search by name n returns: of the matches of the kind preferred
\* most the first, or the first of all if no match is of a preferred kind.
findSource(S, tool, n, s) ==
    LET P == Prefer(tool)
        preferred == {q \in Matches(S, n) : q.kind \in DOMAIN P}
    IN  /\ s \in Matches(S, n)
        /\ IF preferred = {}
           THEN \A q \in Matches(S, n) : Sorted(s, q)
           ELSE /\ s \in preferred
                /\ \A q \in preferred : P[s.kind] <= P[q.kind]
                /\ \A q \in preferred : s.kind = q.kind => Sorted(s, q)

\* redisClient, mongoClient and esClient refuse a source of another kind; the
\* generic tools take any.
OwnKind(tool, s) == tool = "db" \/ s.kind \in DOMAIN Prefer(tool)

\* Discover hands WRITE on to the settings of these kinds alone.
Writable(s) ==
    s.kind \in {"postgres", "mysql", "clickhouse", "sqlite"} /\ Value(s, "WRITE") = "true"

=============================================================================
