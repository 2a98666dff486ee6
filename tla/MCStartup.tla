------------------------------ MODULE MCStartup ------------------------------
(***************************************************************************)
(* An instance of Startup: the environments of users that MCPrincipals has *)
(* with one source, and two fixed users with many environments of sources  *)
(* that share the name "core", in two cases and four kinds.                *)
(***************************************************************************)
EXTENDS Startup, FiniteSets, TLC

CONSTANTS ALI, BOB, k1, k2

MCKeyLists(n) == UNION {[1 .. m -> [token : Tokens, role : {"reader", "admin"}]] : m \in 0 .. n}

\* Two users, the first in every spelling and the second in one, and a legacy key:
\* up to three in all; only the first user may have a role of their own.
MCUsers ==
    {e \in [keys : MCKeyLists(1),
            vars : {V \in SUBSET {v \in UserVar : v.name = BOB => v.upper /\ ~v.explicit} :
                        Cardinality(V) <= 3},
            role : {("ALI" :> r @@ "BOB" :> "reader") : r \in {"reader", "writer"}}] :
        OneValue(e) /\ Cardinality(e.vars) + Len(e.keys) <= 3}
\* An administrator and a reader.
MCTwo == [keys |-> <<[token |-> k1, role |-> "admin"], [token |-> k2, role |-> "reader"]>>,
          vars |-> {}, role |-> [n \in Names |-> "reader"]]

MCUpper == "core" :> "CORE" @@ "CORE" :> "CORE"
MCNameRank == "CORE" :> 1 @@ "core" :> 2

Var(k, n, key, value) == [kind |-> k, name |-> n, key |-> key, long |-> FALSE, value |-> value]
Long(k, n, key, value) == [Var(k, n, key, value) EXCEPT !.long = TRUE]

\* A PostgreSQL source, and what else may be set.
Complete1 == {Var("postgres", "CORE", key, "on") : key \in {"HOST", "DB", "USER"}}
Groups == {
    {Long("postgres", "CORE", "DB", "")},
    {Long("postgres", "CORE", "WRITE", "off")},
    {Var("postgres", "CORE", "WRITE", "on")},
    {Var("sqlite", "core", "PATH", "on"), Var("sqlite", "core", "WRITE", "on")},
    {Var("sqlite", "CORE", "PATH", "on")},
    {Var("clickhouse", "core", "HOST", "on"), Long("clickhouse", "core", "WRITE", "on")},
    {Var("redis", "core", "URL", "on"), Var("redis", "core", "WRITE", "on")}}

MCOne == {Var("sqlite", "CORE", "PATH", "on"), Var("sqlite", "CORE", "WRITE", "on")}
\* Two sources of one kind whose names differ only in case, one of them writable.
MCCases == {Var("sqlite", "core", "PATH", "on"), Var("sqlite", "core", "WRITE", "on"),
            Var("sqlite", "CORE", "PATH", "on")}
MCMany == {Complete1 \cup UNION G : G \in SUBSET Groups} \cup {MCCases}
MCSourceEnvs == {MCOne} \cup MCMany

MCCall(tool) == [token |-> k1, tool |-> tool, name |-> "core"]
MCCalls == {MCCall(tool) : tool \in {"db", "redis", "db_execute_write"}}
MCStarts ==
    (MCUsers \X {MCOne} \X {MCCall("db_execute_write")})
    \cup ({MCTwo} \X MCMany \X MCCalls)
MCEnvs == MCUsers \cup {MCTwo}

=============================================================================
