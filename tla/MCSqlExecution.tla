---------------------------- MODULE MCSqlExecution ----------------------------
(***************************************************************************)
(* Instances of SqlExecution.                                              *)
(***************************************************************************)
EXTENDS SqlExecution, TLC

\* Every engine, as a source that is writable and as one that is not.
MCEvery == [s \in {"pg_rw", "pg_ro", "my_rw", "my_ro", "lite_rw", "lite_ro",
                   "ch_rw", "ch_ro", "mongo_rw"} |->
              CASE s \in {"pg_rw", "pg_ro"}     -> "postgres"
                [] s \in {"my_rw", "my_ro"}     -> "mysql"
                [] s \in {"lite_rw", "lite_ro"} -> "sqlite"
                [] s \in {"ch_rw", "ch_ro"}     -> "clickhouse"
                [] OTHER                        -> "other"]
MCSources == DOMAIN MCEvery
MCWritable == {"pg_rw", "my_rw", "lite_rw", "ch_rw", "mongo_rw"}

\* One connection a pool: two calls already compete for it.
MCCapacity == [s \in Sources |-> 1]

\* Texts: every combination of what the gates look at, without control of
\* transactions; and the ones that hold control.
MCText(g, s, m) == [guarded |-> g, select |-> s, mutates |-> m, divisible |-> FALSE,
                    ends |-> "no", opens |-> FALSE, lifts |-> FALSE]
MCPlain == {MCText(g, s, m) : g \in BOOLEAN, s \in BOOLEAN, m \in BOOLEAN}
MCRead == MCText(TRUE, TRUE, FALSE)
MCSly == MCText(TRUE, TRUE, TRUE)
MCInsert == MCText(FALSE, FALSE, TRUE)
MCSeveral == [MCInsert EXCEPT !.divisible = TRUE]
MCBegin == [MCText(FALSE, FALSE, FALSE) EXCEPT !.opens = TRUE]
MCBeginInsert == [MCSeveral EXCEPT !.opens = TRUE]
MCCommit == [MCText(FALSE, FALSE, FALSE) EXCEPT !.ends = "commit"]
MCRollback == [MCText(FALSE, FALSE, FALSE) EXCEPT !.ends = "rollback"]
MCInsertCommit == [MCSeveral EXCEPT !.ends = "commit"]
MCUnlock == [MCRead EXCEPT !.lifts = TRUE]

MCCall(t, s, role, text) == [tool |-> t, source |-> s, role |-> role, stmt |-> text]
MCWrites(s, texts) == {MCCall("write", s, "writer", x) : x \in texts}
MCQueries(s, texts) == {MCCall("query", s, "reader", x) : x \in texts}

\* Any of some calls for each request, and any of some beside one that is refused.
MCPairs(calls) == [Requests -> calls]
MCAlone(calls) ==
    {[r \in Requests |-> IF r = x THEN q ELSE MCCall("write", "mongo_rw", "reader", MCRead)] :
        x \in Requests, q \in calls}

\* Every call of every role, with the plain texts and those that hold control.
MCBroad(sources) ==
    {MCCall(t, s, role, x) : t \in {"query", "write"}, s \in sources, role \in Roles,
        x \in MCPlain \cup {MCSeveral, MCBeginInsert, MCInsertCommit}}

\* Two calls on one source: what the write tool sends, and a read.
MCShared(s) ==
    MCWrites(s, {MCInsert, MCSly, MCBegin, MCBeginInsert, MCCommit, MCRollback})
    \cup MCQueries(s, {MCRead})

\* SQLite sources are read-only and stay so.
MCKept ==
    MCAlone(MCBroad(MCSources \ {"lite_rw"}))
    \cup UNION {MCPairs(MCShared(s)) : s \in {"pg_rw", "my_rw", "ch_rw"}}

\* SQLite, where one connection carries every text, and PostgreSQL beside it;
\* and what an admin and a reader try on every source.
MCLite ==
    MCAlone({MCCall("write", s, "admin", MCInsert) : s \in MCSources}
            \cup UNION {MCQueries(s, {MCSly}) : s \in MCSources})
    \cup MCPairs(MCWrites("lite_rw", {MCSly, MCBegin, MCBeginInsert, MCCommit}) \cup MCQueries("lite_rw", {MCSly}))
    \cup MCPairs(MCQueries("lite_ro", {MCSly, MCUnlock}) \cup MCWrites("lite_ro", {MCInsert}))
    \cup MCPairs(MCWrites("pg_rw", {MCSly}) \cup MCQueries("pg_rw", {MCSly})
                 \cup {MCCall("write", "pg_ro", "admin", MCInsert)})

\* A read on a writable SQLite source.
MCLiteReads == MCAlone(MCQueries("lite_rw", MCPlain))

=============================================================================
