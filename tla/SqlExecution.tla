----------------------------- MODULE SqlExecution -----------------------------
(***************************************************************************)
(* db_execute_query and db_execute_write, from the tool call through the   *)
(* gates of executeWrite and ExecuteQuery of the source's adapter to the   *)
(* session the database server keeps for it, and back.                     *)
(*                                                                         *)
(* The handler, its context and the server move on their own: a deadline   *)
(* or a client that hangs up ends the handler's call while the server      *)
(* still runs the statement, and the change may come after the answer.     *)
(* The process may be killed at any step.                                  *)
(***************************************************************************)
EXTENDS Naturals, FiniteSets

CONSTANTS
    Requests,   \* the tool calls of one behaviour
    Sources,    \* the discovered sources
    EngineOf,   \* the engine behind each source
    Writable,   \* the sources whose env says WRITE=true
    Capacity,   \* source -> MaxOpenConns of its pool
    Programs    \* the ways to give each request its call

Engines == {"postgres", "mysql", "sqlite", "clickhouse", "other"}

\* What the code and the server can tell of a statement's text:
\*   guarded    AssertReadOnly accepts it
\*   select     looksLikeSelect accepts its first word
\*   mutates    it leaves data changed when the server lets it
\*   divisible  a failure may leave a part of its change: several statements,
\*              or tables that know no transactions
\*   ends       it first commits or rolls back the transaction it finds
\*   opens      it leaves a transaction open (BEGIN, autocommit off)
\*   lifts      it switches SQLite's query_only off
\* AssertReadOnly strips leading comments and looks for a list of keywords,
\* looksLikeSelect does neither, and neither parses SQL: BEGIN, COMMIT and
\* PRAGMA are no keywords of that list, and nothing asks for one statement.
StatementClass == [guarded : BOOLEAN, select : BOOLEAN, mutates : BOOLEAN, divisible : BOOLEAN,
                   ends : {"no", "commit", "rollback"}, opens : BOOLEAN, lifts : BOOLEAN]

Roles == {"reader", "writer", "admin"}
Call == [tool : {"query", "write"}, source : Sources, role : Roles, stmt : StatementClass]

ASSUME RequestAssumption == IsFiniteSet(Requests)
ASSUME EngineAssumption == EngineOf \in [Sources -> Engines]
ASSUME WritableAssumption == Writable \subseteq Sources
ASSUME CapacityAssumption == Capacity \in [Sources -> Nat \ {0}]
ASSUME ProgramAssumption == Programs \subseteq [Requests -> Call]

\* Principal.CanWrite: the role is writer or better.
CanWrite(role) == role \in {"writer", "admin"}

\* Mutant: an admin overrides the source's switch.
requireWriteOrAdmin(q) == CanWrite(q.role) /\ (q.role = "admin" \/ q.source \in Writable)

\* requireWrite: the role and the source must both allow it, even for an admin.
requireWrite(q) == CanWrite(q.role) /\ q.source \in Writable

-----------------------------------------------------------------------------
(* How each adapter runs a call:                                           *)
(*   tx       no transaction, or a read-only or read-write one             *)
(*   ceiling  the server itself refuses to change data                     *)

\* Writes that do not look like a SELECT go through Exec, the rest through Query.
Execs(q) == q.tool = "write" /\ ~q.stmt.select

\* Mutant: the transaction is opened without AccessMode.
postgresPathUnset(q) == [tx |-> "rw", ceiling |-> FALSE]

postgresPath(q) == [tx |-> IF q.tool = "write" THEN "rw" ELSE "ro",
                    ceiling |-> q.tool # "write"]
mysqlPath(q) == IF Execs(q) THEN [tx |-> "none", ceiling |-> FALSE]
                            ELSE [tx |-> "ro", ceiling |-> TRUE]
\* query_only is a pragma of each session, left out when the source is writable
\* and gone where a text has switched it off.
sqlitePath(q, lifted) == [tx |-> "none", ceiling |-> q.source \notin Writable /\ ~lifted]

\* Mutant: the setting readonly = 2 is left out.
clickhousePathUnset(q) == [tx |-> "none", ceiling |-> FALSE]

\* readonly = 2 is a setting of the one query.
clickhousePath(q) == [tx |-> "none", ceiling |-> q.tool # "write"]

Path(q, lifted) ==
    CASE EngineOf[q.source] = "postgres"   -> postgresPath(q)
      [] EngineOf[q.source] = "mysql"      -> mysqlPath(q)
      [] EngineOf[q.source] = "sqlite"     -> sqlitePath(q, lifted)
      [] EngineOf[q.source] = "clickhouse" -> clickhousePath(q)
      [] OTHER                             -> [tx |-> "none", ceiling |-> TRUE]

\* MongoDB, Redis and Elasticsearch answer ErrNotSupported; the SQL engines
\* check the text of everything that did not come through the write tool.
ExecuteRefuses(q) ==
    \/ EngineOf[q.source] = "other"
    \/ q.tool # "write" /\ ~q.stmt.guarded

(* What a text does to the session it runs on.                             *)

\* database/sql hands a session to the next call as the last one left it; pgx
\* drops one that is inside a transaction, and ClickHouse has none.
KeepsSession(s) == EngineOf[s] \in {"mysql", "sqlite"}

\* Query of MySQL and PostgreSQL takes a single statement, so that a text that
\* looks like a SELECT cannot hold transaction control; SQLite takes any text.
TakesControl(q) ==
    \/ EngineOf[q.source] = "sqlite"
    \/ EngineOf[q.source] \in {"mysql", "postgres"} /\ Execs(q)

Controls(q) == q.stmt.ends # "no" \/ q.stmt.opens

\* It moves the session itself; on PostgreSQL only the handler's transaction.
Steers(q) == KeepsSession(q.source) /\ TakesControl(q)

Lifts(q) == q.stmt.lifts /\ EngineOf[q.source] = "sqlite" /\ q.source \notin Writable

\* A failure reported by the server means that nothing of the text has happened.
\* PostgreSQL runs the whole text in one transaction, unless the text ends it.
Atomic(q) ==
    CASE EngineOf[q.source] = "postgres"            -> q.stmt.ends = "no"
      [] EngineOf[q.source] \in {"mysql", "sqlite"} -> ~q.stmt.divisible
      [] OTHER                                      -> FALSE

Effects == {"none", "pending", "durable"}
SessionState == [tx : BOOLEAN, lifted : BOOLEAN]
Clean == [tx |-> FALSE, lifted |-> FALSE]

-----------------------------------------------------------------------------
VARIABLES
    call,       \* request -> the call it carries
    pc,         \* where the handler is
    ctx,        \* its context: live, expired (deadline) or canceled (client gone)
    result,     \* what ExecuteQuery or a gate returned, answered at the end
    inUse,      \* source -> connections taken from its pool
    lost,       \* the driver gave up on the call and, except SQLite's, on its connection
    home,       \* the session of the request, named after the request that opened it
    idle,       \* sessions back in their pool that are not as a new one
    srv,        \* what the server does for the request
    effect,     \* what the request did to the data: none, pending, durable
    session,    \* session -> inside a transaction of its text's making, query_only off
    alive       \* the process runs

hVars == <<call, pc, ctx, result, inUse, lost, home, idle>>
sVars == <<srv, effect, session>>
vars == <<hVars, sVars, alive>>

PcStates == {"new", "gate", "connected", "exec", "commit", "defers", "answered"}

TypeOK ==
    /\ call \in [Requests -> Call]
    /\ pc \in [Requests -> PcStates]
    /\ ctx \in [Requests -> {"live", "expired", "canceled"}]
    /\ result \in [Requests -> {"none", "ok", "cut", "refused", "error"}]
    /\ inUse \in [Sources -> Nat]
    /\ lost \in [Requests -> BOOLEAN]
    /\ home \in [Requests -> Requests]
    /\ idle \subseteq Requests
    /\ srv \in [Requests -> {"none", "running", "ran", "failed", "committing",
                             "committed", "closed"}]
    /\ effect \in [Requests -> Effects]
    /\ session \in [Requests -> SessionState]
    /\ alive \in BOOLEAN

Init ==
    /\ call \in Programs
    /\ pc = [r \in Requests |-> "new"]
    /\ ctx = [r \in Requests |-> "live"]
    /\ result = [r \in Requests |-> "none"]
    /\ inUse = [s \in Sources |-> 0]
    /\ lost = [r \in Requests |-> FALSE]
    /\ home = [r \in Requests |-> r]
    /\ idle = {}
    /\ srv = [r \in Requests |-> "none"]
    /\ effect = [r \in Requests |-> "none"]
    /\ session = [r \in Requests |-> Clean]
    /\ alive = TRUE

-----------------------------------------------------------------------------
At(r, label) == alive /\ pc[r] = label
Goto(r, label) == pc' = [pc EXCEPT ![r] = label]
Source(r) == call[r].source
Engine(r) == EngineOf[Source(r)]
Tx(r) == Path(call[r], FALSE).tx
On(r) == session[home[r]]
Ceiling(r) == Path(call[r], On(r).lifted \/ Lifts(call[r])).ceiling
Answered(r, a) == pc[r] = "answered" /\ result[r] = a

\* A gate, Connect or the pool sends the call back before the server saw it.
AnswerNow(r, a) ==
    /\ Goto(r, "answered")
    /\ result' = [result EXCEPT ![r] = a]

\* ExecuteQuery is about to return a; its deferred calls still run.
Returns(r, a) ==
    /\ Goto(r, "defers")
    /\ result' = [result EXCEPT ![r] = a]

\* The transaction of session h ends: all that waits in it shares its fate.
Settled(h, fate) ==
    [r \in Requests |-> IF home[r] = h /\ effect[r] = "pending" THEN fate ELSE effect[r]]

(* The handler                                                             *)

\* The middleware has put the caller's principal on the context.
Arrive(r) ==
    /\ At(r, "new")
    /\ Goto(r, "gate")
    /\ UNCHANGED <<call, ctx, result, inUse, lost, home, idle, sVars, alive>>

\* executeWrite asks requireWrite before it connects.
Refuse(r) ==
    /\ At(r, "gate")
    /\ call[r].tool = "write" /\ ~requireWrite(call[r])
    /\ AnswerNow(r, "refused")
    /\ UNCHANGED <<call, ctx, inUse, lost, home, idle, sVars, alive>>

\* Mutant: executeWrite connects without asking requireWrite.
ConnectUnchecked(r) ==
    /\ At(r, "gate")
    /\ Goto(r, "connected")
    /\ UNCHANGED <<call, ctx, result, inUse, lost, home, idle, sVars, alive>>

Connect(r) ==
    /\ At(r, "gate")
    /\ call[r].tool = "write" => requireWrite(call[r])
    /\ Goto(r, "connected")
    /\ UNCHANGED <<call, ctx, result, inUse, lost, home, idle, sVars, alive>>

ConnectFails(r) ==
    /\ At(r, "gate")
    /\ call[r].tool = "write" => requireWrite(call[r])
    /\ AnswerNow(r, "error")
    /\ UNCHANGED <<call, ctx, inUse, lost, home, idle, sVars, alive>>

ExecuteRejects(r) ==
    /\ At(r, "connected") /\ ExecuteRefuses(call[r])
    /\ AnswerNow(r, "refused")
    /\ UNCHANGED <<call, ctx, inUse, lost, home, idle, sVars, alive>>

\* A connection as new: opened for the call, or left by the last one as it was.
TakesNew(r) ==
    /\ inUse[Source(r)] + Cardinality({h \in idle : Source(h) = Source(r)}) < Capacity[Source(r)]
    /\ UNCHANGED <<home, idle, effect, session>>

\* A connection whose session an earlier text has altered.  MySQL commits the
\* transaction it is in when the read path begins its own; with autocommit off
\* another follows.
TakesIdle(r, h) ==
    /\ h \in idle /\ Source(h) = Source(r)
    /\ home' = [home EXCEPT ![r] = h]
    /\ idle' = idle \ {h}
    /\ IF Tx(r) = "none"
       THEN UNCHANGED <<effect, session>>
       ELSE /\ effect' = Settled(h, "durable")
            /\ \E tx \in {FALSE, session[h].tx} : session' = [session EXCEPT ![h].tx = tx]

\* The call takes a connection from the pool, waiting for one if it must, opens
\* the transaction if it wants one and sends the statement.
Send(r) ==
    /\ At(r, "connected") /\ ~ExecuteRefuses(call[r])
    /\ ctx[r] = "live" /\ inUse[Source(r)] < Capacity[Source(r)]
    /\ Goto(r, "exec")
    /\ inUse' = [inUse EXCEPT ![Source(r)] = @ + 1]
    /\ srv' = [srv EXCEPT ![r] = "running"]
    /\ TakesNew(r) \/ \E h \in idle : TakesIdle(r, h)
    /\ UNCHANGED <<call, ctx, result, lost, alive>>

\* No connection came, or no transaction could be opened on it.
SendFails(r) ==
    /\ At(r, "connected") /\ ~ExecuteRefuses(call[r])
    /\ AnswerNow(r, "error")
    /\ UNCHANGED <<call, ctx, inUse, lost, home, idle, sVars, alive>>

\* Mutant: a write is answered without its commit.
CompletesUncommitted(r) ==
    /\ At(r, "exec") /\ srv[r] = "ran"
    /\ Returns(r, "ok")
    /\ UNCHANGED <<call, ctx, inUse, lost, home, idle, sVars, alive>>

\* The statement's result is all there.  Postgres commits what the write tool
\* ran, the other engines have nothing left to do.
Completes(r) ==
    /\ At(r, "exec") /\ srv[r] = "ran"
    /\ IF Tx(r) = "rw" THEN Goto(r, "commit") /\ UNCHANGED result
                       ELSE Returns(r, "ok")
    /\ UNCHANGED <<call, ctx, inUse, lost, home, idle, sVars, alive>>

\* The server reports an error of the statement.
StatementFails(r) ==
    /\ At(r, "exec") /\ srv[r] = "failed"
    /\ Returns(r, "error")
    /\ UNCHANGED <<call, ctx, inUse, lost, home, idle, sVars, alive>>

\* A Postgres row arrives that the driver cannot decode: an error, though the
\* statement has run.
ValuesFail(r) ==
    /\ At(r, "exec") /\ srv[r] = "ran"
    /\ Engine(r) = "postgres" /\ ~Execs(call[r])
    /\ Returns(r, "error")
    /\ UNCHANGED <<call, ctx, inUse, lost, home, idle, sVars, alive>>

\* Mutant: the error path releases the connection, and so do the deferred calls.
GivesUpReleases(r) ==
    /\ At(r, "exec")
    /\ lost' = [lost EXCEPT ![r] = TRUE]
    /\ inUse' = [inUse EXCEPT ![Source(r)] = @ - 1]
    /\ Returns(r, "error")
    /\ UNCHANGED <<call, ctx, home, idle, sVars, alive>>

\* The context ends or the network fails under the call: the driver gives the
\* connection up and returns.  SQLite runs in the process: its driver interrupts
\* the statement and waits for it.
GivesUp(r) ==
    /\ At(r, "exec")
    /\ Engine(r) = "sqlite" => srv[r] # "running" /\ ctx[r] # "live"
    /\ lost' = [lost EXCEPT ![r] = TRUE]
    /\ Returns(r, "error")
    /\ UNCHANGED <<call, ctx, inUse, home, idle, sVars, alive>>

\* Mutant: rows.Err() is also ignored when the deadline has passed.
RowsCutByDeadline(r) ==
    /\ At(r, "exec") /\ Engine(r) = "postgres"
    /\ ~Execs(call[r]) /\ ctx[r] # "live"
    /\ lost' = [lost EXCEPT ![r] = TRUE]
    /\ IF Tx(r) = "rw" THEN Goto(r, "commit") /\ UNCHANGED result
                       ELSE Returns(r, "cut")
    /\ UNCHANGED <<call, ctx, inUse, home, idle, sVars, alive>>

\* Postgres only: rows.Err() is ignored when it is context.Canceled.  The rows
\* read so far are the answer, or the commit of a write is tried next.
RowsCut(r) ==
    /\ At(r, "exec") /\ Engine(r) = "postgres"
    /\ ~Execs(call[r]) /\ ctx[r] = "canceled"
    /\ lost' = [lost EXCEPT ![r] = TRUE]
    /\ IF Tx(r) = "rw" THEN Goto(r, "commit") /\ UNCHANGED result
                       ELSE Returns(r, "cut")
    /\ UNCHANGED <<call, ctx, inUse, home, idle, sVars, alive>>

SendCommit(r) ==
    /\ At(r, "commit") /\ srv[r] = "ran"
    /\ ctx[r] = "live" /\ ~lost[r]
    /\ srv' = [srv EXCEPT ![r] = "committing"]
    /\ UNCHANGED <<hVars, effect, session, alive>>

CommitReturns(r) ==
    /\ At(r, "commit") /\ srv[r] = "committed"
    /\ Returns(r, "ok")
    /\ UNCHANGED <<call, ctx, inUse, lost, home, idle, sVars, alive>>

\* Mutant: a commit not heard of is taken for one that was refused.
CommitFailsKeeps(r) ==
    /\ At(r, "commit")
    /\ Returns(r, "error")
    /\ UNCHANGED <<call, ctx, inUse, lost, home, idle, sVars, alive>>

\* The server refuses the commit, or the driver gives up before it has heard.
CommitFails(r) ==
    /\ At(r, "commit")
    /\ lost' = [lost EXCEPT ![r] = @ \/ srv[r] # "failed"]
    /\ Returns(r, "error")
    /\ UNCHANGED <<call, ctx, inUse, home, idle, sVars, alive>>

\* Mutant: the deferred Rollback is missing.
FinishOpen(r) ==
    /\ At(r, "defers")
    /\ inUse' = [inUse EXCEPT ![Source(r)] = @ - 1]
    /\ Goto(r, "answered")
    /\ UNCHANGED <<call, ctx, result, lost, home, idle, sVars, alive>>

\* What the session of a call that is over keeps: a transaction of the handler's
\* is rolled back, one that a text has opened stays.
Releases(r) ==
    /\ srv' = [srv EXCEPT ![r] = "closed"]
    /\ effect' = [effect EXCEPT ![r] = IF Tx(r) # "none" /\ @ = "pending" THEN "none" ELSE @]
    /\ idle' = IF On(r) = Clean THEN idle ELSE idle \cup {home[r]}

\* Mutant: the deferred rows.Close is missing, and with it the release.
FinishKeeps(r) ==
    /\ At(r, "defers")
    /\ Goto(r, "answered")
    /\ Releases(r)
    /\ UNCHANGED <<call, ctx, result, inUse, lost, home, session, alive>>

\* The connection was given up with the call: the server finds out on its own.
\* SQLite's driver keeps it.
Severed(r) == lost[r] /\ Engine(r) # "sqlite"

\* The deferred rows.Close, Rollback and cancel: what the handler began and did
\* not commit is rolled back, the connection leaves it, and the answer goes out.
Finish(r) ==
    /\ At(r, "defers")
    /\ inUse' = [inUse EXCEPT ![Source(r)] = @ - 1]
    /\ Goto(r, "answered")
    /\ IF Severed(r) THEN UNCHANGED <<srv, effect, idle>> ELSE Releases(r)
    /\ UNCHANGED <<call, ctx, result, lost, home, session, alive>>

-----------------------------------------------------------------------------
(* The context, the process                                                *)

\* Mutant: the deadline covers only the wait for a connection.
ExpireWaiting(r) ==
    /\ alive /\ ctx[r] = "live"
    /\ pc[r] = "connected" /\ ~ExecuteRefuses(call[r])
    /\ ctx' = [ctx EXCEPT ![r] = "expired"]
    /\ UNCHANGED <<call, pc, result, inUse, lost, home, idle, sVars, alive>>

\* ExecuteQuery's own deadline: five minutes, two on SQLite.
Expire(r) ==
    /\ alive /\ ctx[r] = "live"
    /\ pc[r] \in {"connected", "exec", "commit"} /\ ~ExecuteRefuses(call[r])
    /\ ctx' = [ctx EXCEPT ![r] = "expired"]
    /\ UNCHANGED <<call, pc, result, inUse, lost, home, idle, sVars, alive>>

\* The client hangs up; net/http cancels the request's context.
Cancel(r) ==
    /\ alive /\ pc[r] \in {"gate", "connected", "exec", "commit"} /\ ctx[r] = "live"
    /\ ctx' = [ctx EXCEPT ![r] = "canceled"]
    /\ UNCHANGED <<call, pc, result, inUse, lost, home, idle, sVars, alive>>

\* The process ends under its handlers: killed, or gone after the ten seconds
\* of Shutdown.
Kill ==
    /\ alive /\ alive' = FALSE
    /\ UNCHANGED <<hVars, sVars>>

-----------------------------------------------------------------------------
(* The server (external): it runs what it was sent, also for a client that *)
(* is no longer there.                                                     *)

Orphaned(r) == Severed(r) \/ ~alive

\* The server takes no such text on this path.
Bars(r) ==
    \/ call[r].stmt.mutates /\ Ceiling(r)
    \/ Controls(call[r]) /\ ~TakesControl(call[r])

\* The session once the text has run, and what it made of the changes that waited.
After(r) ==
    IF Steers(call[r])
    THEN [tx |-> call[r].stmt.opens \/ (On(r).tx /\ call[r].stmt.ends = "no"),
          lifted |-> On(r).lifted \/ Lifts(call[r])]
    ELSE On(r)

Fate(r) ==
    CASE ~Steers(call[r])               -> "pending"
      [] call[r].stmt.ends = "no"       -> "pending"
      [] call[r].stmt.ends = "commit"   -> "durable"
      [] call[r].stmt.ends = "rollback" -> "none"

\* What becomes of the text's own change: it waits in a transaction that is open
\* afterwards, or is durable at once.  The parts of one text may land apart.
Inside(r) == Tx(r) = "rw" \/ After(r).tx
LandsApart(r) ==
    \/ call[r].stmt.ends # "no"
    \/ Tx(r) = "none" /\ (call[r].stmt.opens \/ call[r].stmt.divisible)
Lands(r) ==
    IF ~call[r].stmt.mutates THEN {"none"}
    ELSE (IF Inside(r) THEN {"pending"} ELSE {})
         \cup (IF ~Inside(r) \/ LandsApart(r) THEN {"durable"} ELSE {})

Runs(r) ==
    /\ srv[r] = "running" /\ ~Bars(r)
    /\ srv' = [srv EXCEPT ![r] = "ran"]
    /\ session' = [session EXCEPT ![home[r]] = After(r)]
    /\ \E own \in Lands(r) : effect' = [Settled(home[r], Fate(r)) EXCEPT ![r] = own]
    /\ UNCHANGED <<hVars, alive>>

\* What a text that failed may have changed: nothing, or parts of it.
Parts(r) ==
    IF Atomic(call[r]) \/ ~call[r].stmt.mutates \/ Ceiling(r) THEN {"none"}
    ELSE {"none", "durable"} \cup (IF KeepsSession(Source(r)) THEN {"pending"} ELSE {})

\* The text fails, is interrupted or refused: anywhere between its first statement
\* and its last, and it may take the transaction of its session along.
Fails(r) ==
    /\ srv[r] = "running"
    /\ srv' = [srv EXCEPT ![r] = "failed"]
    /\ \E left \in {On(r), After(r), [After(r) EXCEPT !.tx = FALSE]},
          fate \in {"pending", Fate(r), "none"}, own \in Parts(r) :
         /\ fate = "pending" /\ On(r).tx => left.tx
         /\ own = "pending" => left.tx
         /\ session' = [session EXCEPT ![home[r]] = left]
         /\ effect' = [Settled(home[r], fate) EXCEPT ![r] = own]
    /\ UNCHANGED <<hVars, alive>>

Commits(r) ==
    /\ srv[r] = "committing"
    /\ srv' = [srv EXCEPT ![r] = "committed"]
    /\ effect' = [effect EXCEPT ![r] = IF @ = "pending" THEN "durable" ELSE @]
    /\ UNCHANGED <<hVars, session, alive>>

RefusesCommit(r) ==
    /\ srv[r] = "committing"
    /\ srv' = [srv EXCEPT ![r] = "failed"]
    /\ effect' = [effect EXCEPT ![r] = IF @ = "pending" THEN "none" ELSE @]
    /\ UNCHANGED <<hVars, session, alive>>

\* The server notices that nobody is there: an open transaction is rolled back.
DropsSession(r) ==
    /\ Orphaned(r) /\ srv[r] \in {"running", "ran", "failed", "committing"}
    /\ srv' = [srv EXCEPT ![r] = "closed"]
    /\ effect' = Settled(home[r], "none")
    /\ session' = [session EXCEPT ![home[r]] = Clean]
    /\ UNCHANGED <<hVars, alive>>

\* The pool closes an idle connection (ConnMaxIdleTime, MaxIdleConns, CloseAll),
\* or its server does.
ClosesIdle(h) ==
    /\ h \in idle
    /\ idle' = idle \ {h}
    /\ effect' = Settled(h, "none")
    /\ session' = [session EXCEPT ![h] = Clean]
    /\ UNCHANGED <<call, pc, ctx, result, inUse, lost, home, srv, alive>>

-----------------------------------------------------------------------------
Handler(r) ==
    \/ Refuse(r) \/ Connect(r) \/ ConnectFails(r) \/ ExecuteRejects(r)
    \/ Send(r) \/ SendFails(r) \/ Completes(r) \/ StatementFails(r) \/ ValuesFail(r)
    \/ GivesUp(r) \/ RowsCut(r) \/ SendCommit(r) \/ CommitReturns(r) \/ CommitFails(r) \/ Finish(r)

Server(r) == Runs(r) \/ Fails(r) \/ Commits(r) \/ RefusesCommit(r) \/ DropsSession(r)

Next ==
    \/ \E r \in Requests :
         \/ Arrive(r) \/ Handler(r) \/ Expire(r) \/ Cancel(r) \/ Server(r) \/ ClosesIdle(r)
    \/ Kill

Spec == Init /\ [][Next]_vars

\* What a handler does once its context has ended: drivers return.
ReturnsOnDeadline(r) ==
    ctx[r] # "live" /\ (SendFails(r) \/ GivesUp(r) \/ CommitFails(r))

Interrupted(r) == Engine(r) = "sqlite" /\ ctx[r] # "live" /\ Fails(r)

\* Deadlines fire, drivers return when they do, deferred calls run.  Nothing is
\* assumed of clients, and of servers only that SQLite, which runs in the
\* process, obeys an interrupt.
FairSpec ==
    /\ Spec
    /\ \A r \in Requests :
         /\ WF_vars(Expire(r)) /\ WF_vars(ReturnsOnDeadline(r)) /\ WF_vars(Finish(r))
         /\ WF_vars(ExecuteRejects(r))
         /\ WF_vars(Interrupted(r))

-----------------------------------------------------------------------------
(* Properties                                                              *)

Holds(r) == pc[r] \in {"exec", "commit", "defers"}
Holders(s) == {r \in Requests : Holds(r) /\ Source(r) = s}

\* A text sent on session h has left a transaction open there, or query_only off.
SentOn(h, p) == home[p] = h /\ srv[p] # "none"
OpenedOn(h) == \E p \in Requests : SentOn(h, p) /\ call[p].stmt.opens /\ Steers(call[p])
UnlockedOn(h) == \E p \in Requests : SentOn(h, p) /\ Lifts(call[p])

\* The per-source switch: nothing ever changes a source that is not marked
\* writable, whichever tool, role and statement.  On SQLite it holds as long as
\* the pragma it rests on does: until a text on the session switches it off.
KillSwitch ==
    \A r \in Requests : effect[r] # "none" => Source(r) \in Writable \/ UnlockedOn(home[r])

\* "adapters must reject anything that mutates state" (adapter.go, on Query
\* with Write unset): a db_execute_query call changes no data.
ReadsChangeNothing ==
    \A r \in Requests : call[r].tool = "query" => effect[r] = "none"

\* Data changes only for a writer or admin who used the write tool.  A SQLite
\* source opted into writes, or with query_only switched off, is the exception:
\* there the text guard alone stands between db_execute_query and the data.
OnlyWritersChangeData ==
    \A r \in Requests : effect[r] # "none" =>
        \/ call[r].tool = "write" /\ CanWrite(call[r].role)
        \/ Engine(r) = "sqlite" /\ call[r].stmt.guarded

\* An "ok" to a write is the truth: the change is durable, and no later step of
\* the server, of the deferred rollback or of a kill takes it back.  Not so where
\* the handler opens no transaction of its own and a text has left one open on
\* the connection (mysql.go and sqlite.go hand any text to ExecContext): there the
\* change may wait for a later call to commit it, or be lost.
OkMeansDurable ==
    \A r \in Requests :
        Answered(r, "ok") /\ call[r].tool = "write" /\ call[r].stmt.mutates
            => effect[r] = "durable" \/ (Tx(r) = "none" /\ OpenedOn(home[r]))

\* An error is ambiguous only when the driver gave the connection up, or when a
\* text of several statements or a table without transactions lets a part of it
\* stay: any other error that the server reported means that nothing changed,
\* nor will.
ReportedErrorsAreClean ==
    \A r \in Requests :
        Answered(r, "error") /\ ~lost[r] /\ Atomic(call[r]) => effect[r] = "none"

\* A transaction that a handler opened never goes back to the pool with its
\* connection, on no path.  A connection goes back inside a transaction only when
\* a text sent on it has opened one, which only MySQL's and SQLite's pools keep;
\* and no change waits anywhere else.
OnlyTextsLeaveTransactions ==
    /\ \A h \in idle : session[h].tx => OpenedOn(h)
    /\ \A r \in Requests :
         pc[r] = "answered" /\ ~Orphaned(r) =>
             /\ srv[r] \in {"none", "closed"}
             /\ effect[r] = "pending" => Tx(r) = "none" /\ OpenedOn(home[r])

\* Every connection taken is held by a running call, and a pool never exceeds
\* its limit: no error path leaks one.
ConnectionsAccounted ==
    \A s \in Sources :
        /\ inUse[s] = Cardinality(Holders(s))
        /\ inUse[s] <= Capacity[s]

\* A successful answer with rows missing is one that nobody reads: the client
\* had gone.
CutAnswersAreUnread ==
    \A r \in Requests : Answered(r, "cut") => ctx[r] = "canceled"

\* Every call that reached ExecuteQuery is answered, though servers may hang and
\* other calls hold every connection.
EveryCallEnds ==
    \A r \in Requests :
        pc[r] \in {"connected", "exec", "commit", "defers"} ~> pc[r] = "answered" \/ ~alive

-----------------------------------------------------------------------------
(* Refinement                                                              *)

Contract == INSTANCE WriteContract WITH
    Lasting <- {s \in Sources : KeepsSession(s)},
    data <- {r \in Requests : effect[r] = "durable"},
    answer <- [r \in Requests |-> IF pc[r] = "answered" THEN result[r] ELSE "none"]

\* Where every SQLite source is read-only and stays so, the tools keep the contract.
ContractSpec == Contract!Spec

=============================================================================
