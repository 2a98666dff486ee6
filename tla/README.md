# Verification of open-db-mcp

TLA+ models of open-db-mcp, a Model Context Protocol server in Go that lets a
language model query PostgreSQL, MySQL, ClickHouse, SQLite, MongoDB, Redis and
Elasticsearch. The models are translated from the source, checked by TLC on
small instances, and the main safety properties are proved by TLAPS for every
value of the constants. `PROJECT.json` lists the components, the runs, which
lines of the source each definition stands for, the hazards and the theorems.

## 1. Inventory

The process is one HTTP server. Each request runs in its own goroutine, one more
goroutine rebuilds the search index, and `main` waits for a signal. All state is
in memory; the databases are the only thing that persists.

| Component | Source | State it keeps | Operations | Hard behaviours |
|---|---|---|---|---|
| Adapter pools | `internal/adapters/*/`, `registry.go` | per adapter: map source → pool, under a mutex | `Connect`, `Client(name)`, `CloseAll` | the mutex is released between look-up and store; pools are closed while handlers may use them |
| Lifecycle | `cmd/server/main.go` | process context | signal, drain of 10 s, `CloseAll`, exit | a drain that expires; a `Close` that waits for queries without a deadline |
| Statement execution | `ExecuteQuery` of four adapters, `sqlguard.go`, `tools/db_tools.go` | connections of a pool with the sessions that a pool hands on, the server's transaction | `db_execute_query`, `db_execute_write` | deadline, hang-up or kill between statement, commit and answer; two write gates; a ceiling that differs per engine; texts of several statements, and texts that begin or end transactions or set a pragma |
| Search index | `internal/search/indexer.go`, `engine.go` | slice of entries under an RW lock | `RefreshEvery`, `Build`, `Replace`, `Search` | catalogs change during a build; partial failures; searches without the lock |
| Principals | `internal/config/config.go`, `internal/auth/` | slice of principals, built once | `parsePrincipals`, `lookup`, `Middleware` | two ranges over maps in random order; several spellings and sources of a token |
| Source discovery | `config/env.go`, `registry.go`, `findSource` | slice of sources, built once | `ParsePrefixed`, `DiscoverAll`, `findSource` | map order when two spellings of a key meet; names shared by kinds and by cases |
| MCP transport | `internal/mcp/`, `cmd/server/main.go` | tool table, fixed after start | JSON-RPC dispatch, error classes, `WriteTimeout` | the server's timeout against a statement's; clients that hang up; panics |
| Catalog queries, table card | `ListSchemas` … `TableDetails` of seven adapters, `tools/table_card.go` | none | `db_list_*`, `db_find_relationships`, `db_table_card`, `db_table_card_full` | a card is up to eight queries while the table changes; sections that fail alone; streams whose error is not asked for |
| Elasticsearch, MongoDB, Redis tools | `es_tools.go`, `mongo_tools.go`, `redis_tools.go`, `redis_runtime.go` | none | `es_*`, `mongo_*`, `redis_*` | cursors over live data; `SCAN`; TYPE and then a read; limits at zero and below; a nil client during shutdown |
| CLOG tools | `tools/clog_tools.go`, `es_helpers.go`, `clog/profile.go` | cache of field capabilities under a mutex | seven `clog_*` tools | cache refilled without the mutex; mappings that differ per index and change; streams that come and go between the requests of one call |
| Ranking, inference | `search/engine.go`, `infer.go` | none (read a snapshot of the index) | `rank`, `InferRelationships` | name collisions between kinds |
| Text | `format/toon.go`, `clog/redact.go`, `quoteident.go` | none | pure functions | none |

How they interact: `main` reads users and sources from one environment. The
middleware puts a principal on the request's context; the transport dispatches
the tool call; the tool finds its source, asks the source's adapter for a pool
(`Connect`, or `Client` twice with a `Connect` between), and sends the pool its
requests, one after the other. The refresher calls the same adapters. `main`
cancels the process context, which the refresher and no handler sees, waits for
the handlers, and closes the pools under the adapters' mutexes.

What makes each correct: a pool is usable until `CloseAll` and none is leaked; a
write needs both gates, and "ok" means durable unless a text left a transaction open
on the session it ran on; an index holds only what existed
and loses only what failed; roles, sources and answers come from the environment
and not from the order of a map; what is there during a whole call is answered,
or its absence is said, and nothing is answered that was never there; a lost
answer has a known reason; an answer about a namespace holds that namespace's
logs, and stale field names do not last.

## 2. Modules

| Module | What it models | State ↔ code |
|---|---|---|
| `ConnPools` | pools, goroutines, drain, `CloseAll` | `pools` = the adapters' maps, `closing` = the mutex that `CloseAll` holds, `pc`/`handle` = where a goroutine is and the pool it holds, `phase` = `main` |
| `SqlExecution` | one text per request, from the gate to the answer, and the server's sessions, which calls share | `pc`, `ctx`, `result` = the handler; `inUse` = connections of `database/sql` or `pgxpool`, `home` = the session of a call, `idle` = altered sessions back in their pool; `srv`, `effect`, `session` = the server |
| `WriteContract` | the abstract contract of the two execute tools | `data`, `answer` |
| `SearchIndex` | the refresher, the catalogs, the searches | `out` = the slice under construction, `entries` = the index's slice, `view` = the header a search took, `catalog` = the databases |
| `Principals` | parsing, restart, look-up | `tokens`, `byName` = the two maps, `todo` = what a `range` has not visited, `principals` = the slice |
| `Sources` | discovery and resolution of names | `unread` = what the `range` over the environment has not visited, `cfg` = the settings by source and key, `sources` = what `DiscoverAll` returned |
| `Startup` | `Principals` and `Sources` as one start of the process, and a call that is repeated at every start | the two above; `answers` = history of what the call was answered |
| `ToolCalls` | one POST to `/mcp`, its tool's requests, the store, the client, `WriteTimeout`, the drain | `phase`, `pos`, `due` = the handler and its request; `got`, `noted`, `blank` = the answer; `age` = time since the request was read; `leaves` = when the drain after a signal is over; `store` = the database |
| `ClogTools` | the CLOG handlers, the cache, the cluster | `cache` = the entries of `capsCache` within `capsTTL`, `caps` = what a handler resolves from, `mapping`, `logs` = Elasticsearch |
| `*Proofs` | the theorems of `ConnPools`, `SqlExecution`, `SearchIndex`, `Principals`, `Startup`, `ToolCalls`, `ClogTools` | |
| `LastingDataProofs` | the theorems of `ToolCalls` about what an answer holds: all that lasted, and no more than the limits | |
| `MC*` | model values and functions of the instances | |

Each module is built so that an action is one handler step: a critical section
that cannot block is one action, and everything that happens without a mutex
(open, ping, `_field_caps`, a search, a statement, a catalog query) is at least
one action of its own with a failing alternative. Definitions headed "Mutant:"
are not part of any specification: each is the form a definition would take after a plausible
slip, and `PROJECT.json` says which property then fails in which run.

### ConnPools

A `Driver` record per adapter says what tells the seven apart: whether `Connect`
pings, whether a failed ping is retried over HTTP (ClickHouse), what `CloseAll`
does to a pool (waits for operations in use, cuts them, nothing), and whether tools come
through `Client(name)`. `Lookup`, `Open`, `PingOk`/`PingFails` and `Store` are the four parts
of `Connect`. `ClientLookup` and `Reclient` are the two calls of `Client`.
`Drained`, `DrainExpires`, `CloseAllBegins`, `ClosePool`, `CloseReturns`,
`CloseAllReturns` and `Exit` are the end of `main`.

### SqlExecution and WriteContract

`db_execute_write` sends any text unchecked, and `AssertReadOnly` looks for a list
of keywords without parsing. A text is therefore what the code and the server can
tell of it, each independently: `guarded` (`AssertReadOnly` accepts it), `select`
(`looksLikeSelect` does), `mutates`, `divisible` (several statements, or tables
without transactions: a failure may leave a part), `ends` and `opens` (it commits
or rolls back the transaction it finds, it leaves one open: `BEGIN`, autocommit
off) and `lifts` (it switches SQLite's `query_only` off). `Path` gives the
handler's transaction and the server-side ceiling of each engine.

Calls share the sessions of a pool. `database/sql` hands a connection on as the
last call left it (`KeepsSession`: MySQL, SQLite); `pgx` drops one that is inside a
transaction, and ClickHouse has none. `TakesNew` and `TakesIdle` say which session a
call gets, `After` and `Fate` what its text makes of the session and of the changes
that wait in it, `Lands` where its own change goes, `Parts` what a failed text may
leave, `Releases` what goes back. `ClosesIdle` is the pool or the server closing an
idle session, which rolls back what waits there. `GivesUp`, `RowsCut`, `CommitFails`
are the exits of `ExecuteQuery` under an ended context, and the server goes on behind a
connection that was given up (`Runs`, `Commits`, `DropsSession`). That `Query` of the
MySQL and PostgreSQL drivers takes a single statement (`TakesControl`) and that
`query_only` can be switched off by a text (`Lifts`) are facts about external code.

So four properties name exceptions, which are behaviours of the program:

- `OkMeansDurable`: after a `BEGIN` through `db_execute_write` on MySQL or SQLite
  (`mysql.go`:271, `sqlite.go`:216) the connection goes back to the pool inside a
  transaction; the next write on it is answered "ok" and may never become durable.
- `ReportedErrorsAreClean`: a text of several statements, or a MySQL table without
  transactions, may fail after a part of it is durable (`Atomic`).
- `KillSwitch`: on a read-only SQLite source until a text has switched `query_only`
  off on the session (`UnlockedOn`).
- `OnlyWritersChangeData`: on a SQLite source opted into writes, or with `query_only`
  switched off, the text guard alone stands between `db_execute_query` and the data.

`Contract` is `WriteContract` with the committed changes as `data` and the answers as
`answer`; its one exception, `Exposed`, is the first of these in the caller's terms:
the write tool sent a text that leaves a transaction open to a source whose sessions
outlive a call. `ContractSpec` is checked by TLC as a property, and proved step by step.

### SearchIndex

Slices have identities, because the question is who may write to the slice that
a search ranks without a lock. Schemas and tables of a source are visited in any
order. `always`, `ever` and `missed` are history variables for the two action
properties about what a build installs.

### Principals, Sources, Startup

A Go `range` over a map is a set (`todo`, `unread`) from which any element may
come next, so every order is a behaviour, and a restart builds both slices again
from the same environment in another order. A variable of a source is a record of
the kind (its prefix), the name, the canonical key, whether it uses the long
spelling of the key, and a value of which only blankness and `IsTruthy` matter.
`Complete` is the condition under which a kind's `Discover` keeps a name. Names
that differ in case are different sources; `findSource` compares them without
case and returns the first in (Kind, Name) order of the kind that a tool prefers.
So of a PostgreSQL and a ClickHouse source of one name the second is not
reachable by the `db_*` tools, and `WRITE` has no effect on MongoDB, Redis and
Elasticsearch sources, whose `Discover` does not hand it on.

`Startup` conjoins each action of one module with `UNCHANGED` of the other, adds
the middleware and `requireWrite`, and lets a client repeat one call across
restarts; `answers` is a set, so "the same answer at every start" is a state
property. That `StartupSpec` implements the specification of `Principals` is a
theorem.

### ToolCalls

The tools differ in what they ask for and in what they do about an error, so a
handler is data: `ProgramOf(m)` is the sequence of requests of a message `m`, and
a request says how its answer comes (rows of one snapshot, a cursor over live
data, a body in one piece, `SCAN`, TYPE, a value; or that the code or the server
refuses it, or that the code panics before it is sent), what an error and a broken-off
answer lead to (`fail`, `skip` the section, leave it `blank`, `note` it, `ignore` it),
how many of the requests after it are dropped, whether shards that failed are left out
of a success (`partial`), which limit and deadline it has. A section is blank when it is
shown without what was asked for: SQLite drops the error of its `COUNT(*)` and shows
0 rows. A limit may be zero or below where the code lets it through: the list tools
of Elasticsearch and the cuts of `renderDescription` to `max_fields` and
`max_indices` are at least one, a sample at least zero, the `size` of `es_search`
has no lower bound and its server refuses one below zero. The operators
carry the names of the functions they stand for. The actions are the same for
all: the transport's (`Dispatch`, `Deliver`), the handler's, the answers of the
store, what goes wrong (`StoreFails`, `GivesUp`), and the surroundings (`HangUp`,
`Signal`, `Exit`, `Tick`, `Create`, `Drop`). After a signal `main` waits
`DrainTimeout` for the calls under way, closes the pools and exits, and a call that is
not done by then goes with it (`main.go`:123-138). An item of the store is a member of one part of the
answer; `always` and `ever` are histories of the call. Two calls make their
handler panic, and nobody recovers but `net/http`, which drops the connection:
`redis_keys` with a limit below zero and `db_execute_query` with a statement that is
nothing but a block comment.

Outside: a process that is killed (`SqlExecution` has that for a statement), finding
the source (`Sources`), connecting and the closing of pools (`ConnPools`), what a
statement does (`SqlExecution`), `db_list_sources` and `es_list_sources` (a copy
of the source slice), `search_tables` (`SearchIndex`), `clog_*` (`ClogTools`).

### ClogTools

`termField`, `numericField` and `resolve` are operators over a capability record
(`types`, `aggregatable`, whether there is a `.keyword`). A tool is a record: the
index whose fields it needs, the roles it cannot do without, and whether it
takes a namespace. A call is `Lookup` / `Fetch` / `Store` on the cache, then
`Resolve` (the query is built once), then one search or the two of
`searchNamespace`. Every stream and index has a mapping of its own; `Merged` is
what `_field_caps` makes of all that a pattern covers, and `Matches` what a query
finds in each: a term finds nothing where its field is not mapped, and may find
anything where the field is analysed. So logs of an index that lacks the field
chosen for all indices together are hidden from the search; `agree` is the
history of the indices that would have given the same fields, and
`LastingLogsAreFound` is about those. An answer is reduced to whose logs it covers; limits on
rows are left out.

## 3. Runs

| Run | Instance | What it shows |
|---|---|---|
| `pools` | one handler and the refresher, a ClickHouse and a Redis source, 3 pools | no interleaving of `Connect`s closes a pool under a goroutine before `CloseAll`; hits are open pools of the right source; after a clean drain nothing is cut; only a displaced pool is ever open without an owner; a nil client appears only after `CloseAll` |
| `pools_shutdown` | one handler and the refresher, a MongoDB and an Elasticsearch source, 3 pools | the process exits after a signal unless a catalog query hangs on a pool whose `Close` waits; open pools per source never exceed the goroutines |
| `pools_leak` | two handlers, a SQLite source | **violation**: the pool that a racing `Connect` displaced is still open when the process exits |
| `sql_calls` | two calls on one connection of a SQLite source, writable or not, or of a PostgreSQL source, and one call on every other source; texts that begin and commit transactions or lift `query_only` | the kill switch and both gates with their exception, only a text leaves a transaction in a pool, all connections go back, a cut answer is unread, every call ends |
| `sql_contract` | one call on every source but the writable SQLite one, every role and class of text; two calls on one connection of PostgreSQL, MySQL and ClickHouse, with texts that begin, commit and roll back | reads that change nothing, durable "ok", clean errors, and the refinement of `WriteContract`, with the exceptions above |
| `sql_reads` | one call on a writable SQLite source | **violation**: the read path of such a source has no ceiling but the text guard |
| `index` | two sources, two schemas, one table, one search | what is installed existed during the build, failures stay local, no slice changes under a search, the refresher stops, a table that lasts is found in the end |
| `startup` | users in all spellings and a legacy key with one source; two users with namesakes of four kinds and two cases; every order, restarts | roles come from the environment; both gates of a write were opted into (`README.md`:260, "Both gates must agree"); an environment without contradictions gives a call the same answer at every start |
| `users_collision` | one user, two legacy keys | **violation**: on a collision the order of a map decides, not the per-user form |
| `tools` | 40 messages: cards of six engines, lists, statements, limits at zero and at their boundaries, deadlines below and at `WriteTimeout`, failed shards, a signal, every method | what a successful answer may lack; nothing is answered that was not there; who hears of a deadline; why an answer is lost; a call ends once its client is gone or its deadline has passed |
| `clog` | one handler that searches and one that resolves the fields of both indices; an own stream whose mapping changes and a shared index | filtered answers stay inside, lasting logs are found across the two searches, stale fields die |
| `clog_namespace` | one handler, every tool | **violation**: with no usable namespace field the fallback has no namespace filter |

The four violations are the findings of `PROJECT.json`, each with the comment it
contradicts.

Three properties record what the code does where one might expect more.
`MayLose` in `LastingDataIsAnswered` lists the answers that may be short without a
word: the streams that nobody asks for their error (the primary key and the references of a
PostgreSQL card, documents of MongoDB), the index names in the statistics, which are as
silently empty when their query fails, the row count of SQLite, shown as 0 when its
`COUNT(*)` failed, the hits and the fields of Elasticsearch, whose 200 is taken for whole
though shards failed (only `_shards.total` is parsed, `es_helpers.go`:122), and the body
of `es_list_indices`, whose read error is dropped. No other answer is
short, which is proved. `AnswersWereReal` has the one exception on the other side: index names and
row counts shown as nothing. `DeadlinesGoUnreported` says that the text "query exceeded
the 5m execution limit" reaches no caller: `WriteTimeout` is as long as the
deadline and starts earlier. The other engines return the driver's error, which
the transport replaces by "internal error", and the largest `timeout_ms` of an
Elasticsearch search, 300000, is `WriteTimeout` again. `LostAnswersAreExplained`
names the reasons for which a caller who waits gets no answer: `WriteTimeout`, a process
that left after a drain too short for the call, and the two panics.

### Bounds, and why they are enough

- `MaxPools = 3` with two goroutines: the race needs two pools, the ClickHouse
  retry one more. In `pools_shutdown` the bound of `PoolsPerSourceBounded` is two, so
  a third pool is what would break it. The mutants of both runs are found within these bounds.
- Two calls compete for a pool with one connection; the limit itself (five, or
  one on SQLite) does not occur in the code's decisions. Calls share the sessions of a pool and nothing else, and what a
  session keeps is whether it is inside a transaction and whether `query_only` is off:
  one call to leave it so and one to find it so, on the one connection. Classes of
  texts that differ only in what the engine of a pair does not look at are left out of the pairs.
- `index`: three slices, the index's, a search's and the one under construction.
  One table in the second of two schemas of a source, beside a source that has
  none: a failure can come before it, at it, beside it and after it.
- `startup`: one user in every spelling and another in one are the smallest
  environments in which names, spellings and legacy keys collide in pairs. Of
  sources every subset of seven groups of variables on top of a PostgreSQL
  source: its settings contradicted, made blank or opted in, and namesakes that sort
  before and after it. Users and sources meet only in `requireWrite`, so the
  many of the one are combined with one of the other.
- `tools`: at most two items of a part, since a list is whole, short by one, or
  empty. `SampleLimit` (5 in the code) and `RangeSize` (51) are 1, so that a list
  of two is cut. `WriteTimeout` is 2 units, `SqliteTimeout` and `DrainTimeout` 1: a
  deadline before, at and after the server's, and a drain that ends before, at and after
  both. A signal comes during every call but a card (`Signalled`): a card has the steps
  of the others, only more of them. `MaxChanges` is 1 for a card, whose requests are up to
  eight, and 2 for the calls of one or two requests, where two changes lie
  between, before or inside them.
- `clog`: two candidates for the namespace and one for other roles: an order of
  preference is needed once. The mappings of the two indices resolve together to
  the first candidate, to the second, which one of them lacks, or (in the
  violation run) to none. Three namespaces: one with a stream of its own, one in
  a shared index, one whose name starts with the prefix. One handler searches, the
  other only races it for the cache; the violation run has every tool.

Counters that grow without bound in the code do not occur, except the pools
opened (`MaxPools`, in the guard of `Open`), the time of a call (told until
`WriteTimeout`, until the deadline of the request in flight and until the end of a
drain, since nothing asks for more) and the changes of a store (`MaxChanges`).

### Fairness

- `ConnPools`: `main` is scheduled; the deadline of `ExecuteQuery` ends a query;
  the cancelled process context ends the refresher's calls. Nothing is assumed
  of requests, pings, or a handler's catalog queries, which have no deadline
  (`ShutdownCompletes` names that case in its premise).
- `SqlExecution`: the deadline set by each `ExecuteQuery` fires, drivers return
  when it has, deferred calls run. Servers owe nothing, except SQLite's, which is in the
  process and obeys an interrupt. That a text leaves a transaction open keeps nobody waiting
  here: what one session locks is a hanging server to another.
- `SearchIndex`: the refresher is scheduled, the ticker ticks, calls end under a
  cancelled context, and a `select` does not ignore a closed channel for ever
  (strong fairness of `Stop`: Go picks among ready cases at random).
- `ToolCalls`: the handler is scheduled, time passes, and a request whose context
  has ended returns. Nothing makes a database answer and nobody must hang up, so
  `EveryCallEnds` is about calls whose client is gone or whose request in flight has a
  deadline: a catalog query without one may last as long as its client waits. Nor is it
  assumed that a signal comes or that the process exits.
- `ClogTools`: handlers are scheduled, searches end by their deadline, cached
  entries age. Nothing is assumed of `_field_caps`, which has no deadline of its own.

## 4. Proofs

All theorems hold for every value of the constants under the named `ASSUME`s,
which only give the constants their types (sources have a kind, the "no" values
are not members of the sets they stand beside, capacities are positive, there are
finitely many goroutines and items at a time), and say what the code checks before
the model begins (only a call names a tool; an `es_*` or `mongo_*` tool has a source
of its own kind; the limits of the `es_*` tools are clamped where the code does it: a
sample may be 0, and the `size` of `es_search` anything below its cap). One item of `ToolCalls` is
kept apart: what TYPE answers is no item of the store.

- **ConnPoolsProofs**: `TypeOK`, `MapServesOpenPools`, `HandleUsableUntilCloseAll`,
  `NilClientOnlyAfterCloseAll`, `NoSilentLeak` and `CleanDrainCutsNothing`. None
  is inductive alone. `IInv` adds which pool a goroutine may hold at each label
  (opened for its target; not yet stored, so nobody else closes it; or stored
  before), that a kind's map is empty once it is closed, and that handlers are
  idle after a drain that did not expire.
  `PoolsPerSourceBounded` needs a count: while a source is not in the map, each of
  its open pools is in the hands of another goroutine that has opened and not yet
  stored; once it is, nobody starts to open, and open pools and goroutines about to open
  are together no more than there are goroutines (`Race`). The retry of ClickHouse
  closes its pool before it opens the next, which is why its opener counts again.
  `ShutdownIsNeverStuck` and `CloseAllWalkAdvances` are the safety half of
  `ShutdownCompletes`: main can step, or waits for a deadline, or for the one
  `Close` that may hang under a handler's catalog query; and the map that a
  `CloseAll` walks is fixed while its pools only move towards closed, so each
  walk ends. `TurnInv` says which adapter's turn it is and that only a `Close` that
  waits takes time.
- **SqlExecutionProofs**: type correctness and eight safety properties, for any calls,
  texts, sources and capacities, and that the execution implements `WriteContract`. The
  properties of PostgreSQL, MySQL and ClickHouse need no condition; `ReadsAreReads` and
  `ContractKept` assume `SealedSqlite`: SQLite sources are read-only and no text sent to one
  lifts `query_only`. `IInv` has four views of a call and one of a session. `Stage`
  says what the handler has passed; `Data` ties the change to the server: what is
  pending waits in the handler's read-write transaction or in one that a text opened on
  a session that is kept; `Outcome` says what a result implies; `Place` that a call
  runs on a session of its own source; `Made` that a session inside a transaction, or with
  the pragma off, has had a text that did it. The counter of a pool is the
  cardinality of the calls holding a connection (`ConnectionsAccounted`). The refinement
  is proved action by action: a step that settles a transaction maps to one
  `Change` of all the requests whose changes it carries.
  `CallsNeverWait` and `CallsComeNearer` are the safety half of `EveryCallEnds`: a
  call under way always has a step of its own to take, whatever its server and the
  other calls do; no step leads it away from its end, each of its own brings it
  nearer (`Distance`, at most 13 of them), and nothing takes such a step away.
- **SearchIndexProofs**: type correctness, `SearchSeesOneBuild`,
  `InstalledWasReal`, `FailuresStayLocal` (two action properties), and that every
  column in the index has its table there (`ColumnsFollowTables`, which no run checks).
  `Walk` says that the slice under construction is neither
  the index's nor any search's and holds only what existed; `Owed` says where each entry that is
  neither installed nor lost still is: in a source, schema, list or table to come.
  From the same invariants `TablesVanishForAReason` is the safety half of
  `LastingTablesAreFound`: a search stops finding a table only when a build is
  installed, and only a table that did not last or whose calls failed.
  `BuildsEnd` is that of `RefresherStops`: each call of a build, failed or not, and
  each step between two calls leaves fewer sources, schemas or tables, and nothing
  else moves the walk (what remains for TLC is that the `select` chooses `Done` in
  the end). `AllocationNeverWaits` justifies the bound on slices: two more than there
  are handlers, and a build always finds one that nobody can reach.
- **PrincipalsProofs**: type correctness, `RolesAreConfigured`,
  `EnvDecidesRoles`, and that the explicit spelling of a user wins
  (`ExplicitWins`, which no run checks). The invariants say what the map of tokens holds
  after the part of a range that has been done, whatever the order.
- **StartupProofs**: the whole process implements the specification of
  `Principals` (`UsersImplemented`), so the theorems about users are theorems
  about the process; type correctness; `WritesAreOptedIn`, from what is in `cfg`
  and `sources` at each moment of a range and from what `requireWrite` looks at;
  and `EnvDecidesAnswers`: without contradictions `cfg` is a function of the
  environment whatever the order, hence so are the sources, the source that
  `findSource` returns (it is unique, since names have distinct ranks), and, with
  the theorem about roles, the answer.
- **ToolCallsProofs**: type correctness, which rests on lemmas about every
  program (`ProgramsAreGood`: what a failed request drops is part of its program,
  only `redis_keys` scans, only a block comment panics, a request with a deadline is the
  last one, an error that names its deadline is Elasticsearch's or comes at `WriteTimeout`); `DeadlinesGoUnreported` and
  `LostAnswersAreExplained` for any timeouts and limits, from `DeadlineInv`, which
  says how old a call is at each use of a deadline and that a process that left had
  drained to the end (or the call had taken `WriteTimeout`, or panicked); and
  `AnswersWereReal`, from what `redis_get` knows after each of its requests and from
  `BlankInv`: only a part of `KnownBlank` is ever shown blank. `EndsArePossible` and
  `EndsComeNearer` are the safety half of `EveryCallEnds`, for a client that is gone
  or a request with a deadline: the handler, giving up or the clock can go on, and
  each of them brings the call nearer to its end, by the requests left and then by the
  time to the deadline.
- **LastingDataProofs**: `LastingDataIsAnswered` and `AnswersStayWithinLimits`
  (which no run checks), for any messages, items, limits and timeouts. Of every program it
  is shown first that it is `Orderly`: no two requests fill one part of the answer,
  except one that serves another refused with a 403; a request that is dropped,
  noted, left blank, ignored or answered by a part of its shards is a section of a card
  that is missing whole, or on the list of `MayLose`. Then
  `LastingInv` follows a call along its program: the requests behind `pos` are settled
  (`Settling`), those to come find their part empty (`Fresh`), and of a snapshot half
  read the rest is in `batch` or the limit is reached (`StreamKept`). The property
  alone is not inductive: it says nothing of a call that has not ended. For
  the limits `LimitInv` counts, besides what is in the answer, the rows that are
  still in `batch`, and of a `SCAN` the keys appended, which are at least as many
  as the distinct ones.
- **ClogToolsProofs**: type correctness, `FilteredAnswersStayInside`,
  `LastingLogsAreFound`. `ScopedField`, `AgreedAnswer` and `InsideAnswer` are the
  lemmas about fields: the namespace's field is one on which a term means
  equality in every index behind the pattern, and an index that agrees on the
  fields has them. `IInv` adds that the history variables bound the logs during a
  search, and that a second search only begins when the stream was missing at some
  moment of it. `OldFieldsDwindle` and `FreshFieldsLast` are the safety half of
  `StaleFieldsDie`: while nothing changes, an entry becomes old only by one of the
  old answers that were under way, of which there are ever fewer, and once nothing
  is old nothing becomes so (what remains for TLC is that old entries age).

The inductive invariants were model-checked before they were proved.

**Only model-checked**: the six liveness properties, because liveness under
fairness and ENABLED are out of the prover's reach. Of each, the theorems named above
state the safety half, without its temporal part: what is under way comes nearer to
its end or stays as it is. For the two `EveryCallEnds` they also write out the guards of
the fair steps (`Chance`), which were compared with ENABLED on the instances of the
runs. Every safety property of a passing run is proved.

## 5. What is not modelled

Wording, formatting and logging; the text of SQL, of search queries and of
names; the numbers inside aggregations; TLS and connection strings beyond
whether they parse; CORS and the two encodings of an answer.

- Ranking and inference (`search/engine.go`, `infer.go`) are functions of one
  snapshot of the index, whose rules are about the letters of names: prefixes,
  synonyms, one edit, plurals. `SearchIndex` shows that the snapshot is one build;
  that two kinds with a source of one name are joined by inference (`infer.go`:53) is
  listed as a hazard without a property.
- The stage filter of `mongo_aggregate` and the analysis of an Elasticsearch
  sample are recursive functions of their input.
- TOON output, identifier quoting, redaction and route keys are functions of text
  with unit tests.
- `ClogTools` takes a 200 of Elasticsearch for whole: shards that failed inside one
  (`es_helpers.go`:122) are only in `ToolCalls`, where the hits and the fields of the
  `es_*` tools can be short for that reason. `LastingLogsAreFound` is about clusters
  whose shards answer.
- `ToolCalls` has the requests of `es_describe_index` and `es_analyze_index` and their limits;
  the sections derived from a sample and the choice of notable fields are functions
  of what was read.
- A process that is killed, or a machine that fails, cuts every answer. `SqlExecution`
  has the kill, for what it does to the data; `ToolCalls` and `ConnPools` have only the
  shutdown of `main`.
- Of a name that starts with `CLOG_LOGS_PREFIX` no comment or test says what it
  should find; it is modelled and excluded from the two properties about answers.

## 6. Plan

Done in order of weight: `ConnPools` (everything goes through it),
`SqlExecution` with `WriteContract` (the promise to the user's data),
`SearchIndex`, `Principals`, `ClogTools`; then `Sources` and their composition in
`Startup`, the tools and the transport in `ToolCalls`, and a mapping per index in
`ClogTools`; each with its proofs.

Left:

1. Ranking against its total order (the kind is missing from the tie-break), and
   inference across kinds, as functions over the entries of `SearchIndex`.
2. The numbers of the aggregations: percentiles and rates merged over buckets,
   and what a missing status field makes of them.
