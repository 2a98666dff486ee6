------------------------------ MODULE ToolCalls ------------------------------
(***************************************************************************)
(* One POST to /mcp, from the message to the answer: the transport         *)
(* dispatches it, the handler of a tool sends its requests one after the   *)
(* other to a store that others change meanwhile, and the transport writes *)
(* the answer within the server's WriteTimeout.                            *)
(*                                                                         *)
(* What a handler does is data: a sequence of requests, each with what the *)
(* code does when the request fails and when its answer breaks off.        *)
(* Connecting is in ConnPools, the choice of the source in Sources, the    *)
(* statement behind db_execute_query in SqlExecution.                      *)
(***************************************************************************)
EXTENDS Integers, FiniteSets, Sequences

CONSTANTS
    Messages,       \* the messages considered
    Items,          \* the things a store can hold: rows, documents, keys, names
    PartOf,         \* item -> the part of an answer that it belongs to
    TypeOf,         \* item of the part "value" -> the Redis type it makes of its key
    SampleLimit,    \* rows in a sample: 5
    RangeSize,      \* what LRANGE 0 50 returns at most: 51
    WriteTimeout,   \* main.go: 5 minutes, the deadline of SQL statements too
    SqliteTimeout,  \* 2 minutes
    DrainTimeout,   \* main.go: 10 s for the calls under way after a signal
    MaxChanges,     \* bound: message -> changes of the store during the call
    Signalled       \* bound: the messages during whose call a signal may come

SqlKinds == {"postgres", "mysql", "clickhouse", "sqlite"}

Message == [method : STRING, tool : STRING, engine : STRING,
            sample : BOOLEAN, timeout : Nat,
            limit : Int,        \* rows, documents, keys or hits asked for
            maxFields : Nat, maxIndices : Nat,
            comment : BOOLEAN]  \* the statement is a block comment and nothing else

Parts == {"schemas", "tables", "columns", "stats", "index_names", "sample", "foreign_keys",
          "primary_key", "references", "indexes", "result", "documents", "keys", "type",
          "value", "info", "indices", "fields", "hits"}
RedisTypes == {"string", "list", "set", "hash", "zset"}

EsTools == {"es_list_indices", "es_resolve_index", "es_field_caps", "es_search",
            "es_describe_index", "es_analyze_index"}
MongoTools == {"mongo_find", "mongo_aggregate"}

\* Only a call names a tool.  esClient and mongoClient refuse a source of another kind.
\* The limits of the es tools are clamped, a sample to [0,50], the lists to one at least;
\* the "size" that es_search is given is only capped.
ASSUME MessageAssumption ==
    /\ Messages \subseteq Message
    /\ \A m \in Messages : m.method # "tools/call" => m.tool = "none"
    /\ \A m \in Messages : m.tool \in EsTools => /\ m.engine = "elasticsearch"
                                               /\ m.maxFields >= 1 /\ m.maxIndices >= 1
    /\ \A m \in Messages : m.tool \in {"es_describe_index", "es_analyze_index"} => m.limit >= 0
    /\ \A m \in Messages : m.tool = "es_list_indices" => m.limit >= 1
    /\ \A m \in Messages : m.tool \in MongoTools => m.engine = "mongodb"
\* What TYPE answers is no item: it goes to "shape".
ASSUME ItemAssumption ==
    /\ IsFiniteSet(Items)
    /\ PartOf \in [Items -> Parts \ {"type"}] /\ TypeOf \in [Items -> RedisTypes]
ASSUME BoundAssumption ==
    /\ SampleLimit \in Nat \ {0} /\ RangeSize \in Nat \ {0}
    /\ WriteTimeout \in Nat \ {0} /\ SqliteTimeout \in 1 .. (WriteTimeout - 1)
    /\ DrainTimeout \in Nat \ {0}
    /\ MaxChanges \in [Messages -> Nat] /\ Signalled \subseteq Messages

-----------------------------------------------------------------------------
(* Requests.  "how": the answer is a stream of "rows" of one snapshot, a   *)
(* "cursor" over the live data, a "body" in one piece, a Redis "scan",     *)
(* "type" or "value", or the request is always "refused", or the code      *)
(* "panics" before it is sent.  A failed request, or an answer that breaks *)
(* off, "fail"s the call, "skip"s the section, leaves it "blank" (shown    *)
(* without what was asked for), leaves a "note", or is "ignore"d: what was *)
(* read counts.  A failure also drops the requests that depend on it.      *)

None == 0
NoLimit == -1

Ask(part, how, onError, onCut) ==
    [part |-> part, how |-> how, onError |-> onError, onCut |-> onCut,
     drops |-> 0,         \* requests dropped when this one fails
     instead |-> 0,       \* requests after it that are only for a 403
     needed |-> FALSE,    \* an empty answer is "not_found"
     most |-> NoLimit,    \* items at most
     partial |-> FALSE,   \* shards that fail are left out of a successful answer
     within |-> None,     \* a deadline of its own
     tells |-> FALSE]     \* the error names the deadline to the caller

Hows == {"rows", "cursor", "body", "scan", "type", "value", "refused", "panics"}
Policies == {"fail", "skip", "blank", "note", "ignore", "fail_unless_gone"}
Request == [part : Parts, how : Hows, onError : Policies, onCut : Policies, drops : Nat,
            instead : Nat, needed : BOOLEAN, most : Int, partial : BOOLEAN, within : Nat,
            tells : BOOLEAN]

Must(part, how) == Ask(part, how, "fail", "fail")
May(part, how) == Ask(part, how, "skip", "skip")
Needed(r) == [r EXCEPT !.needed = TRUE]
Dropping(r, n) == [r EXCEPT !.drops = n]
Sparing(r, n) == [r EXCEPT !.instead = n]
Limited(r, n) == [r EXCEPT !.most = n]
Partial(r) == [r EXCEPT !.partial = TRUE]
Within(r, t, tells) == [r EXCEPT !.within = t, !.tells = tells]

\* How the catalogue of an engine is read.  The adapters of Redis and Elasticsearch answer
\* ErrNotSupported without a request.
Catalog(e) == CASE e \in SqlKinds -> "rows" [] e = "mongodb" -> "body" [] OTHER -> "refused"

\* The others have one schema, whose name is in the code.
ListSchemas(e) ==
    IF e \in (SqlKinds \ {"sqlite"}) \cup {"mongodb"} THEN <<Must("schemas", Catalog(e))>>
    ELSE <<>>

ResolveIndex == Must("indices", "body")

\* Without the monitor privilege _cat/indices is a 403, and _resolve/index serves.
CatIndices(onCut, limit) ==
    <<Limited(Sparing(Ask("indices", "body", "fail", onCut), 1), limit),
      Limited(ResolveIndex, limit)>>

ListTables(e) ==
    IF e = "elasticsearch" THEN CatIndices("fail", NoLimit) ELSE <<Must("tables", Catalog(e))>>

\* The columns of a MongoDB collection are those of the one document it reads.
ListColumns(e) == Must("columns", Catalog(e))

\* Index names are optional: without them the list in the statistics is empty, and nobody
\* asks the stream of them for its error.
IndexNames == Ask("index_names", "rows", "blank", "ignore")

\* SQLite drops the error of its COUNT(*), and the section says that the table has 0 rows.
TableStats(e) ==
    CASE e \in {"postgres", "mysql"} -> <<Dropping(May("stats", "body"), 1), IndexNames>>
      [] e = "sqlite"                -> <<Ask("stats", "body", "blank", "blank"), IndexNames>>
      [] e \in {"clickhouse", "mongodb"} -> <<May("stats", "body")>>
      [] OTHER                       -> <<May("stats", "refused")>>

\* A cursor of MongoDB, rows of the others.
SampleRows(e) ==
    <<Limited(May("sample", IF e = "mongodb" THEN "cursor" ELSE Catalog(e)), SampleLimit)>>

FindRelationships(e, r) == IF e \in SqlKinds \ {"clickhouse"} THEN <<r>> ELSE <<>>

\* Only the last of the three streams of PostgreSQL is asked for its error.
TableDetails(e) ==
    CASE e = "postgres" ->
            <<Dropping(Ask("primary_key", "rows", "note", "ignore"), 2),
              Dropping(Ask("references", "rows", "note", "ignore"), 1),
              Ask("indexes", "rows", "note", "note")>>
      [] e = "clickhouse" ->
            <<Dropping(Ask("primary_key", "body", "note", "note"), 1),
              Ask("indexes", "rows", "skip", "note")>>
      [] OTHER -> <<>>

TableCard(m) ==
    <<Needed(ListColumns(m.engine))>> \o TableStats(m.engine)
    \o (IF m.sample THEN SampleRows(m.engine) ELSE <<>>)

AddFullCard(e) ==
    FindRelationships(e, May("foreign_keys", "rows")) \o TableDetails(e)

\* An error that names the deadline: sqlError of PostgreSQL.  The others return the
\* driver's error, which the transport turns into "internal error".  AssertReadOnly takes
\* the first word of what is left without the comments in front of it.
ExecuteQuery(e, comment) ==
    IF e \notin SqlKinds THEN <<Must("result", "refused")>>
    ELSE IF comment THEN <<Must("result", "panics")>>
    ELSE <<Within(Ask("result", "rows", "fail",
                      IF e = "postgres" THEN "fail_unless_gone" ELSE "fail"),
                  IF e = "sqlite" THEN SqliteTimeout ELSE WriteTimeout,
                  e = "postgres")>>

\* mongo_find asks the cursor for documents and never for its error; a limit below
\* zero is its absolute value to the server, zero is none.
MongoFind(limit) ==
    <<Limited(Ask("documents", "cursor", "fail", "ignore"),
              IF limit = 0 THEN NoLimit ELSE IF limit < 0 THEN -limit ELSE limit)>>

\* The server refuses a $limit that is not positive.
MongoAggregate(limit) ==
    IF limit <= 0 THEN <<Must("documents", "refused")>> ELSE MongoFind(limit)

RedisGet == <<Must("type", "type"), Must("value", "value")>>

\* Both take a 200 for the whole answer and never look at the shards that failed.
FetchFieldCaps == Partial(Must("fields", "body"))

\* The server refuses a "size" below zero.
RunSearch(m) ==
    IF m.limit < 0 THEN Must("hits", "refused")
    ELSE Limited(Partial(Within(Must("hits", "body"), m.timeout, TRUE)), m.limit)

\* renderDescription cuts both lists, and says so.
DescribeIndex(m) ==
    <<Limited(ResolveIndex, m.maxIndices), Limited(FetchFieldCaps, m.maxFields), RunSearch(m)>>

ProgramOf(m) ==
    CASE m.tool = "db_list_schemas"        -> ListSchemas(m.engine)
      [] m.tool = "db_list_tables"         -> ListTables(m.engine)
      [] m.tool = "db_list_columns"        -> <<ListColumns(m.engine)>>
      [] m.tool = "db_table_card"          -> TableCard(m)
      [] m.tool = "db_table_card_full"     -> TableCard(m) \o AddFullCard(m.engine)
      [] m.tool = "db_find_relationships"  ->
            FindRelationships(m.engine, Must("foreign_keys", "rows"))
      [] m.tool = "db_execute_query"       -> ExecuteQuery(m.engine, m.comment)
      [] m.tool = "mongo_list_collections" -> <<Must("tables", "body")>>
      [] m.tool = "mongo_find"             -> MongoFind(m.limit)
      [] m.tool = "mongo_aggregate"        -> MongoAggregate(m.limit)
      [] m.tool = "redis_keys"             -> <<Must("keys", "scan")>>
      [] m.tool = "redis_get"              -> RedisGet
      [] m.tool = "redis_info"             -> <<Must("info", "body")>>
      [] m.tool = "es_list_indices"        -> CatIndices("ignore", m.limit)
      [] m.tool = "es_resolve_index"       -> <<ResolveIndex>>
      [] m.tool = "es_field_caps"          -> <<Limited(FetchFieldCaps, m.maxFields)>>
      [] m.tool = "es_search"              -> <<RunSearch(m)>>
      [] m.tool \in {"es_describe_index", "es_analyze_index"} -> DescribeIndex(m)
      [] OTHER                             -> <<>>

Tools == {"db_list_schemas", "db_list_tables", "db_list_columns", "db_table_card",
          "db_table_card_full", "db_find_relationships", "db_execute_query",
          "mongo_list_collections", "mongo_find", "mongo_aggregate", "redis_keys",
          "redis_get", "redis_info"} \cup EsTools

-----------------------------------------------------------------------------
VARIABLES
    message,    \* what was posted
    phase,      \* "received", "ready", "sent", "reading", "answering" or "done"
    pos,        \* the current request of the program
    due,        \* when the context of the current request ends, None if it does not
    batch,      \* rows of the current snapshot that have not come yet
    count,      \* keys appended by redisScan, duplicates included
    shape,      \* what TYPE answered
    got,        \* what the answer holds
    noted,      \* "Note: table details unavailable" is in the answer
    blank,      \* the parts shown without what was asked for
    result,     \* how the handler ended
    age,        \* time since the request was read
    client,     \* "waiting", "gone", "answered" or "cut_off"
    leaves,     \* when the drain that a signal started is over, None before a signal
    store,      \* what the store holds
    always,     \* what it has held all along since the call began
    ever,       \* what it has held at some time since then
    changes

handlerVars == <<message, phase, pos, due, batch, count, shape, got, noted, blank, result>>
otherVars == <<leaves, store, always, ever, changes>>
callVars == <<handlerVars, age, client, otherVars>>

Program == ProgramOf(message)
Current == Program[pos]

Of(S, part) == {i \in S : PartOf[i] = part}

Failures == {"failed", "deadline", "not_found", "panic", "rpc_error"}
Results == {"none", "ok", "no_content", "http_error"} \cup Failures

CallTypeOK ==
    /\ message \in Messages
    /\ phase \in {"received", "ready", "sent", "reading", "answering", "done"}
    /\ pos \in 1 .. (Len(Program) + 1)
    /\ phase \in {"sent", "reading"} => pos <= Len(Program)
    /\ due \in Nat /\ age \in Nat /\ count \in Nat
    /\ batch \subseteq Items /\ got \subseteq Items
    /\ shape \in RedisTypes \cup {"none"} /\ noted \in BOOLEAN /\ blank \subseteq Parts
    /\ result \in Results /\ leaves \in Nat
    /\ client \in {"waiting", "gone", "answered", "cut_off"}
    /\ always \subseteq store /\ store \subseteq ever /\ ever \subseteq Items
    /\ changes \in 0 .. MaxChanges[message]

\* A key has one type at a time.
OneType(S) == \A i, j \in Of(S, "value") : TypeOf[i] = TypeOf[j]

CallInit ==
    /\ message \in Messages
    /\ store \in {S \in SUBSET {i \in Items :
                        \E n \in DOMAIN Program : Program[n].part = PartOf[i]} : OneType(S)}
    /\ always = store /\ ever = store /\ changes = 0
    /\ phase = "received" /\ pos = 1 /\ due = None /\ batch = {} /\ count = 0
    /\ shape = "none" /\ got = {} /\ noted = FALSE /\ blank = {} /\ result = "none"
    /\ age = 0 /\ client = "waiting" /\ leaves = None

-----------------------------------------------------------------------------
(* The transport                                                           *)

\* What is answered without a tool.
Immediate(m) ==
    CASE m.method = "OPTIONS" -> "no_content"
      [] m.method = "GET" -> "http_error"
      [] m.method \in {"notifications/initialized", "notifications/cancelled"} -> "no_content"
      [] m.method \in {"initialize", "tools/list", "ping"} -> "ok"
      [] OTHER -> "rpc_error"   \* unreadable, bad parameters, or an unknown method

Dispatch ==
    /\ phase = "received"
    /\ IF message.method # "tools/call"
       THEN phase' = "answering" /\ result' = Immediate(message)
       ELSE IF message.tool \notin Tools
       THEN phase' = "answering" /\ result' = "failed"
       ELSE phase' = "ready" /\ result' = result
    /\ UNCHANGED <<message, pos, due, batch, count, shape, got, noted, blank, age, client,
                   otherVars>>

\* Mutant: the server has no WriteTimeout.
DeliverWhenever ==
    /\ phase = "answering"
    /\ phase' = "done"
    /\ client' = IF client = "gone" THEN "gone"
                 ELSE IF result = "panic" THEN "cut_off" ELSE "answered"
    /\ UNCHANGED <<message, pos, due, batch, count, shape, got, noted, blank, result,
                   age, otherVars>>

\* The handler is done.  WriteTimeout runs since the request was read and does not end
\* the handler's context: an answer that comes later finds the connection closed.
Deliver ==
    /\ phase = "answering"
    /\ phase' = "done"
    /\ client' = IF client = "gone" THEN "gone"
                 ELSE IF result = "panic" \/ age >= WriteTimeout THEN "cut_off"
                 ELSE "answered"
    /\ UNCHANGED <<message, pos, due, batch, count, shape, got, noted, blank, result,
                   age, otherVars>>

-----------------------------------------------------------------------------
(* The handler                                                             *)

\* Mutant: dropping the requests that depend on a failed one goes one too far.
GoesTooFar(n) == phase' = "ready" /\ pos' = pos + 1 + n + n /\ result' = result

Goes(n) == phase' = "ready" /\ pos' = pos + 1 + n /\ result' = result
Ends(r) == phase' = "answering" /\ pos' = pos /\ result' = r
Closes == due' = None /\ batch' = {} /\ UNCHANGED <<message, age, client, otherVars>>

\* What the code does about an error; "late" says that it is the deadline's.
Trouble(policy, drops, late) ==
    /\ CASE policy = "fail" \/ (policy = "fail_unless_gone" /\ client # "gone") ->
                Ends(IF late /\ Current.tells THEN "deadline" ELSE "failed")
                    /\ UNCHANGED <<got, noted, blank>>
         [] policy = "skip" ->
                Goes(drops) /\ got' = got \ Of(got, Current.part) /\ UNCHANGED <<noted, blank>>
         [] policy = "blank" ->
                Goes(drops) /\ blank' = blank \cup {Current.part} /\ UNCHANGED <<got, noted>>
         [] policy = "note" ->
                Goes(drops) /\ noted' = TRUE /\ UNCHANGED <<got, blank>>
         [] OTHER ->
                Goes(0) /\ UNCHANGED <<got, noted, blank>>
    /\ Closes /\ UNCHANGED <<count, shape>>

\* The next request.  One that the code or the server refuses has failed already.
Send ==
    /\ phase = "ready" /\ pos <= Len(Program) /\ Current.how \notin {"refused", "panics"}
    /\ phase' = "sent"
    /\ due' = IF Current.within = None THEN None ELSE age + Current.within
    /\ UNCHANGED <<message, pos, batch, count, shape, got, noted, blank, result, age,
                   client, otherVars>>

IsRefused ==
    /\ phase = "ready" /\ pos <= Len(Program) /\ Current.how = "refused"
    /\ Trouble(Current.onError, Current.drops, FALSE)

\* Nobody recovers: net/http drops the connection.
Panics ==
    /\ phase = "ready" /\ pos <= Len(Program) /\ Current.how = "panics"
    /\ Ends("panic")
    /\ Closes /\ UNCHANGED <<count, shape, got, noted, blank>>

Finish ==
    /\ phase = "ready" /\ pos = Len(Program) + 1
    /\ Ends("ok")
    /\ UNCHANGED <<message, due, batch, count, shape, got, noted, blank, age, client,
                   otherVars>>

\* The answers that a limit allows.
AtMost(S, n) ==
    {T \in SUBSET S : Cardinality(T) = IF n = NoLimit \/ Cardinality(S) <= n
                                       THEN Cardinality(S) ELSE n}
\* With shards that fail, those of any part of S.
PartsOf(S, n) == UNION {AtMost(T, n) : T \in SUBSET S}

Missing == Of(store, Current.part) \ got

\* The whole answer has come: on to the next request, past those that serve a 403.
Answers(T) ==
    /\ IF Current.needed /\ T = {} THEN Ends("not_found") ELSE Goes(Current.instead)
    /\ got' = got \cup T
    /\ Closes /\ UNCHANGED <<count, shape, noted, blank>>

Body ==
    /\ phase = "sent" /\ Current.how = "body"
    /\ \E T \in IF Current.partial THEN PartsOf(Of(store, Current.part), Current.most)
               ELSE AtMost(Of(store, Current.part), Current.most) : Answers(T)

Forbidden ==
    /\ phase = "sent" /\ Current.instead > 0
    /\ Goes(0)
    /\ Closes /\ UNCHANGED <<count, shape, got, noted, blank>>

\* The stream opens: rows are those of a snapshot, a cursor has none yet.
Begins ==
    /\ phase = "sent" /\ Current.how \in {"rows", "cursor"}
    /\ \E T \in AtMost(Of(store, Current.part), Current.most) :
          batch' = IF Current.how = "rows" THEN T ELSE {}
    /\ phase' = "reading"
    /\ UNCHANGED <<message, pos, due, count, shape, got, noted, blank, result, age,
                   client, otherVars>>

AtLimit == Current.most # NoLimit /\ Cardinality(Of(got, Current.part)) >= Current.most

Row(i) ==
    /\ phase = "reading"
    /\ IF Current.how = "rows" THEN i \in batch ELSE i \in Missing /\ ~AtLimit
    /\ got' = got \cup {i} /\ batch' = batch \ {i}
    /\ UNCHANGED <<message, phase, pos, due, count, shape, noted, blank, result, age,
                   client, otherVars>>

\* A cursor may miss what came or went during the read, and nothing else.
EndOfRows ==
    /\ phase = "reading" /\ batch = {}
    /\ Current.how = "cursor" => AtLimit \/ Of(always, Current.part) \subseteq got
    /\ Answers(Of(got, Current.part))

-----------------------------------------------------------------------------
(* Redis                                                                   *)

\* SCAN promises what was there all along, once or more; a batch may be empty.
LastBatch(B) == Of(always, "keys") \subseteq got \cup B

ScanGoesOn(B) ==
    /\ phase = "sent" /\ Current.how = "scan"
    /\ count + Cardinality(B) < message.limit
    /\ got' = got \cup B /\ count' = count + Cardinality(B)
    /\ UNCHANGED <<message, phase, pos, due, batch, shape, noted, blank, result, age,
                   client, otherVars>>

\* keys[:limit] keeps of n appended keys the first ones; the distinct ones among
\* them are at least as many as the limit exceeds the duplicates.
Truncated(keys, n, limit) ==
    IF n <= limit THEN {keys}
    ELSE {T \in SUBSET keys : Cardinality(T) \in (limit - (n - Cardinality(keys))) .. limit}

\* Mutant: the loop stops at an empty batch, as if that were the end.
ScanEndsOnEmptyBatch(B) ==
    /\ phase = "sent" /\ Current.how = "scan"
    /\ count + Cardinality(B) >= message.limit \/ LastBatch(B) \/ B = {}
    /\ count' = count + Cardinality(B)
    /\ IF message.limit < 0 THEN Ends("panic") /\ UNCHANGED got
       ELSE Goes(0) /\ got' \in Truncated(got \cup B, count + Cardinality(B), message.limit)
    /\ Closes /\ UNCHANGED <<shape, noted, blank>>

\* The slice of a limit below zero panics, and net/http drops the connection.
ScanEnds(B) ==
    /\ phase = "sent" /\ Current.how = "scan"
    /\ count + Cardinality(B) >= message.limit \/ LastBatch(B)
    /\ count' = count + Cardinality(B)
    /\ IF message.limit < 0 THEN Ends("panic") /\ UNCHANGED got
       ELSE Goes(0) /\ got' \in Truncated(got \cup B, count + Cardinality(B), message.limit)
    /\ Closes /\ UNCHANGED <<shape, noted, blank>>

TypesNow == {TypeOf[i] : i \in Of(store, "value")}

\* Mutant: a key that is not there is read as an empty list.
TypeReturnsNone ==
    /\ phase = "sent" /\ Current.how = "type"
    /\ Goes(0)
    /\ shape' \in IF TypesNow = {} THEN {"list"} ELSE TypesNow
    /\ Closes /\ UNCHANGED <<count, got, noted, blank>>

\* TYPE: a key that is not there is an error.
TypeReturns ==
    /\ phase = "sent" /\ Current.how = "type"
    /\ IF TypesNow = {} THEN Ends("failed") /\ UNCHANGED shape
       ELSE Goes(0) /\ shape' \in TypesNow
    /\ Closes /\ UNCHANGED <<count, got, noted, blank>>

\* The read for that type: another type now is an error, so is a string that has gone;
\* a collection that has gone is empty.
ValueReturns ==
    /\ phase = "sent" /\ Current.how = "value"
    /\ IF TypesNow \subseteq {shape} /\ (shape = "string" => TypesNow # {})
       THEN \E T \in AtMost(Of(store, "value"),
                            IF shape \in {"list", "zset"} THEN RangeSize ELSE NoLimit) :
               got' = got \cup T /\ Goes(0)
       ELSE Ends("failed") /\ UNCHANGED got
    /\ Closes /\ UNCHANGED <<count, shape, noted, blank>>

-----------------------------------------------------------------------------
(* What goes wrong                                                         *)

Fails(late) == phase = "sent" /\ Trouble(Current.onError, Current.drops, late)

\* The answer breaks off: a stream, or a body after its headers, whose reader does not
\* name the deadline.
BreaksOff(late) ==
    /\ phase = "reading" \/ (phase = "sent" /\ Current.how = "body")
    /\ Trouble(Current.onCut, Current.drops, phase = "reading" /\ late)

StoreFails == Fails(FALSE) \/ BreaksOff(FALSE)

\* The request is given up: net/http ends the context of a client that hangs up, and
\* the request's own deadline passes.  (A Redis command in flight ends by the read
\* timeout of its driver.)
IsLate == due # None /\ age >= due
\* Mutant: the handler works under the background context.
GivesUpLateOnly == IsLate /\ (Fails(IsLate) \/ BreaksOff(IsLate))

GivesUp == (client = "gone" \/ IsLate) /\ (Fails(IsLate) \/ BreaksOff(IsLate))

-----------------------------------------------------------------------------
(* The client, the clock and the others                                    *)

HangUp ==
    /\ phase # "done" /\ client = "waiting"
    /\ client' = "gone"
    /\ UNCHANGED <<handlerVars, age, otherVars>>

\* SIGINT, SIGTERM, or a listener that failed: Shutdown waits for the calls under way, for
\* DrainTimeout at most.  A second signal is caught and does nothing.
Signal ==
    /\ phase # "done" /\ leaves = None /\ message \in Signalled
    /\ leaves' = age + DrainTimeout
    /\ UNCHANGED <<handlerVars, age, client, store, always, ever, changes>>

DrainIsOver == leaves # None /\ age >= leaves

\* Mutant: the server is closed and not shut down.
ExitsAtOnce ==
    /\ phase # "done" /\ leaves # None
    /\ phase' = "done" /\ due' = None
    /\ client' = IF client = "gone" THEN "gone" ELSE "cut_off"
    /\ UNCHANGED <<message, pos, batch, count, shape, got, noted, blank, result,
                   age, otherVars>>

\* Then main closes the pools and returns, and the handler and its connection are gone.
\* (A pool that waits for its connections can hold it up: what its closing makes of a
\* request is StoreFails.)
Exit ==
    /\ phase # "done" /\ DrainIsOver
    /\ phase' = "done" /\ due' = None
    /\ client' = IF client = "gone" THEN "gone" ELSE "cut_off"
    /\ UNCHANGED <<message, pos, batch, count, shape, got, noted, blank, result,
                   age, otherVars>>

\* Time is told until WriteTimeout, until the deadline of a request and to the end of a drain.
Tick ==
    /\ phase # "done"
    /\ age < WriteTimeout \/ (due # None /\ age < due) \/ (leaves # None /\ age < leaves)
    /\ age' = age + 1
    /\ UNCHANGED <<handlerVars, client, otherVars>>

Relevant(i) == \E n \in DOMAIN Program : Program[n].part = PartOf[i]

Create(i) ==
    /\ phase \notin {"answering", "done"} /\ changes < MaxChanges[message]
    /\ i \notin store /\ Relevant(i) /\ OneType(store \cup {i})
    /\ store' = store \cup {i} /\ ever' = ever \cup {i} /\ changes' = changes + 1
    /\ UNCHANGED <<handlerVars, age, client, leaves, always>>

Drop(i) ==
    /\ phase \notin {"answering", "done"} /\ changes < MaxChanges[message]
    /\ i \in store
    /\ store' = store \ {i} /\ always' = always \ {i} /\ changes' = changes + 1
    /\ UNCHANGED <<handlerVars, age, client, leaves, ever>>

HandlerGoesOn == Dispatch \/ Send \/ IsRefused \/ Panics \/ Finish \/ Deliver

Returns ==
    \/ Body \/ Forbidden \/ Begins \/ EndOfRows \/ TypeReturns \/ ValueReturns \/ StoreFails
    \/ \E i \in Items : Row(i)
    \/ \E B \in SUBSET Of(store, "keys") : ScanGoesOn(B) \/ ScanEnds(B)

CallNext ==
    \/ HandlerGoesOn \/ Returns \/ GivesUp \/ HangUp \/ Signal \/ Exit \/ Tick
    \/ \E i \in Items : Create(i) \/ Drop(i)

CallSpec == CallInit /\ [][CallNext]_callVars

\* The handler's goroutine runs, the clock goes on and a context that has ended is
\* noticed.  Nothing makes a database answer, and nobody must hang up; nor is it assumed
\* that the process ever exits.
FairCallSpec ==
    /\ CallSpec
    /\ WF_callVars(HandlerGoesOn) /\ WF_callVars(GivesUp) /\ WF_callVars(Tick)

-----------------------------------------------------------------------------
(* What holds                                                              *)

\* Where the code drops an error, so that an answer may be short without a word: streams
\* that nobody asks for their error (postgres.go:343-363, mongo_tools.go:127, the index
\* names of TableStats, which are as silently empty when their query fails), the COUNT(*)
\* of SQLite (sqlite.go:156), and the two requests to Elasticsearch that take a 200 with
\* failed shards for whole (es_helpers.go:40-48, 119-141).
KnownBlank == {<<"postgres", "index_names">>, <<"mysql", "index_names">>,
               <<"sqlite", "index_names">>, <<"sqlite", "stats">>}
KnownShort == KnownBlank \cup {<<"postgres", "primary_key">>, <<"postgres", "references">>,
                               <<"mongodb", "documents">>,
                               <<"elasticsearch", "hits">>, <<"elasticsearch", "fields">>}

\* es_list_indices also drops the error of reading a body (es_tools.go:168).
MayLose(r, m) == <<m.engine, r.part>> \in KnownShort \/ m.tool = "es_list_indices"

IsCard == message.tool \in {"db_table_card", "db_table_card_full"}

\* The answer holds as much of a part as was asked for.
Enough(r) ==
    \/ Of(always, r.part) \subseteq got
    \/ r.most # NoLimit /\ Cardinality(Of(got, r.part)) = r.most
    \/ r.how = "scan" /\ count >= message.limit
    \/ r.how = "value" /\ shape \in {"list", "zset"} /\ Cardinality(got) = RangeSize

\* Of a card, a section that could not be read is missing whole, or noted.
LeftOut(r) ==
    /\ IsCard /\ r.part # "columns" /\ r.part \notin blank
    /\ Of(got, r.part) = {} \/ (noted /\ r.part \in {"primary_key", "references", "indexes"})

\* What was there during the whole call is in a successful answer, up to the limit: a
\* section of a card can be missing whole, but only the parts of MayLose can be short, or
\* be shown blank, without a word.  And "table not found" is never said of a table that
\* has a column all along.
LastingDataIsAnswered ==
    /\ result = "ok" /\ client # "gone" =>
          \A n \in DOMAIN Program :
              \/ Enough(Program[n]) \/ LeftOut(Program[n])
              \/ MayLose(Program[n], message)
    /\ result = "not_found" => Of(always, "columns") = {}

\* Nothing is answered that was not there during the call, whatever came and went
\* between two requests, except that a part of KnownBlank is shown as nothing (no index
\* names, or 0 rows for SQLite) when its request fails.  A value of redis_get has the type
\* that TYPE saw, and an empty one is of a collection that was there and went.
AnswersWereReal ==
    /\ got \subseteq ever
    /\ \A part \in blank : <<message.engine, part>> \in KnownBlank
    /\ result = "ok" /\ message.tool = "redis_get" =>
          /\ \A i \in got : TypeOf[i] = shape
          /\ \E i \in ever : PartOf[i] = "value" /\ TypeOf[i] = shape
          /\ got = {} => shape # "string" /\ Of(always, "value") = {}

\* A caller who still waits is told of a deadline only when it is shorter than
\* WriteTimeout, which starts earlier.  PostgreSQL's "query exceeded the 5m execution
\* limit" (postgres.go:446) therefore reaches nobody, nor does the error of an
\* Elasticsearch search with the largest timeout_ms.
DeadlinesGoUnreported ==
    client = "answered" /\ result = "deadline" =>
        /\ Current.within # None /\ Current.within < WriteTimeout
        /\ message.engine = "elasticsearch"

\* The two calls that make the handler panic.
MayPanic(m) ==
    \/ m.tool = "redis_keys" /\ m.limit < 0
    \/ m.tool = "db_execute_query" /\ m.comment

\* A caller who waits goes without an answer only when the call took WriteTimeout or
\* longer, when the process left after a drain that was not long enough for the call, or
\* by one of two panics: redis_keys at a limit below zero (the slice keys[:limit]) and a
\* statement that is only a block comment (Fields(q)[0] of nothing).  So a signal costs
\* nobody an answer that comes within the drain.
LostAnswersAreExplained ==
    client = "cut_off" => age >= WriteTimeout \/ DrainIsOver \/ MayPanic(message)

\* A call whose client has gone, or whose request has a deadline, comes to its end
\* whether or not the store answers: nothing waits for ever on a dead connection.
EveryCallEnds == (phase # "done" /\ (client = "gone" \/ due # None)) ~> (phase = "done")
==============================================================================
