------------------------------ MODULE ConnPools ------------------------------
(***************************************************************************)
(* The connection pools of the seven adapters, the handlers and the index  *)
(* refresher that open and use them, and the shutdown that closes them.    *)
(*                                                                         *)
(* Every adapter keeps a map from source name to pool under a mutex.       *)
(* Connect looks the source up under the mutex, RELEASES it to open and    *)
(* ping a new pool, and takes it again to store the pool without looking   *)
(* a second time.  CloseAll closes every mapped pool and empties the map   *)
(* while it holds the mutex.                                               *)
(*                                                                         *)
(* A critical section that cannot block is one action; only CloseAll holds *)
(* the mutex across steps, which "closing" records.                        *)
(***************************************************************************)
EXTENDS Naturals, Sequences, FiniteSets

CONSTANTS
    Sources,    \* the discovered sources
    KindOf,     \* the kind of each source
    Handlers,   \* HTTP handler goroutines
    Refresher,  \* the search-index goroutine
    NoSource,   \* what an idle goroutine works on
    MaxPools    \* bound of the model: pools opened in one behaviour

Kinds == {"clickhouse", "elasticsearch", "mongodb", "mysql", "postgres",
          "redis", "sqlite"}

ASSUME KindAssumption == KindOf \in [Sources -> Kinds]
ASSUME ProcAssumption == Refresher \notin Handlers
\* Goroutines take memory: there are finitely many at a time, and they are counted below.
ASSUME HandlerAssumption == IsFiniteSet(Handlers)
ASSUME SourceAssumption == NoSource \notin Sources
ASSUME BoundAssumption == MaxPools \in Nat

Procs == Handlers \cup {Refresher}
PoolIds == 1 .. MaxPools
NoPool == 0
NoKind == "none"

-----------------------------------------------------------------------------
(* What tells the adapters' Connect, CloseAll and Client apart:            *)
(*   pings    Connect pings the new pool before it stores it               *)
(*   retries  a failed ping may be tried once more on a second pool        *)
(*   close    what CloseAll does: "wait" for connections in use, "cut"     *)
(*            without waiting, or "none" (the client has nothing to close) *)
(*   client   tools reach the pool through Client(name)                    *)

clickhousePool    == [pings |-> TRUE,  retries |-> TRUE,  close |-> "cut",  client |-> FALSE]
elasticsearchPool == [pings |-> TRUE,  retries |-> FALSE, close |-> "none", client |-> TRUE]
mongodbPool       == [pings |-> TRUE,  retries |-> FALSE, close |-> "wait", client |-> TRUE]
mysqlPool         == [pings |-> TRUE,  retries |-> FALSE, close |-> "cut",  client |-> FALSE]
postgresPool      == [pings |-> FALSE, retries |-> FALSE, close |-> "wait", client |-> FALSE]
redisPool         == [pings |-> TRUE,  retries |-> FALSE, close |-> "cut",  client |-> TRUE]
sqlitePool        == [pings |-> TRUE,  retries |-> FALSE, close |-> "cut",  client |-> FALSE]

Driver == [k \in Kinds |->
             CASE k = "clickhouse"    -> clickhousePool
               [] k = "elasticsearch" -> elasticsearchPool
               [] k = "mongodb"       -> mongodbPool
               [] k = "mysql"         -> mysqlPool
               [] k = "postgres"      -> postgresPool
               [] k = "redis"         -> redisPool
               [] k = "sqlite"        -> sqlitePool]

\* Registered adapters are walked in the order of their kinds.
KindOrder == <<"clickhouse", "elasticsearch", "mongodb", "mysql", "postgres",
               "redis", "sqlite">>

-----------------------------------------------------------------------------
VARIABLES
    pools,      \* the adapters' maps: source -> pool
    opened,     \* pools opened so far; they are numbered 1 .. opened
    status,     \* pool -> unopened, open, closing (Close waits), closed
    srcOf,      \* pool -> the source it was opened for
    displaced,  \* history: pools whose map entry a later Connect overwrote
    pc,         \* where each goroutine is
    target,     \* the source it works on
    handle,     \* the pool it holds
    byClient,   \* whether it came through Client(name)
    phase,      \* of main: serving, draining, closing, exited
    expired,    \* Shutdown gave up waiting for handlers
    closing,    \* the kind whose CloseAll holds its mutex
    closed      \* the kinds whose CloseAll has returned

poolVars == <<pools, opened, status, srcOf, displaced>>
procVars == <<pc, target, handle, byClient>>
mainVars == <<phase, expired, closing, closed>>
vars == <<poolVars, procVars, mainVars>>

PcStates == {"idle", "client", "connect", "open", "reopen", "ping", "reping",
             "store", "reclient", "ready", "querying", "browsing"}

TypeOK ==
    /\ pools \in [Sources -> PoolIds \cup {NoPool}]
    /\ opened \in 0 .. MaxPools
    /\ status \in [PoolIds -> {"unopened", "open", "closing", "closed"}]
    /\ srcOf \in [PoolIds -> Sources \cup {NoSource}]
    /\ displaced \subseteq PoolIds
    /\ pc \in [Procs -> PcStates]
    /\ target \in [Procs -> Sources \cup {NoSource}]
    /\ handle \in [Procs -> PoolIds \cup {NoPool}]
    /\ byClient \in [Procs -> BOOLEAN]
    /\ phase \in {"serving", "draining", "closing", "exited"}
    /\ expired \in BOOLEAN
    /\ closing \in Kinds \cup {NoKind}
    /\ closed \subseteq Kinds

Init ==
    /\ pools = [s \in Sources |-> NoPool]
    /\ opened = 0
    /\ status = [q \in PoolIds |-> "unopened"]
    /\ srcOf = [q \in PoolIds |-> NoSource]
    /\ displaced = {}
    /\ pc = [p \in Procs |-> "idle"]
    /\ target = [p \in Procs |-> NoSource]
    /\ handle = [p \in Procs |-> NoPool]
    /\ byClient = [p \in Procs |-> FALSE]
    /\ phase = "serving"
    /\ expired = FALSE
    /\ closing = NoKind
    /\ closed = {}

-----------------------------------------------------------------------------
Kind(p) == KindOf[target[p]]
MutexFree(k) == closing # k
Busy(p) == pc[p] \in {"querying", "browsing"}
InUse(q) == \E p \in Procs : Busy(p) /\ handle[p] = q
Running == phase # "exited"

At(p, label) == Running /\ pc[p] = label
Goto(p, label) == pc' = [pc EXCEPT ![p] = label]

\* The goroutine is done with its source, whatever the outcome.
Return(p) ==
    /\ Goto(p, "idle")
    /\ target' = [target EXCEPT ![p] = NoSource]
    /\ handle' = [handle EXCEPT ![p] = NoPool]
    /\ byClient' = [byClient EXCEPT ![p] = FALSE]

-----------------------------------------------------------------------------
(* Handlers and refresher                                                  *)

\* A db_* tool call: Deps.connect goes straight to Adapter.Connect.
CallConnect(h, s) ==
    /\ At(h, "idle") /\ phase = "serving"
    /\ Goto(h, "connect")
    /\ target' = [target EXCEPT ![h] = s]
    /\ UNCHANGED <<handle, byClient, poolVars, mainVars>>

\* A redis_*, mongo_*, es_* or clog_* tool call asks for the client first.
CallClient(h, s) ==
    /\ At(h, "idle") /\ phase = "serving"
    /\ Driver[KindOf[s]].client
    /\ Goto(h, "client")
    /\ target' = [target EXCEPT ![h] = s]
    /\ byClient' = [byClient EXCEPT ![h] = TRUE]
    /\ UNCHANGED <<handle, poolVars, mainVars>>

\* Build reaches the next source.  It does not look at its context between
\* sources, so it goes on during a shutdown.  The order of sources is left open.
IndexSource(s) ==
    /\ At(Refresher, "idle")
    /\ Goto(Refresher, "connect")
    /\ target' = [target EXCEPT ![Refresher] = s]
    /\ UNCHANGED <<handle, byClient, poolVars, mainVars>>

\* Client(name), first call: under the mutex.
ClientLookup(p) ==
    /\ At(p, "client") /\ MutexFree(Kind(p))
    /\ IF pools[target[p]] # NoPool
       THEN /\ handle' = [handle EXCEPT ![p] = pools[target[p]]]
            /\ Goto(p, "ready")
       ELSE /\ Goto(p, "connect")
            /\ UNCHANGED handle
    /\ UNCHANGED <<target, byClient, poolVars, mainVars>>

\* Mutant: Connect opens a pool of its own on every call.
LookupMisses(p) ==
    /\ At(p, "connect") /\ MutexFree(Kind(p))
    /\ Goto(p, "open")
    /\ UNCHANGED <<handle, target, byClient, poolVars, mainVars>>

\* Connect, first critical section.  A hit returns the pool; the caller that
\* came through Client(name) drops it and asks again.
Lookup(p) ==
    /\ At(p, "connect") /\ MutexFree(Kind(p))
    /\ IF pools[target[p]] # NoPool
       THEN /\ handle' = [handle EXCEPT ![p] = pools[target[p]]]
            /\ Goto(p, IF byClient[p] THEN "reclient" ELSE "ready")
       ELSE /\ Goto(p, "open")
            /\ UNCHANGED handle
    /\ UNCHANGED <<target, byClient, poolVars, mainVars>>

\* Connect outside the mutex: the driver builds a pool.
Open(p) ==
    /\ \/ At(p, "open") /\ Goto(p, IF Driver[Kind(p)].pings THEN "ping" ELSE "store")
       \/ At(p, "reopen") /\ Goto(p, "reping")
    /\ opened < MaxPools
    /\ opened' = opened + 1
    /\ status' = [status EXCEPT ![opened + 1] = "open"]
    /\ srcOf' = [srcOf EXCEPT ![opened + 1] = target[p]]
    /\ handle' = [handle EXCEPT ![p] = opened + 1]
    /\ UNCHANGED <<pools, displaced, target, byClient, mainVars>>

\* Mutant: the early return after a parse error is missing.
OpenFailsGoesOn(p) ==
    /\ At(p, "open") /\ Kind(p) # "clickhouse"
    /\ Goto(p, "failed")
    /\ UNCHANGED <<target, handle, byClient, poolVars, mainVars>>

\* The configuration does not parse: an error before any pool exists.  The
\* ClickHouse adapter fills its options from fields and parses nothing.
OpenFails(p) ==
    /\ At(p, "open") /\ Kind(p) # "clickhouse"
    /\ Return(p)
    /\ UNCHANGED <<poolVars, mainVars>>

\* The refresher pings with the process context, which the signal cancels.
PingOk(p) ==
    /\ At(p, "ping") \/ At(p, "reping")
    /\ p = Refresher => phase = "serving"
    /\ Goto(p, "store")
    /\ UNCHANGED <<target, handle, byClient, poolVars, mainVars>>

\* Mutant: a failed ping returns without closing the pool.
PingFailsLeaks(p) ==
    /\ At(p, "ping") \/ At(p, "reping")
    /\ Return(p)
    /\ UNCHANGED <<poolVars, mainVars>>

\* A failed ping closes the pool it was sent on.  An Elasticsearch client has
\* nothing to close and is just dropped.
PingFails(p) ==
    /\ At(p, "ping") \/ At(p, "reping")
    /\ status' = IF Driver[Kind(p)].close = "none"
                 THEN status ELSE [status EXCEPT ![handle[p]] = "closed"]
    /\ \/ Return(p)
       \/ /\ pc[p] = "ping" /\ Driver[Kind(p)].retries
          /\ Goto(p, "reopen")
          /\ handle' = [handle EXCEPT ![p] = NoPool]
          /\ UNCHANGED <<target, byClient>>
    /\ UNCHANGED <<pools, opened, srcOf, displaced, mainVars>>

\* Mutant: Connect closes the pool whose entry it overwrites.
StoreCloses(p) ==
    /\ At(p, "store") /\ MutexFree(Kind(p))
    /\ pools' = [pools EXCEPT ![target[p]] = handle[p]]
    /\ displaced' = displaced \cup ({pools[target[p]]} \ {NoPool})
    /\ status' = [q \in PoolIds |-> IF q = pools[target[p]] THEN "closed" ELSE status[q]]
    /\ Goto(p, IF byClient[p] THEN "reclient" ELSE "ready")
    /\ UNCHANGED <<opened, srcOf, target, handle, byClient, mainVars>>

\* Mutant: Connect returns its pool without storing it.
StoreForgets(p) ==
    /\ At(p, "store") /\ MutexFree(Kind(p))
    /\ Goto(p, IF byClient[p] THEN "reclient" ELSE "ready")
    /\ UNCHANGED <<target, handle, byClient, poolVars, mainVars>>

\* Connect, second critical section: the entry is overwritten unseen, and
\* whatever pool it held stays open without an owner.
Store(p) ==
    /\ At(p, "store") /\ MutexFree(Kind(p))
    /\ pools' = [pools EXCEPT ![target[p]] = handle[p]]
    /\ displaced' = displaced \cup ({pools[target[p]]} \ {NoPool})
    /\ Goto(p, IF byClient[p] THEN "reclient" ELSE "ready")
    /\ UNCHANGED <<opened, status, srcOf, target, handle, byClient, mainVars>>

\* Client(name), second call.  The mongo and es helpers refuse a nil client,
\* the redis one hands it on.
Reclient(p) ==
    /\ At(p, "reclient") /\ MutexFree(Kind(p))
    /\ IF pools[target[p]] = NoPool /\ Kind(p) # "redis"
       THEN Return(p)
       ELSE /\ handle' = [handle EXCEPT ![p] = pools[target[p]]]
            /\ Goto(p, "ready")
            /\ UNCHANGED <<target, byClient>>
    /\ UNCHANGED <<poolVars, mainVars>>

\* The goroutine starts an operation: ExecuteQuery bounds it with its own
\* deadline ("querying"), the catalog queries of the other Conn methods have
\* only the caller's context ("browsing").  The refresher only browses.
Begin(p) ==
    /\ At(p, "ready")
    /\ handle[p] # NoPool
    /\ status[handle[p]] = "open"
    /\ \/ p # Refresher /\ Goto(p, "querying")
       \/ Goto(p, "browsing")
    /\ UNCHANGED <<target, handle, byClient, poolVars, mainVars>>

\* The driver refuses a closed pool; a nil client panics, which net/http recovers.
Refused(p) ==
    /\ At(p, "ready")
    /\ \/ handle[p] = NoPool
       \/ handle[p] # NoPool /\ status[handle[p]] # "open"
    /\ Return(p)
    /\ UNCHANGED <<poolVars, mainVars>>

\* An operation ends, by its answer, its deadline or its context.
Finish(p) ==
    /\ Running /\ Busy(p)
    /\ Goto(p, "ready")
    /\ UNCHANGED <<target, handle, byClient, poolVars, mainVars>>

\* The handler answers, or the refresher goes to the next source.
Leave(p) ==
    /\ At(p, "ready")
    /\ Return(p)
    /\ UNCHANGED <<poolVars, mainVars>>

-----------------------------------------------------------------------------
(* main                                                                    *)

\* SIGINT, SIGTERM or a failed listener cancels the process context.
Signal ==
    /\ phase = "serving"
    /\ phase' = "draining"
    /\ UNCHANGED <<poolVars, procVars, expired, closing, closed>>

\* Mutant: main closes the pools without waiting for handlers.
DrainedAtOnce ==
    /\ phase = "draining"
    /\ phase' = "closing"
    /\ UNCHANGED <<poolVars, procVars, expired, closing, closed>>

\* Shutdown returns when no handler is left, or after ten seconds.
Drained ==
    /\ phase = "draining"
    /\ \A h \in Handlers : pc[h] = "idle"
    /\ phase' = "closing"
    /\ UNCHANGED <<poolVars, procVars, expired, closing, closed>>

\* Mutant: Shutdown waits under a context without a deadline.
DrainNeverExpires == FALSE

DrainExpires ==
    /\ phase = "draining"
    /\ \E h \in Handlers : pc[h] # "idle"
    /\ phase' = "closing"
    /\ expired' = TRUE
    /\ UNCHANGED <<poolVars, procVars, closing, closed>>

\* registry.CloseAll takes the adapters one by one; each holds its mutex.
CloseAllBegins ==
    /\ phase = "closing" /\ closing = NoKind
    /\ \E i \in 1 .. Len(KindOrder) :
         /\ closed = {KindOrder[j] : j \in 1 .. (i - 1)}
         /\ closing' = KindOrder[i]
    /\ UNCHANGED <<poolVars, procVars, phase, expired, closed>>

Mapped(q) == \E s \in Sources : pools[s] = q
OwnedBy(q, k) == \E s \in Sources : pools[s] = q /\ KindOf[s] = k

\* The loop of CloseAll over the map, one pool at a time.
ClosePool(q) ==
    /\ closing # NoKind /\ OwnedBy(q, closing)
    /\ status[q] = "open" /\ Driver[closing].close # "none"
    /\ \A r \in PoolIds : status[r] # "closing"
    /\ status' = [status EXCEPT ![q] =
                    IF Driver[closing].close = "wait" THEN "closing" ELSE "closed"]
    /\ UNCHANGED <<pools, opened, srcOf, displaced, procVars, mainVars>>

\* Close of a pool that waits returns once nothing uses the pool.
CloseReturns(q) ==
    /\ status[q] = "closing" /\ ~InUse(q)
    /\ status' = [status EXCEPT ![q] = "closed"]
    /\ UNCHANGED <<pools, opened, srcOf, displaced, procVars, mainVars>>

\* Mutant: CloseAll leaves the closed pools in its map.
CloseAllKeepsMap ==
    /\ closing # NoKind
    /\ \A q \in PoolIds : OwnedBy(q, closing) =>
         status[q] = "closed" \/ Driver[closing].close = "none"
    /\ closed' = closed \cup {closing}
    /\ closing' = NoKind
    /\ UNCHANGED <<pools, opened, status, srcOf, displaced, procVars, phase, expired>>

\* CloseAll empties the map and releases the mutex.
CloseAllReturns ==
    /\ closing # NoKind
    /\ \A q \in PoolIds : OwnedBy(q, closing) =>
         status[q] = "closed" \/ Driver[closing].close = "none"
    /\ pools' = [s \in Sources |-> IF KindOf[s] = closing THEN NoPool ELSE pools[s]]
    /\ closed' = closed \cup {closing}
    /\ closing' = NoKind
    /\ UNCHANGED <<opened, status, srcOf, displaced, procVars, phase, expired>>

Exit ==
    /\ phase = "closing" /\ closed = Kinds
    /\ phase' = "exited"
    /\ UNCHANGED <<poolVars, procVars, expired, closing, closed>>

Exited == phase = "exited" /\ UNCHANGED vars

-----------------------------------------------------------------------------
Main ==
    \/ Drained \/ DrainExpires
    \/ CloseAllBegins \/ CloseAllReturns
    \/ \E q \in PoolIds : ClosePool(q) \/ CloseReturns(q)
    \/ Exit

Proc(p) ==
    \/ ClientLookup(p) \/ Lookup(p) \/ Open(p) \/ OpenFails(p)
    \/ PingOk(p) \/ PingFails(p) \/ Store(p) \/ Reclient(p)
    \/ Begin(p) \/ Refused(p) \/ Finish(p) \/ Leave(p)

Next ==
    \/ \E h \in Handlers, s \in Sources : CallConnect(h, s) \/ CallClient(h, s)
    \/ \E s \in Sources : IndexSource(s)
    \/ \E p \in Procs : Proc(p)
    \/ Signal \/ Main
    \/ Exited

Spec == Init /\ [][Next]_vars

\* The deadline of ExecuteQuery ends a query, the cancelled process context
\* ends the refresher's work.  Nothing ends a handler's catalog query.
Deadline(p) ==
    /\ pc[p] = "querying" \/ (p = Refresher /\ phase # "serving")
    /\ Finish(p)

\* The runtime keeps scheduling main, and deadlines fire.  No fairness for
\* requests, pings, signals or catalog queries.
FairSpec == Spec /\ WF_vars(Main) /\ \A p \in Procs : WF_vars(Deadline(p))

-----------------------------------------------------------------------------
(* Properties                                                              *)

BeforeClose(k) == closing # k /\ k \notin closed
Closable(q) == srcOf[q] \in Sources /\ Driver[KindOf[srcOf[q]]].close # "none"
InFlight(q) ==
    \E p \in Procs : pc[p] \in {"ping", "reping", "store"} /\ handle[p] = q

\* While nobody holds the mutex of an adapter, its map holds only open pools,
\* each opened for the source it is stored under: a hit of Connect or of
\* Client(name) never returns a closed pool or another source's pool.
MapServesOpenPools ==
    \A s \in Sources : pools[s] # NoPool /\ closing # KindOf[s] =>
        status[pools[s]] = "open" /\ srcOf[pools[s]] = s

\* What Connect returned stays usable until the CloseAll of its adapter: racing
\* Connects that overwrite each other's entry never close the pool under a
\* goroutine that got it earlier.
HandleUsableUntilCloseAll ==
    \A p \in Procs :
        /\ pc[p] \in {"ready", "querying", "browsing"}
        /\ handle[p] # NoPool
        /\ BeforeClose(Kind(p))
        => status[handle[p]] = "open" /\ srcOf[handle[p]] = target[p]

\* Client(name) after a Connect that succeeded finds a client, so redisClient
\* may hand it on without a second nil check, unless CloseAll came between.
NilClientOnlyAfterCloseAll ==
    \A p \in Procs :
        pc[p] = "ready" /\ handle[p] = NoPool => ~BeforeClose(Kind(p))

\* A handler finds its pool closed under a running operation only when
\* Shutdown gave up waiting: main drains before it closes.
CleanDrainCutsNothing ==
    \A h \in Handlers : Busy(h) /\ status[handle[h]] # "open" => expired

\* An open pool that can be closed is in a map, still on its way into one, or
\* was displaced from one by a racing Connect: failed pings leak nothing, and
\* CloseAll misses no pool that it can see.
NoSilentLeak ==
    \A q \in PoolIds : Closable(q) /\ status[q] = "open" =>
        Mapped(q) \/ InFlight(q) \/ q \in displaced

\* The race of Connect is bounded: a source never has more open pools than
\* there are goroutines, however long the server runs.
PoolsPerSourceBounded ==
    \A s \in Sources : BeforeClose(KindOf[s]) =>
        Cardinality({q \in PoolIds : srcOf[q] = s /\ Closable(q) /\ status[q] = "open"})
            <= Cardinality(Procs)

\* A signal leads to the exit of the process, unless a catalog query, which
\* has no deadline, hangs for ever on a pool whose Close waits for it.
HangsClose(h) == pc[h] = "browsing" /\ handle[h] # NoPool /\ status[handle[h]] = "closing"
ShutdownCompletes ==
    (\A h \in Handlers : []<>~HangsClose(h))
        => (phase = "draining" ~> phase = "exited")

\* "CloseAll closes every adapter's pooled connections" (registry.go): after a
\* shutdown that waited for every handler, every pool that was ever stored in
\* an adapter's map is closed.  The pool a racing Connect displaced is not.
CloseAllClosesEveryPool ==
    phase = "exited" /\ ~expired =>
        \A q \in displaced : Closable(q) => status[q] = "closed"

=============================================================================
