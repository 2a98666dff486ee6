-------------------------- MODULE SqlExecutionProofs --------------------------
(***************************************************************************)
(* Safety of db_execute_query and db_execute_write for every set of calls, *)
(* sources and statement classes, and the proof that they keep the         *)
(* contract; and why every call ends.                                      *)
(***************************************************************************)
EXTENDS SqlExecution, FiniteSetTheorems, TLAPS

-----------------------------------------------------------------------------
(* The inductive invariant: three views of one call, one of a session.      *)

\* A text on the request's session has left a transaction open, or query_only off.
Opened(r) == OpenedOn(home[r])
Unlocked(r) == UnlockedOn(home[r])

\* What the handler has passed.
Stage(r) ==
    /\ pc[r] \in {"new", "gate", "connected"} => srv[r] = "none" /\ ~lost[r]
    /\ pc[r] \in {"exec", "commit", "defers"} => srv[r] # "none"
    /\ pc[r] \notin {"defers", "answered"} <=> result[r] = "none"
    /\ pc[r] = "exec" => ~lost[r]
    /\ pc[r] = "commit" => Tx(r) = "rw"
    /\ pc[r] = "answered" /\ ~Severed(r) => srv[r] \in {"none", "closed"}
    /\ (srv[r] # "none" \/ pc[r] = "connected") /\ call[r].tool = "write" =>
         requireWrite(call[r])
    /\ srv[r] # "none" => ~ExecuteRefuses(call[r])

\* How the data follows the server's session.
Data(r) ==
    /\ srv[r] \in {"none", "running"} => effect[r] = "none"
    /\ effect[r] # "none" =>
         call[r].stmt.mutates /\ (~Path(call[r], FALSE).ceiling \/ Unlocked(r))
    /\ effect[r] = "pending" => \/ Tx(r) = "rw" /\ srv[r] \in {"ran", "committing"}
                                \/ Tx(r) = "none" /\ KeepsSession(Source(r)) /\ On(r).tx
    /\ effect[r] = "durable" /\ Tx(r) = "rw" =>
         srv[r] \in {"committed", "closed"} \/ ~Atomic(call[r])
    /\ effect[r] # "none" /\ srv[r] = "failed" => ~Atomic(call[r])
    /\ srv[r] \in {"committing", "committed"} => Tx(r) = "rw"
    /\ srv[r] \in {"ran", "committing", "committed"} /\ call[r].stmt.mutates =>
         effect[r] # "none" \/ (Tx(r) = "none" /\ Opened(r))

\* What a result says.
Outcome(r) ==
    /\ result[r] = "cut" => ctx[r] = "canceled" /\ call[r].tool = "query"
    /\ result[r] = "ok" => srv[r] # "none"
    /\ result[r] = "ok" /\ call[r].tool = "write" /\ call[r].stmt.mutates =>
         effect[r] = "durable" \/ (Tx(r) = "none" /\ Opened(r))
    /\ result[r] = "refused" => srv[r] = "none"
    /\ result[r] = "error" /\ ~lost[r] =>
         \/ srv[r] \in {"none", "failed", "closed"} /\ (Atomic(call[r]) => effect[r] = "none")
         \/ /\ pc[r] = "defers" /\ srv[r] = "ran" /\ Tx(r) # "none"
            /\ effect[r] = "durable" => ~Atomic(call[r])

\* Where a request runs.
Place(r) ==
    /\ Source(home[r]) = Source(r)
    /\ home[r] # r => KeepsSession(Source(r))

\* What has made a session what it is.
Made(h) ==
    /\ session[h].tx => OpenedOn(h)
    /\ session[h].lifted => UnlockedOn(h)
    /\ h \in idle => KeepsSession(Source(h))

Good(r) == Stage(r) /\ Data(r) /\ Outcome(r) /\ Place(r)
Sessions == \A h \in Requests : Made(h)
IInv ==
    /\ TypeOK /\ call \in Programs
    /\ ConnectionsAccounted /\ Sessions
    /\ \A r \in Requests : Good(r)

-----------------------------------------------------------------------------
USE RequestAssumption, EngineAssumption, WritableAssumption, CapacityAssumption, ProgramAssumption

\* What the proofs need of the adapters' paths.
LEMMA PathFacts ==
  ASSUME NEW q \in Call
  PROVE  /\ \A lifted \in BOOLEAN : Path(q, lifted).tx = Path(q, FALSE).tx
         /\ Path(q, FALSE).tx \in {"none", "ro", "rw"}
         /\ Path(q, FALSE).tx = "ro" => Path(q, TRUE).ceiling /\ EngineOf[q.source] # "sqlite"
         /\ Path(q, FALSE).tx = "rw" => q.tool = "write" /\ EngineOf[q.source] = "postgres"
         /\ EngineOf[q.source] = "postgres" /\ Path(q, FALSE).tx # "rw" => q.tool = "query"
         /\ ~Path(q, FALSE).ceiling => q.tool = "write" \/ EngineOf[q.source] = "sqlite"
         /\ ~Path(q, FALSE).ceiling /\ EngineOf[q.source] = "sqlite" => q.source \in Writable
         /\ EngineOf[q.source] # "sqlite" => Path(q, TRUE).ceiling = Path(q, FALSE).ceiling
         /\ EngineOf[q.source] = "postgres" => Path(q, FALSE).tx # "none"
         /\ Lifts(q) => EngineOf[q.source] = "sqlite"
<1>1. q.tool \in {"query", "write"} /\ q.source \in Sources /\ EngineOf[q.source] \in Engines
  BY DEF Call
<1>2. q.stmt.select \in BOOLEAN
  BY DEF Call, StatementClass
<1> QED
  BY <1>1, <1>2 DEF Path, postgresPath, mysqlPath, sqlitePath, clickhousePath, Execs,
                    Engines, Lifts

\* A path that knows a session's pragma lifted differs on SQLite only.
LEMMA CeilingFacts ==
  ASSUME NEW q \in Call, NEW lifted \in BOOLEAN, ~Path(q, lifted).ceiling
  PROVE  /\ Path(q, FALSE).tx # "ro"
         /\ ~Path(q, FALSE).ceiling \/ (lifted /\ EngineOf[q.source] = "sqlite")
<1>1. CASE lifted = TRUE
  BY <1>1, PathFacts
<1>2. CASE lifted = FALSE
  <2>1. Path(q, FALSE).tx = "ro" => Path(q, FALSE).ceiling
    BY PathFacts
  <2> QED
    BY <1>2, <2>1
<1> QED
  BY <1>1, <1>2

LEMMA IInvInit == Init => IInv
<1> SUFFICES ASSUME Init PROVE IInv
  OBVIOUS
<1>1. TypeOK /\ call \in Programs
  <2>1. lost \in [Requests -> BOOLEAN] /\ alive \in BOOLEAN
    BY Zenon DEF Init
  <2>2. session \in [Requests -> SessionState]
    BY DEF Init, Clean, SessionState
  <2>3. call \in [Requests -> Call] /\ call \in Programs
    BY DEF Init
  <2>4. home \in [Requests -> Requests] /\ idle \subseteq Requests
    BY DEF Init
  <2> QED
    BY <2>1, <2>2, <2>3, <2>4 DEF Init, TypeOK, PcStates, Effects
<1>2. \A r \in Requests : Good(r)
  BY DEF Init, Good, Stage, Data, Outcome, Place
<1>3. ConnectionsAccounted
  <2> SUFFICES ASSUME NEW s \in Sources
               PROVE  inUse[s] = Cardinality(Holders(s)) /\ inUse[s] <= Capacity[s]
    BY DEF ConnectionsAccounted
  <2>1. Holders(s) = {}
    BY DEF Init, Holders, Holds
  <2> QED
    BY <2>1, FS_EmptySet DEF Init
<1>4. Sessions
  BY DEF Init, Sessions, Made, Clean
<1> QED
  BY <1>1, <1>2, <1>3, <1>4 DEF IInv

-----------------------------------------------------------------------------
(* What a step of one call, or of its session, does to the others.          *)

\* A request that was sent stays on its session.
Stays ==
    /\ call' = call
    /\ \A x \in Requests : srv[x] # "none" => home'[x] = home[x] /\ srv'[x] # "none"

\* The others keep all that is theirs, except that a change waiting in a
\* session's transaction may be decided.
Spared(x) ==
    /\ pc'[x] = pc[x] /\ ctx'[x] = ctx[x] /\ result'[x] = result[x]
    /\ lost'[x] = lost[x] /\ srv'[x] = srv[x] /\ home'[x] = home[x]
    /\ effect'[x] # effect[x] => effect[x] = "pending" /\ Tx(x) = "none"
    /\ effect'[x] = "pending" /\ On(x).tx => On(x)'.tx
OnlyChanges(r) == Stays /\ \A x \in Requests \ {r} : Spared(x)

LEMMA Lasts ==
  ASSUME Stays, NEW h \in Requests
  PROVE  (OpenedOn(h) => OpenedOn(h)') /\ (UnlockedOn(h) => UnlockedOn(h)')
<1>1. \A p \in Requests : SentOn(h, p) => SentOn(h, p)'
  BY DEF Stays, SentOn
<1> QED
  BY <1>1 DEF Stays, OpenedOn, UnlockedOn

LEMMA LastsHere ==
  ASSUME Stays, NEW x \in Requests, home[x] \in Requests, home'[x] = home[x]
  PROVE  (Opened(x) => Opened(x)') /\ (Unlocked(x) => Unlocked(x)')
<1>1. PICK h \in Requests : h = home[x]
  OBVIOUS
<1>2. (OpenedOn(h) => OpenedOn(h)') /\ (UnlockedOn(h) => UnlockedOn(h)')
  BY Lasts
<1>3. (Opened(x) <=> OpenedOn(h)) /\ (Unlocked(x) <=> UnlockedOn(h))
  BY <1>1 DEF Opened, Unlocked
<1>4. (Opened(x)' <=> OpenedOn(h)') /\ (Unlocked(x)' <=> UnlockedOn(h)')
  BY <1>1 DEF Opened, Unlocked, OpenedOn, UnlockedOn, SentOn
<1> QED
  BY <1>2, <1>3, <1>4

\* A session changes by what was sent on it, or starts anew.
LEMMA SessionsStay ==
  ASSUME IInv, Stays,
         \A h \in Requests : session'[h].tx => session[h].tx \/ OpenedOn(h)',
         \A h \in Requests : session'[h].lifted => session[h].lifted \/ UnlockedOn(h)',
         \A h \in idle' : h \in idle \/ KeepsSession(Source(h))
  PROVE  Sessions'
<1> SUFFICES ASSUME NEW h \in Requests PROVE Made(h)'
  BY DEF Sessions
<1>1. Made(h)
  BY DEF IInv, Sessions
<1>2. Source(h)' = Source(h)
  BY DEF Stays, Source
<1> QED
  BY <1>1, <1>2, Lasts DEF Made

\* A session inside a transaction of a text's making has been sent such a text.
LEMMA HomeOpened ==
  ASSUME IInv, NEW x \in Requests
  PROVE  (On(x).tx => Opened(x)) /\ (On(x).lifted => Unlocked(x))
<1>1. home[x] \in Requests
  BY DEF IInv, TypeOK
<1> QED
  BY <1>1 DEF IInv, Sessions, Made, On, Opened, Unlocked

LEMMA SparedStaysGood ==
  ASSUME IInv, Stays, NEW x \in Requests, Spared(x)
  PROVE  Good(x)'
<1>1. /\ call' = call /\ pc'[x] = pc[x] /\ ctx'[x] = ctx[x] /\ result'[x] = result[x]
      /\ lost'[x] = lost[x] /\ srv'[x] = srv[x] /\ home'[x] = home[x]
      /\ effect'[x] # effect[x] => effect[x] = "pending" /\ Tx(x) = "none"
      /\ effect'[x] = "pending" /\ On(x).tx => On(x)'.tx
      /\ Stays
  BY DEF Spared, Stays
<1>2. Good(x) /\ home[x] \in Requests
  BY DEF IInv, TypeOK
<1>3. Stage(x)'
  BY <1>1, <1>2 DEF Good, Stage, Tx, Severed, Engine, Source
<1>4. Place(x)'
  BY <1>1, <1>2 DEF Good, Place, Source
<1>5. (Opened(x) => Opened(x)') /\ (Unlocked(x) => Unlocked(x)')
  BY <1>1, <1>2, LastsHere
<1>7. Data(x)'
  <2>1. effect'[x] = "pending" /\ effect[x] = "pending" /\ On(x).tx => On(x)'.tx
    BY <1>1
  <2>2. /\ (Tx(x)' = Tx(x)) /\ Source(x)' = Source(x)
        /\ (KeepsSession(Source(x))' <=> KeepsSession(Source(x)))
    BY <1>1 DEF Tx, Source
  <2>3. effect[x] = "pending" /\ Tx(x) = "none" /\ effect[x] # effect'[x] /\ srv[x] \in {"ran", "committing", "committed"} => Opened(x)
    BY <1>2, HomeOpened DEF IInv, Good, Data
  <2>4. effect[x] \in Effects
    BY DEF IInv, TypeOK
  <2> QED
    BY <1>1, <1>2, <1>5, <2>1, <2>2, <2>3, <2>4 DEF Good, Data, Effects
<1>8. Outcome(x)'
  <2>1. effect[x] = "pending" /\ Tx(x) = "none" => On(x).tx
    BY <1>2 DEF Good, Data
  <2>2. effect[x] = "durable" => effect'[x] = "durable"
    BY <1>1
  <2>3. effect[x] = "none" => effect'[x] = "none"
    BY <1>1
  <2>4. Tx(x)' = Tx(x) /\ Source(x)' = Source(x)
    BY <1>1 DEF Tx, Source
  <2> QED
    BY <1>1, <1>2, <1>5, <2>1, <2>2, <2>3, <2>4 DEF Good, Outcome
<1> QED
  BY <1>3, <1>4, <1>7, <1>8 DEF Good

LEMMA Frame ==
  ASSUME IInv, NEW r \in Requests, OnlyChanges(r),
         TypeOK', ConnectionsAccounted', Sessions', Good(r)'
  PROVE  IInv'
<1>1. ASSUME NEW x \in Requests \ {r} PROVE Good(x)'
  BY SparedStaysGood DEF OnlyChanges
<1>2. call' \in Programs
  BY DEF IInv, OnlyChanges, Stays
<1> QED
  BY <1>1, <1>2 DEF IInv

\* Most steps neither take nor return a connection.
LEMMA Steady ==
  ASSUME IInv, NEW r \in Requests, OnlyChanges(r), inUse' = inUse, Holds(r)' <=> Holds(r)
  PROVE  ConnectionsAccounted'
<1>1. \A s \in Sources : Holders(s)' = Holders(s)
  BY DEF OnlyChanges, Spared, Stays, Holders, Holds, Source
<1> QED
  BY <1>1 DEF IInv, ConnectionsAccounted

\* A step that moves neither data nor sessions.
Quiet(r) ==
    /\ UNCHANGED <<call, home, idle, effect, session>>
    /\ \A x \in Requests \ {r} :
         /\ pc'[x] = pc[x] /\ ctx'[x] = ctx[x] /\ result'[x] = result[x]
         /\ lost'[x] = lost[x] /\ srv'[x] = srv[x]
    /\ srv[r] # "none" => srv'[r] # "none"

LEMMA QuietStep ==
  ASSUME IInv, NEW r \in Requests, Quiet(r)
  PROVE  /\ OnlyChanges(r) /\ Sessions' /\ Place(r)'
         /\ (Opened(r) => Opened(r)') /\ (Unlocked(r) => Unlocked(r)') /\ On(r)' = On(r)
<1>1. Stays
  BY DEF Quiet, Stays
<1>2. home \in [Requests -> Requests]
  BY DEF IInv, TypeOK
<1>3. OnlyChanges(r)
  BY <1>1 DEF OnlyChanges, Spared, Quiet, On
<1>4. Sessions'
  BY <1>1, SessionsStay DEF Quiet
<1>5. Place(r)'
  BY DEF IInv, Good, Place, Quiet, Source
<1>6. (Opened(r) => Opened(r)') /\ (Unlocked(r) => Unlocked(r)')
  BY <1>1, <1>2, LastsHere DEF Quiet
<1> QED
  BY <1>3, <1>4, <1>5, <1>6 DEF On, Quiet

\* A pragma that a text lifted is SQLite's.
LEMMA UnlockedSqlite ==
  ASSUME IInv, NEW r \in Requests, Unlocked(r)
  PROVE  Engine(r) = "sqlite" /\ \E p \in Requests : Lifts(call[p]) /\ Source(p) = Source(r)
<1>1. PICK p \in Requests : home[p] = home[r] /\ Lifts(call[p])
  BY DEF Unlocked, UnlockedOn, SentOn
<1>2. Source(p) = Source(r)
  BY <1>1 DEF IInv, Good, Place
<1>3. EngineOf[Source(p)] = "sqlite"
  BY <1>1 DEF Lifts, Source
<1> QED
  BY <1>1, <1>2, <1>3 DEF Engine

-----------------------------------------------------------------------------
(* The steps of a handler.                                                 *)

\* A call that has not reached the server.
LEMMA GateStep ==
  ASSUME IInv, NEW r \in Requests,
         \/ Arrive(r) \/ Refuse(r) \/ Connect(r) \/ ConnectFails(r)
         \/ ExecuteRejects(r) \/ SendFails(r)
  PROVE  IInv'
<1> USE DEF Arrive, Refuse, Connect, ConnectFails, ExecuteRejects, SendFails,
            At, Goto, AnswerNow, sVars
<1>1. TypeOK'
  <2>1. pc' \in [Requests -> PcStates]
    BY DEF IInv, TypeOK, PcStates
  <2>2. result' \in [Requests -> {"none", "ok", "cut", "refused", "error"}]
    BY DEF IInv, TypeOK
  <2>3. UNCHANGED <<call, ctx, inUse, lost, home, idle, srv, effect, session, alive>>
    OBVIOUS
  <2> QED
    BY <2>1, <2>2, <2>3 DEF IInv, TypeOK
<1>2. Quiet(r)
  BY DEF IInv, TypeOK, Quiet
<1>3. /\ OnlyChanges(r) /\ Sessions' /\ Place(r)'
      /\ (Opened(r) => Opened(r)') /\ (Unlocked(r) => Unlocked(r)') /\ On(r)' = On(r)
  BY <1>2, QuietStep
<1>4. Good(r)'
  <2>1. Good(r) /\ srv[r] = "none" /\ ~lost[r] /\ effect[r] = "none"
    BY DEF IInv, Good, Stage, Data
  <2>2. Stage(r)'
    BY <2>1 DEF IInv, TypeOK, Good, Stage
  <2>3. /\ srv'[r] = "none" /\ effect'[r] = "none" /\ lost'[r] = lost[r]
        /\ result'[r] \in {result[r], "refused", "error"} /\ ctx'[r] = ctx[r] /\ call' = call
    BY <2>1 DEF IInv, TypeOK
  <2>4. Data(r)'
    BY <2>3 DEF Data
  <2>5. Outcome(r)'
    <3>1. Outcome(r) /\ result[r] \notin {"ok", "cut"}
      BY <2>1 DEF IInv, Good, Outcome, Stage
    <3> QED
      BY <2>3, <3>1 DEF Outcome
  <2> HIDE DEF Arrive, Refuse, Connect, ConnectFails, ExecuteRejects, SendFails
  <2> QED
    BY <1>3, <2>2, <2>4, <2>5 DEF Good
<1>5. ConnectionsAccounted'
  BY <1>3, Steady DEF IInv, TypeOK, Holds
<1> QED
  BY <1>1, <1>3, <1>4, <1>5, Frame

\* A call that has reached the server returns, or goes on to its commit.
LEMMA ReturnStep ==
  ASSUME IInv, NEW r \in Requests,
         \/ Completes(r) \/ StatementFails(r) \/ ValuesFail(r) \/ GivesUp(r) \/ RowsCut(r)
         \/ CommitReturns(r) \/ CommitFails(r)
  PROVE  IInv'
<1> USE DEF Completes, StatementFails, ValuesFail, GivesUp, RowsCut, CommitReturns,
            CommitFails, At, Goto, Returns, sVars
<1>0. call[r] \in Call /\ Good(r)
  BY DEF IInv, TypeOK
<1>1. TypeOK'
  <2>1. pc' \in [Requests -> PcStates]
    BY DEF IInv, TypeOK, PcStates
  <2>4. lost \in [Requests -> BOOLEAN]
    BY DEF IInv, TypeOK
  <2>5. lost' = lost \/ \E b \in BOOLEAN : lost' = [lost EXCEPT ![r] = b]
    <3>1. (lost[r] \/ srv[r] # "failed") \in BOOLEAN
      OBVIOUS
    <3> QED
      BY <3>1
  <2>6. lost' \in [Requests -> BOOLEAN]
    BY <2>4, <2>5
  <2>2. result' \in [Requests -> {"none", "ok", "cut", "refused", "error"}]
    BY DEF IInv, TypeOK
  <2>3. UNCHANGED <<call, ctx, inUse, home, idle, srv, effect, session, alive>>
    OBVIOUS
  <2> QED
    BY <2>1, <2>2, <2>3, <2>6 DEF IInv, TypeOK
<1>2. Quiet(r)
  BY DEF IInv, TypeOK, Quiet
<1>3. /\ OnlyChanges(r) /\ Sessions' /\ Place(r)'
      /\ (Opened(r) => Opened(r)') /\ (Unlocked(r) => Unlocked(r)') /\ On(r)' = On(r)
  BY <1>2, QuietStep
<1>4. Tx(r)' = Tx(r) /\ Source(r)' = Source(r) /\ srv[r] # "none"
  BY <1>0 DEF Tx, Source, Good, Stage
<1>5. Stage(r)'
  BY <1>0, <1>4 DEF IInv, TypeOK, Good, Stage
<1>6. Data(r)'
  BY <1>0, <1>3, <1>4 DEF Good, Data
<1>7. Outcome(r)'
  <2>1. /\ Engine(r) = "postgres" /\ Tx(r) # "rw" => call[r].tool = "query"
        /\ Engine(r) = "postgres" => Tx(r) # "none"
        /\ Tx(r) \in {"none", "ro", "rw"}
        /\ Tx(r) = "rw" => Engine(r) = "postgres"
        /\ Tx(r) = "ro" => effect[r] = "none"
    BY <1>0, PathFacts, UnlockedSqlite DEF Engine, Source, Tx, Good, Data
  <2>2. /\ effect[r] \in Effects
        /\ effect[r] = "pending" /\ Tx(r) = "none" => Opened(r)
    BY <1>0, HomeOpened DEF IInv, TypeOK, Good, Data
  <2>3. CASE Completes(r)
    BY <1>0, <1>3, <1>4, <2>1, <2>2, <2>3 DEF IInv, TypeOK, Good, Stage, Data, Outcome, Effects
  <2>4. CASE StatementFails(r)
    BY <1>0, <1>3, <1>4, <2>1, <2>2, <2>4 DEF IInv, TypeOK, Good, Stage, Data, Outcome, Effects
  <2>5. CASE ValuesFail(r)
    BY <1>0, <1>3, <1>4, <2>1, <2>2, <2>5 DEF IInv, TypeOK, Good, Stage, Data, Outcome, Effects
  <2>6. CASE GivesUp(r)
    BY <1>0, <1>3, <1>4, <2>1, <2>2, <2>6 DEF IInv, TypeOK, Good, Stage, Data, Outcome, Effects
  <2>7. CASE RowsCut(r)
    BY <1>0, <1>3, <1>4, <2>1, <2>2, <2>7 DEF IInv, TypeOK, Good, Stage, Data, Outcome, Effects
  <2>8. CASE CommitReturns(r)
    BY <1>0, <1>3, <1>4, <2>1, <2>2, <2>8 DEF IInv, TypeOK, Good, Stage, Data, Outcome, Effects
  <2>9. CASE CommitFails(r)
    BY <1>0, <1>3, <1>4, <2>1, <2>2, <2>9 DEF IInv, TypeOK, Good, Stage, Data, Outcome, Effects
  <2> QED
    BY <2>3, <2>4, <2>5, <2>6, <2>7, <2>8, <2>9
<1>8. ConnectionsAccounted'
  BY <1>3, Steady DEF IInv, TypeOK, Holds
<1> QED
  BY <1>1, <1>3, <1>5, <1>6, <1>7, <1>8, Frame DEF Good

LEMMA SendCommitStep ==
  ASSUME IInv, NEW r \in Requests, SendCommit(r)
  PROVE  IInv'
<1> USE DEF SendCommit, At, hVars
<1>1. TypeOK'
  BY DEF IInv, TypeOK
<1>2. Quiet(r)
  BY DEF IInv, TypeOK, Quiet
<1>3. /\ OnlyChanges(r) /\ Sessions' /\ Place(r)'
      /\ (Opened(r) => Opened(r)') /\ (Unlocked(r) => Unlocked(r)') /\ On(r)' = On(r)
  BY <1>2, QuietStep
<1>4. Good(r)'
  <2>1. Good(r) /\ Tx(r)' = Tx(r) /\ Source(r)' = Source(r) /\ Tx(r) = "rw" /\ srv'[r] = "committing"
    BY DEF IInv, TypeOK, Good, Stage, Tx, Source
  <2>2. Stage(r)'
    BY <2>1 DEF IInv, TypeOK, Good, Stage
  <2>3. Data(r)'
    BY <1>3, <2>1 DEF IInv, TypeOK, Good, Data
  <2>4. Outcome(r)'
    BY <1>3, <2>1 DEF IInv, TypeOK, Good, Stage, Outcome
  <2> QED
    BY <1>3, <2>2, <2>3, <2>4 DEF Good
<1>5. ConnectionsAccounted'
  BY <1>3, Steady DEF IInv, TypeOK, Holds
<1> QED
  BY <1>1, <1>3, <1>4, <1>5, Frame

\* The deadline and the client end a context.
LEMMA ContextStep ==
  ASSUME IInv, NEW r \in Requests, Expire(r) \/ Cancel(r)
  PROVE  IInv'
<1> USE DEF Expire, Cancel, sVars
<1>1. TypeOK'
  BY DEF IInv, TypeOK
<1>2. Quiet(r)
  BY DEF IInv, TypeOK, Quiet
<1>3. /\ OnlyChanges(r) /\ Sessions' /\ Place(r)'
      /\ (Opened(r) => Opened(r)') /\ (Unlocked(r) => Unlocked(r)') /\ On(r)' = On(r)
  BY <1>2, QuietStep
<1>4. Good(r)'
  <2>1. Good(r) /\ Tx(r)' = Tx(r) /\ Source(r)' = Source(r)
        /\ UNCHANGED <<call, pc, result, srv, effect, lost, alive>>
    BY DEF IInv, Tx, Source
  <2>2. Stage(r)'
    BY <2>1 DEF Good, Stage, Severed, Engine
  <2>3. Data(r)'
    BY <1>3, <2>1 DEF Good, Data
  <2>4. Outcome(r)'
    BY <1>3, <2>1 DEF IInv, TypeOK, Good, Outcome
  <2> QED
    BY <1>3, <2>2, <2>3, <2>4 DEF Good
<1>5. ConnectionsAccounted'
  BY <1>3, Steady DEF Holds
<1> QED
  BY <1>1, <1>3, <1>4, <1>5, Frame

(* Steps that move data and sessions.                                      *)

\* Requests that share a session are on a source that keeps sessions, where no
\* handler's transaction can hold a change.
LEMMA SharedHome ==
  ASSUME IInv, NEW r \in Requests, NEW x \in Requests, home[x] = home[r], x # r
  PROVE  KeepsSession(Source(x))
<1>1. Source(x) = Source(r)
  BY DEF IInv, Good, Place
<1> QED
  BY <1>1 DEF IInv, Good, Place

LEMMA KeptWithout ==
  ASSUME IInv, NEW x \in Requests, KeepsSession(Source(x))
  PROVE  Tx(x) # "rw" /\ (effect[x] = "pending" => Tx(x) = "none")
<1>1. call[x] \in Call /\ Engine(x) # "postgres" /\ Data(x)
  BY DEF IInv, TypeOK, Good, KeepsSession, Engine
<1>2. Tx(x) # "rw"
  BY <1>1, PathFacts DEF Engine, Source, Tx
<1> QED
  BY <1>1, <1>2 DEF Data

\* An altered session belongs to a source that keeps sessions, or to SQLite.
LEMMA AlteredKept ==
  ASSUME IInv, NEW r \in Requests, Opened(r) \/ Unlocked(r)
  PROVE  KeepsSession(Source(r))
<1>1. CASE Opened(r)
  <2>1. PICK p \in Requests : home[p] = home[r] /\ Steers(call[p])
    BY <1>1 DEF Opened, OpenedOn, SentOn
  <2>2. Source(p) = Source(r)
    BY <2>1 DEF IInv, Good, Place
  <2> QED
    BY <2>1, <2>2 DEF Steers, Source
<1>2. CASE Unlocked(r)
  BY <1>2, UnlockedSqlite DEF KeepsSession, Engine
<1> QED
  BY <1>1, <1>2

LEMMA SettledFacts ==
  ASSUME IInv, NEW h, NEW fate \in Effects
  PROVE  /\ Settled(h, fate) \in [Requests -> Effects]
         /\ \A x \in Requests :
              /\ Settled(h, fate)[x] # effect[x] => effect[x] = "pending" /\ home[x] = h
              /\ Settled(h, fate)[x] = "pending" =>
                   effect[x] = "pending" /\ (home[x] = h => fate = "pending")
              /\ home[x] = h /\ effect[x] = "pending" => Settled(h, fate)[x] = fate
BY DEF IInv, TypeOK, Settled

LEMMA SessionFacts ==
  ASSUME NEW s \in SessionState, NEW tx \in BOOLEAN
  PROVE  /\ [s EXCEPT !.tx = tx] \in SessionState
         /\ [s EXCEPT !.tx = tx].tx = tx /\ [s EXCEPT !.tx = tx].lifted = s.lifted
         /\ s # Clean => s.tx \/ s.lifted
         /\ s.tx \in BOOLEAN /\ s.lifted \in BOOLEAN /\ Clean \in SessionState
         /\ ~Clean.tx /\ ~Clean.lifted
BY DEF SessionState, Clean

\* A call takes a connection from its pool.
LEMMA SendStep ==
  ASSUME IInv, NEW r \in Requests, Send(r)
  PROVE  IInv'
<1>0. /\ call[r] \in Call /\ Good(r) /\ Source(r) \in Sources
      /\ pc[r] = "connected" /\ srv[r] = "none" /\ effect[r] = "none" /\ ~lost[r]
      /\ inUse[Source(r)] < Capacity[Source(r)] /\ ctx[r] = "live"
      /\ call[r].tool = "write" => requireWrite(call[r])
      /\ ~ExecuteRefuses(call[r]) /\ result[r] = "none"
  BY DEF IInv, TypeOK, Source, Call, Send, At, Good, Stage, Data
<1>1. /\ pc' = [pc EXCEPT ![r] = "exec"] /\ inUse' = [inUse EXCEPT ![Source(r)] = @ + 1]
      /\ srv' = [srv EXCEPT ![r] = "running"]
      /\ UNCHANGED <<call, ctx, result, lost, alive>>
  BY DEF Send, Goto
<1>2. /\ home' \in [Requests -> Requests] /\ idle' \subseteq idle
      /\ effect' \in [Requests -> Effects] /\ session' \in [Requests -> SessionState]
      /\ \A x \in Requests \ {r} : home'[x] = home[x]
      /\ effect'[r] = "none"
      /\ Source(home'[r]) = Source(r) /\ (home'[r] # r => KeepsSession(Source(r)))
      /\ \A x \in Requests \ {r} :
           /\ effect'[x] # effect[x] => effect[x] = "pending" /\ Tx(x) = "none"
           /\ effect'[x] = "pending" /\ session[home[x]].tx => session'[home[x]].tx
      /\ \A h \in Requests : /\ session'[h].tx => session[h].tx
                             /\ session'[h].lifted => session[h].lifted
  <2>1. CASE TakesNew(r)
    BY <1>0, <2>1 DEF TakesNew, IInv, TypeOK, Good, Place
  <2>2. CASE \E h \in idle : TakesIdle(r, h)
    <3>1. PICK h \in idle : TakesIdle(r, h)
      BY <2>2
    <3>2. h \in Requests /\ Source(h) = Source(r) /\ KeepsSession(Source(h))
      BY <3>1 DEF TakesIdle, IInv, TypeOK, Sessions, Made
    <3>3. home' = [home EXCEPT ![r] = h] /\ idle' \subseteq idle
      BY <3>1 DEF TakesIdle
    <3>4. CASE Tx(r) = "none"
      <4>1. UNCHANGED <<effect, session>>
        BY <3>1, <3>4 DEF TakesIdle
      <4> QED
        BY <1>0, <3>2, <3>3, <4>1 DEF IInv, TypeOK
    <3>5. CASE Tx(r) # "none"
      <4>1. PICK tx \in {FALSE, session[h].tx} :
               effect' = Settled(h, "durable") /\ session' = [session EXCEPT ![h].tx = tx]
        BY <3>1, <3>5 DEF TakesIdle
      <4>2. session[h] \in SessionState /\ tx \in BOOLEAN
        BY <3>2, <4>1, SessionFacts DEF IInv, TypeOK
      <4>3. /\ [session[h] EXCEPT !.tx = tx] \in SessionState
            /\ [session[h] EXCEPT !.tx = tx].tx = tx
            /\ [session[h] EXCEPT !.tx = tx].lifted = session[h].lifted
        BY <4>2, SessionFacts
      <4>4. /\ session' \in [Requests -> SessionState]
            /\ \A k \in Requests \ {h} : session'[k] = session[k]
            /\ session'[h] = [session[h] EXCEPT !.tx = tx]
        BY <3>2, <4>1, <4>3 DEF IInv, TypeOK
      <4>5. /\ effect' \in [Requests -> Effects]
            /\ \A x \in Requests :
                 /\ effect'[x] # effect[x] => effect[x] = "pending" /\ home[x] = h
                 /\ effect'[x] = "pending" => effect[x] = "pending" /\ home[x] # h
        <5>1. "durable" \in Effects
          BY DEF Effects
        <5> QED
          BY <4>1, <5>1, SettledFacts
      <4>6. \A x \in Requests : home[x] = h /\ effect[x] = "pending" => Tx(x) = "none"
        <5> SUFFICES ASSUME NEW x \in Requests, home[x] = h, effect[x] = "pending"
                     PROVE  Tx(x) = "none"
          OBVIOUS
        <5>1. Source(x) = Source(h)
          BY DEF IInv, Good, Place
        <5> QED
          BY <3>2, <5>1, KeptWithout
      <4>7. \A x \in Requests : home[x] \in Requests
        BY DEF IInv, TypeOK
      <4>8. \A k \in Requests : /\ session'[k].tx => session[k].tx
                                /\ session'[k].lifted => session[k].lifted
        BY <4>1, <4>3, <4>4
      <4>9. /\ home' \in [Requests -> Requests] /\ home'[r] = h
            /\ \A x \in Requests \ {r} : home'[x] = home[x]
        BY <3>2, <3>3 DEF IInv, TypeOK
      <4>10. effect'[r] = "none"
        BY <1>0, <4>5
      <4> QED
        BY <3>2, <3>3, <4>4, <4>5, <4>6, <4>7, <4>8, <4>9, <4>10
    <3> QED
      BY <3>4, <3>5
  <2> QED
    BY <2>1, <2>2 DEF Send
<1>3. TypeOK'
  <2>1. /\ pc' \in [Requests -> PcStates] /\ inUse' \in [Sources -> Nat]
        /\ srv' \in [Requests -> {"none", "running", "ran", "failed", "committing",
                                  "committed", "closed"}]
    BY <1>0, <1>1 DEF IInv, TypeOK, PcStates
  <2>2. idle' \subseteq Requests
    BY <1>2 DEF IInv, TypeOK
  <2> QED
    BY <1>1, <1>2, <2>1, <2>2 DEF IInv, TypeOK
<1>4. Stays
  BY <1>0, <1>1, <1>2 DEF IInv, TypeOK, Stays
<1>5. OnlyChanges(r)
  <2> SUFFICES ASSUME NEW x \in Requests \ {r} PROVE Spared(x)
    BY <1>4 DEF OnlyChanges
  <2>1. pc'[x] = pc[x] /\ srv'[x] = srv[x]
    BY <1>1 DEF IInv, TypeOK
  <2> QED
    BY <1>1, <1>2, <2>1 DEF Spared, On
<1>6. Sessions'
  BY <1>2, <1>4, SessionsStay
<1>7. Good(r)'
  <2>1. pc'[r] = "exec" /\ srv'[r] = "running" /\ result'[r] = "none" /\ call' = call /\ ~lost'[r]
    BY <1>0, <1>1 DEF IInv, TypeOK
  <2>2. Stage(r)'
    BY <1>0, <2>1 DEF Stage
  <2>3. Data(r)' /\ Outcome(r)'
    BY <1>2, <2>1 DEF Data, Outcome
  <2>4. Place(r)'
    BY <1>2, <2>1 DEF Place, Source
  <2> QED
    BY <2>2, <2>3, <2>4 DEF Good
<1>8. ConnectionsAccounted'
  <2> SUFFICES ASSUME NEW s \in Sources
               PROVE  inUse'[s] = Cardinality(Holders(s)') /\ inUse'[s] <= Capacity[s]
    BY DEF ConnectionsAccounted
  <2>1. IsFiniteSet(Holders(s)) /\ r \notin Holders(s)
    BY <1>0, FS_Subset DEF Holders, Holds
  <2>2. inUse[s] = Cardinality(Holders(s)) /\ inUse[s] <= Capacity[s]
    BY DEF IInv, ConnectionsAccounted
  <2>5. pc'[r] = "exec" /\ call' = call /\ \A x \in Requests \ {r} : pc'[x] = pc[x]
    BY <1>1 DEF IInv, TypeOK
  <2>3. CASE s = Source(r)
    <3>1. Holders(s)' = Holders(s) \cup {r}
      BY <2>3, <2>5 DEF Holders, Holds, Source
    <3>2. Cardinality(Holders(s)') = Cardinality(Holders(s)) + 1
      BY <2>1, <3>1, FS_AddElement
    <3>3. inUse'[s] = inUse[s] + 1 /\ inUse[s] < Capacity[s] /\ inUse[s] \in Nat
      BY <1>0, <1>1, <2>3 DEF IInv, TypeOK
    <3> QED
      BY <2>2, <3>2, <3>3
  <2>4. CASE s # Source(r)
    <3>1. Holders(s)' = Holders(s)
      BY <2>4, <2>5 DEF Holders, Holds, Source
    <3>2. inUse'[s] = inUse[s]
      BY <1>1, <2>4 DEF IInv, TypeOK
    <3> QED
      BY <2>2, <3>1, <3>2
  <2> QED
    BY <2>3, <2>4
<1> QED
  BY <1>3, <1>5, <1>6, <1>7, <1>8, Frame

\* Finish gives back the connection that the call holds.
LEMMA FinishStep ==
  ASSUME IInv, NEW r \in Requests, Finish(r)
  PROVE  IInv'
<1>0. /\ call[r] \in Call /\ Good(r) /\ Source(r) \in Sources /\ pc[r] = "defers"
      /\ effect[r] \in Effects /\ home[r] \in Requests /\ srv[r] # "none"
  BY DEF IInv, TypeOK, Source, Call, Finish, At, Good, Stage
<1>1. /\ inUse' = [inUse EXCEPT ![Source(r)] = @ - 1] /\ pc' = [pc EXCEPT ![r] = "answered"]
      /\ UNCHANGED <<call, ctx, result, lost, home, session, alive>>
  BY DEF Finish, Goto
<1>2. /\ idle' \subseteq Requests
      /\ \A h \in idle' : h \in idle \/ KeepsSession(Source(h))
      /\ srv' \in [Requests -> {"none", "running", "ran", "failed", "committing",
                                "committed", "closed"}]
      /\ effect' \in [Requests -> Effects]
      /\ \A x \in Requests \ {r} : srv'[x] = srv[x] /\ effect'[x] = effect[x]
      /\ \/ Severed(r) /\ srv'[r] = srv[r] /\ effect'[r] = effect[r]
         \/ /\ ~Severed(r) /\ srv'[r] = "closed"
            /\ effect'[r] = IF Tx(r) # "none" /\ effect[r] = "pending" THEN "none" ELSE effect[r]
  <2>1. CASE Severed(r)
    BY <2>1 DEF Finish, IInv, TypeOK
  <2>2. CASE ~Severed(r)
    <3>1. Releases(r)
      BY <2>2 DEF Finish
    <3>2. \A h \in idle' : h \in idle \/ KeepsSession(Source(h))
      <4> SUFFICES ASSUME On(r) # Clean, idle' = idle \cup {home[r]}
                   PROVE  KeepsSession(Source(home[r]))
        BY <3>1 DEF Releases
      <4>1. On(r) \in SessionState
        BY <1>0 DEF On, IInv, TypeOK
      <4>2. On(r).tx \/ On(r).lifted
        BY <4>1, SessionFacts
      <4>3. KeepsSession(Source(r)) /\ Source(home[r]) = Source(r)
        BY <1>0, <4>2, HomeOpened, AlteredKept DEF Good, Place
      <4> QED
        BY <4>3
    <3>3. idle' \subseteq Requests
      BY <1>0, <3>1 DEF Releases, IInv, TypeOK
    <3>4. "none" \in Effects
      BY DEF Effects
    <3> QED
      BY <1>0, <2>2, <3>1, <3>2, <3>3, <3>4 DEF Releases, IInv, TypeOK
  <2> QED
    BY <2>1, <2>2
<1>3. Stays /\ pc'[r] = "answered"
  BY <1>0, <1>1, <1>2 DEF IInv, TypeOK, Stays
<1>4. OnlyChanges(r)
  <2> SUFFICES ASSUME NEW x \in Requests \ {r} PROVE Spared(x)
    BY <1>3 DEF OnlyChanges
  <2> QED
    BY <1>1, <1>2 DEF Spared, On, IInv, TypeOK
<1>5. Sessions'
  BY <1>1, <1>2, <1>3, SessionsStay
<1>6. ASSUME NEW s \in Sources
      PROVE  inUse'[s] \in Nat /\ inUse'[s] = Cardinality(Holders(s)')
             /\ inUse'[s] <= Capacity[s]
  <2>1. IsFiniteSet(Holders(s)) /\ Cardinality(Holders(s)) \in Nat
    BY FS_Subset, FS_CardinalityType DEF Holders
  <2>2. inUse[s] = Cardinality(Holders(s)) /\ inUse[s] <= Capacity[s]
    BY DEF IInv, ConnectionsAccounted
  <2>5. pc'[r] = "answered" /\ call' = call /\ \A x \in Requests \ {r} : pc'[x] = pc[x]
    BY <1>1 DEF IInv, TypeOK
  <2>3. CASE s = Source(r)
    <3>1. r \in Holders(s) /\ Holders(s)' = Holders(s) \ {r}
      BY <1>0, <2>3, <2>5 DEF Holders, Holds, Source
    <3>2. Cardinality(Holders(s)') = Cardinality(Holders(s)) - 1 /\ Cardinality(Holders(s)') \in Nat
      BY <2>1, <3>1, FS_RemoveElement, FS_CardinalityType
    <3>3. inUse'[s] = inUse[s] - 1
      BY <1>0, <1>1, <2>3 DEF IInv, TypeOK
    <3> QED
      BY <2>1, <2>2, <3>2, <3>3
  <2>4. CASE s # Source(r)
    <3>1. Holders(s)' = Holders(s)
      BY <2>4, <2>5 DEF Holders, Holds, Source
    <3>2. inUse'[s] = inUse[s]
      BY <1>1, <2>4 DEF IInv, TypeOK
    <3> QED
      BY <2>1, <2>2, <3>1, <3>2
  <2> QED
    BY <2>3, <2>4
<1>7. TypeOK'
  <2>1. inUse' \in [Sources -> Nat]
    BY <1>1, <1>6 DEF IInv, TypeOK
  <2>2. pc' \in [Requests -> PcStates]
    BY <1>1 DEF IInv, TypeOK, PcStates
  <2> QED
    BY <1>1, <1>2, <2>1, <2>2 DEF IInv, TypeOK
<1>8. Good(r)'
  <2>1. /\ Tx(r)' = Tx(r) /\ Source(r)' = Source(r) /\ (Severed(r)' <=> Severed(r))
        /\ On(r)' = On(r) /\ result'[r] = result[r] /\ lost'[r] = lost[r] /\ call' = call
        /\ ctx'[r] = ctx[r] /\ pc'[r] = "answered"
        /\ (Opened(r) => Opened(r)') /\ (Unlocked(r) => Unlocked(r)')
    BY <1>0, <1>1, <1>3, LastsHere DEF Tx, Source, Severed, Engine, On
  <2>2. Stage(r)'
    BY <1>0, <1>2, <2>1 DEF Good, Stage
  <2>3. Data(r)'
    BY <1>0, <1>2, <2>1 DEF Good, Data, Effects
  <2>4. Outcome(r)'
    <3>1. CASE Severed(r)
      <4>1. lost[r]
        BY <3>1 DEF Severed
      <4> QED
        BY <1>0, <1>2, <2>1, <3>1, <4>1 DEF Good, Outcome
    <3>2. CASE ~Severed(r)
      BY <1>0, <1>2, <2>1, <3>2 DEF Good, Outcome, Effects
    <3> QED
      BY <3>1, <3>2
  <2>5. Place(r)'
    BY <1>0, <1>1 DEF Good, Place, Source
  <2> QED
    BY <2>2, <2>3, <2>4, <2>5 DEF Good
<1> QED
  BY <1>4, <1>5, <1>6, <1>7, <1>8, Frame DEF ConnectionsAccounted

-----------------------------------------------------------------------------
(* The steps of the server.                                                *)

\* A session moves to a new state, and what waited in its transaction to its fate.
Moves(r, left, fate, own) ==
    /\ session' = [session EXCEPT ![home[r]] = left]
    /\ effect' = [Settled(home[r], fate) EXCEPT ![r] = own]

LEMMA MovesStep ==
  ASSUME IInv, NEW r \in Requests, NEW left \in SessionState, NEW fate \in Effects,
         NEW own \in Effects, NEW to \in {"ran", "failed", "closed"},
         Moves(r, left, fate, own), srv[r] # "none", srv' = [srv EXCEPT ![r] = to],
         UNCHANGED <<hVars, alive>>,
         fate = "pending" /\ On(r).tx => left.tx,
         left.tx => On(r).tx \/ (Steers(call[r]) /\ call[r].stmt.opens),
         left.lifted => On(r).lifted \/ Lifts(call[r])
  PROVE  /\ TypeOK' /\ OnlyChanges(r) /\ Sessions' /\ Place(r)' /\ ConnectionsAccounted'
         /\ (Opened(r) => Opened(r)') /\ (Unlocked(r) => Unlocked(r)')
         /\ (Lifts(call[r]) => Unlocked(r)')
         /\ On(r)' = left /\ effect'[r] = own
<1>0. /\ home[r] \in Requests /\ home' = home /\ call' = call /\ idle' = idle
      /\ session \in [Requests -> SessionState]
      /\ UNCHANGED <<pc, ctx, result, lost, inUse>>
  BY DEF IInv, TypeOK, hVars
<1>1. /\ session' \in [Requests -> SessionState] /\ session'[home[r]] = left
      /\ \A h \in Requests \ {home[r]} : session'[h] = session[h]
  BY <1>0 DEF Moves
<1>2. /\ effect' \in [Requests -> Effects] /\ effect'[r] = own
      /\ \A x \in Requests \ {r} :
           /\ effect'[x] # effect[x] => effect[x] = "pending" /\ home[x] = home[r]
           /\ effect'[x] = "pending" =>
                effect[x] = "pending" /\ (home[x] = home[r] => fate = "pending")
  <2>1. /\ Settled(home[r], fate) \in [Requests -> Effects]
        /\ \A x \in Requests :
             /\ Settled(home[r], fate)[x] # effect[x] => effect[x] = "pending" /\ home[x] = home[r]
             /\ Settled(home[r], fate)[x] = "pending" =>
                  effect[x] = "pending" /\ (home[x] = home[r] => fate = "pending")
    BY SettledFacts
  <2> QED
    BY <2>1 DEF Moves
<1>3. /\ srv' \in [Requests -> {"none", "running", "ran", "failed", "committing",
                                "committed", "closed"}]
      /\ srv'[r] # "none" /\ \A x \in Requests \ {r} : srv'[x] = srv[x]
  BY DEF IInv, TypeOK
<1>4. TypeOK'
  BY <1>0, <1>1, <1>2, <1>3 DEF IInv, TypeOK, hVars
<1>5. Stays
  BY <1>0, <1>3 DEF Stays
<1>6. OnlyChanges(r)
  <2> SUFFICES ASSUME NEW x \in Requests \ {r} PROVE Spared(x)
    BY <1>5 DEF OnlyChanges
  <2>1. effect'[x] # effect[x] => effect[x] = "pending" /\ Tx(x) = "none"
    BY <1>2, SharedHome, KeptWithout
  <2>2. effect'[x] = "pending" /\ On(x).tx => On(x)'.tx
    <3>1. home[x] \in Requests
      BY DEF IInv, TypeOK
    <3>2. CASE home[x] = home[r]
      BY <1>0, <1>1, <1>2, <3>2 DEF On
    <3>3. CASE home[x] # home[r]
      BY <1>0, <1>1, <3>1, <3>3 DEF On
    <3> QED
      BY <3>2, <3>3
  <2> QED
    BY <1>0, <1>3, <2>1, <2>2 DEF Spared
<1>7. (Steers(call[r]) /\ call[r].stmt.opens => OpenedOn(home[r])') /\ (Lifts(call[r]) => Unlocked(r)')
  <2>1. PICK h \in Requests : h = home[r]
    BY <1>0
  <2>2. SentOn(h, r)'
    BY <1>0, <1>3, <2>1 DEF SentOn
  <2>3. (Steers(call[r]) /\ call[r].stmt.opens => OpenedOn(h)') /\ (Lifts(call[r]) => UnlockedOn(h)')
    BY <1>0, <2>2 DEF OpenedOn, UnlockedOn, Steers, Lifts
  <2>4. (OpenedOn(h)' <=> OpenedOn(home[r])') /\ (UnlockedOn(h)' <=> Unlocked(r)')
    BY <1>0, <2>1 DEF OpenedOn, UnlockedOn, Unlocked, SentOn
  <2> QED
    BY <2>3, <2>4
<1>8. Sessions'
  <2>1. \A h \in Requests : session'[h].tx => session[h].tx \/ OpenedOn(h)'
    <3> SUFFICES ASSUME NEW h \in Requests, session'[h].tx, ~session[h].tx PROVE OpenedOn(h)'
      OBVIOUS
    <3>1. h = home[r] /\ Steers(call[r]) /\ call[r].stmt.opens
      BY <1>1 DEF On
    <3> QED
      BY <1>0, <1>7, <3>1 DEF OpenedOn, SentOn
  <2>2. \A h \in Requests : session'[h].lifted => session[h].lifted \/ UnlockedOn(h)'
    <3> SUFFICES ASSUME NEW h \in Requests, session'[h].lifted, ~session[h].lifted PROVE UnlockedOn(h)'
      OBVIOUS
    <3>1. h = home[r] /\ Lifts(call[r])
      BY <1>1 DEF On
    <3> QED
      BY <1>0, <1>7, <3>1 DEF Unlocked, UnlockedOn, SentOn
  <2> QED
    BY <1>0, <1>5, <2>1, <2>2, SessionsStay
<1>9. Place(r)'
  BY <1>0 DEF IInv, Good, Place, Source
<1>10. ConnectionsAccounted'
  BY <1>0, <1>6, Steady DEF Holds
<1>11. (Opened(r) => Opened(r)') /\ (Unlocked(r) => Unlocked(r)')
  BY <1>0, <1>5, LastsHere
<1>12. On(r)' = left
  BY <1>0, <1>1 DEF On
<1> QED
  BY <1>2, <1>4, <1>6, <1>7, <1>8, <1>9, <1>10, <1>11, <1>12

\* What the text makes of its session.
LEMMA AfterFacts ==
  ASSUME IInv, NEW r \in Requests
  PROVE  /\ After(r) \in SessionState /\ On(r) \in SessionState /\ Fate(r) \in Effects
         /\ Fate(r) = "pending" /\ On(r).tx => After(r).tx
         /\ After(r).tx => On(r).tx \/ (Steers(call[r]) /\ call[r].stmt.opens)
         /\ After(r).lifted => On(r).lifted \/ Lifts(call[r])
         /\ After(r).tx => KeepsSession(Source(r))
<1>1. call[r] \in Call /\ home[r] \in Requests /\ session[home[r]] \in SessionState
  BY DEF IInv, TypeOK
<1>2. /\ call[r].stmt.opens \in BOOLEAN /\ call[r].stmt.ends \in {"no", "commit", "rollback"}
  BY <1>1 DEF Call, StatementClass
<1>3. Lifts(call[r]) \in BOOLEAN /\ On(r) \in SessionState
      /\ On(r).tx \in BOOLEAN /\ On(r).lifted \in BOOLEAN
  <2>1. Lifts(call[r]) \in BOOLEAN
    BY <1>1 DEF Lifts, Call, StatementClass
  <2> QED
    BY <1>1, <2>1, SessionFacts DEF On
<1>4. After(r) \in SessionState
      /\ (After(r).tx => On(r).tx \/ (Steers(call[r]) /\ call[r].stmt.opens))
      /\ (After(r).lifted => On(r).lifted \/ Lifts(call[r]))
  <2>1. CASE Steers(call[r])
    <3>1. PICK tx \in BOOLEAN, lifted \in BOOLEAN :
             /\ tx <=> call[r].stmt.opens \/ (On(r).tx /\ call[r].stmt.ends = "no")
             /\ lifted <=> On(r).lifted \/ Lifts(call[r])
             /\ After(r) = [tx |-> tx, lifted |-> lifted]
      BY <2>1 DEF After
    <3>2. After(r) \in SessionState /\ After(r).tx = tx /\ After(r).lifted = lifted
      BY <3>1 DEF SessionState
    <3> QED
      BY <2>1, <3>1, <3>2
  <2>2. CASE ~Steers(call[r])
    BY <1>3, <2>2 DEF After
  <2> QED
    BY <2>1, <2>2
<1>5. Fate(r) \in Effects
  <2>1. CASE ~Steers(call[r])
    BY <2>1 DEF Fate, Effects
  <2>2. CASE Steers(call[r])
    BY <1>2, <2>2 DEF Fate, Effects
  <2> QED
    BY <2>1, <2>2
<1>6. Fate(r) = "pending" /\ On(r).tx => After(r).tx
  <2>1. CASE ~Steers(call[r])
    BY <2>1 DEF After
  <2>2. CASE Steers(call[r])
    BY <1>2, <2>2 DEF Fate, After
  <2> QED
    BY <2>1, <2>2
<1>7. After(r).tx => KeepsSession(Source(r))
  BY <1>4, HomeOpened, AlteredKept DEF Steers, Source
<1> QED
  BY <1>3, <1>4, <1>5, <1>6, <1>7

\* A session without a ceiling: the path has none, or a text has lifted it.
LEMMA NoCeiling ==
  ASSUME IInv, NEW r \in Requests, ~Ceiling(r)
  PROVE  /\ Tx(r) # "ro"
         /\ ~Path(call[r], FALSE).ceiling \/ Unlocked(r) \/ Lifts(call[r])
<1>1. call[r] \in Call /\ home[r] \in Requests /\ session[home[r]] \in SessionState
  BY DEF IInv, TypeOK
<1>2. (On(r).lifted \/ Lifts(call[r])) \in BOOLEAN
  OBVIOUS
<1>3. /\ Path(call[r], FALSE).tx # "ro"
      /\ ~Path(call[r], FALSE).ceiling \/ On(r).lifted \/ Lifts(call[r])
  BY <1>1, <1>2, CeilingFacts DEF Ceiling
<1> QED
  BY <1>3, HomeOpened DEF Tx

LEMMA RunsStep ==
  ASSUME IInv, NEW r \in Requests, Runs(r)
  PROVE  IInv'
<1>0. /\ call[r] \in Call /\ Good(r) /\ srv[r] = "running" /\ ~Bars(r) /\ effect[r] = "none"
      /\ srv' = [srv EXCEPT ![r] = "ran"] /\ UNCHANGED <<hVars, alive>>
  BY DEF Runs, IInv, TypeOK, Good, Data
<1>1. PICK own \in Lands(r) : Moves(r, After(r), Fate(r), own)
  BY DEF Runs, Moves
<1>2. /\ own \in Effects
      /\ call[r].stmt.mutates => own # "none"
      /\ own # "none" => call[r].stmt.mutates
      /\ own = "pending" => Inside(r)
      /\ own = "durable" => ~Inside(r) \/ LandsApart(r)
  BY <1>1 DEF Lands, Effects
<1>3. /\ TypeOK' /\ OnlyChanges(r) /\ Sessions' /\ Place(r)' /\ ConnectionsAccounted'
      /\ (Opened(r) => Opened(r)') /\ (Unlocked(r) => Unlocked(r)')
      /\ (Lifts(call[r]) => Unlocked(r)')
      /\ On(r)' = After(r) /\ effect'[r] = own
  BY <1>0, <1>1, <1>2, AfterFacts, MovesStep
<1>4. /\ Tx(r)' = Tx(r) /\ Source(r)' = Source(r) /\ srv'[r] = "ran" /\ call' = call
      /\ pc' = pc /\ result' = result /\ lost' = lost /\ ctx' = ctx /\ home' = home
      /\ (Severed(r)' <=> Severed(r))
  BY <1>0 DEF hVars, Tx, Source, Severed, Engine, IInv, TypeOK
<1>5. own # "none" => ~Ceiling(r)
  BY <1>0, <1>2 DEF Bars
<1>6. own # "none" => Tx(r) # "ro" /\ (~Path(call[r], FALSE).ceiling \/ Unlocked(r)')
  BY <1>3, <1>5, NoCeiling
<1>7. /\ Tx(r) \in {"none", "ro", "rw"}
      /\ Tx(r) = "rw" => Engine(r) = "postgres"
  BY <1>0, PathFacts DEF Tx, Engine, Source
<1>8. own = "durable" /\ Tx(r) = "rw" => ~Atomic(call[r])
  BY <1>2, <1>7 DEF Inside, LandsApart, Atomic, Engine, Source
<1>9. own = "pending" =>
        \/ Tx(r) = "rw"
        \/ Tx(r) = "none" /\ KeepsSession(Source(r)) /\ After(r).tx
  BY <1>2, <1>6, <1>7, AfterFacts DEF Inside
<1>10. Stage(r)'
  BY <1>0, <1>4 DEF Good, Stage
<1>11. Data(r)'
  BY <1>0, <1>2, <1>3, <1>4, <1>6, <1>8, <1>9 DEF Data
<1>12. Outcome(r)'
  BY <1>0, <1>3, <1>4 DEF Good, Outcome
<1> QED
  BY <1>3, <1>10, <1>11, <1>12, Frame DEF Good

LEMMA FailsStep ==
  ASSUME IInv, NEW r \in Requests, Fails(r)
  PROVE  IInv'
<1>0. /\ call[r] \in Call /\ Good(r) /\ srv[r] = "running" /\ effect[r] = "none"
      /\ srv' = [srv EXCEPT ![r] = "failed"] /\ UNCHANGED <<hVars, alive>>
  BY DEF Fails, IInv, TypeOK, Good, Data
<1>1. PICK left \in {On(r), After(r), [After(r) EXCEPT !.tx = FALSE]},
           fate \in {"pending", Fate(r), "none"}, own \in Parts(r) :
        /\ fate = "pending" /\ On(r).tx => left.tx
        /\ own = "pending" => left.tx
        /\ Moves(r, left, fate, own)
  BY DEF Fails, Moves
<1>2. /\ own \in Effects
      /\ own # "none" => call[r].stmt.mutates /\ ~Ceiling(r) /\ ~Atomic(call[r])
      /\ own = "pending" => KeepsSession(Source(r))
  BY <1>1 DEF Parts, Effects
<1>3. /\ left \in SessionState /\ fate \in Effects
      /\ left.tx => On(r).tx \/ (Steers(call[r]) /\ call[r].stmt.opens)
      /\ left.lifted => On(r).lifted \/ Lifts(call[r])
  <2>1. /\ After(r) \in SessionState /\ On(r) \in SessionState /\ Fate(r) \in Effects
        /\ After(r).tx => On(r).tx \/ (Steers(call[r]) /\ call[r].stmt.opens)
        /\ After(r).lifted => On(r).lifted \/ Lifts(call[r])
    BY AfterFacts
  <2>2. /\ [After(r) EXCEPT !.tx = FALSE] \in SessionState
        /\ ~[After(r) EXCEPT !.tx = FALSE].tx
        /\ [After(r) EXCEPT !.tx = FALSE].lifted = After(r).lifted
    BY <2>1, SessionFacts
  <2> QED
    BY <1>1, <2>1, <2>2 DEF Effects
<1>4. /\ TypeOK' /\ OnlyChanges(r) /\ Sessions' /\ Place(r)' /\ ConnectionsAccounted'
      /\ (Opened(r) => Opened(r)') /\ (Unlocked(r) => Unlocked(r)')
      /\ (Lifts(call[r]) => Unlocked(r)')
      /\ On(r)' = left /\ effect'[r] = own
  BY <1>0, <1>1, <1>2, <1>3, MovesStep
<1>5. /\ Tx(r)' = Tx(r) /\ Source(r)' = Source(r) /\ srv'[r] = "failed" /\ call' = call
      /\ pc' = pc /\ result' = result /\ lost' = lost /\ ctx' = ctx /\ home' = home
      /\ (Severed(r)' <=> Severed(r))
  BY <1>0 DEF hVars, Tx, Source, Severed, Engine, IInv, TypeOK
<1>6. own # "none" => Tx(r) # "ro" /\ (~Path(call[r], FALSE).ceiling \/ Unlocked(r)')
  BY <1>2, <1>4, NoCeiling
<1>7. /\ Tx(r) \in {"none", "ro", "rw"}
      /\ Tx(r) = "rw" => ~KeepsSession(Source(r))
  BY <1>0, PathFacts DEF Tx, Source, KeepsSession
<1>8. Stage(r)'
  BY <1>0, <1>5 DEF Good, Stage
<1>9. Data(r)'
  BY <1>0, <1>1, <1>2, <1>4, <1>5, <1>6, <1>7 DEF Data
<1>10. Outcome(r)'
  BY <1>0, <1>4, <1>5 DEF Good, Outcome
<1> QED
  BY <1>4, <1>8, <1>9, <1>10, Frame DEF Good

LEMMA DropsStep ==
  ASSUME IInv, NEW r \in Requests, DropsSession(r)
  PROVE  IInv'
<1>0. /\ Good(r) /\ srv[r] \in {"running", "ran", "failed", "committing"}
      /\ srv' = [srv EXCEPT ![r] = "closed"] /\ UNCHANGED <<hVars, alive>>
      /\ effect[r] \in Effects
  BY DEF DropsSession, IInv, TypeOK
<1> DEFINE own == IF effect[r] = "pending" THEN "none" ELSE effect[r]
<1>1. own \in Effects /\ "none" \in Effects /\ Clean \in SessionState /\ ~Clean.tx /\ ~Clean.lifted
  BY <1>0 DEF Effects, Clean, SessionState
<1>2. Moves(r, Clean, "none", own)
  <2>1. /\ Settled(home[r], "none") \in [Requests -> Effects]
        /\ Settled(home[r], "none")[r] = own
    BY <1>1, SettledFacts
  <2>2. Settled(home[r], "none") = [Settled(home[r], "none") EXCEPT ![r] = own]
    BY <2>1
  <2> QED
    BY <2>2 DEF DropsSession, Moves
<1>3. /\ TypeOK' /\ OnlyChanges(r) /\ Sessions' /\ Place(r)' /\ ConnectionsAccounted'
      /\ (Opened(r) => Opened(r)') /\ (Unlocked(r) => Unlocked(r)')
      /\ On(r)' = Clean /\ effect'[r] = own
  BY <1>0, <1>1, <1>2, MovesStep
<1>4. /\ Tx(r)' = Tx(r) /\ Source(r)' = Source(r) /\ srv'[r] = "closed" /\ call' = call
      /\ pc' = pc /\ result' = result /\ lost' = lost /\ ctx' = ctx /\ home' = home
      /\ (Severed(r)' <=> Severed(r))
  BY <1>0 DEF hVars, Tx, Source, Severed, Engine, IInv, TypeOK
<1>5. Stage(r)'
  BY <1>0, <1>4 DEF Good, Stage
<1>6. Data(r)'
  BY <1>0, <1>3, <1>4 DEF Good, Data
<1>7. Outcome(r)'
  BY <1>0, <1>3, <1>4 DEF Good, Outcome, Effects
<1> QED
  BY <1>3, <1>5, <1>6, <1>7, Frame DEF Good

LEMMA CommitStep ==
  ASSUME IInv, NEW r \in Requests, Commits(r) \/ RefusesCommit(r)
  PROVE  IInv'
<1>0. /\ call[r] \in Call /\ Good(r) /\ srv[r] = "committing" /\ effect[r] \in Effects
      /\ UNCHANGED <<hVars, session, alive>>
  BY DEF Commits, RefusesCommit, IInv, TypeOK
<1>1. /\ Tx(r)' = Tx(r) /\ Source(r)' = Source(r) /\ call' = call /\ On(r)' = On(r)
      /\ pc' = pc /\ result' = result /\ lost' = lost /\ ctx' = ctx /\ home' = home
      /\ inUse' = inUse /\ idle' = idle /\ (Severed(r)' <=> Severed(r))
  BY <1>0 DEF hVars, Tx, Source, Severed, Engine, On
<1>2. /\ effect' \in [Requests -> Effects]
      /\ srv' \in [Requests -> {"none", "running", "ran", "failed", "committing",
                                "committed", "closed"}]
      /\ \A x \in Requests \ {r} : srv'[x] = srv[x] /\ effect'[x] = effect[x]
      /\ \/ srv'[r] = "committed" /\ effect'[r] = IF effect[r] = "pending" THEN "durable" ELSE effect[r]
         \/ srv'[r] = "failed" /\ effect'[r] = IF effect[r] = "pending" THEN "none" ELSE effect[r]
  BY DEF Commits, RefusesCommit, IInv, TypeOK, Effects
<1>3. TypeOK'
  BY <1>0, <1>2 DEF IInv, TypeOK, hVars
<1>4. Stays
  BY <1>1, <1>2 DEF Stays
<1>5. OnlyChanges(r)
  BY <1>0, <1>1, <1>2, <1>4 DEF OnlyChanges, Spared, On
<1>6. Sessions'
  BY <1>0, <1>1, <1>4, SessionsStay
<1>7. (Opened(r) => Opened(r)') /\ (Unlocked(r) => Unlocked(r)')
  BY <1>1, <1>4, LastsHere DEF IInv, TypeOK
<1>8. Stage(r)'
  BY <1>0, <1>1, <1>2 DEF Good, Stage
<1>9. Data(r)'
  BY <1>0, <1>1, <1>2, <1>7 DEF Good, Data, Effects
<1>10. Outcome(r)'
  BY <1>0, <1>1, <1>2, <1>7 DEF Good, Data, Outcome, Effects
<1>11. Place(r)'
  BY <1>0, <1>1 DEF Good, Place, Source
<1>12. ConnectionsAccounted'
  BY <1>1, <1>5, Steady DEF Holds
<1> QED
  BY <1>3, <1>5, <1>6, <1>8, <1>9, <1>10, <1>11, <1>12, Frame DEF Good

\* The pool closes an altered connection: what waits in it is lost.
LEMMA IdleStep ==
  ASSUME IInv, NEW h \in Requests, ClosesIdle(h)
  PROVE  IInv'
<1>0. /\ h \in idle /\ idle' = idle \ {h} /\ effect' = Settled(h, "none")
      /\ session' = [session EXCEPT ![h] = Clean]
      /\ UNCHANGED <<call, pc, ctx, result, inUse, lost, home, srv, alive>>
  BY DEF ClosesIdle
<1>1. Clean \in SessionState /\ ~Clean.tx /\ ~Clean.lifted /\ "none" \in Effects
  BY DEF Clean, SessionState, Effects
<1>2. /\ session' \in [Requests -> SessionState] /\ session'[h] = Clean
      /\ \A k \in Requests \ {h} : session'[k] = session[k]
  BY <1>0, <1>1 DEF IInv, TypeOK
<1>3. /\ effect' \in [Requests -> Effects]
      /\ \A x \in Requests :
           /\ effect'[x] # effect[x] => effect[x] = "pending" /\ home[x] = h
           /\ effect'[x] = "pending" => effect[x] = "pending" /\ home[x] # h
  BY <1>0, <1>1, SettledFacts
<1>4. TypeOK'
  BY <1>0, <1>2, <1>3 DEF IInv, TypeOK
<1>5. Stays
  BY <1>0 DEF Stays
<1>6. Sessions'
  BY <1>0, <1>1, <1>2, <1>5, SessionsStay
<1>7. ASSUME NEW x \in Requests PROVE Good(x)'
  <2>1. home[x] = h => KeepsSession(Source(x))
    <3>1. KeepsSession(Source(h)) /\ Source(home[x]) = Source(x)
      BY <1>0 DEF IInv, Sessions, Made, Good, Place
    <3> QED
      BY <3>1
  <2>2. effect'[x] # effect[x] => effect[x] = "pending" /\ Tx(x) = "none"
    BY <1>3, <2>1, KeptWithout
  <2>3. effect'[x] = "pending" /\ On(x).tx => On(x)'.tx
    <3>1. home[x] \in Requests
      BY DEF IInv, TypeOK
    <3> QED
      BY <1>0, <1>2, <1>3, <3>1 DEF On
  <2>4. Spared(x)
    BY <1>0, <2>2, <2>3 DEF Spared
  <2> QED
    BY <1>5, <2>4, SparedStaysGood
<1>8. ConnectionsAccounted'
  BY <1>0 DEF IInv, ConnectionsAccounted, Holders, Holds, Source
<1> QED
  BY <1>0, <1>4, <1>6, <1>7, <1>8 DEF IInv

LEMMA IInvNext == IInv /\ [Next]_vars => IInv'
<1> SUFFICES ASSUME IInv, [Next]_vars PROVE IInv'
  OBVIOUS
<1>1. ASSUME NEW r \in Requests, Arrive(r) \/ Handler(r) PROVE IInv'
  BY <1>1, GateStep, SendStep, ReturnStep, SendCommitStep, FinishStep DEF Handler
<1>2. ASSUME NEW r \in Requests, Expire(r) \/ Cancel(r) \/ Server(r) \/ ClosesIdle(r) PROVE IInv'
  BY <1>2, ContextStep, RunsStep, FailsStep, CommitStep, DropsStep, IdleStep DEF Server
<1>3. CASE Kill \/ UNCHANGED vars
  <2>1. UNCHANGED <<hVars, sVars>> /\ (alive' = FALSE \/ alive' = alive)
    BY <1>3 DEF Kill, vars
  <2>2. TypeOK'
    <3>1. alive' \in BOOLEAN
      BY <2>1, Zenon DEF IInv, TypeOK
    <3>2. lost' = lost /\ lost \in [Requests -> BOOLEAN]
      BY <2>1 DEF hVars, IInv, TypeOK
    <3> QED
      BY <2>1, <3>1, <3>2 DEF hVars, sVars, IInv, TypeOK
  <2>3. Stays
    BY <2>1 DEF hVars, sVars, Stays
  <2>4. \A r \in Requests : Good(r)'
    <3> SUFFICES ASSUME NEW r \in Requests PROVE Spared(r)
      BY <2>3, SparedStaysGood
    <3> QED
      BY <2>1 DEF hVars, sVars, Spared, On
  <2>5. Sessions'
    BY <2>1, <2>3, SessionsStay DEF hVars, sVars
  <2>6. ConnectionsAccounted'
    BY <2>1 DEF hVars, IInv, ConnectionsAccounted, Holders, Holds, Source
  <2> QED
    BY <2>1, <2>2, <2>4, <2>5, <2>6 DEF IInv, hVars
<1> QED
  BY <1>1, <1>2, <1>3 DEF Next

LEMMA IInvHolds == Spec => []IInv
  BY IInvInit, IInvNext, PTL DEF Spec

-----------------------------------------------------------------------------
(* The theorems.                                                           *)

\* Every variable keeps its type.
THEOREM TypeCorrect == Spec => []TypeOK
  BY IInvHolds, PTL DEF IInv

\* What the invariant calls the exceptions of the properties.
LEMMA WhoUnlocked ==
  ASSUME NEW r \in Requests
  PROVE  (Unlocked(r) <=> UnlockedOn(home[r])) /\ (Opened(r) <=> OpenedOn(home[r]))
BY DEF Unlocked, Opened

\* No call changes a source that is not marked writable, unless a text on its
\* SQLite session has switched query_only off.
THEOREM KillSwitchHolds == Spec => []KillSwitch
<1>1. IInv => KillSwitch
  <2> SUFFICES ASSUME IInv, NEW r \in Requests, effect[r] # "none", ~Unlocked(r)
               PROVE  Source(r) \in Writable
    BY WhoUnlocked DEF KillSwitch
  <2>1. /\ call[r] \in Call /\ ~Path(call[r], FALSE).ceiling /\ srv[r] # "none" /\ Stage(r)
    BY DEF IInv, TypeOK, Good, Data
  <2>2. call[r].tool = "write" \/ EngineOf[Source(r)] = "sqlite"
    BY <2>1, PathFacts DEF Source
  <2> QED
    BY <2>1, <2>2, PathFacts DEF Stage, requireWrite, Source
<1> QED
  BY <1>1, IInvHolds, PTL

\* Outside SQLite sources that are writable or unlocked, only writers using the
\* write tool change data.
THEOREM WritersOnly == Spec => []OnlyWritersChangeData
<1>1. IInv => OnlyWritersChangeData
  <2> SUFFICES ASSUME IInv, NEW r \in Requests, effect[r] # "none"
               PROVE  \/ call[r].tool = "write" /\ CanWrite(call[r].role)
                      \/ Engine(r) = "sqlite" /\ call[r].stmt.guarded
    BY DEF OnlyWritersChangeData
  <2>1. /\ call[r] \in Call /\ srv[r] # "none" /\ Stage(r)
        /\ ~Path(call[r], FALSE).ceiling \/ Unlocked(r)
    BY DEF IInv, TypeOK, Good, Data
  <2>2. call[r].tool = "write" \/ Engine(r) = "sqlite"
    BY <2>1, PathFacts, UnlockedSqlite DEF Source, Engine
  <2> QED
    BY <2>1, <2>2 DEF Stage, requireWrite, ExecuteRefuses
<1> QED
  BY <1>1, IInvHolds, PTL

\* What the write tool reported as done stays in the database, unless a text sent
\* on the same connection left a transaction open there.
THEOREM OkIsDurable == Spec => []OkMeansDurable
<1>1. IInv => OkMeansDurable
  BY WhoUnlocked DEF IInv, Good, Outcome, OkMeansDurable, Answered
<1> QED
  BY <1>1, IInvHolds, PTL

\* An error that the server reported of an atomic text left nothing behind.
THEOREM ErrorsAreClean == Spec => []ReportedErrorsAreClean
<1>1. IInv => ReportedErrorsAreClean
  BY DEF IInv, Good, Outcome, ReportedErrorsAreClean, Answered
<1> QED
  BY <1>1, IInvHolds, PTL

\* Only a text's transaction goes back to a pool, on the sources that keep sessions;
\* a change waits nowhere else, and a handler's own transaction never goes back.
THEOREM OnlyTextsLeaveOpen == Spec => []OnlyTextsLeaveTransactions
<1>1. IInv => OnlyTextsLeaveTransactions
  <2> SUFFICES ASSUME IInv PROVE OnlyTextsLeaveTransactions
    OBVIOUS
  <2>1. \A h \in idle : session[h].tx => OpenedOn(h)
    BY DEF IInv, TypeOK, Sessions, Made
  <2>2. ASSUME NEW r \in Requests, pc[r] = "answered", ~Orphaned(r)
        PROVE  /\ srv[r] \in {"none", "closed"}
               /\ effect[r] = "pending" => Tx(r) = "none" /\ OpenedOn(home[r])
    <3>1. Good(r) /\ ~Severed(r)
      BY <2>2 DEF IInv, Orphaned
    <3>2. srv[r] \in {"none", "closed"}
      BY <2>2, <3>1 DEF Good, Stage
    <3>3. effect[r] = "pending" => Tx(r) = "none" /\ On(r).tx
      BY <3>1, <3>2 DEF Good, Data
    <3> QED
      BY <3>2, <3>3, HomeOpened, WhoUnlocked
  <2> QED
    BY <2>1, <2>2 DEF OnlyTextsLeaveTransactions
<1> QED
  BY <1>1, IInvHolds, PTL

\* Every connection in use is held by a running call.
THEOREM NoConnectionLeaks == Spec => []ConnectionsAccounted
  BY IInvHolds, PTL DEF IInv

\* Rows are missing from a successful answer only when the client had gone.
THEOREM CutIsUnread == Spec => []CutAnswersAreUnread
<1>1. IInv => CutAnswersAreUnread
  BY DEF IInv, Good, Outcome, CutAnswersAreUnread, Answered
<1> QED
  BY <1>1, IInvHolds, PTL

-----------------------------------------------------------------------------
(* Where every SQLite source is read-only and no text lifts its query_only: *)
(* the read tool changes nothing, and the implementation keeps the contract. *)

SealedSqlite ==
    \A f \in Programs, r \in Requests :
        EngineOf[f[r].source] = "sqlite" => f[r].source \notin Writable /\ ~f[r].stmt.lifts

LEMMA SealedFacts ==
  ASSUME SealedSqlite, NEW f \in Programs, NEW r \in Requests
  PROVE  /\ ~Lifts(f[r])
         /\ ~Path(f[r], FALSE).ceiling => f[r].tool = "write" /\ EngineOf[f[r].source] # "sqlite"
<1>1. f[r] \in Call
  OBVIOUS
<1> QED
  BY <1>1, PathFacts DEF SealedSqlite, Lifts

LEMMA ChangesAreWrites ==
  ASSUME SealedSqlite, IInv, NEW r \in Requests, effect[r] # "none"
  PROVE  call[r].tool = "write"
<1>1. call \in Programs /\ Good(r)
  BY DEF IInv
<1>2. ~Unlocked(r)
  BY <1>1, SealedFacts DEF Unlocked, UnlockedOn
<1> QED
  BY <1>1, <1>2, SealedFacts DEF Good, Data

\* The read tool changes no data when every SQLite source is read-only and stays so.
THEOREM ReadsAreReads ==
  ASSUME SealedSqlite
  PROVE  Spec => []ReadsChangeNothing
<1>1. IInv => ReadsChangeNothing
  BY ChangesAreWrites DEF ReadsChangeNothing
<1> QED
  BY <1>1, IInvHolds, PTL

\* What the contract sees of a step: durable changes stay, and either no call is
\* answered, or one is and no change is made.
Keeps == call' = call /\ \A x \in Requests : effect[x] = "durable" => effect'[x] = "durable"
Silent ==
    \A x \in Requests :
        /\ pc'[x] = "answered" <=> pc[x] = "answered"
        /\ pc[x] = "answered" => result'[x] = result[x]
Answers(r) ==
    /\ pc[r] # "answered" /\ pc'[r] = "answered"
    /\ \A x \in Requests \ {r} : pc'[x] = pc[x] /\ result'[x] = result[x]
    /\ \A x \in Requests : effect'[x] = "durable" <=> effect[x] = "durable"
    /\ \/ result'[r] \in {"refused", "error"} /\ effect[r] = "none"
       \/ result'[r] = result[r] /\ pc[r] = "defers"

LEMMA StepShape ==
  ASSUME IInv, [Next]_vars
  PROVE  Keeps /\ (Silent \/ \E r \in Requests : Answers(r))
<1> USE DEF At, Goto, AnswerNow, Returns, hVars, sVars
<1>1. CASE Kill \/ UNCHANGED vars
  BY <1>1 DEF Kill, vars, Keeps, Silent
<1>2. ASSUME NEW r \in Requests,
             Arrive(r) \/ Connect(r) \/ Expire(r) \/ Cancel(r) \/ SendCommit(r)
             \/ Completes(r) \/ StatementFails(r) \/ ValuesFail(r) \/ GivesUp(r) \/ RowsCut(r)
             \/ CommitReturns(r) \/ CommitFails(r)
      PROVE  Keeps /\ Silent
  <2>1. call' = call /\ effect' = effect
    BY <1>2 DEF Arrive, Connect, Expire, Cancel, SendCommit, Completes, StatementFails, ValuesFail,
                GivesUp, RowsCut, CommitReturns, CommitFails
  <2>2. Silent
    BY <1>2 DEF IInv, TypeOK, Silent, Arrive, Connect, Expire, Cancel, SendCommit, Completes,
                StatementFails, ValuesFail, GivesUp, RowsCut, CommitReturns, CommitFails
  <2> QED
    BY <2>1, <2>2 DEF Keeps
<1>3. ASSUME NEW r \in Requests, Refuse(r) \/ ConnectFails(r) \/ ExecuteRejects(r) \/ SendFails(r)
      PROVE  Keeps /\ Answers(r)
  <2>1. effect[r] = "none"
    BY <1>3 DEF IInv, Good, Stage, Data, Refuse, ConnectFails, ExecuteRejects, SendFails
  <2> QED
    BY <1>3, <2>1 DEF IInv, TypeOK, Keeps, Answers, Refuse, ConnectFails, ExecuteRejects, SendFails
<1>4. ASSUME NEW r \in Requests, Finish(r)
      PROVE  Keeps /\ Answers(r)
  BY <1>4 DEF IInv, TypeOK, Keeps, Answers, Finish, Releases
<1>5. ASSUME NEW r \in Requests, Send(r) \/ Server(r) \/ ClosesIdle(r)
      PROVE  Keeps /\ Silent
  <2>1. \A h, fate : \A x \in Requests : effect[x] = "durable" => Settled(h, fate)[x] = "durable"
    BY DEF Settled
  <2>2. CASE Send(r)
    <3>1. call' = call /\ result' = result /\ pc' = [pc EXCEPT ![r] = "exec"] /\ pc[r] = "connected"
      BY <2>2 DEF Send
    <3>2. effect' = effect \/ \E h \in idle : effect' = Settled(h, "durable")
      BY <2>2 DEF Send, TakesNew, TakesIdle
    <3> QED
      BY <2>1, <3>1, <3>2 DEF IInv, TypeOK, Keeps, Silent
  <2>3. CASE Runs(r) \/ Fails(r)
    <3>1. effect[r] = "none" /\ UNCHANGED <<call, pc, result>>
      BY <2>3 DEF Runs, Fails, IInv, Good, Data
    <3>2. \E h, fate, own : effect' = [Settled(h, fate) EXCEPT ![r] = own]
      <4>1. CASE Runs(r)
        <5>1. PICK own \in Lands(r) : effect' = [Settled(home[r], Fate(r)) EXCEPT ![r] = own]
          BY <4>1 DEF Runs
        <5> QED
          BY <5>1
      <4>2. CASE Fails(r)
        <5>1. PICK fate \in {"pending", Fate(r), "none"}, own \in Parts(r) :
                effect' = [Settled(home[r], fate) EXCEPT ![r] = own]
          BY <4>2 DEF Fails
        <5> QED
          BY <5>1
      <4> QED
        BY <2>3, <4>1, <4>2
    <3>3. \A h, fate : Settled(h, fate) = [x \in Requests |-> Settled(h, fate)[x]]
      BY DEF Settled
    <3>4. \A x \in Requests : effect[x] = "durable" => effect'[x] = "durable"
      <4>1. PICK h, fate, own : effect' = [Settled(h, fate) EXCEPT ![r] = own]
        BY <3>2
      <4>2. \A x \in Requests \ {r} : effect'[x] = Settled(h, fate)[x]
        BY <3>3, <4>1
      <4> QED
        BY <2>1, <3>1, <4>2
    <3> QED
      BY <3>1, <3>4 DEF Keeps, Silent
  <2>4. CASE Commits(r) \/ RefusesCommit(r)
    BY <2>4 DEF Commits, RefusesCommit, IInv, TypeOK, Keeps, Silent
  <2>5. CASE DropsSession(r) \/ ClosesIdle(r)
    BY <2>1, <2>5 DEF DropsSession, ClosesIdle, Keeps, Silent
  <2> QED
    BY <1>5, <2>2, <2>3, <2>4, <2>5 DEF Server
<1> QED
  BY <1>1, <1>2, <1>3, <1>4, <1>5 DEF Next, Handler

Durable == {r \in Requests : effect[r] = "durable"}
Replies == [r \in Requests |-> IF pc[r] = "answered" THEN result[r] ELSE "none"]

\* Where a change is answered "ok" and not yet made, a text of the write tool has
\* left a transaction open.
LEMMA ExposedThen ==
  ASSUME SealedSqlite, IInv, NEW r \in Requests, requireWrite(call[r]), Opened(r)
  PROVE  Contract!Exposed(r)
<1>1. PICK p \in Requests : /\ home[p] = home[r] /\ srv[p] # "none"
                            /\ call[p].stmt.opens /\ Steers(call[p])
  BY DEF Opened, OpenedOn, SentOn
<1>2. call \in Programs /\ Good(p) /\ Source(p) = Source(r) /\ call[r] \in Call
  BY <1>1 DEF IInv, TypeOK, Good, Place
<1>3. EngineOf[Source(r)] # "sqlite"
  BY <1>2 DEF SealedSqlite, requireWrite, Source
<1>4. KeepsSession(Source(r)) /\ call[p].tool = "write"
  BY <1>1, <1>2, <1>3 DEF Steers, KeepsSession, TakesControl, Execs, Source
<1>5. requireWrite(call[p]) /\ result[p] # "refused"
  BY <1>1, <1>2, <1>4 DEF Good, Stage, Outcome
<1>6. Replies[p] # "refused"
  BY <1>5 DEF Replies
<1>7. call[p].source = call[r].source /\ call[r].source \in {s \in Sources : KeepsSession(s)}
  BY <1>2, <1>4 DEF Source, Call
<1> QED
  BY <1>1, <1>4, <1>5, <1>6, <1>7
     DEF Contract!Exposed, Contract!MayWrite, Contract!CanWrite, requireWrite, CanWrite, Replies

LEMMA StepMaps ==
  ASSUME SealedSqlite, IInv, IInv', [Next]_vars
  PROVE  [Contract!Next]_(Contract!vars)
<1>0. Keeps /\ call' = call
  BY StepShape DEF Keeps
<1>1. CASE Silent
  <2>1. Replies' = Replies
    <3>1. \A x \in Requests : Replies'[x] = Replies[x]
      BY <1>1 DEF Silent, Replies
    <3> QED
      BY <3>1 DEF Replies
  <2>0. PICK some : some = Durable' \ Durable
    OBVIOUS
  <2>2. some \in SUBSET Requests /\ some \cap Durable = {} /\ Durable' = Durable \cup some
    BY <1>0, <2>0 DEF Durable, Keeps
  <2>3. ASSUME NEW r \in some
        PROVE  /\ Contract!MayWrite(call[r]) /\ call[r].stmt.mutates
               /\ Replies[r] \in {"none", "error"} \/ (Replies[r] = "ok" /\ Contract!Exposed(r))
    <3>1. r \in Requests /\ effect'[r] = "durable" /\ effect[r] # "durable"
      BY <2>0, <2>3 DEF Durable
    <3>2. /\ call[r].tool = "write" /\ requireWrite(call[r]) /\ call[r].stmt.mutates
      <4>1. call' \in Programs /\ call \in Programs /\ Good(r)'
        BY <1>0, <3>1 DEF IInv
      <4>2. ~Unlocked(r)'
        BY <4>1, SealedFacts DEF Unlocked, UnlockedOn
      <4>3. /\ ~Path(call[r], FALSE).ceiling /\ call[r].stmt.mutates /\ srv'[r] # "none"
        BY <1>0, <3>1, <4>1, <4>2 DEF Good, Data
      <4>4. call[r].tool = "write"
        BY <3>1, <4>1, <4>3, SealedFacts
      <4> QED
        BY <1>0, <4>1, <4>3, <4>4 DEF Good, Stage
    <3>3. Good(r) /\ Good(r)'
      BY <3>1 DEF IInv
    <3>4. pc[r] = "answered" => result[r] # "cut" /\ result[r] # "refused"
      <4>1. result[r] # "cut"
        BY <3>2, <3>3 DEF Good, Outcome
      <4>2. pc[r] = "answered" => result'[r] = result[r]
        BY <1>1, <3>1 DEF Silent
      <4>3. result'[r] # "refused"
        BY <3>1, <3>3 DEF Good, Outcome, Data
      <4> QED
        BY <4>1, <4>2, <4>3
    <3>5. result[r] = "ok" => Contract!Exposed(r)
      BY <3>1, <3>2, <3>3, ExposedThen DEF Good, Outcome
    <3>6. result[r] \in {"none", "ok", "cut", "refused", "error"}
      BY <3>1 DEF IInv, TypeOK
    <3>7. Contract!MayWrite(call[r])
      BY <3>2 DEF Contract!MayWrite, Contract!CanWrite, requireWrite, CanWrite
    <3> QED
      BY <3>1, <3>2, <3>4, <3>5, <3>6, <3>7 DEF Replies
  <2>4. CASE some = {}
    <3>1. Durable' = Durable
      BY <2>2, <2>4
    <3> QED
      BY <1>0, <2>1, <3>1 DEF Contract!vars, Durable, Replies
  <2>5. CASE some # {}
    <3>1. Contract!Change(some)
      BY <1>0, <2>1, <2>2, <2>3 DEF Contract!Change, Durable, Replies
    <3>2. some \in (SUBSET Requests) \ {{}}
      BY <2>2, <2>5
    <3>3. Contract!Next
      BY <3>1, <3>2, Zenon DEF Contract!Next
    <3> QED
      BY <3>3
  <2> QED
    BY <2>4, <2>5
<1>2. ASSUME NEW r \in Requests, Answers(r)
      PROVE  \E a \in {"ok", "cut", "refused", "error"} : Contract!Answer(r, a)
  <2>0. PICK a : a = result'[r]
    OBVIOUS
  <2>1. Durable' = Durable
    BY <1>2 DEF Durable, Answers
  <2>2. Replies' = [Replies EXCEPT ![r] = a] /\ Replies[r] = "none"
    <3>1. \A x \in Requests : Replies'[x] = IF x = r THEN a ELSE Replies[x]
      BY <1>2, <2>0 DEF Answers, Replies
    <3>2. Replies[r] = "none"
      BY <1>2 DEF Answers, Replies
    <3> QED
      BY <3>1, <3>2 DEF Replies
  <2>3. Good(r)
    BY DEF IInv
  <2>4. CASE a \in {"refused", "error"} /\ effect[r] = "none"
    <3>1. r \notin Durable
      BY <2>4 DEF Durable
    <3> QED
      BY <1>0, <2>1, <2>2, <2>4, <3>1 DEF Contract!Answer, Durable, Replies
  <2>5. CASE a = result[r] /\ pc[r] = "defers"
    <3>1. a \in {"ok", "cut", "error"} /\ srv[r] # "none"
      BY <2>3, <2>5 DEF IInv, TypeOK, Good, Stage, Outcome
    <3>2. a = "cut" => call[r].tool = "query"
      BY <2>3, <2>5 DEF Good, Outcome
    <3>3. a = "ok" /\ call[r].tool = "write" /\ call[r].stmt.mutates =>
            r \in Durable \/ Contract!Exposed(r)
      BY <2>3, <2>5, <3>1, ExposedThen DEF Good, Stage, Outcome, Durable
    <3> QED
      BY <1>0, <2>1, <2>2, <3>1, <3>2, <3>3 DEF Contract!Answer, Durable, Replies
  <2> QED
    BY <1>2, <2>0, <2>4, <2>5 DEF Answers
<1>3. CASE \E r \in Requests : Answers(r)
  <2>1. Contract!Next
    BY <1>2, <1>3, Zenon DEF Contract!Next
  <2> QED
    BY <2>1
<1> QED
  BY <1>1, <1>3, StepShape

LEMMA InitMaps == Init => Contract!Init
<1> SUFFICES ASSUME Init PROVE Contract!Init
  OBVIOUS
<1>1. Durable = {} /\ Replies = [r \in Requests |-> "none"] /\ call \in Programs
  BY DEF Init, Durable, Replies
<1> QED
  BY <1>1 DEF Contract!Init, Durable, Replies

\* Through every failure, timeout, lost answer, transaction of a text's own and kill,
\* what a caller sees of the tools and the data is a behaviour of WriteContract.
THEOREM ContractKept ==
  ASSUME SealedSqlite
  PROVE  Spec => ContractSpec
<1>1. IInv /\ IInv' /\ [Next]_vars => [Contract!Next]_(Contract!vars)
  BY StepMaps
<1> QED
  BY <1>1, InitMaps, IInvHolds, PTL DEF Spec, ContractSpec, Contract!Spec

-----------------------------------------------------------------------------
(* Why every call ends.  FairSpec makes each of the steps below happen that *)
(* stays possible; the theorem says that one of them is possible as long as *)
(* a call is under way, stays possible until the call has come nearer to    *)
(* its end, and brings it nearer.  That is EveryCallEnds without its        *)
(* temporal part.                                                           *)

Underway(r) == alive /\ pc[r] \in {"connected", "exec", "commit", "defers"}

\* The steps of a call that its server and the other calls cannot withhold.
OwnStep(r) ==
    \/ Expire(r) \/ ReturnsOnDeadline(r) \/ Finish(r) \/ ExecuteRejects(r) \/ Interrupted(r)

\* Their guards.
Served(r) == pc[r] \in {"connected", "exec", "commit"} /\ ~ExecuteRefuses(call[r])
Stuck(r) == pc[r] = "exec" /\ Engine(r) = "sqlite" /\ srv[r] = "running"

Chance(r, step) ==
    CASE step = "Expire"         -> Served(r) /\ ctx[r] = "live"
      [] step = "Returns"        -> Served(r) /\ ctx[r] # "live" /\ ~Stuck(r)
      [] step = "Interrupted"    -> Served(r) /\ ctx[r] # "live" /\ Stuck(r)
      [] step = "Finish"         -> pc[r] = "defers"
      [] step = "ExecuteRejects" -> pc[r] = "connected" /\ ExecuteRefuses(call[r])

OwnSteps == {"Expire", "Returns", "Interrupted", "Finish", "ExecuteRejects"}
Chances(r) == {step \in OwnSteps : Chance(r, step)}

\* How far the call is from its answer: labels count three, the context and the
\* statement one each.
Labels == [l \in PcStates |->
    CASE l = "connected" -> 12 [] l = "exec" -> 9 [] l = "commit" -> 6 [] l = "defers" -> 3
      [] OTHER -> 0]
OneIf(b) == IF b THEN 1 ELSE 0
Live(r) == OneIf(ctx[r] = "live")
Running(r) == OneIf(srv[r] = "running")
Distance(r) == Labels[pc[r]] + Live(r) + Running(r)

\* A call under way always has a step of its own to take.
NeverWaits == \A r \in Requests : Underway(r) => Chances(r) # {}

\* No step leads it away from its end, each of its own brings it nearer, and one that is
\* possible stays so until then.
ComesNearer ==
    \A r \in Requests : Underway(r) =>
        /\ Distance(r)' <= Distance(r)
        /\ OwnStep(r) => Distance(r)' < Distance(r)
        /\ Distance(r)' = Distance(r) /\ alive' => Chances(r) \subseteq Chances(r)'

LEMMA SomeChance == IInv => NeverWaits
<1> SUFFICES ASSUME IInv, NEW r \in Requests, Underway(r)
             PROVE  \E step \in OwnSteps : Chance(r, step)
  BY DEF NeverWaits, Chances
<1>1. pc[r] \in {"exec", "commit"} => ~ExecuteRefuses(call[r])
  BY DEF IInv, Good, Stage
<1>2. CASE pc[r] = "defers"
  BY <1>2 DEF Chance, OwnSteps
<1>3. CASE pc[r] = "connected" /\ ExecuteRefuses(call[r])
  BY <1>3 DEF Chance, OwnSteps
<1>4. CASE Served(r)
  BY <1>4 DEF Chance, OwnSteps
<1> QED
  BY <1>1, <1>2, <1>3, <1>4 DEF Underway, Served

\* What a step does to a call that is under way: its label moves forward, or its
\* context ends, or its statement does.
Forward == {<<"connected", "exec">>, <<"connected", "answered">>, <<"exec", "commit">>,
            <<"exec", "defers">>, <<"commit", "defers">>, <<"defers", "answered">>}

Onward(r) ==
    /\ call' = call
    /\ \/ <<pc[r], pc'[r]>> \in Forward
       \/ /\ pc'[r] = pc[r]
          /\ ctx'[r] # ctx[r] => ctx[r] = "live"
          /\ srv'[r] # srv[r] => srv'[r] # "running"

LEMMA OnwardStep ==
  ASSUME IInv, [Next]_vars, NEW r \in Requests, Underway(r)
  PROVE  Onward(r)
<1> USE DEF IInv, TypeOK, At, Goto, AnswerNow, Returns, sVars, hVars
<1>1. CASE Kill \/ UNCHANGED vars
  BY <1>1 DEF Kill, vars, Onward
<1>2. ASSUME NEW x \in Requests, x # r,
             Arrive(x) \/ Handler(x) \/ Expire(x) \/ Cancel(x) \/ Server(x) \/ ClosesIdle(x)
      PROVE  Onward(r)
  <2>1. call' = call /\ pc'[r] = pc[r] /\ ctx'[r] = ctx[r] /\ srv'[r] = srv[r]
    <3>1. CASE Arrive(x) \/ Refuse(x) \/ Connect(x) \/ ConnectFails(x) \/ ExecuteRejects(x)
               \/ Send(x) \/ SendFails(x)
      BY <1>2, <3>1 DEF Arrive, Refuse, Connect, ConnectFails, ExecuteRejects, Send, SendFails
    <3>2. CASE Completes(x) \/ StatementFails(x) \/ ValuesFail(x) \/ GivesUp(x) \/ RowsCut(x)
      BY <1>2, <3>2 DEF Completes, StatementFails, ValuesFail, GivesUp, RowsCut
    <3>3. CASE SendCommit(x) \/ CommitReturns(x) \/ CommitFails(x) \/ Finish(x)
      BY <1>2, <3>3 DEF SendCommit, CommitReturns, CommitFails, Finish, Releases
    <3>4. CASE Expire(x) \/ Cancel(x) \/ Server(x) \/ ClosesIdle(x)
      BY <1>2, <3>4 DEF Expire, Cancel, Server, Runs, Fails, Commits, RefusesCommit, DropsSession,
                        ClosesIdle
    <3> QED
      BY <1>2, <3>1, <3>2, <3>3, <3>4 DEF Handler
  <2> QED
    BY <2>1 DEF Onward
<1>3. CASE Arrive(r) \/ Handler(r)
  <2>1. CASE Arrive(r) \/ Refuse(r) \/ Connect(r) \/ ConnectFails(r)
    BY <2>1 DEF Underway, Arrive, Refuse, Connect, ConnectFails
  <2>2. CASE ExecuteRejects(r) \/ Send(r) \/ SendFails(r)
    BY <2>2 DEF ExecuteRejects, Send, SendFails, Onward, Forward
  <2>3. CASE Completes(r) \/ StatementFails(r) \/ ValuesFail(r) \/ GivesUp(r) \/ RowsCut(r)
    BY <2>3 DEF Completes, StatementFails, ValuesFail, GivesUp, RowsCut, Onward, Forward
  <2>4. CASE SendCommit(r)
    BY <2>4 DEF SendCommit, Onward
  <2>5. CASE CommitReturns(r) \/ CommitFails(r) \/ Finish(r)
    BY <2>5 DEF CommitReturns, CommitFails, Finish, Releases, Onward, Forward
  <2> QED
    BY <1>3, <2>1, <2>2, <2>3, <2>4, <2>5 DEF Handler
<1>4. CASE Expire(r) \/ Cancel(r)
  BY <1>4 DEF Expire, Cancel, Onward
<1>5. CASE Server(r) \/ ClosesIdle(r)
  BY <1>5 DEF Server, Runs, Fails, Commits, RefusesCommit, DropsSession, ClosesIdle, Onward
<1> QED
  BY <1>1, <1>2, <1>3, <1>4, <1>5 DEF Next

LEMMA Distances ==
  ASSUME TypeOK, TypeOK', NEW r \in Requests
  PROVE  /\ Labels[pc[r]] \in Nat /\ Labels[pc'[r]] \in Nat
         /\ <<pc[r], pc'[r]>> \in Forward => Labels[pc'[r]] + 3 <= Labels[pc[r]]
         /\ Live(r) \in 0 .. 1 /\ Live(r)' \in 0 .. 1
         /\ Running(r) \in 0 .. 1 /\ Running(r)' \in 0 .. 1
         /\ Distance(r) = Labels[pc[r]] + Live(r) + Running(r)
         /\ Distance(r)' = Labels[pc'[r]] + Live(r)' + Running(r)'
<1>1. pc[r] \in PcStates /\ pc'[r] \in PcStates
  BY DEF TypeOK
<1>2. /\ Labels[pc[r]] \in Nat /\ Labels[pc'[r]] \in Nat
      /\ <<pc[r], pc'[r]>> \in Forward => Labels[pc'[r]] + 3 <= Labels[pc[r]]
  BY <1>1 DEF Labels, PcStates, Forward
<1>3. /\ Live(r) \in 0 .. 1 /\ Live(r)' \in 0 .. 1
      /\ Running(r) \in 0 .. 1 /\ Running(r)' \in 0 .. 1
  BY DEF Live, Running, OneIf
<1>4. /\ Distance(r) = Labels[pc[r]] + Live(r) + Running(r)
      /\ Distance(r)' = Labels[pc'[r]] + Live(r)' + Running(r)'
  BY DEF Distance, Labels
<1> QED
  BY <1>2, <1>3, <1>4

LEMMA NearerStep ==
  ASSUME IInv, IInv', [Next]_vars
  PROVE  ComesNearer
<1> SUFFICES ASSUME NEW r \in Requests, Underway(r)
             PROVE  /\ Distance(r)' <= Distance(r)
                    /\ OwnStep(r) => Distance(r)' < Distance(r)
                    /\ Distance(r)' = Distance(r) /\ alive' => Chances(r) \subseteq Chances(r)'
  BY DEF ComesNearer
<1>1. Onward(r)
  BY OnwardStep
<1>2. TypeOK /\ TypeOK'
  BY DEF IInv
<1>5. /\ Labels[pc[r]] \in Nat /\ Labels[pc'[r]] \in Nat
      /\ Live(r) \in 0 .. 1 /\ Live(r)' \in 0 .. 1
      /\ Running(r) \in 0 .. 1 /\ Running(r)' \in 0 .. 1
      /\ Distance(r) = Labels[pc[r]] + Live(r) + Running(r)
      /\ Distance(r)' = Labels[pc'[r]] + Live(r)' + Running(r)'
      /\ <<pc[r], pc'[r]>> \in Forward => Labels[pc'[r]] + 3 <= Labels[pc[r]]
  BY <1>2, Distances
<1>3. CASE <<pc[r], pc'[r]>> \in Forward
  <2>1. Distance(r)' < Distance(r)
    BY <1>3, <1>5
  <2> QED
    BY <1>5, <2>1
<1>4. CASE <<pc[r], pc'[r]>> \notin Forward
  <2>1. /\ call' = call /\ pc'[r] = pc[r]
        /\ ctx'[r] # ctx[r] => ctx[r] = "live" /\ ctx'[r] # "live"
        /\ srv'[r] # srv[r] => srv'[r] # "running"
    BY <1>1, <1>4 DEF Onward
  <2>2. Live(r)' <= Live(r) /\ Running(r)' <= Running(r)
    BY <2>1 DEF Live, Running, OneIf
  <2>5. Distance(r)' <= Distance(r)
    BY <1>5, <2>1, <2>2
  <2>3. ASSUME OwnStep(r) PROVE Distance(r)' < Distance(r)
    <3>1. CASE Expire(r)
      <4>1. ctx[r] = "live" /\ ctx'[r] # "live"
        BY <1>2, <3>1 DEF Expire, TypeOK
      <4>2. Live(r)' < Live(r)
        BY <4>1 DEF Live, OneIf
      <4> QED
        BY <1>5, <2>1, <2>2, <4>2
    <3>2. CASE Interrupted(r)
      <4>1. srv[r] = "running" /\ srv'[r] # "running" /\ ctx' = ctx
        BY <1>2, <3>2 DEF Interrupted, Fails, TypeOK, hVars
      <4>2. Running(r)' < Running(r)
        BY <4>1 DEF Running, OneIf
      <4> QED
        BY <1>5, <2>1, <2>2, <4>2
    <3>3. CASE ReturnsOnDeadline(r) \/ Finish(r) \/ ExecuteRejects(r)
      <4>1. pc'[r] # pc[r]
        BY <1>2, <3>3 DEF ReturnsOnDeadline, SendFails, GivesUp, CommitFails, Finish,
                          ExecuteRejects, At, Goto, Returns, AnswerNow, TypeOK
      <4> QED
        BY <2>1, <4>1
    <3> QED
      BY <2>3, <3>1, <3>2, <3>3 DEF OwnStep
  <2>4. ASSUME Distance(r)' = Distance(r), alive'
        PROVE  Chances(r) \subseteq Chances(r)'
    <3>1. Live(r)' = Live(r) /\ Running(r)' = Running(r)
      BY <1>5, <2>1, <2>2, <2>4
    <3>2. (ctx'[r] = "live" <=> ctx[r] = "live") /\ (srv'[r] = "running" <=> srv[r] = "running")
      BY <3>1 DEF Live, Running, OneIf
    <3>3. (Served(r)' <=> Served(r)) /\ (Stuck(r)' <=> Stuck(r))
      BY <2>1, <3>2 DEF Served, Stuck, Engine, Source, ExecuteRefuses
    <3>4. \A step \in OwnSteps : Chance(r, step)' <=> Chance(r, step)
      BY <2>1, <3>2, <3>3 DEF Chance, OwnSteps, ExecuteRefuses
    <3> QED
      BY <3>4 DEF Chances
  <2> QED
    BY <2>3, <2>4, <2>5
<1> QED
  BY <1>3, <1>4

\* A call under way never waits for a server or for another call: it has a step of its own
\* to take, at the latest at its deadline (the deferred calls, context.WithTimeout in
\* ExecuteQuery, and a driver that returns when its context ends).
THEOREM CallsNeverWait == Spec => []NeverWaits
  BY IInvHolds, SomeChance, PTL

\* No step leads a call away from its end, each step of its own brings it nearer, and
\* nothing takes such a step away: with FairSpec it is answered after at most 13 of them.
THEOREM CallsComeNearer == Spec => [][ComesNearer]_vars
  BY IInvHolds, NearerStep, PTL DEF Spec

=============================================================================
