---------------------------- MODULE StartupProofs ----------------------------
(***************************************************************************)
(* Proofs about Startup, for every set of environments, names and calls.   *)
(* The process implements Principals, so what is proved of Principals      *)
(* carries over; Settled relates the settings to what was read of them;    *)
(* Right says what an answer is, in terms of the environment alone.        *)
(***************************************************************************)
EXTENDS Startup, PrincipalsProofs

-----------------------------------------------------------------------------
(* The process implements Principals                                       *)

CallInv == call \in Calls

LEMMA CallStays == StartupSpec => []CallInv
  <1>1. StartupInit => CallInv
    BY StartAssumption DEF StartupInit, CallInv
  <1>2. CallInv /\ [StartupNext]_processVars => CallInv'
    BY DEF CallInv, StartupNext, processVars, clientVars, ParsePrincipals, DiscoverSources,
           RestartProcess, Unauthorized, NotFound, WrongKind, Reads, Refuses, Writes, Handles
  <1> QED BY <1>1, <1>2, PTL DEF StartupSpec

LEMMA CallFacts ==
    ASSUME CallInv
    PROVE  call.token \in Tokens \cup {NoToken} /\ call.name \in SourceNames
           /\ call.tool \in Tools \cup {"db_execute_write"}
  BY CallAssumption DEF CallInv, Call

LEMMA StepImplements == CallInv /\ [StartupNext]_processVars => [Next]_vars
  <1> SUFFICES ASSUME CallInv, [StartupNext]_processVars
               PROVE  [Next]_vars
    OBVIOUS
  <1>0. call.token \in Tokens \cup {NoToken}
    BY CallFacts
  <1>1. CASE ParsePrincipals
    BY <1>1 DEF ParsePrincipals, Next
  <1>2. CASE RestartProcess
    BY <1>2 DEF RestartProcess, Next
  <1>3. CASE DiscoverSources \/ UNCHANGED processVars
    BY <1>3 DEF DiscoverSources, processVars
  <1>4. CASE Unauthorized
    BY <1>0, <1>4 DEF Unauthorized, Next
  <1>5. CASE Handles
    BY <1>0, <1>5 DEF Handles, Next
  <1> QED BY <1>1, <1>2, <1>3, <1>4, <1>5
          DEF StartupNext, NotFound, WrongKind, Reads, Refuses, Writes

\* The process as a whole, seen through its users alone, is the behaviour of
\* Principals: discovery and the tools change nothing that decides a role (main).
THEOREM UsersImplemented == StartupSpec => Spec
  <1>1. StartupInit => Init
    BY DEF StartupInit
  <1> QED BY <1>1, CallStays, StepImplements, PTL DEF StartupSpec, Spec

\* Roles granted by the whole process are configured ones.
THEOREM ProcessRolesAreConfigured == StartupSpec => []RolesAreConfigured
  BY UsersImplemented, RolesComeFromEnv, PTL

\* In the whole process, too, the order of the maps never shows in a role.
THEOREM ProcessOrderNeverShows == StartupSpec => []EnvDecidesRoles
  BY UsersImplemented, OrderNeverShows, PTL

-----------------------------------------------------------------------------
(* What is read of the settings                                            *)

\* What cfg holds was set and read, and what was read is in cfg.
Settled ==
    /\ \A k \in DOMAIN cfg : \E v \in settings : SlotOf(v) = k /\ cfg[k] = Parsed(v)
    /\ \A v \in settings : v \in unread \/ SlotOf(v) \in DOMAIN cfg
    /\ serving => unread = {} /\ stage = "serving"
    /\ serving => sources = {s \in {SourceOf(v) : v \in settings} : Complete(s)}

SInv == SourcesTypeOK /\ CallInv /\ Settled

LEMMA SettingFacts ==
    ASSUME NEW e \in SourceEnvs, NEW v \in e
    PROVE  /\ v \in Setting /\ SlotOf(v) \in Slot /\ SourceOf(v) \in Source
           /\ Parsed(v) \in {"", "on", "off", "true", "false"}
  <1>1. v \in Setting
    BY SettingAssumption
  <1> QED BY <1>1 DEF Setting, SlotOf, Slot, SourceOf, Source, Parsed, IsTruthy

LEMMA InitSettled == StartupInit => SInv
  <1> SUFFICES ASSUME StartupInit
               PROVE  SInv
    OBVIOUS
  <1>1. settings \in SourceEnvs /\ unread = settings /\ cfg = <<>> /\ sources = {} /\ serving = FALSE
    BY DEF StartupInit, SourcesInit, SourcesStart
  <1>2. CallInv
    BY StartAssumption DEF StartupInit, CallInv
  <1> QED BY <1>1, <1>2, Start0 DEF SInv, SourcesTypeOK, Settled

\* The settings, the call and who reads what are left alone by everything but
\* the start of a process.
LEMMA Untouched ==
    ASSUME UNCHANGED <<sourceVars, stage>>, SInv
    PROVE  SourcesTypeOK' /\ Settled'
  <1>1. SourcesTypeOK'
    BY DEF sourceVars, SInv, SourcesTypeOK
  <1>2. \A s : Complete(s)' <=> Complete(s)
    BY DEF sourceVars, Complete, Value
  <1>3. Settled'
    BY <1>2 DEF sourceVars, SInv, Settled
  <1> QED BY <1>1, <1>3

LEMMA ReadSettles ==
    ASSUME SInv, NEW v \in unread, ReadSetting(v), stage' = stage
    PROVE  SourcesTypeOK' /\ Settled'
  <1> USE DEF SInv, SourcesTypeOK
  <1>1. /\ cfg' = [k \in DOMAIN cfg \cup {SlotOf(v)} |->
                     IF k = SlotOf(v) THEN Parsed(v) ELSE cfg[k]]
        /\ unread' = unread \ {v} /\ settings' = settings /\ sources' = sources
        /\ serving' = serving /\ ~serving /\ v \in settings /\ settings \in SourceEnvs
    BY DEF ReadSetting
  <1>2. Parsed(v) \in {"", "on", "off", "true", "false"}
    BY <1>1, SettingFacts
  <1>3. DOMAIN cfg' = DOMAIN cfg \cup {SlotOf(v)}
    BY <1>1
  <1>4. \A k \in DOMAIN cfg' : cfg'[k] = IF k = SlotOf(v) THEN Parsed(v) ELSE cfg[k]
    BY <1>1
  <1>5. SourcesTypeOK'
    BY <1>1, <1>2, <1>3, <1>4
  <1>6. \A k \in DOMAIN cfg' : \E w \in settings' : SlotOf(w) = k /\ cfg'[k] = Parsed(w)
    <2> TAKE k \in DOMAIN cfg'
    <2>1. CASE k = SlotOf(v)
      BY <1>1, <1>4, <2>1
    <2>2. CASE k # SlotOf(v)
      BY <1>1, <1>3, <1>4, <2>2 DEF Settled
    <2> QED BY <2>1, <2>2
  <1>7. \A w \in settings' : w \in unread' \/ SlotOf(w) \in DOMAIN cfg'
    BY <1>1, <1>3 DEF Settled
  <1> QED BY <1>1, <1>5, <1>6, <1>7 DEF Settled

LEMMA NextSettled == SInv /\ [StartupNext]_processVars => SInv'
  <1> SUFFICES ASSUME SInv, [StartupNext]_processVars
               PROVE  SInv'
    OBVIOUS
  <1>0. CallInv'
    BY DEF SInv, CallInv, StartupNext, processVars, clientVars, ParsePrincipals, DiscoverSources,
           RestartProcess, Unauthorized, NotFound, WrongKind, Reads, Refuses, Writes, Handles
  <1>1. CASE ParsePrincipals
    <2>1. stage # "serving"
      BY <1>1 DEF ParsePrincipals, ReadKeys, NextPass, AddUsers, Listen, ReadVar, AppendPrincipal
    <2>2. UNCHANGED sourceVars /\ ~serving
      BY <1>1, <2>1 DEF ParsePrincipals, SInv, Settled
    <2>3. \A s : Complete(s)' <=> Complete(s)
      BY <2>2 DEF sourceVars, Complete, Value
    <2> QED BY <1>0, <2>2, <2>3 DEF sourceVars, SInv, Settled, SourcesTypeOK
  <1>2. CASE DiscoverSources
    <2>0. stage' = stage /\ stage = "serving"
      BY <1>2 DEF DiscoverSources, vars, parseVars
    <2>1. ASSUME NEW v \in unread, ReadSetting(v)
          PROVE  SourcesTypeOK' /\ Settled'
      BY <2>0, <2>1, ReadSettles
    <2>2. CASE DiscoverAll
      <3>1. /\ ~serving /\ unread = {} /\ unread' = {} /\ settings' = settings /\ cfg' = cfg
            /\ serving' = TRUE
            /\ sources' = {s \in {SourceOf(v) : v \in settings} : Complete(s)}
        BY <2>2 DEF DiscoverAll
      <3>2. \A s : Complete(s)' <=> Complete(s)
        BY <3>1 DEF Complete, Value
      <3>3. sources' \subseteq Source
        BY <3>1, SettingFacts DEF SInv, SourcesTypeOK
      <3>4. SourcesTypeOK'
        BY <3>1, <3>3 DEF SInv, SourcesTypeOK
      <3>5. Settled'
        BY <2>0, <3>1, <3>2 DEF SInv, Settled
      <3> QED BY <1>0, <3>4, <3>5 DEF SInv
    <2> QED BY <1>0, <1>2, <2>1, <2>2 DEF DiscoverSources, SInv
  <1>3. CASE RestartProcess
    <2>1. unread' = settings /\ cfg' = <<>> /\ sources' = {} /\ serving' = FALSE /\ settings' = settings
      BY <1>3 DEF RestartProcess, SourcesRestart
    <2> QED BY <1>0, <2>1, Start0 DEF SInv, SourcesTypeOK, Settled
  <1>4. CASE UNCHANGED processVars
    BY <1>0, <1>4, Untouched DEF processVars, vars, parseVars, SInv
  <1>5. CASE Unauthorized \/ Handles
    <2>1. UNCHANGED <<sourceVars, stage>>
      BY <1>5 DEF Unauthorized, Handles, Accept, Reject, parseVars
    <2> QED BY <1>0, <2>1, Untouched DEF SInv
  <1> QED BY <1>1, <1>2, <1>3, <1>4, <1>5
          DEF StartupNext, NotFound, WrongKind, Reads, Refuses, Writes

LEMMA SettledHolds == StartupSpec => []SInv
  BY InitSettled, NextSettled, PTL DEF StartupSpec

-----------------------------------------------------------------------------
(* What an answer says                                                     *)

\* A lookup that finds a role finds a claim, and in an unambiguous environment
\* a claim is found.
LEMMA WhoWrites ==
    ASSUME PInv, stage = "serving", CanWrite
    PROVE  \E k \in Keys(env), r \in {"writer", "admin"} : Claims(k, call.token, r)
  <1>1. PICK i \in DOMAIN principals : lookup(call.token, i) /\ principals[i].role \in {"writer", "admin"}
    BY DEF CanWrite
  <1>2. principals[i].token = call.token
    BY <1>1 DEF lookup
  <1> QED BY <1>1, <1>2, ServedIsClaimed

LEMMA WritableFacts ==
    ASSUME SInv, NEW s \in Source, Writable(s)
    PROVE  /\ s.kind \in {"postgres", "mysql", "clickhouse", "sqlite"}
           /\ \E v \in settings : SourceOf(v) = s /\ v.key = "WRITE" /\ v.value = "on"
  <1> DEFINE k == [kind |-> s.kind, name |-> s.name, key |-> "WRITE"]
  <1>1. k \in DOMAIN cfg /\ cfg[k] = "true"
    BY DEF Writable, Value
  <1>2. PICK v \in settings : SlotOf(v) = k /\ cfg[k] = Parsed(v)
    BY <1>1 DEF SInv, Settled
  <1>3. v.key = "WRITE" /\ v.kind = s.kind /\ v.name = s.name
    BY <1>2 DEF SlotOf
  <1>4. v.value = "on"
    BY <1>1, <1>2, <1>3 DEF Parsed, IsTruthy
  <1>5. SourceOf(v) = s
    BY <1>3 DEF SourceOf, Source
  <1> QED BY <1>3, <1>4, <1>5 DEF Writable

\* The conclusion of WritesAreOptedIn for one answer.
OptedIn(a) ==
    /\ \/ \E i \in DOMAIN env.keys : env.keys[i].token = call.token
                                     /\ env.keys[i].role # "reader"
       \/ \E v \in env.vars : v.token = call.token /\ env.role[v.name] # "reader"
    /\ \E v \in settings : SourceOf(v) = a.source /\ v.key = "WRITE" /\ v.value = "on"
    /\ Upper[a.source.name] = Upper[call.name]
    /\ a.source.kind \in {"postgres", "mysql", "clickhouse", "sqlite"}

LEMMA NewWrite ==
    ASSUME PInv, SInv, NEW s \in sources, Writes(s)
    PROVE  OptedIn([result |-> "writes", source |-> s])
  <1>1. serving /\ Finds(s) /\ CanWrite /\ Writable(s) /\ stage = "serving"
    BY DEF Writes, Handles, requireWrite, Accept
  <1>2. s \in Source
    BY DEF SInv, SourcesTypeOK
  <1>3. Upper[s.name] = Upper[call.name]
    BY <1>1 DEF Finds, findSource, Matches
  <1>4. PICK k \in Keys(env), r \in {"writer", "admin"} : Claims(k, call.token, r)
    BY <1>1, WhoWrites
  <1>5. \/ \E i \in DOMAIN env.keys : env.keys[i].token = call.token /\ env.keys[i].role # "reader"
        \/ \E v \in env.vars : v.token = call.token /\ env.role[v.name] # "reader"
    BY <1>4 DEF Claims
  <1> QED BY <1>1, <1>2, <1>3, <1>5, WritableFacts DEF OptedIn

\* Every step leaves the answers alone or is one of the answering actions.
LEMMA AnswerSteps ==
    ASSUME SInv, [StartupNext]_processVars
    PROVE  /\ env' = env /\ call' = call /\ settings' = settings
           /\ \/ answers' = answers
              \/ Unauthorized \/ NotFound
              \/ \E s \in sources : WrongKind(s) \/ Reads(s) \/ Refuses(s) \/ Writes(s)
  BY DEF StartupNext, processVars, vars, sourceVars, clientVars, ParsePrincipals, DiscoverSources,
         RestartProcess, SourcesRestart, Restart, ReadSetting, DiscoverAll, ReadKeys, NextPass,
         AddUsers, Listen, ReadVar, AppendPrincipal, Unauthorized, NotFound, WrongKind, Reads,
         Refuses, Writes, Handles, Accept, Reject

\* No environment, order of a map or restart lets a call write to a source that
\* its own variables did not open, or for a token without a writing role
\* (findSource, requireWrite, Discover, parsePrincipals).
THEOREM WritesOptedIn == StartupSpec => []WritesAreOptedIn
  <1>1. StartupInit => WritesAreOptedIn
    BY DEF StartupInit, WritesAreOptedIn
  <1>2. PInv /\ SInv /\ WritesAreOptedIn /\ [StartupNext]_processVars => WritesAreOptedIn'
    <2> SUFFICES ASSUME PInv, SInv, WritesAreOptedIn, [StartupNext]_processVars,
                        NEW a \in answers', a.result = "writes"
                 PROVE  OptedIn(a)'
      BY DEF WritesAreOptedIn, OptedIn
    <2>0. env' = env /\ call' = call /\ settings' = settings
      BY AnswerSteps
    <2>1. OptedIn(a)' <=> OptedIn(a)
      BY <2>0 DEF OptedIn
    <2>2. CASE a \in answers
      BY <2>1, <2>2 DEF WritesAreOptedIn, OptedIn
    <2>3. ASSUME NEW result, NEW s, Says(result, s), result # "writes"
          PROVE  a \in answers
      BY <2>3 DEF Says
    <2>4. ASSUME \/ Unauthorized \/ NotFound
                 \/ \E s \in sources : WrongKind(s) \/ Reads(s) \/ Refuses(s)
          PROVE  a \in answers
      <3>1. CASE Unauthorized
        BY <2>3, <3>1 DEF Unauthorized
      <3>2. CASE NotFound
        BY <2>3, <3>2 DEF NotFound
      <3>3. ASSUME NEW s \in sources, WrongKind(s) \/ Reads(s)
            PROVE  a \in answers
        BY <2>3, <3>3 DEF WrongKind, Reads
      <3>4. ASSUME NEW s \in sources, Refuses(s)
            PROVE  a \in answers
        BY <2>3, <3>4 DEF Refuses
      <3> QED BY <2>4, <3>1, <3>2, <3>3, <3>4
    <2>5. ASSUME NEW s \in sources, Writes(s)
          PROVE  a \in answers \/ a = [result |-> "writes", source |-> s]
      BY <2>5 DEF Writes, Says
    <2> QED BY <2>1, <2>2, <2>3, <2>4, <2>5, NewWrite, AnswerSteps
  <1> QED BY <1>1, <1>2, SettledHolds, UsersImplemented, ParseHolds, PTL DEF StartupSpec

-----------------------------------------------------------------------------
(* The answer in terms of the environment alone                            *)

\* Key of source s is set to x, or is not set and x is empty.
Holds(s, key, x) ==
    LET k == [kind |-> s.kind, name |-> s.name, key |-> key] IN
    \/ \E v \in settings : SlotOf(v) = k /\ Parsed(v) = x
    \/ x = "" /\ \A v \in settings : SlotOf(v) # k

EnvComplete(s) == \E R \in Required(s.kind) : \A key \in R : ~Holds(s, key, "")
EnvSources == {s \in {SourceOf(v) : v \in settings} : EnvComplete(s)}
EnvWritable(s) ==
    s.kind \in {"postgres", "mysql", "clickhouse", "sqlite"} /\ Holds(s, "WRITE", "true")
EnvRole(R) == \E k \in Keys(env), r \in R : Claims(k, call.token, r)

ResultFor(s) ==
    IF ~OwnKind(Generic, s) THEN "wrong kind"
    ELSE IF call.tool # "db_execute_write" THEN "reads"
    ELSE IF ~EnvRole({"writer", "admin"}) THEN "forbidden"
    ELSE IF EnvWritable(s) THEN "writes" ELSE "read-only"

Right(a) ==
    IF ~EnvRole(Roles) THEN a = [result |-> "unauthorized", source |-> NoSource]
    ELSE \/ /\ Matches(EnvSources, call.name) = {}
            /\ a = [result |-> "not found", source |-> NoSource]
         \/ \E s \in EnvSources : /\ findSource(EnvSources, Generic, call.name, s)
                                  /\ a = [result |-> ResultFor(s), source |-> s]

\* Once everything is read, a consistent environment decides every value.
LEMMA ValueIsHeld ==
    ASSUME SInv, serving, Consistent, NEW s, NEW key, NEW x
    PROVE  Holds(s, key, x) <=> Value(s, key) = x
  <1> DEFINE k == [kind |-> s.kind, name |-> s.name, key |-> key]
  <1>0. Value(s, key) = IF k \in DOMAIN cfg THEN cfg[k] ELSE ""
    BY DEF Value
  <1>1. CASE k \in DOMAIN cfg
    <2>1. PICK v \in settings : SlotOf(v) = k /\ cfg[k] = Parsed(v)
      BY <1>1 DEF SInv, Settled
    <2>2. \A w \in settings : SlotOf(w) = k => Parsed(w) = cfg[k]
      BY <2>1 DEF Consistent
    <2> QED BY <1>0, <1>1, <2>1, <2>2 DEF Holds
  <1>2. CASE k \notin DOMAIN cfg
    <2>1. \A v \in settings : SlotOf(v) # k
      BY <1>2 DEF SInv, Settled
    <2> QED BY <1>0, <1>2, <2>1 DEF Holds
  <1> QED BY <1>1, <1>2

LEMMA SourcesAreEnvSources ==
    ASSUME SInv, serving, Consistent
    PROVE  sources = EnvSources /\ \A s : EnvWritable(s) <=> Writable(s)
  <1>1. ASSUME NEW s
        PROVE  EnvComplete(s) <=> Complete(s)
    <2>1. \A key : Holds(s, key, "") <=> Value(s, key) = ""
      BY ValueIsHeld
    <2> QED BY <2>1 DEF EnvComplete, Complete
  <1>2. sources = {s \in {SourceOf(v) : v \in settings} : Complete(s)}
    BY DEF SInv, Settled
  <1> QED BY <1>1, <1>2, ValueIsHeld DEF EnvSources, EnvWritable, Writable

\* In an unambiguous environment a lookup finds what the environment claims.
LEMMA RoleIsClaimed ==
    ASSUME PInv, CallInv, stage = "serving", Unambiguous
    PROVE  /\ EnvRole(Roles) <=> \E i \in DOMAIN principals : principals[i].token = call.token
           /\ (\E i \in DOMAIN principals : lookup(call.token, i)) =>
                (EnvRole({"writer", "admin"}) <=> CanWrite)
  <1>0. \A i \in DOMAIN principals : /\ principals[i].token \in Tokens
                                      /\ principals[i].role \in Roles
    <2>1. \A i \in DOMAIN principals : principals[i] \in Credential
      BY DEF PInv, TypeOK
    <2> QED BY <2>1 DEF Credential
  <1>1. ASSUME NEW i \in DOMAIN principals, principals[i].token = call.token
        PROVE  EnvRole(Roles)
    BY <1>0, <1>1, ServedIsClaimed DEF EnvRole
  <1>2. ASSUME NEW k \in Keys(env), NEW r \in Roles, Claims(k, call.token, r)
        PROVE  call.token \in Tokens /\ \E i \in DOMAIN principals : principals[i].token = call.token
    <2>1. call.token \in Tokens
      <3>1. \A i \in DOMAIN env.keys : env.keys[i] \in Credential
        BY EnvFacts DEF PInv, TypeOK
      <3>2. \A v \in env.vars : v.token \in Tokens
        BY EnvFacts DEF PInv, TypeOK, UserVar
      <3> QED BY <1>2, <3>1, <3>2 DEF Claims, Credential
    <2> QED BY <1>2, <2>1, ClaimedIsServed
  <1>3. ASSUME NEW i \in DOMAIN principals, lookup(call.token, i), EnvRole({"writer", "admin"})
        PROVE  CanWrite
    <2>1. principals[i].token = call.token
      BY <1>3 DEF lookup
    <2>2. PICK k \in Keys(env) : Claims(k, call.token, principals[i].role)
      BY <2>1, ServedIsClaimed
    <2>3. PICK m \in Keys(env), r \in {"writer", "admin"} : Claims(m, call.token, r)
      BY <1>3 DEF EnvRole
    <2>4. principals[i].role = r
      BY <1>0, <2>1, <2>2, <2>3 DEF Unambiguous, Roles
    <2> QED BY <1>3, <2>4 DEF CanWrite
  <1>4. CanWrite => EnvRole({"writer", "admin"})
    BY WhoWrites DEF EnvRole
  <1> QED BY <1>1, <1>2, <1>3, <1>4 DEF EnvRole

-----------------------------------------------------------------------------
(* A search finds at most one source                                       *)

LEMMA KindsAreOrdered ==
    /\ \A k, m \in Kinds : KindRank[k] \in Nat /\ (KindRank[k] = KindRank[m] => k = m)
    /\ \A k, m \in DOMAIN sqlKinds : sqlKinds[k] \in Nat /\ (sqlKinds[k] = sqlKinds[m] => k = m)
  BY DEF Kinds, KindRank, sqlKinds

LEMMA SortedIsTotal ==
    ASSUME NEW s \in Source, NEW q \in Source, Sorted(s, q), Sorted(q, s)
    PROVE  s = q
  <1>1. s.kind \in Kinds /\ q.kind \in Kinds /\ s.name \in SourceNames /\ q.name \in SourceNames
    BY DEF Source
  <1>2. KindRank[s.kind] \in Nat /\ KindRank[q.kind] \in Nat
    BY <1>1, KindsAreOrdered
  <1>3. s.kind = q.kind /\ NameRank[s.name] <= NameRank[q.name] /\ NameRank[q.name] <= NameRank[s.name]
    BY <1>2 DEF Sorted
  <1>4. NameRank[s.name] \in Nat /\ NameRank[q.name] \in Nat
    BY <1>1, NameAssumption
  <1>5. s.name = q.name
    BY <1>1, <1>3, <1>4, NameAssumption
  <1> QED BY <1>3, <1>5 DEF Source

LEMMA FoundOnce ==
    ASSUME NEW S \in SUBSET Source, NEW tool \in Tools, NEW n,
           NEW s \in S, NEW q \in S, findSource(S, tool, n, s), findSource(S, tool, n, q)
    PROVE  s = q
  <1> DEFINE P == Prefer(tool)
             preferred == {r \in Matches(S, n) : r.kind \in DOMAIN P}
  <1>1. \A k, m \in DOMAIN P : P[k] \in Nat /\ (P[k] = P[m] => k = m)
    BY KindsAreOrdered DEF Prefer, Tools
  <1>2. CASE preferred = {}
    BY <1>2, SortedIsTotal DEF findSource
  <1>3. CASE preferred # {}
    <2>1. /\ s \in preferred /\ q \in preferred
          /\ P[s.kind] <= P[q.kind] /\ P[q.kind] <= P[s.kind]
          /\ s.kind = q.kind => Sorted(s, q) /\ Sorted(q, s)
      BY <1>3 DEF findSource
    <2>2. s.kind = q.kind
      BY <1>1, <2>1
    <2> QED BY <2>1, <2>2, SortedIsTotal
  <1> QED BY <1>2, <1>3

LEMMA RightOnce ==
    ASSUME SInv, NEW a, NEW b, Right(a), Right(b)
    PROVE  a = b
  <1>0. EnvSources \in SUBSET Source
    BY SettingFacts DEF SInv, SourcesTypeOK, EnvSources
  <1>1. Generic \in Tools
    BY CallFacts DEF SInv, Generic, Tools
  <1>2. CASE ~EnvRole(Roles)
    BY <1>2 DEF Right
  <1>4. CASE EnvRole(Roles) /\ Matches(EnvSources, call.name) = {}
    <2>1. \A s : ~findSource(EnvSources, Generic, call.name, s)
      BY <1>4 DEF findSource
    <2> QED BY <1>4, <2>1 DEF Right
  <1>3. CASE EnvRole(Roles) /\ Matches(EnvSources, call.name) # {}
    <2>1. PICK s \in EnvSources : /\ findSource(EnvSources, Generic, call.name, s)
                                  /\ a = [result |-> ResultFor(s), source |-> s]
      BY <1>3 DEF Right
    <2>2. PICK q \in EnvSources : /\ findSource(EnvSources, Generic, call.name, q)
                                  /\ b = [result |-> ResultFor(q), source |-> q]
      BY <1>3 DEF Right
    <2>3. s = q
      BY <1>0, <1>1, <2>1, <2>2, FoundOnce
    <2> QED BY <2>1, <2>2, <2>3
  <1> QED BY <1>2, <1>3, <1>4

\* What a step of the tools answers is right.
LEMMA NewAnswer ==
    ASSUME PInv, SInv, Unambiguous, Consistent,
           \/ Unauthorized \/ NotFound
           \/ \E s \in sources : WrongKind(s) \/ Reads(s) \/ Refuses(s) \/ Writes(s)
    PROVE  \E a : Right(a) /\ answers' = answers \cup {a}
  <1>0. serving /\ stage = "serving"
    BY DEF Unauthorized, NotFound, WrongKind, Reads, Refuses, Writes, Handles, SInv, Settled
  <1>1. sources = EnvSources /\ \A s : EnvWritable(s) <=> Writable(s)
    BY <1>0, SourcesAreEnvSources
  <1>2. CallInv
    BY DEF SInv
  <1>3. CASE Unauthorized
    <2>1. ~EnvRole(Roles)
      BY <1>0, <1>2, <1>3, RoleIsClaimed DEF Unauthorized, Reject
    <2> QED BY <1>3, <2>1 DEF Unauthorized, Says, Right
  <1>4. ASSUME Handles
        PROVE  /\ EnvRole(Roles)
               /\ EnvRole({"writer", "admin"}) <=> CanWrite
    <2>1. \E i \in DOMAIN principals : lookup(call.token, i)
      BY <1>4 DEF Handles, Accept
    <2>2. \E i \in DOMAIN principals : principals[i].token = call.token
      BY <2>1 DEF lookup
    <2> QED BY <1>0, <1>2, <2>1, <2>2, RoleIsClaimed
  <1>5. CASE NotFound
    <2>1. EnvRole(Roles) /\ Matches(EnvSources, call.name) = {}
      BY <1>1, <1>4, <1>5 DEF NotFound
    <2> QED BY <1>5, <2>1 DEF NotFound, Says, Right
  <1>6. ASSUME NEW s \in sources, WrongKind(s) \/ Reads(s) \/ Refuses(s) \/ Writes(s)
        PROVE  Right([result |-> ResultFor(s), source |-> s])
               /\ answers' = answers \cup {[result |-> ResultFor(s), source |-> s]}
    <2>1. Handles /\ Finds(s)
      BY <1>6 DEF WrongKind, Reads, Refuses, Writes
    <2>2. EnvRole(Roles) /\ (EnvRole({"writer", "admin"}) <=> CanWrite)
      BY <1>4, <2>1
    <2>3. findSource(EnvSources, Generic, call.name, s) /\ s \in EnvSources
      BY <1>1, <2>1 DEF Finds
    <2>4. Right([result |-> ResultFor(s), source |-> s])
      BY <2>2, <2>3 DEF Right
    <2>5. CASE WrongKind(s)
      BY <2>5, <2>4 DEF WrongKind, Says, ResultFor
    <2>6. CASE Reads(s)
      BY <2>6, <2>4 DEF Reads, Says, ResultFor
    <2>7. call.tool = "db_execute_write" => OwnKind(Generic, s)
      BY DEF OwnKind, Generic
    <2>8. CASE Refuses(s)
      <3>1. ResultFor(s) = IF CanWrite THEN "read-only" ELSE "forbidden"
        BY <1>1, <2>2, <2>7, <2>8 DEF Refuses, requireWrite, ResultFor
      <3> QED BY <2>4, <2>8, <3>1 DEF Refuses, Says
    <2>9. CASE Writes(s)
      <3>1. ResultFor(s) = "writes"
        BY <1>1, <2>2, <2>7, <2>9 DEF Writes, requireWrite, ResultFor
      <3> QED BY <2>4, <2>9, <3>1 DEF Writes, Says
    <2> QED BY <1>6, <2>5, <2>6, <2>8, <2>9
  <1> QED BY <1>3, <1>5, <1>6

AnswersRight == Unambiguous /\ Consistent => \A a \in answers : Right(a)

LEMMA RightStays ==
    ASSUME UNCHANGED <<env, settings, call>>
    PROVE  \A a : Right(a)' <=> Right(a)
  <1>1. \A s, key, x : Holds(s, key, x)' <=> Holds(s, key, x)
    BY DEF Holds
  <1>2. EnvSources' = EnvSources /\ \A s : EnvWritable(s)' <=> EnvWritable(s)
    BY <1>1 DEF EnvSources, EnvComplete, EnvWritable
  <1>3. \A R : EnvRole(R)' <=> EnvRole(R)
    BY ClaimsStay DEF EnvRole
  <1>4. Generic' = Generic
    BY DEF Generic
  <1>5. \A s : ResultFor(s)' = ResultFor(s)
    BY <1>2, <1>3, <1>4 DEF ResultFor
  <1> QED BY <1>2, <1>3, <1>4, <1>5 DEF Right

\* The same call is given the same answer about the same source at every start,
\* in an environment without contradictions (ParsePrefixed, DiscoverAll,
\* findSource, parsePrincipals, lookup).
THEOREM AnswersDecided == StartupSpec => []EnvDecidesAnswers
  <1>1. StartupInit => AnswersRight
    BY DEF StartupInit, AnswersRight
  <1>2. PInv /\ SInv /\ AnswersRight /\ [StartupNext]_processVars => AnswersRight'
    <2> SUFFICES ASSUME PInv, SInv, AnswersRight, [StartupNext]_processVars,
                        Unambiguous', Consistent', NEW a \in answers'
                 PROVE  Right(a)'
      BY DEF AnswersRight
    <2>0. env' = env /\ call' = call /\ settings' = settings
      BY AnswerSteps
    <2>1. Unambiguous /\ Consistent
      BY <2>0, ClaimsStay DEF Consistent
    <2>2. Right(a)
      BY <2>1, AnswerSteps, NewAnswer DEF AnswersRight
    <2> QED BY <2>0, <2>2, RightStays
  <1>3. SInv /\ AnswersRight => EnvDecidesAnswers
    BY RightOnce DEF AnswersRight, EnvDecidesAnswers
  <1> QED BY <1>1, <1>2, <1>3, SettledHolds, UsersImplemented, ParseHolds, PTL DEF StartupSpec

LEMMA SaidAnswer ==
    ASSUME answers \subseteq Answer, NEW result \in Results, NEW s \in Source \cup {NoSource},
           Says(result, s)
    PROVE  answers' \subseteq Answer
  BY DEF Says, Answer

\* The variables of the whole process keep their shape.
THEOREM ProcessTypes == StartupSpec => []StartupTypeOK
  <1>1. StartupInit => answers \subseteq Answer
    BY DEF StartupInit
  <1>2. PInv /\ SInv /\ answers \subseteq Answer /\ [StartupNext]_processVars
            => (answers \subseteq Answer)'
    <2> SUFFICES ASSUME PInv, SInv, answers \subseteq Answer, [StartupNext]_processVars
                 PROVE  answers' \subseteq Answer
      OBVIOUS
    <2>1. sources \subseteq Source
      BY DEF SInv, SourcesTypeOK
    <2>2. {"unauthorized", "not found", "wrong kind", "reads", "read-only", "forbidden", "writes"}
            \subseteq Results
      BY DEF Results
    <2>3. CASE Unauthorized
      BY <2>2, <2>3, SaidAnswer DEF Unauthorized
    <2>4. CASE NotFound
      BY <2>2, <2>4, SaidAnswer DEF NotFound
    <2>5. ASSUME NEW s \in sources, WrongKind(s) \/ Reads(s) \/ Writes(s)
          PROVE  answers' \subseteq Answer
      BY <2>1, <2>2, <2>5, SaidAnswer DEF WrongKind, Reads, Writes
    <2>6. ASSUME NEW s \in sources, Refuses(s)
          PROVE  answers' \subseteq Answer
      BY <2>1, <2>2, <2>6, SaidAnswer DEF Refuses
    <2> QED BY <2>3, <2>4, <2>5, <2>6, AnswerSteps
  <1>3. PInv /\ SInv /\ answers \subseteq Answer => StartupTypeOK
    BY DEF PInv, SInv, CallInv, Settled, StartupTypeOK
  <1> QED BY <1>1, <1>2, <1>3, SettledHolds, UsersImplemented, ParseHolds, PTL DEF StartupSpec

=============================================================================
