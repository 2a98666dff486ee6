--------------------------- MODULE ToolCallsProofs ---------------------------
(***************************************************************************)
(* Proofs about ToolCalls, for any messages, items, limits and timeouts.   *)
(* They start with the programs: what a failed request drops is part of    *)
(* its program, only redis_keys scans, and an error that names a deadline  *)
(* is Elasticsearch's or comes after WriteTimeout.                         *)
(***************************************************************************)
EXTENDS ToolCalls, FiniteSetTheorems, TLAPS

-----------------------------------------------------------------------------
(* Programs                                                                *)

Cards == {"db_table_card", "db_table_card_full"}

\* What the proofs need of a request of the call m that n more follow.
GoodRequest(r, m, n) ==
    /\ r \in Request
    /\ r.drops <= n /\ r.instead <= n
    /\ r.how = "scan" => m.tool = "redis_keys"
    /\ r.how = "panics" => m.tool = "db_execute_query" /\ m.comment
    /\ r.tells => m.engine = "elasticsearch" \/ r.within = WriteTimeout
    /\ "blank" \in {r.onError, r.onCut} => <<m.engine, r.part>> \in KnownBlank
    /\ r.within # None => n = 0 /\ m.tool \notin Cards

GoodProgram(P, m) ==
    /\ P \in Seq(Request)
    /\ \A n \in 1 .. Len(P) : GoodRequest(P[n], m, Len(P) - n)

\* No request at all.
LEMMA EmptyIsGood == \A m : GoodProgram(<<>>, m)
  BY DEF GoodProgram

\* One, two and three requests.
LEMMA OneIsGood ==
  ASSUME NEW m, NEW r, GoodRequest(r, m, 0)
  PROVE  GoodProgram(<<r>>, m)
  BY DEF GoodProgram, GoodRequest

LEMMA TwoAreGood ==
  ASSUME NEW m, NEW r, NEW s, GoodRequest(r, m, 1), GoodRequest(s, m, 0)
  PROVE  GoodProgram(<<r, s>>, m)
  BY DEF GoodProgram, GoodRequest

LEMMA ThreeAreGood ==
  ASSUME NEW m, NEW r, NEW s, NEW t,
         GoodRequest(r, m, 2), GoodRequest(s, m, 1), GoodRequest(t, m, 0)
  PROVE  GoodProgram(<<r, s, t>>, m)
  BY DEF GoodProgram, GoodRequest

\* One program after the other: more requests follow, and nothing else changes.  Only a
\* card is put together, and none of its requests has a deadline.
LEMMA BothAreGood ==
  ASSUME NEW m, m.tool \in Cards, NEW P, NEW Q, GoodProgram(P, m), GoodProgram(Q, m)
  PROVE  GoodProgram(P \o Q, m)
<1>1. P \in Seq(Request) /\ Q \in Seq(Request)
  BY DEF GoodProgram
<1>2. P \o Q \in Seq(Request) /\ Len(P \o Q) = Len(P) + Len(Q)
  BY <1>1
<1>3. ASSUME NEW n \in 1 .. Len(P \o Q)
      PROVE  GoodRequest((P \o Q)[n], m, Len(P \o Q) - n)
  <2>1. CASE n <= Len(P)
    <3>1. (P \o Q)[n] = P[n] /\ n \in 1 .. Len(P)
      BY <1>1, <1>2, <2>1
    <3>2. GoodRequest(P[n], m, Len(P) - n)
      BY <3>1 DEF GoodProgram
    <3>3. P[n].drops \in Nat /\ P[n].instead \in Nat
      BY <3>2 DEF GoodRequest, Request
    <3> QED
      BY <1>1, <1>2, <3>1, <3>2, <3>3 DEF GoodRequest
  <2>2. CASE n > Len(P)
    <3>1. (P \o Q)[n] = Q[n - Len(P)] /\ n - Len(P) \in 1 .. Len(Q)
      BY <1>1, <1>2, <2>2
    <3>2. GoodRequest(Q[n - Len(P)], m, Len(Q) - (n - Len(P)))
      BY <3>1 DEF GoodProgram
    <3>3. Len(Q) - (n - Len(P)) = Len(P \o Q) - n
      BY <1>1, <1>2
    <3> QED
      BY <3>1, <3>2, <3>3
  <2> QED
    BY <1>1, <1>2, <2>1, <2>2
<1> QED
  BY <1>2, <1>3 DEF GoodProgram

\* The names that requests use.
LEMMA Names ==
  /\ {"schemas", "tables", "columns", "stats", "index_names", "sample", "foreign_keys",
      "primary_key", "references", "indexes", "result", "documents", "keys", "type",
      "value", "info", "indices", "fields", "hits"} \subseteq Parts
  /\ {"rows", "cursor", "body", "type", "value", "refused"} \subseteq Hows \ {"scan", "panics"}
  /\ {"fail", "skip", "note", "ignore", "fail_unless_gone"} \subseteq Policies \ {"blank"}
  BY DEF Parts, Hows, Policies

\* A plain request, whatever is done about its errors.
LEMMA AskIsGood ==
  ASSUME NEW m, NEW p \in Parts, NEW h \in Hows, NEW e \in Policies, NEW c \in Policies,
         h \notin {"scan", "panics"}, NEW n \in Nat,
         "blank" \in {e, c} => <<m.engine, p>> \in KnownBlank
  PROVE  GoodRequest(Ask(p, h, e, c), m, n)
  BY DEF GoodRequest, Ask, Request, None, NoLimit

LEMMA MustIsGood ==
  ASSUME NEW m, NEW p \in Parts, NEW h \in Hows, h \notin {"scan", "panics"}, NEW n \in Nat
  PROVE  GoodRequest(Must(p, h), m, n) /\ GoodRequest(May(p, h), m, n)
  BY AskIsGood DEF Must, May, Policies

\* Requests with more to say.
LEMMA NeededIsGood ==
  ASSUME NEW m, NEW n \in Nat, NEW r, GoodRequest(r, m, n)
  PROVE  GoodRequest(Needed(r), m, n)
  BY DEF Needed, GoodRequest, Request

LEMMA DroppingIsGood ==
  ASSUME NEW m, NEW n \in Nat, NEW r, GoodRequest(r, m, n), NEW k \in Nat, k <= n
  PROVE  GoodRequest(Dropping(r, k), m, n)
  BY DEF Dropping, GoodRequest, Request

LEMMA SparingIsGood ==
  ASSUME NEW m, NEW n \in Nat, NEW r, GoodRequest(r, m, n), NEW k \in Nat, k <= n
  PROVE  GoodRequest(Sparing(r, k), m, n)
  BY DEF Sparing, GoodRequest, Request

LEMMA LimitedIsGood ==
  ASSUME NEW m, NEW n \in Nat, NEW r, GoodRequest(r, m, n), NEW x \in Int
  PROVE  GoodRequest(Limited(r, x), m, n)
  BY DEF Limited, GoodRequest, Request

LEMMA PartialIsGood ==
  ASSUME NEW m, NEW n \in Nat, NEW r, GoodRequest(r, m, n)
  PROVE  GoodRequest(Partial(r), m, n)
  BY DEF Partial, GoodRequest, Request

LEMMA WithinIsGood ==
  ASSUME NEW m, NEW n \in Nat, NEW r, GoodRequest(r, m, n), NEW w \in Nat, NEW t \in BOOLEAN,
         m.engine = "elasticsearch" \/ (t => w = WriteTimeout), n = 0, m.tool \notin Cards
  PROVE  GoodRequest(Within(r, w, t), m, n)
  BY DEF Within, GoodRequest, Request

LEMMA CatalogIsGood ==
  ASSUME NEW e PROVE Catalog(e) \in Hows \ {"scan", "panics"}
  BY DEF Catalog, Hows

\* The programs that consist of plain requests, or of one with more to say.
LEMMA ListsAreGood ==
  ASSUME NEW m, NEW e
  PROVE  /\ GoodProgram(ListSchemas(e), m)
         /\ GoodProgram(<<ListColumns(e)>>, m)
         /\ GoodProgram(<<Needed(ListColumns(e))>>, m)
         /\ GoodRequest(ResolveIndex, m, 0)
<1>1. \A p \in Parts : GoodRequest(Must(p, Catalog(e)), m, 0)
  BY MustIsGood, CatalogIsGood
<1>2. GoodRequest(ResolveIndex, m, 0)
  BY MustIsGood DEF Parts, Hows, ResolveIndex
<1>3. GoodProgram(ListSchemas(e), m)
  BY <1>1, EmptyIsGood, OneIsGood DEF ListSchemas, Parts
<1>4. GoodRequest(ListColumns(e), m, 0)
  BY <1>1 DEF ListColumns, Parts
<1>5. GoodProgram(<<ListColumns(e)>>, m)
  BY <1>4, OneIsGood
<1>6. GoodProgram(<<Needed(ListColumns(e))>>, m)
  BY <1>4, NeededIsGood, OneIsGood
<1> QED
  BY <1>2, <1>3, <1>5, <1>6

\* _cat/indices, and what serves a 403 after it.
LEMMA CatIsGood ==
  ASSUME NEW m, NEW c \in Policies \ {"blank"}, NEW limit \in Int
  PROVE  GoodProgram(CatIndices(c, limit), m)
<1>1. GoodRequest(Ask("indices", "body", "fail", c), m, 1)
  BY AskIsGood, Names
<1>2. GoodRequest(Limited(Sparing(Ask("indices", "body", "fail", c), 1), limit), m, 1)
  BY <1>1, SparingIsGood, LimitedIsGood
<1>3. GoodRequest(Limited(ResolveIndex, limit), m, 0)
  BY ListsAreGood, LimitedIsGood
<1> QED
  BY <1>2, <1>3, TwoAreGood DEF CatIndices

LEMMA TablesAreGood ==
  ASSUME NEW m, NEW e
  PROVE  GoodProgram(ListTables(e), m)
<1>1. GoodProgram(<<Must("tables", Catalog(e))>>, m)
  BY MustIsGood, CatalogIsGood, OneIsGood DEF Parts
<1>2. GoodProgram(CatIndices("fail", NoLimit), m)
  <2>1. "fail" \in Policies \ {"blank"} /\ NoLimit \in Int
    BY DEF Policies, NoLimit
  <2> QED BY <2>1, CatIsGood
<1> QED
  BY <1>1, <1>2 DEF ListTables

\* The parts of a card.
LEMMA StatsAreGood ==
  ASSUME NEW m
  PROVE  GoodProgram(TableStats(m.engine), m)
<1>1. /\ GoodRequest(May("stats", "body"), m, 0) /\ GoodRequest(May("stats", "body"), m, 1)
      /\ GoodRequest(May("stats", "refused"), m, 0)
  BY MustIsGood DEF Parts, Hows
<1>2. GoodRequest(Dropping(May("stats", "body"), 1), m, 1)
  BY <1>1, DroppingIsGood
<1>3. {"blank", "ignore"} \subseteq Policies /\ {"body", "rows"} \subseteq Hows \ {"scan", "panics"}
      /\ {"stats", "index_names"} \subseteq Parts
  BY DEF Policies, Hows, Parts
<1>4. m.engine \in {"postgres", "mysql", "sqlite"} => GoodRequest(IndexNames, m, 0)
  BY <1>3, AskIsGood DEF IndexNames, KnownBlank
<1>5. m.engine = "sqlite" => GoodRequest(Ask("stats", "body", "blank", "blank"), m, 1)
  BY <1>3, AskIsGood DEF KnownBlank
<1>6. /\ GoodProgram(<<May("stats", "body")>>, m) /\ GoodProgram(<<May("stats", "refused")>>, m)
      /\ m.engine \in {"postgres", "mysql"} =>
            GoodProgram(<<Dropping(May("stats", "body"), 1), IndexNames>>, m)
      /\ m.engine = "sqlite" =>
            GoodProgram(<<Ask("stats", "body", "blank", "blank"), IndexNames>>, m)
  BY <1>1, <1>2, <1>4, <1>5, OneIsGood, TwoAreGood
<1> QED
  BY <1>6 DEF TableStats

LEMMA SampleIsGood ==
  ASSUME NEW m, NEW e
  PROVE  GoodProgram(SampleRows(e), m)
<1>1. ASSUME NEW h \in {"cursor", Catalog(e)}
      PROVE  GoodRequest(Limited(May("sample", h), SampleLimit), m, 0)
  <2>1. h \in Hows \ {"scan", "panics"} /\ "sample" \in Parts
    BY CatalogIsGood DEF Parts, Hows
  <2>2. GoodRequest(May("sample", h), m, 0)
    BY <2>1, MustIsGood
  <2>3. SampleLimit \in Int
    BY BoundAssumption
  <2> QED BY <2>2, <2>3, LimitedIsGood
<1> QED
  BY <1>1, OneIsGood DEF SampleRows

LEMMA DetailsAreGood ==
  ASSUME NEW m, NEW e
  PROVE  GoodProgram(TableDetails(e), m)
<1>1. GoodRequest(Dropping(Ask("primary_key", "rows", "note", "ignore"), 2), m, 2)
  <2>1. GoodRequest(Ask("primary_key", "rows", "note", "ignore"), m, 2)
    BY AskIsGood, Names
  <2> QED BY <2>1, DroppingIsGood
<1>2. GoodRequest(Dropping(Ask("references", "rows", "note", "ignore"), 1), m, 1)
  <2>1. GoodRequest(Ask("references", "rows", "note", "ignore"), m, 1)
    BY AskIsGood, Names
  <2> QED BY <2>1, DroppingIsGood
<1>3. GoodRequest(Dropping(Ask("primary_key", "body", "note", "note"), 1), m, 1)
  <2>1. GoodRequest(Ask("primary_key", "body", "note", "note"), m, 1)
    BY AskIsGood, Names
  <2> QED BY <2>1, DroppingIsGood
<1>4. GoodRequest(Ask("indexes", "rows", "note", "note"), m, 0)
      /\ GoodRequest(Ask("indexes", "rows", "skip", "note"), m, 0)
  BY AskIsGood, Names
<1> QED
  BY <1>1, <1>2, <1>3, <1>4, EmptyIsGood, TwoAreGood, ThreeAreGood DEF TableDetails

LEMMA RelationshipsAreGood ==
  ASSUME NEW m, NEW e
  PROVE  /\ GoodProgram(FindRelationships(e, May("foreign_keys", "rows")), m)
         /\ GoodProgram(FindRelationships(e, Must("foreign_keys", "rows")), m)
<1>1. GoodRequest(May("foreign_keys", "rows"), m, 0) /\ GoodRequest(Must("foreign_keys", "rows"), m, 0)
  BY MustIsGood DEF Parts, Hows
<1> QED
  BY <1>1, EmptyIsGood, OneIsGood DEF FindRelationships

LEMMA CardIsGood ==
  ASSUME NEW m, m.tool \in Cards
  PROVE  GoodProgram(TableCard(m), m) /\ GoodProgram(TableCard(m) \o AddFullCard(m.engine), m)
<1>1. GoodProgram(AddFullCard(m.engine), m)
  BY RelationshipsAreGood, DetailsAreGood, BothAreGood DEF AddFullCard
<1>2. GoodProgram(<<Needed(ListColumns(m.engine))>>, m)
  BY ListsAreGood
<1>3. GoodProgram(IF m.sample THEN SampleRows(m.engine) ELSE <<>>, m)
  BY SampleIsGood, EmptyIsGood
<1>4. GoodProgram(<<Needed(ListColumns(m.engine))>> \o TableStats(m.engine), m)
  BY <1>2, StatsAreGood, BothAreGood
<1>5. GoodProgram(TableCard(m), m)
  BY <1>3, <1>4, BothAreGood DEF TableCard
<1> QED
  BY <1>1, <1>5, BothAreGood

\* Statements, documents and searches.
LEMMA StatementIsGood ==
  ASSUME NEW m, NEW e, NEW comment \in BOOLEAN, m.tool = "db_execute_query", comment => m.comment
  PROVE  GoodProgram(ExecuteQuery(e, comment), m)
<1>1. GoodRequest(Must("result", "refused"), m, 0)
  BY MustIsGood DEF Parts, Hows
<1>2. ASSUME NEW c \in Policies \ {"blank"}, NEW w \in Nat, NEW t \in BOOLEAN,
             t => w = WriteTimeout
      PROVE  GoodProgram(<<Within(Ask("result", "rows", "fail", c), w, t)>>, m)
  <2>1. GoodRequest(Ask("result", "rows", "fail", c), m, 0)
    BY AskIsGood, Names
  <2>2. m.tool \notin Cards
    BY DEF Cards
  <2> QED BY <1>2, <2>1, <2>2, WithinIsGood, OneIsGood
<1>3. ASSUME NEW c, NEW w, NEW t,
             c = IF e = "postgres" THEN "fail_unless_gone" ELSE "fail",
             w = IF e = "sqlite" THEN SqliteTimeout ELSE WriteTimeout,
             t = (e = "postgres")
      PROVE  GoodProgram(<<Within(Ask("result", "rows", "fail", c), w, t)>>, m)
  <2>1. c \in Policies \ {"blank"} /\ w \in Nat /\ t \in BOOLEAN /\ (t => w = WriteTimeout)
    <3>1. c \in Policies \ {"blank"}
      BY <1>3 DEF Policies
    <3>2. w \in Nat /\ (t => w = WriteTimeout)
      <4>1. WriteTimeout \in Nat /\ SqliteTimeout \in Nat
        BY BoundAssumption
      <4>2. t => e # "sqlite"
        BY <1>3
      <4> QED BY <1>3, <4>1, <4>2
    <3> QED BY <1>3, <3>1, <3>2
  <2> QED BY <1>2, <2>1
<1>4. e \in SqlKinds /\ ~comment => GoodProgram(ExecuteQuery(e, comment), m)
  BY <1>3 DEF ExecuteQuery
<1>5. e \notin SqlKinds => GoodProgram(ExecuteQuery(e, comment), m)
  BY <1>1, OneIsGood DEF ExecuteQuery
<1>6. e \in SqlKinds /\ comment => GoodProgram(ExecuteQuery(e, comment), m)
  <2>1. comment => GoodRequest(Must("result", "panics"), m, 0)
    BY DEF GoodRequest, Must, Ask, Request, None, NoLimit, Parts, Hows, Policies
  <2> QED BY <2>1, OneIsGood DEF ExecuteQuery
<1> QED
  BY <1>4, <1>5, <1>6

LEMMA DocumentsAreGood ==
  ASSUME NEW m, NEW limit \in Int
  PROVE  GoodProgram(MongoFind(limit), m) /\ GoodProgram(MongoAggregate(limit), m)
<1>1. ASSUME NEW n \in Int
      PROVE  GoodRequest(Limited(Ask("documents", "cursor", "fail", "ignore"), n), m, 0)
  <2>1. GoodRequest(Ask("documents", "cursor", "fail", "ignore"), m, 0)
    BY AskIsGood, Names
  <2> QED BY <2>1, LimitedIsGood
<1>2. GoodProgram(MongoFind(limit), m)
  BY <1>1, OneIsGood DEF MongoFind, NoLimit
<1>3. GoodRequest(Must("documents", "refused"), m, 0)
  BY MustIsGood DEF Parts, Hows
<1> QED
  BY <1>2, <1>3, OneIsGood DEF MongoAggregate

LEMMA SearchesAreGood ==
  ASSUME NEW m \in Message, m.engine = "elasticsearch", m.tool \notin Cards
  PROVE  /\ GoodProgram(<<RunSearch(m)>>, m) /\ GoodProgram(DescribeIndex(m), m)
         /\ GoodProgram(<<Limited(FetchFieldCaps, m.maxFields)>>, m)
<1>0. m.timeout \in Nat /\ m.limit \in Int /\ m.maxFields \in Int /\ m.maxIndices \in Int
  BY DEF Message
<1>1. GoodRequest(RunSearch(m), m, 0)
  <2>1. GoodRequest(Must("hits", "body"), m, 0) /\ GoodRequest(Must("hits", "refused"), m, 0)
    BY MustIsGood DEF Parts, Hows
  <2>2. GoodRequest(Partial(Within(Must("hits", "body"), m.timeout, TRUE)), m, 0)
    BY <1>0, <2>1, WithinIsGood, PartialIsGood
  <2> QED BY <1>0, <2>1, <2>2, LimitedIsGood DEF RunSearch
<1>2. GoodRequest(Limited(ResolveIndex, m.maxIndices), m, 2)
  <2>1. GoodRequest(ResolveIndex, m, 2)
    BY MustIsGood DEF ResolveIndex, Parts, Hows
  <2> QED BY <1>0, <2>1, LimitedIsGood
<1>3. ASSUME NEW n \in {0, 1} PROVE GoodRequest(Limited(FetchFieldCaps, m.maxFields), m, n)
  <2>1. GoodRequest(FetchFieldCaps, m, n)
    BY MustIsGood, PartialIsGood DEF FetchFieldCaps, Parts, Hows
  <2> QED BY <1>0, <2>1, LimitedIsGood
<1> QED
  BY <1>1, <1>2, <1>3, OneIsGood, ThreeAreGood DEF DescribeIndex

\* The program of every message.
LEMMA ProgramsAreGood ==
  ASSUME NEW m \in Messages
  PROVE  GoodProgram(ProgramOf(m), m)
<1>1. m \in Message /\ m.limit \in Int
  BY MessageAssumption DEF Message
<1>2. m.tool \in EsTools => m.engine = "elasticsearch"
  BY MessageAssumption
<1>3. m.tool = "redis_keys" => GoodProgram(<<Must("keys", "scan")>>, m)
  <2>1. m.tool = "redis_keys" => GoodRequest(Must("keys", "scan"), m, 0)
    BY DEF GoodRequest, Must, Ask, Request, None, NoLimit, Parts, Hows, Policies
  <2> QED BY <2>1, OneIsGood
<1>4. GoodProgram(RedisGet, m) /\ GoodProgram(<<ResolveIndex>>, m)
      /\ GoodProgram(<<Must("info", "body")>>, m) /\ GoodProgram(<<Must("tables", "body")>>, m)
  <2>1. GoodRequest(Must("type", "type"), m, 1) /\ GoodRequest(Must("value", "value"), m, 0)
        /\ GoodRequest(Must("info", "body"), m, 0) /\ GoodRequest(Must("tables", "body"), m, 0)
    BY MustIsGood DEF Parts, Hows
  <2> QED BY <2>1, ListsAreGood, OneIsGood, TwoAreGood DEF RedisGet
<1>5. GoodProgram(CatIndices("ignore", m.limit), m)
  BY <1>1, CatIsGood DEF Policies
<1>6. m.tool \in EsTools => /\ GoodProgram(<<RunSearch(m)>>, m) /\ GoodProgram(DescribeIndex(m), m)
                           /\ GoodProgram(<<Limited(FetchFieldCaps, m.maxFields)>>, m)
  BY <1>1, <1>2, SearchesAreGood DEF EsTools, Cards
<1>7. GoodProgram(MongoFind(m.limit), m) /\ GoodProgram(MongoAggregate(m.limit), m)
  BY <1>1, DocumentsAreGood
<1>8. m.tool = "db_execute_query" => GoodProgram(ExecuteQuery(m.engine, m.comment), m)
  BY <1>1, StatementIsGood DEF Message
<1>9. m.tool \in Cards => /\ GoodProgram(TableCard(m), m)
                         /\ GoodProgram(TableCard(m) \o AddFullCard(m.engine), m)
  BY CardIsGood
<1>10. CASE m.tool \in Cards
  BY <1>9, <1>10 DEF ProgramOf, Cards
<1> QED
  BY <1>3, <1>4, <1>5, <1>6, <1>7, <1>8, <1>10, EmptyIsGood, ListsAreGood, TablesAreGood,
     RelationshipsAreGood DEF ProgramOf, EsTools, Cards

-----------------------------------------------------------------------------
(* Types                                                                   *)

\* The current request, and what its failure drops, is in the program.
LEMMA CurrentIsGood ==
  ASSUME message \in Messages
  PROVE  /\ Len(Program) \in Nat
         /\ pos \in 1 .. Len(Program) =>
               /\ GoodRequest(Current, message, Len(Program) - pos)
               /\ Current \in Request
               /\ pos + Current.drops <= Len(Program) /\ pos + Current.instead <= Len(Program)
<1>1. GoodProgram(Program, message)
  BY ProgramsAreGood DEF Program
<1>2. Len(Program) \in Nat
  BY <1>1 DEF GoodProgram
<1>3. ASSUME pos \in 1 .. Len(Program)
      PROVE  GoodRequest(Current, message, Len(Program) - pos)
  BY <1>1, <1>3 DEF GoodProgram, Current
<1>4. ASSUME pos \in 1 .. Len(Program)
      PROVE  Current \in Request /\ pos + Current.drops <= Len(Program)
             /\ pos + Current.instead <= Len(Program)
  BY <1>2, <1>3, <1>4 DEF GoodRequest, Request
<1> QED
  BY <1>2, <1>3, <1>4

\* Going on and ending stay within the program.
LEMMA GoesTypes ==
  ASSUME CallTypeOK, pos <= Len(Program), NEW n \in Nat, pos + n <= Len(Program),
         Goes(n), message' = message
  PROVE  /\ phase' = "ready" /\ result' \in Results
         /\ pos' \in 1 .. (Len(Program') + 1)
<1>1. Program' = Program /\ Len(Program) \in Nat /\ pos \in Nat /\ pos >= 1
  BY CurrentIsGood DEF Program, CallTypeOK
<1> QED
  BY <1>1 DEF Goes, CallTypeOK

LEMMA EndsTypes ==
  ASSUME CallTypeOK, NEW r \in Results, Ends(r), message' = message
  PROVE  /\ phase' = "answering" /\ result' \in Results
         /\ pos' \in 1 .. (Len(Program') + 1)
<1>1. Program' = Program
  BY DEF Program
<1> QED
  BY <1>1 DEF Ends, CallTypeOK

\* The part of CallTypeOK that a step of the handler must establish anew.
HandlerTyped ==
    /\ phase \in {"received", "ready", "sent", "reading", "answering", "done"}
    /\ pos \in 1 .. (Len(Program) + 1)
    /\ phase \in {"sent", "reading"} => pos <= Len(Program)
    /\ due \in Nat /\ count \in Nat
    /\ batch \subseteq Items /\ got \subseteq Items
    /\ shape \in RedisTypes \cup {"none"} /\ noted \in BOOLEAN /\ blank \subseteq Parts
    /\ result \in Results

LEMMA HandlerStepTypes ==
  ASSUME CallTypeOK, HandlerTyped', UNCHANGED <<message, age, client, otherVars>>
  PROVE  CallTypeOK'
  BY DEF CallTypeOK, HandlerTyped, otherVars

LEMMA TroubleTypes ==
  ASSUME CallTypeOK, pos <= Len(Program), NEW policy, NEW late,
         Trouble(policy, Current.drops, late)
  PROVE  CallTypeOK'
<1>1. UNCHANGED <<message, age, client, otherVars, count, shape>> /\ due' = None /\ batch' = {}
  BY DEF Trouble, Closes, otherVars
<1>2. pos \in 1 .. Len(Program) /\ message \in Messages
  BY CurrentIsGood DEF CallTypeOK
<1>3. Current.drops \in Nat /\ pos + Current.drops <= Len(Program)
      /\ 0 \in Nat /\ pos + 0 <= Len(Program) /\ Current.part \in Parts
  BY <1>2, CurrentIsGood DEF Request
<1>4. {"failed", "deadline"} \subseteq Results
  BY DEF Results, Failures
<1>5. \/ \E r \in Results : Ends(r) /\ UNCHANGED <<got, noted, blank>>
      \/ \E n \in {Current.drops, 0} : /\ Goes(n) /\ got' \subseteq got /\ noted' \in BOOLEAN
                                       /\ blank' \subseteq Parts
  BY <1>3, <1>4 DEF Trouble, CallTypeOK
<1> DEFINE Outcome == /\ phase' \in {"ready", "answering"} /\ result' \in Results
                      /\ pos' \in 1 .. (Len(Program') + 1)
                      /\ got' \subseteq Items /\ noted' \in BOOLEAN /\ blank' \subseteq Parts
<1>6. Outcome
  <2>1. ASSUME NEW r \in Results, Ends(r), UNCHANGED <<got, noted, blank>>
        PROVE  Outcome
    BY <1>1, <2>1, EndsTypes DEF CallTypeOK
  <2>2. ASSUME NEW n \in {Current.drops, 0}, Goes(n), got' \subseteq got, noted' \in BOOLEAN,
               blank' \subseteq Parts
        PROVE  Outcome
    BY <1>1, <1>2, <1>3, <2>2, GoesTypes DEF CallTypeOK
  <2> QED BY <1>5, <2>1, <2>2
<1>7. HandlerTyped'
  BY <1>1, <1>6 DEF HandlerTyped, CallTypeOK, None
<1> QED
  BY <1>1, <1>7, HandlerStepTypes

LEMMA AnswersTypes ==
  ASSUME CallTypeOK, pos <= Len(Program), NEW T \in SUBSET Items, Answers(T)
  PROVE  CallTypeOK'
<1>1. UNCHANGED <<message, age, client, otherVars, count, shape, noted, blank>> /\ due' = None
      /\ batch' = {} /\ got' = got \cup T
  BY DEF Answers, Closes, otherVars
<1>2. pos \in 1 .. Len(Program) /\ message \in Messages
  BY CurrentIsGood DEF CallTypeOK
<1>3. Current.instead \in Nat /\ pos + Current.instead <= Len(Program)
  BY <1>2, CurrentIsGood DEF Request
<1>4. Ends("not_found") \/ Goes(Current.instead)
  BY DEF Answers
<1>5. "not_found" \in Results
  BY DEF Results, Failures
<1>6. phase' \in {"ready", "answering"} /\ result' \in Results /\ pos' \in 1 .. (Len(Program') + 1)
  BY <1>1, <1>2, <1>3, <1>4, <1>5, EndsTypes, GoesTypes
<1>7. HandlerTyped'
  BY <1>1, <1>6 DEF HandlerTyped, CallTypeOK, None
<1> QED
  BY <1>1, <1>7, HandlerStepTypes

\* What can be read of the store.
LEMMA AtMostWithin ==
  ASSUME NEW S, NEW n, NEW T \in AtMost(S, n)
  PROVE  T \subseteq S
  BY DEF AtMost

LEMMA PartsOfWithin ==
  ASSUME NEW S, NEW n, NEW T \in PartsOf(S, n)
  PROVE  T \subseteq S
<1>1. PICK U \in SUBSET S : T \in AtMost(U, n)
  BY DEF PartsOf
<1> QED BY <1>1, AtMostWithin

LEMMA BodyWithin ==
  ASSUME Body
  PROVE  \E T : T \subseteq Of(store, Current.part) /\ Answers(T)
<1>1. CASE Current.partial
  <2>1. PICK T \in PartsOf(Of(store, Current.part), Current.most) : Answers(T)
    BY <1>1 DEF Body
  <2> QED BY <2>1, PartsOfWithin
<1>2. CASE ~Current.partial
  <2>1. PICK T \in AtMost(Of(store, Current.part), Current.most) : Answers(T)
    BY <1>2 DEF Body
  <2> QED BY <2>1, AtMostWithin
<1> QED BY <1>1, <1>2

LEMMA OfWithin ==
  ASSUME NEW S, NEW part
  PROVE  Of(S, part) \subseteq S
  BY DEF Of

\* A set of items has a size.
LEMMA ItemsAreFinite ==
  ASSUME NEW S \in SUBSET Items
  PROVE  IsFiniteSet(S) /\ Cardinality(S) \in Nat
  BY ItemAssumption, FS_Subset, FS_CardinalityType

LEMMA ScanTypes ==
  ASSUME CallTypeOK, NEW B \in SUBSET Of(store, "keys"), ScanGoesOn(B) \/ ScanEnds(B)
  PROVE  CallTypeOK'
<1>1. B \subseteq Items /\ Cardinality(B) \in Nat
  BY OfWithin, ItemsAreFinite DEF CallTypeOK
<1>2. CASE ScanGoesOn(B)
  <2>1. HandlerTyped'
    BY <1>1, <1>2 DEF ScanGoesOn, HandlerTyped, CallTypeOK, Program
  <2>2. UNCHANGED <<message, age, client, otherVars>>
    BY <1>2 DEF ScanGoesOn
  <2> QED BY <2>1, <2>2, HandlerStepTypes
<1>3. CASE ScanEnds(B)
  <2>1. UNCHANGED <<message, age, client, otherVars, shape, noted, blank>> /\ due' = None /\ batch' = {}
        /\ count' = count + Cardinality(B) /\ pos <= Len(Program)
    BY <1>3 DEF ScanEnds, Closes, otherVars, CallTypeOK
  <2>2. Len(Program) \in Nat /\ pos \in Nat /\ message \in Messages
    BY CurrentIsGood DEF CallTypeOK
  <2>3. got' \subseteq Items
    BY <1>1, <1>3 DEF ScanEnds, Truncated, CallTypeOK
  <2>4. Ends("panic") \/ Goes(0)
    BY <1>3 DEF ScanEnds
  <2>5. "panic" \in Results
    BY DEF Results, Failures
  <2>6. 0 \in Nat /\ pos + 0 <= Len(Program)
    BY <2>1, <2>2
  <2>7. phase' \in {"ready", "answering"} /\ result' \in Results /\ pos' \in 1 .. (Len(Program') + 1)
    BY <2>1, <2>4, <2>5, <2>6, EndsTypes, GoesTypes
  <2>8. HandlerTyped'
    BY <1>1, <2>1, <2>3, <2>7 DEF HandlerTyped, CallTypeOK, None
  <2> QED BY <2>1, <2>8, HandlerStepTypes
<1> QED BY <1>2, <1>3

LEMMA TypeInit == CallInit => CallTypeOK
  <1> SUFFICES ASSUME CallInit PROVE CallTypeOK
    OBVIOUS
  <1>1. message \in Messages /\ Len(Program) \in Nat
    BY CurrentIsGood DEF CallInit
  <1>2. "none" \in Results
    BY DEF Results
  <1>3. store \subseteq Items /\ changes \in 0 .. MaxChanges[message]
    BY <1>1, BoundAssumption DEF CallInit
  <1>4. always = store /\ ever = store
    BY DEF CallInit
  <1>5. /\ phase = "received" /\ pos = 1 /\ due = 0 /\ batch = {} /\ count = 0
        /\ shape = "none" /\ got = {} /\ noted = FALSE /\ blank = {} /\ result = "none"
        /\ age = 0 /\ client = "waiting" /\ leaves = 0
    BY DEF CallInit, None
  <1>6. pos \in 1 .. (Len(Program) + 1)
    BY <1>1, <1>5
  <1> QED BY <1>1, <1>2, <1>3, <1>4, <1>5, <1>6 DEF CallTypeOK

LEMMA RedisTyped ==
  ASSUME CallTypeOK, TypeReturns \/ ValueReturns
  PROVE  CallTypeOK'
<1>1. UNCHANGED <<message, age, client, otherVars, count, noted, blank>> /\ due' = None
      /\ batch' = {} /\ pos <= Len(Program)
  BY DEF TypeReturns, ValueReturns, Closes, otherVars, CallTypeOK
<1>2. got' \subseteq Items /\ shape' \in RedisTypes \cup {"none"}
  <2>1. Of(store, "value") \subseteq Items
    BY OfWithin DEF CallTypeOK
  <2>2. CASE TypeReturns
    BY <2>1, <2>2, ItemAssumption DEF TypeReturns, CallTypeOK, TypesNow
  <2>3. CASE ValueReturns
    BY <2>1, <2>3, AtMostWithin DEF ValueReturns, CallTypeOK
  <2> QED BY <2>2, <2>3
<1>3. Ends("failed") \/ Goes(0)
  BY DEF TypeReturns, ValueReturns
<1>4. "failed" \in Results
  BY DEF Results, Failures
<1>5. Len(Program) \in Nat /\ pos \in Nat /\ message \in Messages
  BY CurrentIsGood DEF CallTypeOK
<1>6. 0 \in Nat /\ pos + 0 <= Len(Program)
  BY <1>1, <1>5
<1>7. phase' \in {"ready", "answering"} /\ result' \in Results /\ pos' \in 1 .. (Len(Program') + 1)
  BY <1>1, <1>3, <1>4, <1>6, EndsTypes, GoesTypes
<1>8. HandlerTyped'
  BY <1>1, <1>2, <1>7 DEF HandlerTyped, CallTypeOK, None
<1> QED BY <1>1, <1>8, HandlerStepTypes

LEMMA TypeStep == CallTypeOK /\ [CallNext]_callVars => CallTypeOK'
<1> SUFFICES ASSUME CallTypeOK, [CallNext]_callVars
             PROVE  CallTypeOK'
  OBVIOUS
<1>0. Len(Program) \in Nat /\ message \in Messages
      /\ (message' = message => Program' = Program)
  BY CurrentIsGood DEF CallTypeOK, Program
<1>1. CASE Dispatch
  <2>1. result' \in Results
    BY <1>1 DEF Dispatch, Immediate, Results, Failures, CallTypeOK
  <2>2. HandlerTyped'
    BY <1>0, <1>1, <2>1 DEF Dispatch, HandlerTyped, CallTypeOK
  <2> QED BY <1>1, <2>2, HandlerStepTypes DEF Dispatch
<1>2. CASE Send
  <2>1. pos \in 1 .. Len(Program)
    BY <1>0, <1>2 DEF Send, CallTypeOK
  <2>2. Current.within \in Nat
    BY <1>0, <2>1, CurrentIsGood DEF Request
  <2>3. HandlerTyped'
    BY <1>0, <1>2, <2>2 DEF Send, HandlerTyped, CallTypeOK, None
  <2> QED BY <1>2, <2>3, HandlerStepTypes DEF Send
<1>3. CASE IsRefused
  BY <1>3, TroubleTypes DEF IsRefused
<1>17. CASE Panics
  <2>1. "panic" \in Results
    BY DEF Results, Failures
  <2>2. UNCHANGED <<message, age, client, otherVars, count, shape, got, noted, blank>> /\ due' = None
        /\ batch' = {} /\ Ends("panic")
    BY <1>17 DEF Panics, Closes, otherVars
  <2>3. phase' = "answering" /\ result' \in Results /\ pos' \in 1 .. (Len(Program') + 1)
    BY <2>1, <2>2, EndsTypes
  <2>4. HandlerTyped'
    BY <2>2, <2>3 DEF HandlerTyped, CallTypeOK, None
  <2> QED BY <2>2, <2>4, HandlerStepTypes
<1>4. CASE Finish
  <2>1. "ok" \in Results
    BY DEF Results
  <2>2. HandlerTyped'
    BY <1>0, <1>4, <2>1 DEF Finish, Ends, HandlerTyped, CallTypeOK
  <2> QED BY <1>4, <2>2, HandlerStepTypes DEF Finish
<1>5. CASE Deliver
  <2>1. client' \in {"waiting", "gone", "answered", "cut_off"}
    BY <1>5 DEF Deliver
  <2> QED BY <1>0, <1>5, <2>1 DEF Deliver, CallTypeOK, otherVars
<1>6. CASE Body
  <2>1. PICK T : T \subseteq Of(store, Current.part) /\ Answers(T)
    BY <1>6, BodyWithin
  <2>2. T \subseteq Items /\ pos <= Len(Program)
    BY <1>6, <2>1, OfWithin DEF Body, CallTypeOK
  <2> QED BY <2>1, <2>2, AnswersTypes
<1>7. CASE Forbidden
  <2>1. UNCHANGED <<message, age, client, otherVars, count, shape, got, noted, blank>> /\ due' = None
        /\ batch' = {} /\ pos <= Len(Program) /\ Goes(0)
    BY <1>7 DEF Forbidden, Closes, otherVars, CallTypeOK
  <2>2. 0 \in Nat /\ pos + 0 <= Len(Program)
    BY <1>0, <2>1 DEF CallTypeOK
  <2>3. phase' = "ready" /\ result' \in Results /\ pos' \in 1 .. (Len(Program') + 1)
    BY <2>1, <2>2, GoesTypes
  <2>4. HandlerTyped'
    BY <2>1, <2>3 DEF HandlerTyped, CallTypeOK, None
  <2> QED BY <2>1, <2>4, HandlerStepTypes
<1>8. CASE Begins
  <2>1. batch' \subseteq Items
    BY <1>8, AtMostWithin, OfWithin DEF Begins, CallTypeOK
  <2>2. HandlerTyped'
    BY <1>0, <1>8, <2>1 DEF Begins, HandlerTyped, CallTypeOK
  <2> QED BY <1>8, <2>2, HandlerStepTypes DEF Begins
<1>9. CASE EndOfRows
  <2>1. Of(got, Current.part) \subseteq Items /\ pos <= Len(Program)
    BY <1>9, OfWithin DEF EndOfRows, CallTypeOK
  <2> QED BY <1>9, <2>1, AnswersTypes DEF EndOfRows
<1>10. CASE TypeReturns \/ ValueReturns
  BY <1>10, RedisTyped
<1>11. CASE StoreFails \/ GivesUp
  <2>1. pos <= Len(Program)
    BY <1>11 DEF StoreFails, GivesUp, Fails, BreaksOff, CallTypeOK
  <2>2. ASSUME NEW late, Fails(late) PROVE CallTypeOK'
    <3>1. phase = "sent"
      BY <2>2 DEF Fails
    <3> QED BY <2>1, <2>2, <3>1, TroubleTypes DEF Fails
  <2>3. ASSUME NEW late, BreaksOff(late) PROVE CallTypeOK'
    BY <2>1, <2>3, TroubleTypes DEF BreaksOff
  <2> QED BY <1>11, <2>2, <2>3 DEF StoreFails, GivesUp
<1>12. CASE \E i \in Items : Row(i)
  <2>1. PICK i \in Items : Row(i)
    BY <1>12
  <2>2. HandlerTyped'
    BY <1>0, <2>1 DEF Row, HandlerTyped, CallTypeOK
  <2> QED BY <2>1, <2>2, HandlerStepTypes DEF Row
<1>13. CASE HangUp
  BY <1>0, <1>13 DEF HangUp, CallTypeOK, handlerVars, otherVars
<1>14. CASE Tick
  BY <1>0, <1>14 DEF Tick, CallTypeOK, handlerVars, otherVars
<1>18. CASE Signal
  BY <1>0, <1>18, BoundAssumption DEF Signal, CallTypeOK, handlerVars
<1>19. CASE Exit
  BY <1>0, <1>19 DEF Exit, CallTypeOK, otherVars, None
<1>15. CASE \E i \in Items : Create(i) \/ Drop(i)
  <2>1. PICK i \in Items : Create(i) \/ Drop(i)
    BY <1>15
  <2>2. MaxChanges[message] \in Nat
    BY <1>0, BoundAssumption
  <2>3. CASE Create(i)
    BY <1>0, <2>2, <2>3 DEF Create, CallTypeOK, handlerVars
  <2>4. CASE Drop(i)
    BY <1>0, <2>2, <2>4 DEF Drop, CallTypeOK, handlerVars
  <2> QED BY <2>1, <2>3, <2>4
<1>16. CASE UNCHANGED callVars
  BY <1>0, <1>16 DEF callVars, CallTypeOK, handlerVars, otherVars
<1> QED
  BY <1>1, <1>2, <1>3, <1>4, <1>5, <1>6, <1>7, <1>8, <1>9, <1>10, <1>11, <1>12, <1>13, <1>14,
     <1>15, <1>16, <1>17, <1>18, <1>19, ScanTypes DEF CallNext, HandlerGoesOn, Returns

\* Every call stays within the program of its message, for any messages and items.
THEOREM CallTypes == CallSpec => []CallTypeOK
  BY TypeInit, TypeStep, PTL DEF CallSpec

-----------------------------------------------------------------------------
(* Deadlines and lost answers                                              *)

\* What a deadline and a panic come from, and what the client has seen of them.
DeadlineInv ==
    /\ due # None => /\ phase \in {"sent", "reading"} /\ Current.within # None
                     /\ due >= Current.within
    /\ result = "panic" => MayPanic(message)
    /\ result = "deadline" => /\ pos <= Len(Program) /\ Current.tells
                              /\ Current.within # None /\ age >= Current.within
    /\ client \in {"answered", "cut_off"} => phase = "done"
    /\ client = "answered" => age < WriteTimeout
    /\ client = "cut_off" => age >= WriteTimeout \/ result = "panic" \/ DrainIsOver
    /\ phase \notin {"answering", "done"} => result = "none"

LEMMA DeadlineInit == CallInit => DeadlineInv
  BY DEF CallInit, DeadlineInv, None

\* A handler's step that closes the current request.
LEMMA ClosingStep ==
  ASSUME CallTypeOK, DeadlineInv, phase \notin {"answering", "done"}, Closes,
         NEW n, NEW r, Goes(n) \/ Ends(r), r \notin {"panic", "deadline"}
  PROVE  DeadlineInv'
<1>1. due' = None /\ UNCHANGED <<message, age, client>> /\ phase' # "done"
      /\ client \notin {"answered", "cut_off"} /\ result = "none"
  BY DEF Closes, Goes, Ends, DeadlineInv
<1> QED
  BY <1>1 DEF DeadlineInv, Goes, Ends

LEMMA TroubleKeepsDeadlines ==
  ASSUME CallTypeOK, DeadlineInv, phase \notin {"answering", "done"}, pos <= Len(Program),
         NEW policy, NEW drops, NEW late, Trouble(policy, drops, late),
         late => IsLate
  PROVE  DeadlineInv'
<1>1. Closes
  BY DEF Trouble
<1>2. CASE late /\ Current.tells /\ Ends("deadline")
  <2>1. due' = None /\ UNCHANGED <<message, age, client, pos>> /\ phase' = "answering"
        /\ result' = "deadline" /\ client \notin {"answered", "cut_off"}
    BY <1>1, <1>2 DEF Closes, Ends, DeadlineInv
  <2>2. Current' = Current /\ Program' = Program
    BY <2>1 DEF Current, Program
  <2>3. due # None /\ age >= due /\ due >= Current.within /\ Current.within # None
    BY <1>2 DEF IsLate, DeadlineInv
  <2>4. Current.within \in Nat /\ due \in Nat /\ age \in Nat
    <3>1. pos \in 1 .. Len(Program)
      BY CurrentIsGood DEF CallTypeOK
    <3> QED BY <3>1, CurrentIsGood DEF CallTypeOK, Request
  <2>5. age >= Current.within
    BY <2>3, <2>4
  <2> QED BY <1>2, <2>1, <2>2, <2>3, <2>5 DEF DeadlineInv
<1>3. ASSUME Ends(IF late /\ Current.tells THEN "deadline" ELSE "failed")
      PROVE  DeadlineInv'
  <2>1. CASE late /\ Current.tells
    <3>1. Ends("deadline")
      BY <1>3, <2>1 DEF Ends
    <3> QED BY <1>2, <2>1, <3>1
  <2>2. CASE ~(late /\ Current.tells)
    <3>1. Ends("failed")
      BY <1>3, <2>2 DEF Ends
    <3> QED BY <1>1, <3>1, ClosingStep
  <2> QED BY <2>1, <2>2
<1>4. ASSUME NEW n, Goes(n) PROVE DeadlineInv'
  <2>1. Goes(n) \/ Ends("failed")
    BY <1>4
  <2>2. "failed" \notin {"panic", "deadline"}
    OBVIOUS
  <2> QED BY <1>1, <2>1, <2>2, ClosingStep
<1>5. CASE policy = "fail" \/ (policy = "fail_unless_gone" /\ client # "gone")
  BY <1>3, <1>5 DEF Trouble
<1>6. CASE ~(policy = "fail" \/ (policy = "fail_unless_gone" /\ client # "gone"))
  <2>1. Goes(drops) \/ Goes(0)
    BY <1>6 DEF Trouble
  <2> QED BY <1>4, <2>1
<1> QED
  BY <1>5, <1>6

LEMMA DeadlineStep == CallTypeOK /\ CallTypeOK' /\ DeadlineInv /\ [CallNext]_callVars => DeadlineInv'
<1> SUFFICES ASSUME CallTypeOK, CallTypeOK', DeadlineInv, [CallNext]_callVars
             PROVE  DeadlineInv'
  OBVIOUS
<1>0. /\ Len(Program) \in Nat /\ pos \in Nat /\ age \in Nat /\ due \in Nat /\ WriteTimeout \in Nat
      /\ (pos \in 1 .. Len(Program) => Current.within \in Nat)
      /\ (message' = message /\ pos' = pos => Program' = Program /\ Current' = Current)
  <2>1. Len(Program) \in Nat /\ pos \in Nat /\ age \in Nat /\ due \in Nat /\ WriteTimeout \in Nat
    BY CurrentIsGood, BoundAssumption DEF CallTypeOK
  <2>2. ASSUME pos \in 1 .. Len(Program) PROVE Current.within \in Nat
    <3>1. Current \in Request
      BY <2>2, CurrentIsGood DEF CallTypeOK
    <3> QED BY <3>1 DEF Request
  <2>3. message' = message /\ pos' = pos => Program' = Program /\ Current' = Current
    BY DEF Program, Current
  <2> QED BY <2>1, <2>2, <2>3
<1>1. CASE Dispatch
  <2>1. result' \notin {"panic", "deadline"} /\ due = None
        /\ client \notin {"answered", "cut_off"} /\ phase' \in {"answering", "ready"}
    BY <1>1 DEF Dispatch, Immediate, DeadlineInv
  <2> QED BY <1>1, <2>1 DEF Dispatch, DeadlineInv
<1>2. CASE Send
  <2>1. pos \in 1 .. Len(Program)
    BY <1>0, <1>2 DEF Send, CallTypeOK
  <2>2. due' # None => Current'.within # None /\ due' >= Current'.within
    BY <1>0, <1>2, <2>1 DEF Send, None
  <2>3. UNCHANGED <<message, result, age, client>> /\ phase' = "sent" /\ result = "none"
        /\ client \notin {"answered", "cut_off"}
    BY <1>2 DEF Send, DeadlineInv
  <2> QED BY <2>2, <2>3 DEF DeadlineInv
<1>3. CASE IsRefused
  BY <1>3, TroubleKeepsDeadlines DEF IsRefused
<1>17. CASE Panics
  <2>1. pos \in 1 .. Len(Program) /\ message \in Messages
    BY <1>0, <1>17 DEF Panics, CallTypeOK
  <2>2. MayPanic(message)
    BY <1>17, <2>1, CurrentIsGood DEF Panics, GoodRequest, MayPanic
  <2>3. due' = None /\ UNCHANGED <<message, age, client>> /\ phase' = "answering"
        /\ result' = "panic" /\ client \notin {"answered", "cut_off"}
    BY <1>17 DEF Panics, Closes, Ends, DeadlineInv
  <2> QED BY <2>2, <2>3 DEF DeadlineInv
<1>4. CASE Finish
  <2>1. due = None /\ phase' = "answering" /\ result' = "ok" /\ client \notin {"answered", "cut_off"}
        /\ UNCHANGED <<due, client>>
    BY <1>4 DEF Finish, Ends, DeadlineInv
  <2> QED BY <2>1 DEF DeadlineInv
<1>5. CASE Deliver
  <2>1. due = None /\ UNCHANGED <<due, message, pos, result, age>> /\ phase' = "done"
        /\ client \notin {"answered", "cut_off"}
    BY <1>5 DEF Deliver, DeadlineInv
  <2>2. /\ client' = "answered" => age < WriteTimeout
        /\ client' = "cut_off" => age >= WriteTimeout \/ result = "panic"
    BY <1>0, <1>5 DEF Deliver
  <2> QED BY <1>0, <2>1, <2>2 DEF DeadlineInv
<1>18. CASE Signal
  <2>1. leaves = None /\ UNCHANGED <<message, phase, pos, due, result, age, client>>
    BY <1>18 DEF Signal, handlerVars
  <2>2. ~DrainIsOver
    BY <2>1 DEF DrainIsOver
  <2> QED BY <1>0, <2>1, <2>2 DEF DeadlineInv
<1>19. CASE Exit
  <2>1. /\ due' = None /\ UNCHANGED <<message, pos, result, age, leaves>> /\ phase' = "done"
        /\ client' \in {"gone", "cut_off"} /\ DrainIsOver
    BY <1>19 DEF Exit, otherVars
  <2>2. DrainIsOver'
    BY <2>1 DEF DrainIsOver
  <2> QED BY <1>0, <2>1, <2>2 DEF DeadlineInv
<1>6. CASE Body \/ EndOfRows
  <2>1. PICK T : Answers(T)
    BY <1>6 DEF Body, EndOfRows
  <2>2. Closes /\ (Goes(Current.instead) \/ Ends("not_found")) /\ phase \notin {"answering", "done"}
    BY <1>6, <2>1 DEF Answers, Body, EndOfRows
  <2> QED BY <2>2, ClosingStep
<1>7. CASE Forbidden
  <2>1. Closes /\ Goes(0) /\ phase \notin {"answering", "done"}
    BY <1>7 DEF Forbidden
  <2> QED BY <2>1, ClosingStep
<1>8. CASE Begins \/ \E i \in Items : Row(i)
  <2>1. UNCHANGED <<message, pos, due, result, age, client>> /\ phase' = "reading"
        /\ phase \in {"sent", "reading"}
    BY <1>8 DEF Begins, Row
  <2> QED BY <1>0, <2>1 DEF DeadlineInv
<1>9. CASE TypeReturns \/ ValueReturns
  <2>1. Closes /\ (Goes(0) \/ Ends("failed")) /\ phase \notin {"answering", "done"}
    BY <1>9 DEF TypeReturns, ValueReturns
  <2> QED BY <2>1, ClosingStep
<1>10. CASE StoreFails \/ GivesUp
  <2>1. phase \notin {"answering", "done"} /\ pos <= Len(Program)
    BY <1>10 DEF StoreFails, GivesUp, Fails, BreaksOff, CallTypeOK
  <2>2. ASSUME NEW late, late => IsLate, Fails(late) PROVE DeadlineInv'
    BY <2>1, <2>2, TroubleKeepsDeadlines DEF Fails
  <2>3. ASSUME NEW late, late => IsLate, BreaksOff(late) PROVE DeadlineInv'
    <3>1. Trouble(Current.onCut, Current.drops, phase = "reading" /\ late)
          /\ (phase = "reading" /\ late => IsLate)
      BY <2>3 DEF BreaksOff
    <3> QED BY <2>1, <3>1, TroubleKeepsDeadlines
  <2>4. CASE StoreFails
    BY <2>2, <2>3, <2>4 DEF StoreFails
  <2>5. CASE GivesUp
    BY <2>2, <2>3, <2>5 DEF GivesUp
  <2> QED BY <1>10, <2>4, <2>5
<1>11. ASSUME NEW B \in SUBSET Of(store, "keys"), ScanGoesOn(B)
       PROVE  DeadlineInv'
  <2>1. UNCHANGED <<message, phase, pos, due, result, age, client>> /\ phase = "sent"
    BY <1>11 DEF ScanGoesOn
  <2> QED BY <1>0, <2>1 DEF DeadlineInv
<1>12. ASSUME NEW B \in SUBSET Of(store, "keys"), ScanEnds(B)
       PROVE  DeadlineInv'
  <2>1. Closes /\ phase = "sent" /\ Current.how = "scan" /\ message \in Messages
        /\ pos \in 1 .. Len(Program)
    BY <1>0, <1>12 DEF ScanEnds, CallTypeOK
  <2>2. message.tool = "redis_keys"
    BY <2>1, CurrentIsGood DEF GoodRequest
  <2>3. CASE Goes(0)
    BY <2>1, <2>3, ClosingStep
  <2>4. CASE message.limit < 0 /\ Ends("panic")
    <3>1. due' = None /\ UNCHANGED <<message, age, client>> /\ phase' = "answering"
          /\ result' = "panic" /\ client \notin {"answered", "cut_off"}
      BY <2>1, <2>4 DEF Closes, Ends, DeadlineInv
    <3> QED BY <2>2, <2>4, <3>1 DEF DeadlineInv, MayPanic
  <2> QED BY <1>12, <2>3, <2>4 DEF ScanEnds
<1>13. CASE HangUp
  BY <1>0, <1>13 DEF HangUp, handlerVars, DeadlineInv
<1>14. CASE Tick
  <2>1. UNCHANGED handlerVars /\ age' = age + 1 /\ client' = client /\ phase # "done"
    BY <1>14 DEF Tick
  <2>2. client \notin {"answered", "cut_off"}
    BY <2>1 DEF DeadlineInv
  <2>3. result = "deadline" => age + 1 >= Current.within
    <3>1. result = "deadline" => pos \in 1 .. Len(Program)
      BY <1>0 DEF DeadlineInv, CallTypeOK
    <3> QED BY <1>0, <3>1 DEF DeadlineInv
  <2> QED BY <1>0, <2>1, <2>2, <2>3 DEF handlerVars, DeadlineInv
<1>15. CASE \E i \in Items : Create(i) \/ Drop(i)
  BY <1>0, <1>15 DEF Create, Drop, handlerVars, DeadlineInv
<1>16. CASE UNCHANGED callVars
  BY <1>0, <1>16 DEF callVars, handlerVars, otherVars, DrainIsOver, DeadlineInv
<1> QED
  BY <1>1, <1>2, <1>3, <1>4, <1>5, <1>6, <1>7, <1>8, <1>9, <1>10, <1>11, <1>12, <1>13, <1>14,
     <1>15, <1>16, <1>17, <1>18, <1>19 DEF CallNext, HandlerGoesOn, Returns

\* A deadline is reported no earlier than its length into the call, and a client is cut
\* off only late or by a panic: deadlines and ends of every call are accounted for.
THEOREM DeadlinesKept == CallSpec => []DeadlineInv
  BY DeadlineInit, DeadlineStep, CallTypes, PTL DEF CallSpec

\* Whatever the timeouts are, a caller who waits is never told that a statement ran out
\* of time, and of a search only when its timeout is below WriteTimeout.
THEOREM DeadlinesUnreported == CallSpec => []DeadlinesGoUnreported
  <1>1. CallTypeOK /\ DeadlineInv => DeadlinesGoUnreported
    <2> SUFFICES ASSUME CallTypeOK, DeadlineInv, client = "answered", result = "deadline"
                 PROVE  /\ Current.within # None /\ Current.within < WriteTimeout
                        /\ message.engine = "elasticsearch"
      BY DEF DeadlinesGoUnreported
    <2>1. pos \in 1 .. Len(Program) /\ message \in Messages
      BY CurrentIsGood DEF CallTypeOK, DeadlineInv
    <2>2. GoodRequest(Current, message, Len(Program) - pos) /\ Current.within \in Nat
      BY <2>1, CurrentIsGood DEF Request
    <2>3. /\ Current.within # None /\ Current.tells /\ age >= Current.within /\ age < WriteTimeout
          /\ age \in Nat /\ WriteTimeout \in Nat
      BY BoundAssumption DEF DeadlineInv, CallTypeOK
    <2>4. Current.within < WriteTimeout
      BY <2>2, <2>3
    <2> QED BY <2>2, <2>3, <2>4 DEF GoodRequest
  <1> QED BY <1>1, CallTypes, DeadlinesKept, PTL

\* Whatever the limits and the timeouts are, and whenever a signal comes, an answer is lost
\* only when the call outlasts WriteTimeout or the drain, or by one of the two panics.
THEOREM LostAnswersExplained == CallSpec => []LostAnswersAreExplained
  <1>1. DeadlineInv => LostAnswersAreExplained
    BY DEF DeadlineInv, LostAnswersAreExplained
  <1> QED BY <1>1, DeadlinesKept, PTL

-----------------------------------------------------------------------------
(* What is answered was there                                              *)

\* Whatever is in an answer, or still to come of a snapshot, was there during the call.
EverInv == batch \subseteq ever /\ got \subseteq ever

LEMMA EverInit == CallInit => EverInv
  BY DEF CallInit, EverInv

LEMMA EverStep == CallTypeOK /\ EverInv /\ [CallNext]_callVars => EverInv'
<1> SUFFICES ASSUME CallTypeOK, EverInv, [CallNext]_callVars
             PROVE  EverInv'
  OBVIOUS
<1>0. store \subseteq ever
  BY DEF CallTypeOK
<1>1. CASE Dispatch \/ Send \/ Panics \/ Finish \/ Deliver
  BY <1>1 DEF Dispatch, Send, Panics, Finish, Deliver, Closes, EverInv, otherVars
<1>2. ASSUME NEW policy, NEW late, Trouble(policy, Current.drops, late)
      PROVE  EverInv'
  <2>1. got' \subseteq got /\ batch' = {} /\ ever' = ever
    BY <1>2 DEF Trouble, Closes, otherVars
  <2> QED BY <2>1 DEF EverInv
<1>3. CASE IsRefused \/ StoreFails \/ GivesUp
  BY <1>2, <1>3 DEF IsRefused, StoreFails, GivesUp, Fails, BreaksOff
<1>4. CASE Body
  <2>1. PICK T : T \subseteq Of(store, Current.part) /\ Answers(T)
    BY <1>4, BodyWithin
  <2>2. T \subseteq ever
    BY <1>0, <2>1, OfWithin
  <2> QED BY <2>1, <2>2 DEF Answers, Closes, otherVars, EverInv
<1>5. CASE EndOfRows
  <2>1. Of(got, Current.part) \subseteq ever
    BY OfWithin DEF EverInv
  <2> QED BY <1>5, <2>1 DEF EndOfRows, Answers, Closes, otherVars, EverInv
<1>6. CASE Begins
  <2>1. batch' \subseteq ever
    BY <1>0, <1>6, AtMostWithin, OfWithin DEF Begins
  <2> QED BY <1>6, <2>1 DEF Begins, otherVars, EverInv
<1>7. ASSUME NEW i \in Items, Row(i)
      PROVE  EverInv'
  <2>1. i \in ever
    BY <1>0, <1>7, OfWithin DEF Row, Missing, EverInv
  <2> QED BY <1>7, <2>1 DEF Row, otherVars, EverInv
<1>8. CASE TypeReturns \/ ValueReturns \/ Forbidden
  <2>1. got' \subseteq got \cup store
    BY <1>8, AtMostWithin, OfWithin DEF TypeReturns, ValueReturns, Forbidden
  <2>2. batch' = {} /\ ever' = ever
    BY <1>8 DEF TypeReturns, ValueReturns, Forbidden, Closes, otherVars
  <2> QED BY <1>0, <2>1, <2>2 DEF EverInv
<1>9. ASSUME NEW B \in SUBSET Of(store, "keys"), ScanGoesOn(B) \/ ScanEnds(B)
      PROVE  EverInv'
  <2>1. B \subseteq ever
    BY <1>0, OfWithin
  <2>2. got' \subseteq got \cup B /\ batch' \subseteq batch /\ ever' = ever
    BY <1>9 DEF ScanGoesOn, ScanEnds, Truncated, Closes, otherVars
  <2> QED BY <2>1, <2>2 DEF EverInv
<1>10. CASE HangUp \/ Signal \/ Exit \/ Tick \/ UNCHANGED callVars
  BY <1>10 DEF HangUp, Signal, Exit, Tick, callVars, handlerVars, otherVars, EverInv
<1>11. CASE \E i \in Items : Create(i) \/ Drop(i)
  BY <1>11 DEF Create, Drop, handlerVars, EverInv
<1> QED
  BY <1>1, <1>3, <1>4, <1>5, <1>6, <1>7, <1>8, <1>9, <1>10, <1>11
     DEF CallNext, HandlerGoesOn, Returns

\* redis_get asks for the type and then for the value, and never streams.
LEMMA RedisProgram ==
  ASSUME message \in Messages, message.tool = "redis_get"
  PROVE  /\ message.method = "tools/call" /\ Len(Program) = 2
         /\ pos = 1 => Current = Must("type", "type")
         /\ pos = 2 => Current = Must("value", "value")
<1>1. Program = RedisGet
  BY DEF Program, ProgramOf, EsTools
<1>2. message.method = "tools/call"
  BY MessageAssumption
<1> QED
  BY <1>1, <1>2 DEF RedisGet, Current

LEMMA RedisRequests ==
  \A r \in {Must("type", "type"), Must("value", "value")} :
     r.onError = "fail" /\ r.onCut = "fail" /\ r.instead = 0 /\ r.how \in {"type", "value"}
  BY DEF Must, Ask

\* Where redis_get can be.
LEMMA RedisPlaces ==
  ASSUME CallTypeOK, message.tool = "redis_get"
  PROVE  /\ message.method = "tools/call" /\ Len(Program) = 2 /\ pos \in {1, 2, 3}
         /\ pos <= Len(Program) =>
              /\ \/ pos = 1 /\ Current = Must("type", "type")
                 \/ pos = 2 /\ Current = Must("value", "value")
              /\ Current.onError = "fail" /\ Current.onCut = "fail" /\ Current.instead = 0
              /\ Current.how \in {"type", "value"}
<1>1. message \in Messages /\ pos \in 1 .. (Len(Program) + 1)
  BY DEF CallTypeOK
<1>2. message.method = "tools/call" /\ Len(Program) = 2
  BY <1>1, RedisProgram
<1>3. pos \in {1, 2, 3}
  BY <1>1, <1>2
<1>4. ASSUME pos <= Len(Program)
      PROVE  (pos = 1 /\ Current = Must("type", "type")) \/ (pos = 2 /\ Current = Must("value", "value"))
  BY <1>1, <1>2, <1>3, <1>4, RedisProgram
<1> QED BY <1>2, <1>3, <1>4, RedisRequests

\* There was a value of the type that TYPE answered.
Witnessed == \E i \in ever : PartOf[i] = "value" /\ TypeOf[i] = shape

\* What redis_get knows after each of its two requests.
RedisInv ==
    message.tool = "redis_get" =>
        /\ phase # "reading"
        /\ pos <= 2 => got = {}
        /\ pos >= 2 => Witnessed
        /\ pos = 3 => /\ \A i \in got : TypeOf[i] = shape
                      /\ got = {} => shape # "string" /\ Of(always, "value") = {}
        /\ result = "ok" => pos = 3

LEMMA RedisInit == CallInit => RedisInv
  BY DEF CallInit, RedisInv

\* A step that leaves the answer as it is, and does not go on to another request.
LEMMA RedisKept ==
  ASSUME RedisInv, message' = message, UNCHANGED <<pos, got, shape>>, ever \subseteq ever',
         always' \subseteq always, phase' # "reading", result' = "ok" => result = "ok" \/ pos = 3
  PROVE  RedisInv'
  BY DEF RedisInv, Witnessed, Of

LEMMA RedisTrouble ==
  ASSUME CallTypeOK, RedisInv, message.tool = "redis_get", pos <= Len(Program), NEW late,
         NEW policy \in {Current.onError, Current.onCut}, Trouble(policy, Current.drops, late)
  PROVE  RedisInv'
<1>1. policy = "fail"
  BY RedisPlaces
<1>2. phase' = "answering" /\ result' # "ok" /\ UNCHANGED <<pos, got, shape, message>>
      /\ ever' = ever /\ always' = always
  BY <1>1 DEF Trouble, Ends, Closes, otherVars
<1> QED BY <1>2, RedisKept

LEMMA RedisReads ==
  ASSUME CallTypeOK, CallTypeOK', RedisInv, message.tool = "redis_get", ValueReturns
  PROVE  RedisInv'
<1>1. message' = message /\ ever' = ever /\ always' = always /\ shape' = shape /\ pos <= Len(Program)
  BY DEF ValueReturns, Closes, otherVars, CallTypeOK
<1>2. pos = 2
  <2>1. Must("type", "type").how # "value"
    BY DEF Must, Ask
  <2> QED BY <1>1, <2>1, RedisPlaces DEF ValueReturns
<1>3. got = {} /\ Witnessed /\ result # "ok"
  BY <1>2 DEF RedisInv
<1>4. CASE Ends("failed") /\ UNCHANGED got
  <2>1. phase' = "answering" /\ result' = "failed" /\ pos' = pos
    BY <1>4 DEF Ends
  <2> QED BY <1>1, <1>4, <2>1, RedisKept
<1>5. ASSUME TypesNow \subseteq {shape}, shape = "string" => TypesNow # {},
             NEW T \in AtMost(Of(store, "value"),
                              IF shape \in {"list", "zset"} THEN RangeSize ELSE NoLimit),
             got' = got \cup T, Goes(0)
      PROVE  RedisInv'
  <2>1. got' = T /\ T \subseteq Of(store, "value")
    BY <1>3, <1>5, AtMostWithin
  <2>2. \A i \in got' : TypeOf[i] = shape
    BY <1>5, <2>1 DEF TypesNow
  <2>3. ASSUME T = {}
        PROVE  shape # "string" /\ Of(always, "value") = {}
    <3>1. Of(store, "value") \subseteq Items /\ IsFiniteSet(Of(store, "value"))
          /\ Cardinality(Of(store, "value")) \in Nat
      BY OfWithin, ItemsAreFinite DEF CallTypeOK
    <3>2. Cardinality(T) = 0
      BY <2>3, FS_EmptySet
    <3>3. Cardinality(Of(store, "value")) = 0
      BY <3>1, <3>2, BoundAssumption DEF AtMost, NoLimit
    <3>4. Of(store, "value") = {}
      BY <3>1, <3>3, FS_EmptySet
    <3>5. TypesNow = {}
      BY <3>4 DEF TypesNow
    <3>6. Of(always, "value") = {}
      BY <3>4 DEF Of, CallTypeOK
    <3> QED BY <1>5, <3>5, <3>6
  <2>4. pos' = 3 /\ phase' = "ready" /\ result' = result
    BY <1>2, <1>5 DEF Goes
  <2>5. Witnessed' /\ Of(always, "value")' = Of(always, "value")
    BY <1>1, <1>3 DEF Witnessed, Of
  <2> QED BY <1>1, <1>3, <2>1, <2>2, <2>3, <2>4, <2>5 DEF RedisInv
<1> QED BY <1>4, <1>5 DEF ValueReturns

LEMMA RedisAsks ==
  ASSUME CallTypeOK, RedisInv, message.tool = "redis_get", TypeReturns
  PROVE  RedisInv'
<1>1. UNCHANGED <<message, got>> /\ ever' = ever /\ always' = always /\ pos <= Len(Program)
  BY DEF TypeReturns, Closes, otherVars, CallTypeOK
<1>2. pos = 1
  <2>1. Must("value", "value").how # "type"
    BY DEF Must, Ask
  <2> QED BY <1>1, <2>1, RedisPlaces DEF TypeReturns
<1>3. got = {} /\ result # "ok"
  BY <1>2 DEF RedisInv
<1>4. CASE Ends("failed") /\ UNCHANGED shape
  <2>1. phase' = "answering" /\ result' = "failed" /\ pos' = pos
    BY <1>4 DEF Ends
  <2> QED BY <1>1, <1>4, <2>1, RedisKept
<1>5. CASE Goes(0) /\ shape' \in TypesNow
  <2>1. Witnessed'
    BY <1>1, <1>5 DEF TypesNow, Witnessed, Of, CallTypeOK
  <2>2. pos' = 2 /\ phase' = "ready" /\ result' = result
    BY <1>2, <1>5 DEF Goes
  <2> QED BY <1>1, <1>3, <2>1, <2>2 DEF RedisInv
<1> QED BY <1>4, <1>5 DEF TypeReturns

LEMMA RedisStep ==
  CallTypeOK /\ CallTypeOK' /\ RedisInv /\ [CallNext]_callVars => RedisInv'
<1> SUFFICES ASSUME CallTypeOK, CallTypeOK', RedisInv, [CallNext]_callVars
             PROVE  RedisInv'
  OBVIOUS
<1>0. message' = message
  BY DEF CallNext, HandlerGoesOn, Returns, Dispatch, Send, IsRefused, Panics, Finish, Deliver,
         Trouble, Body, Forbidden, Begins, EndOfRows, Answers, TypeReturns, ValueReturns, StoreFails,
         GivesUp, Fails, BreaksOff, Row, ScanGoesOn, ScanEnds, Closes, HangUp, Tick, Create, Drop,
         Signal, Exit, callVars, handlerVars
<1>1. CASE message.tool # "redis_get"
  BY <1>0, <1>1 DEF RedisInv
<1> SUFFICES ASSUME message.tool = "redis_get" PROVE RedisInv'
  BY <1>1
<1>2. /\ message.method = "tools/call" /\ Len(Program) = 2 /\ phase # "reading"
      /\ pos <= Len(Program) => Current.how \in {"type", "value"} /\ Current.instead = 0
  BY RedisPlaces DEF RedisInv
<1>3. CASE Dispatch
  BY <1>2, <1>3, RedisKept DEF Dispatch, Tools, otherVars
<1>4. CASE Send \/ Deliver
  BY <1>4, RedisKept DEF Send, Deliver, otherVars
<1>5. CASE Finish
  BY <1>2, <1>5, RedisKept DEF Finish, Ends, otherVars
<1>6. CASE IsRefused
  BY <1>6, <1>2, RedisTrouble DEF IsRefused, CallTypeOK
<1>13. ~Panics
  BY <1>2 DEF Panics
<1>7. CASE StoreFails \/ GivesUp
  <2>1. pos <= Len(Program)
    BY <1>7 DEF StoreFails, GivesUp, Fails, BreaksOff, CallTypeOK
  <2>2. ASSUME NEW late, Fails(late) PROVE RedisInv'
    BY <2>1, <2>2, RedisTrouble DEF Fails
  <2>3. ASSUME NEW late, BreaksOff(late) PROVE RedisInv'
    BY <2>1, <2>3, RedisTrouble DEF BreaksOff
  <2> QED BY <1>7, <2>2, <2>3 DEF StoreFails, GivesUp
<1>8. ~Body /\ ~Forbidden /\ ~Begins /\ ~EndOfRows
  BY <1>2 DEF Body, Forbidden, Begins, EndOfRows, CallTypeOK
<1>9. \A i : ~Row(i)
  BY <1>2 DEF Row
<1>10. \A B : ~ScanGoesOn(B) /\ ~ScanEnds(B)
  BY <1>2 DEF ScanGoesOn, ScanEnds, CallTypeOK
<1>11. CASE HangUp \/ Signal \/ Exit \/ Tick \/ UNCHANGED callVars
  BY <1>2, <1>11, RedisKept DEF HangUp, Signal, Exit, Tick, callVars, handlerVars, otherVars
<1>12. CASE \E i \in Items : Create(i) \/ Drop(i)
  BY <1>2, <1>12, RedisKept DEF Create, Drop, handlerVars
<1> QED
  BY <1>3, <1>4, <1>5, <1>6, <1>7, <1>8, <1>9, <1>10, <1>11, <1>12, <1>13, RedisReads, RedisAsks
     DEF CallNext, HandlerGoesOn, Returns

\* What is shown without having been read.
BlankInv == \A part \in blank : <<message.engine, part>> \in KnownBlank

LEMMA BlankInit == CallInit => BlankInv
  BY DEF CallInit, BlankInv

LEMMA BlankStep == CallTypeOK /\ BlankInv /\ [CallNext]_callVars => BlankInv'
<1> SUFFICES ASSUME CallTypeOK, BlankInv, [CallNext]_callVars
             PROVE  BlankInv'
  OBVIOUS
<1>1. ASSUME pos <= Len(Program), NEW late, NEW policy \in {Current.onError, Current.onCut},
             Trouble(policy, Current.drops, late)
      PROVE  BlankInv'
  <2>1. message' = message /\ message \in Messages /\ pos \in 1 .. Len(Program)
    BY <1>1, CurrentIsGood DEF Trouble, Closes, CallTypeOK
  <2>2. policy = "blank" => <<message.engine, Current.part>> \in KnownBlank
    BY <2>1, CurrentIsGood DEF GoodRequest
  <2>3. blank' = blank \/ (policy = "blank" /\ blank' = blank \cup {Current.part})
    BY <1>1 DEF Trouble
  <2> QED BY <2>1, <2>2, <2>3 DEF BlankInv
<1>2. CASE IsRefused \/ StoreFails \/ GivesUp
  <2>1. pos <= Len(Program)
    BY <1>2 DEF IsRefused, StoreFails, GivesUp, Fails, BreaksOff, CallTypeOK
  <2> QED BY <1>1, <1>2, <2>1 DEF IsRefused, StoreFails, GivesUp, Fails, BreaksOff
<1>3. CASE UNCHANGED <<message, blank>>
  BY <1>3 DEF BlankInv
<1>4. CASE Dispatch \/ Send \/ Panics \/ Finish \/ Deliver
  BY <1>3, <1>4 DEF Dispatch, Send, Panics, Finish, Deliver, Closes
<1>5. CASE Body \/ Forbidden \/ Begins \/ EndOfRows \/ TypeReturns \/ ValueReturns
  BY <1>3, <1>5 DEF Body, Forbidden, Begins, EndOfRows, TypeReturns, ValueReturns, Answers, Closes
<1>6. CASE (\E i \in Items : Row(i))
           \/ \E B \in SUBSET Of(store, "keys") : ScanGoesOn(B) \/ ScanEnds(B)
  BY <1>3, <1>6 DEF Row, ScanGoesOn, ScanEnds, Closes
<1>7. CASE HangUp \/ Signal \/ Exit \/ Tick \/ UNCHANGED callVars
  BY <1>3, <1>7 DEF HangUp, Signal, Exit, Tick, callVars, handlerVars
<1>8. CASE \E i \in Items : Create(i) \/ Drop(i)
  BY <1>3, <1>8 DEF Create, Drop, handlerVars
<1> QED
  BY <1>2, <1>4, <1>5, <1>6, <1>7, <1>8 DEF CallNext, HandlerGoesOn, Returns

\* For any store that changes in any way between two requests and inside one, an answer
\* holds nothing that was not there, only the parts of KnownBlank are shown unread, and
\* redis_get never answers a type it did not see.
THEOREM AnswersAreReal == CallSpec => []AnswersWereReal
  <1>1. CallSpec => []EverInv
    BY EverInit, EverStep, CallTypes, PTL DEF CallSpec
  <1>2. CallSpec => []RedisInv
    BY RedisInit, RedisStep, CallTypes, PTL DEF CallSpec
  <1>3. CallSpec => []BlankInv
    BY BlankInit, BlankStep, CallTypes, PTL DEF CallSpec
  <1>4. EverInv /\ RedisInv /\ BlankInv => AnswersWereReal
    BY DEF EverInv, RedisInv, BlankInv, Witnessed, AnswersWereReal
  <1> QED BY <1>1, <1>2, <1>3, <1>4, PTL

-----------------------------------------------------------------------------
(* Why a call ends.  FairCallSpec makes each of three steps happen that     *)
(* stays possible: the handler's own, giving the request up, and the clock. *)
(* Once the client has gone or the request has a deadline, one of them is   *)
(* possible, stays possible until the call has come nearer to its end, and  *)
(* brings it nearer.  That is EveryCallEnds without its temporal part.      *)

\* EveryCallEnds speaks of the first two; a request with a deadline is the last one, so
\* that the call is at its end when it is over, with the answer or without it.
Ending == /\ phase # "done"
          /\ client = "gone" \/ due # None \/ pos > Len(Program) \/ phase = "answering"

\* The guards of the three steps.
DueLater == due # None /\ age < due

Chance(step) ==
    CASE step = "HandlerGoesOn" -> phase \in {"received", "ready", "answering"}
      [] step = "GivesUp"       -> phase \in {"sent", "reading"} /\ (client = "gone" \/ IsLate)
      [] step = "Tick"          -> DueLater

OwnSteps == {"HandlerGoesOn", "GivesUp", "Tick"}
Chances == {step \in OwnSteps : Chance(step)}
OwnStep == HandlerGoesOn \/ GivesUp \/ (DueLater /\ Tick)

\* How far the call is from its end: first the requests and their phases, then the time
\* to the deadline.
StepsOf == [p \in {"received", "ready", "sent", "reading"} |->
    CASE p = "received" -> 5 [] p = "ready" -> 4 [] p = "sent" -> 3 [] p = "reading" -> 2]
Left == IF phase = "done" THEN 0 ELSE IF phase = "answering" THEN 1
        ELSE 3 * (Len(Program) + 1 - pos) + StepsOf[phase]
Wait == IF DueLater THEN due - age ELSE 0

Nearer == Left' < Left \/ (Left' = Left /\ Wait' < Wait)
AsFar == Left' = Left /\ Wait' = Wait

\* A call that is ending can always do one of the three.
EndIsPossible == Ending => Chances # {}

\* It stays so until it is done; no step leads it away from its end, each of the three
\* brings it nearer, and one that is possible stays so until then.
EndComesNearer ==
    Ending =>
        /\ Ending' \/ phase' = "done"
        /\ Nearer \/ AsFar
        /\ OwnStep => Nearer
        /\ AsFar => Chances \subseteq Chances'

LEMMA SomeStep == CallTypeOK => EndIsPossible
<1> SUFFICES ASSUME CallTypeOK, Ending PROVE \E step \in OwnSteps : Chance(step)
  BY DEF EndIsPossible, Chances
<1>1. CASE phase \in {"received", "ready", "answering"}
  BY <1>1 DEF Chance, OwnSteps
<1>2. CASE phase \in {"sent", "reading"}
  <2>1. pos <= Len(Program) /\ pos \in Nat /\ Len(Program) \in Nat /\ due \in Nat /\ age \in Nat
    BY <1>2, CurrentIsGood DEF CallTypeOK
  <2>2. client = "gone" \/ due # None
    BY <1>2, <2>1 DEF Ending
  <2>3. client = "gone" \/ IsLate \/ DueLater
    BY <2>1, <2>2 DEF IsLate, DueLater
  <2> QED BY <1>2, <2>3 DEF Chance, OwnSteps
<1> QED BY <1>1, <1>2 DEF Ending, CallTypeOK

\* A step that goes on to another phase or request.
Moves == Left' < Left /\ (Ending => Ending' \/ phase' = "done")

\* A step that does not: the clock may go on, and who has gone stays away.
Stays ==
    /\ UNCHANGED <<message, phase, pos, due>>
    /\ age' \in {age, age + 1}
    /\ client = "gone" => client' = "gone"

LEMMA Numbers ==
  ASSUME CallTypeOK
  PROVE  /\ message \in Messages /\ Len(Program) \in Nat /\ pos \in 1 .. (Len(Program) + 1)
         /\ due \in Nat /\ age \in Nat /\ Left \in Nat
         /\ phase \in {"received", "ready", "sent", "reading"} =>
               Left = 3 * (Len(Program) + 1 - pos) + StepsOf[phase]
         /\ phase = "answering" => Left = 1
         /\ phase = "done" => Left = 0
<1>1. /\ message \in Messages /\ Len(Program) \in Nat /\ pos \in 1 .. (Len(Program) + 1)
      /\ due \in Nat /\ age \in Nat
  BY CurrentIsGood DEF CallTypeOK
<1>2. phase \in {"received", "ready", "sent", "reading", "answering", "done"}
  BY DEF CallTypeOK
<1>3. phase \in {"received", "ready", "sent", "reading"} =>
         Left = 3 * (Len(Program) + 1 - pos) + StepsOf[phase] /\ StepsOf[phase] \in Nat
  BY DEF Left, StepsOf
<1> QED BY <1>1, <1>2, <1>3 DEF Left

\* The current request is over, with an answer or without one: on to a later one, or to
\* the answer of the call.
LEMMA RequestOver ==
  ASSUME CallTypeOK, CallTypeOK', DeadlineInv, phase \in {"ready", "sent", "reading"},
         pos <= Len(Program), Closes, NEW n \in Nat, NEW r, Goes(n) \/ Ends(r)
  PROVE  Moves
<1>1. /\ Len(Program) \in Nat /\ pos \in 1 .. Len(Program) /\ message \in Messages
      /\ Program' = Program /\ client' = client
  BY Numbers DEF Closes, Program
<1>2. Left = 3 * (Len(Program) + 1 - pos) + StepsOf[phase] /\ StepsOf[phase] \in 2 .. 4
  BY Numbers DEF StepsOf
<1>3. CASE Goes(n)
  <2>1. phase' = "ready" /\ pos' = pos + 1 + n /\ StepsOf["ready"] = 4
    BY <1>3 DEF Goes, StepsOf
  <2>2. Left' = 3 * (Len(Program) + 1 - pos') + 4
    BY <1>1, <2>1 DEF Left
  <2>3. Left' < Left
    BY <1>1, <1>2, <2>1, <2>2
  <2>4. due # None => pos' > Len(Program)
    <3>1. due # None => GoodRequest(Current, message, Len(Program) - pos) /\ Current.within # None
      BY <1>1, CurrentIsGood DEF DeadlineInv
    <3>2. due # None => Len(Program) - pos = 0
      BY <3>1 DEF GoodRequest
    <3> QED BY <1>1, <2>1, <3>2
  <2>5. Ending => Ending'
    BY <1>1, <2>1, <2>4 DEF Ending
  <2> QED BY <2>3, <2>5 DEF Moves
<1>4. CASE Ends(r)
  <2>1. phase' = "answering"
    BY <1>4 DEF Ends
  <2>2. Left' = 1 /\ Ending'
    BY <2>1 DEF Left, Ending
  <2> QED BY <1>1, <1>2, <2>2 DEF Moves
<1> QED BY <1>3, <1>4

LEMMA TroubleEnds ==
  ASSUME CallTypeOK, CallTypeOK', DeadlineInv, phase \in {"ready", "sent", "reading"},
         pos <= Len(Program), NEW policy, NEW late, Trouble(policy, Current.drops, late)
  PROVE  Moves
<1>1. Current.drops \in Nat
  BY Numbers, CurrentIsGood DEF Request
<1>2. Closes
  BY DEF Trouble
<1>3. Ends(IF late /\ Current.tells THEN "deadline" ELSE "failed")
      \/ Goes(Current.drops) \/ Goes(0)
  BY DEF Trouble
<1> QED BY <1>1, <1>2, <1>3, RequestOver

LEMMA GivingUpMoves ==
  ASSUME CallTypeOK, CallTypeOK', DeadlineInv, StoreFails \/ GivesUp
  PROVE  Moves
<1>1. ASSUME NEW late, Fails(late) \/ BreaksOff(late) PROVE Moves
  <2>1. phase \in {"sent", "reading"} /\ pos <= Len(Program)
    BY <1>1 DEF Fails, BreaksOff, CallTypeOK
  <2>2. Trouble(Current.onError, Current.drops, late)
        \/ Trouble(Current.onCut, Current.drops, phase = "reading" /\ late)
    BY <1>1 DEF Fails, BreaksOff
  <2> QED BY <2>1, <2>2, TroubleEnds
<1> QED BY <1>1 DEF StoreFails, GivesUp

LEMMA HandlerMoves ==
  ASSUME CallTypeOK, CallTypeOK', DeadlineInv, HandlerGoesOn
  PROVE  Moves
<1>0. Len(Program) \in Nat /\ pos \in 1 .. (Len(Program) + 1) /\ 0 \in Nat
  BY Numbers
<1>1. CASE Dispatch
  <2>1. /\ phase = "received" /\ phase' \in {"answering", "ready"} /\ Program' = Program
        /\ UNCHANGED <<pos, due, client>>
    BY <1>1 DEF Dispatch, Program
  <2>2. Left = 3 * (Len(Program) + 1 - pos) + 5
    BY <2>1 DEF Left, StepsOf
  <2>3. Left' = 1 \/ Left' = 3 * (Len(Program) + 1 - pos) + 4
    BY <2>1 DEF Left, StepsOf
  <2>4. Ending => Ending'
    BY <2>1 DEF Ending
  <2> QED BY <1>0, <2>2, <2>3, <2>4 DEF Moves
<1>2. CASE Send
  <2>1. /\ phase = "ready" /\ phase' = "sent" /\ Program' = Program /\ pos' = pos
        /\ pos <= Len(Program) /\ client' = client
    BY <1>2 DEF Send, Program
  <2>2. Left = 3 * (Len(Program) + 1 - pos) + 4 /\ Left' = 3 * (Len(Program) + 1 - pos) + 3
    BY <2>1 DEF Left, StepsOf
  <2>3. due = None
    BY <2>1 DEF DeadlineInv
  <2>4. Ending => Ending'
    BY <1>0, <2>1, <2>3 DEF Ending
  <2> QED BY <1>0, <2>2, <2>4 DEF Moves
<1>3. CASE IsRefused
  BY <1>3, TroubleEnds DEF IsRefused
<1>4. CASE Panics
  BY <1>0, <1>4, RequestOver DEF Panics
<1>5. CASE Finish
  <2>1. phase = "ready" /\ phase' = "answering" /\ Ending'
    BY <1>5 DEF Finish, Ends, Ending
  <2>2. Left = 3 * (Len(Program) + 1 - pos) + 4 /\ Left' = 1
    BY <2>1 DEF Left, StepsOf
  <2> QED BY <1>0, <2>1, <2>2 DEF Moves
<1>6. CASE Deliver
  BY <1>6 DEF Deliver, Moves, Left
<1> QED BY <1>1, <1>2, <1>3, <1>4, <1>5, <1>6 DEF HandlerGoesOn

LEMMA MovesOrStays ==
  ASSUME CallTypeOK, CallTypeOK', DeadlineInv, [CallNext]_callVars
  PROVE  Moves \/ Stays
<1>0. Len(Program) \in Nat /\ pos \in 1 .. (Len(Program) + 1) /\ age \in Nat /\ 0 \in Nat
  BY Numbers
<1>1. CASE HandlerGoesOn
  BY <1>1, HandlerMoves
<1>2. CASE StoreFails \/ GivesUp
  BY <1>2, GivingUpMoves
<1>3. CASE Body \/ EndOfRows
  <2>1. PICK T : Answers(T)
    BY <1>3 DEF Body, EndOfRows
  <2>2. phase \in {"sent", "reading"} /\ pos <= Len(Program)
    BY <1>3 DEF Body, EndOfRows, CallTypeOK
  <2>3. Current.instead \in Nat
    BY <1>0, <2>2, Numbers, CurrentIsGood DEF Request
  <2> QED BY <2>1, <2>2, <2>3, RequestOver DEF Answers
<1>4. CASE Forbidden \/ TypeReturns \/ ValueReturns
  <2>1. phase = "sent" /\ pos <= Len(Program) /\ Closes /\ (Goes(0) \/ Ends("failed"))
    BY <1>4 DEF Forbidden, TypeReturns, ValueReturns, CallTypeOK
  <2> QED BY <1>0, <2>1, RequestOver
<1>5. CASE \E B \in SUBSET Of(store, "keys") : ScanEnds(B)
  <2>1. phase = "sent" /\ pos <= Len(Program) /\ Closes /\ (Goes(0) \/ Ends("panic"))
    BY <1>5 DEF ScanEnds, CallTypeOK
  <2> QED BY <1>0, <2>1, RequestOver
<1>6. CASE Begins
  <2>1. /\ phase = "sent" /\ phase' = "reading" /\ Program' = Program
        /\ UNCHANGED <<pos, due, client>>
    BY <1>6 DEF Begins, Program
  <2>2. Left = 3 * (Len(Program) + 1 - pos) + 3 /\ Left' = 3 * (Len(Program) + 1 - pos) + 2
    BY <2>1 DEF Left, StepsOf
  <2>3. Ending => Ending'
    BY <2>1 DEF Ending
  <2> QED BY <1>0, <2>2, <2>3 DEF Moves
<1>7. CASE (\E i \in Items : Row(i)) \/ \E B \in SUBSET Of(store, "keys") : ScanGoesOn(B)
  BY <1>7 DEF Row, ScanGoesOn, Stays
<1>8. CASE HangUp \/ Signal \/ Tick \/ UNCHANGED callVars
  BY <1>8 DEF HangUp, Signal, Tick, callVars, handlerVars, Stays
<1>10. CASE Exit
  <2>1. phase # "done" /\ phase' = "done"
    BY <1>10 DEF Exit
  <2>2. Left \in Nat \ {0}
    <3>1. CASE phase \in {"received", "ready", "sent", "reading"}
      <4>1. Left = 3 * (Len(Program) + 1 - pos) + StepsOf[phase] /\ StepsOf[phase] \in 2 .. 5
        BY <3>1, Numbers DEF StepsOf
      <4> QED BY <1>0, <4>1
    <3>2. CASE phase = "answering"
      BY <3>2 DEF Left
    <3> QED BY <2>1, <3>1, <3>2 DEF CallTypeOK
  <2> QED BY <2>1, <2>2 DEF Moves, Left
<1>9. CASE \E i \in Items : Create(i) \/ Drop(i)
  BY <1>9 DEF Create, Drop, handlerVars, Stays
<1> QED
  BY <1>1, <1>2, <1>3, <1>4, <1>5, <1>6, <1>7, <1>8, <1>9, <1>10 DEF CallNext, Returns

LEMMA NearerStep ==
  ASSUME CallTypeOK, CallTypeOK', DeadlineInv, [CallNext]_callVars
  PROVE  EndComesNearer
<1> SUFFICES ASSUME Ending
             PROVE  /\ Ending' \/ phase' = "done"
                    /\ Nearer \/ AsFar
                    /\ OwnStep => Nearer
                    /\ AsFar => Chances \subseteq Chances'
  BY DEF EndComesNearer
<1>1. Left \in Nat /\ age \in Nat /\ due \in Nat
  BY Numbers
<1>2. CASE Moves
  BY <1>1, <1>2 DEF Moves, Nearer, AsFar
<1>3. CASE Stays /\ ~Moves
  <2>1. ~HandlerGoesOn /\ ~GivesUp
    BY <1>3, HandlerMoves, GivingUpMoves
  <2>2. /\ UNCHANGED <<phase, pos, due, message>> /\ age' \in {age, age + 1}
        /\ client = "gone" => client' = "gone"
    BY <1>3 DEF Stays
  <2>3. Program' = Program /\ Left' = Left
    BY <2>2 DEF Program, Left
  <2>4. Ending'
    BY <2>2, <2>3 DEF Ending
  <2>5. DueLater' => DueLater
    BY <1>1, <2>2 DEF DueLater
  <2>6. DueLater => Wait = due - age /\ Wait \in Nat \ {0}
    BY <1>1 DEF Wait, DueLater
  <2>7. DueLater' => Wait' = due - age' /\ Wait' <= Wait /\ Wait' # 0
    <3>1. DueLater' => Wait' = due' - age' /\ age' < due'
      BY DEF Wait, DueLater
    <3>2. due' = due /\ (age' = age \/ age' = age + 1)
      BY <2>2
    <3>3. DueLater' => Wait = due - age
      BY <2>5, <2>6
    <3> QED BY <1>1, <3>1, <3>2, <3>3
  <2>8. (~DueLater => Wait = 0) /\ (~DueLater' => Wait' = 0)
    BY DEF Wait
  <2>9. Wait' = Wait \/ Wait' < Wait
    BY <1>1, <2>2, <2>5, <2>6, <2>7, <2>8
  <2>10. DueLater /\ Tick => Wait' < Wait
    <3>1. Tick => age' = age + 1
      BY DEF Tick
    <3> QED BY <1>1, <2>2, <2>6, <2>7, <2>8, <3>1
  <2>11. ASSUME Wait' = Wait PROVE Chances \subseteq Chances'
    <3>1. DueLater => DueLater'
      BY <2>6, <2>11, <2>8
    <3>2. IsLate => IsLate'
      BY <1>1, <2>2 DEF IsLate
    <3>3. \A step \in OwnSteps : Chance(step) => Chance(step)'
      BY <2>2, <3>1, <3>2 DEF Chance, OwnSteps
    <3> QED BY <3>3 DEF Chances
  <2> QED BY <2>1, <2>3, <2>4, <2>9, <2>10, <2>11 DEF Nearer, AsFar, OwnStep
<1> QED BY <1>2, <1>3, MovesOrStays

\* A call whose client has gone, or whose request has a deadline, always has a step of its
\* own to take, whatever the store does: nothing waits for a dead connection.
THEOREM EndsArePossible == CallSpec => []EndIsPossible
  BY CallTypes, SomeStep, PTL

\* No step leads such a call away from its end, each step of its own brings it nearer, and
\* nothing takes such a step away: with FairCallSpec it comes to its end.
THEOREM EndsComeNearer == CallSpec => [][EndComesNearer]_callVars
  BY CallTypes, DeadlinesKept, NearerStep, PTL DEF CallSpec

=============================================================================
