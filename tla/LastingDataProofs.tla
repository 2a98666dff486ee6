-------------------------- MODULE LastingDataProofs --------------------------
(***************************************************************************)
(* What was in a store during a whole call is in its answer, for any       *)
(* messages, items, limits and timeouts.  The proof follows a program      *)
(* request by request: those behind "pos" are settled, those from "pos" on *)
(* have put nothing into the answer yet, and of a stream in between the    *)
(* rest is still in "batch".  The second part is about limits: a good      *)
(* answer is never longer than was asked for.                              *)
(***************************************************************************)
EXTENDS ToolCallsProofs

-----------------------------------------------------------------------------
(* What the proof needs of programs                                        *)

Details == {"primary_key", "references", "indexes"}
Limits == Nat \cup {NoLimit}
Policy(r, p) == r.onError = p \/ r.onCut = p

\* A request that loses what it should read says so, belongs to a section of a card that
\* can be missing, or is one that MayLose names; so is one whose shards may fail.
Careful(r, m) ==
    /\ r.most \in Limits
    /\ r.how = "value" => m.tool = "redis_get"
    /\ r.how = "type" => m.tool = "redis_get"
    /\ r.needed => r.part = "columns" /\ r.most = NoLimit
    /\ r.partial => MayLose(r, m) /\ ~r.needed
    /\ Policy(r, "skip") => m.tool \in Cards /\ r.part # "columns"
    /\ Policy(r, "note") => m.tool \in Cards /\ r.part \in Details
    /\ Policy(r, "ignore") => MayLose(r, m)

\* s is sent when r is answered by a 403, and reads the same.
Serves(s, r) ==
    /\ r.instead = 1 /\ s.instead = 0
    /\ r.how = "body" /\ s.how = "body"
    /\ s.part = r.part /\ s.most = r.most

\* s, dropped because r failed, may be lost or is noted as r is.
Excused(s, r, m) ==
    /\ Policy(r, "skip") \/ Policy(r, "blank") => MayLose(s, m)
    /\ Policy(r, "note") => s.part \in Details

\* No two requests fill the same part of the answer, but for one that serves the other.
Orderly(P, m) ==
    /\ \A n \in 1 .. Len(P) : Careful(P[n], m)
    /\ \A n \in 1 .. Len(P) : P[n].instead > 0 => n < Len(P) /\ Serves(P[n + 1], P[n])
    /\ \A n, k \in 1 .. Len(P) : n < k /\ P[n].part = P[k].part =>
          k = n + 1 /\ Serves(P[k], P[n])
    /\ \A n, k \in 1 .. Len(P) : n < k /\ k <= n + P[n].drops => Excused(P[k], P[n], m)

PartsIn(P) == {P[n].part : n \in 1 .. Len(P)}

LEMMA EmptyIsOrderly == \A m : Orderly(<<>>, m) /\ PartsIn(<<>>) = {}
  BY DEF Orderly, PartsIn

LEMMA OneIsOrderly ==
  ASSUME NEW m, NEW r, Careful(r, m), r.instead = 0
  PROVE  Orderly(<<r>>, m) /\ PartsIn(<<r>>) = {r.part}
<1>1. Len(<<r>>) = 1 /\ <<r>>[1] = r
  OBVIOUS
<1>2. Orderly(<<r>>, m)
  BY <1>1 DEF Orderly
<1>3. PartsIn(<<r>>) = {r.part}
  BY <1>1 DEF PartsIn
<1> QED
  BY <1>2, <1>3

LEMMA TwoAreOrderly ==
  ASSUME NEW m, NEW r, NEW s, Careful(r, m), Careful(s, m), s.instead = 0,
         (r.instead = 0 /\ r.part # s.part) \/ Serves(s, r),
         r.drops = 0 \/ Excused(s, r, m)
  PROVE  Orderly(<<r, s>>, m) /\ PartsIn(<<r, s>>) = {r.part, s.part}
<1>1. Len(<<r, s>>) = 2 /\ <<r, s>>[1] = r /\ <<r, s>>[2] = s
  OBVIOUS
<1>2. 1 .. 2 = {1, 2}
  OBVIOUS
<1>3. Orderly(<<r, s>>, m)
  BY <1>1, <1>2 DEF Orderly, Serves
<1>4. PartsIn(<<r, s>>) = {r.part, s.part}
  BY <1>1, <1>2 DEF PartsIn
<1> QED
  BY <1>3, <1>4

LEMMA ThreeAreOrderly ==
  ASSUME NEW m, NEW r, NEW s, NEW t, Careful(r, m), Careful(s, m), Careful(t, m),
         r.instead = 0, s.instead = 0, t.instead = 0,
         r.part # s.part, r.part # t.part, s.part # t.part,
         Excused(s, r, m), Excused(t, r, m), Excused(t, s, m)
  PROVE  Orderly(<<r, s, t>>, m) /\ PartsIn(<<r, s, t>>) = {r.part, s.part, t.part}
<1>1. Len(<<r, s, t>>) = 3 /\ <<r, s, t>>[1] = r /\ <<r, s, t>>[2] = s /\ <<r, s, t>>[3] = t
  OBVIOUS
<1>2. 1 .. 3 = {1, 2, 3}
  OBVIOUS
<1>3. Orderly(<<r, s, t>>, m)
  BY <1>1, <1>2 DEF Orderly
<1>4. PartsIn(<<r, s, t>>) = {r.part, s.part, t.part}
  BY <1>1, <1>2 DEF PartsIn
<1> QED
  BY <1>3, <1>4

\* What a request drops is in its program.
LEMMA DropsAreWithin ==
  ASSUME NEW m, NEW P, GoodProgram(P, m)
  PROVE  /\ P \in Seq(Request) /\ Len(P) \in Nat
         /\ \A n \in 1 .. Len(P) : P[n].drops \in Nat /\ n + P[n].drops <= Len(P)
<1>1. P \in Seq(Request) /\ Len(P) \in Nat
  BY DEF GoodProgram
<1>2. ASSUME NEW n \in 1 .. Len(P)
      PROVE  P[n].drops \in Nat /\ n + P[n].drops <= Len(P)
  <2>1. GoodRequest(P[n], m, Len(P) - n)
    BY DEF GoodProgram
  <2>2. P[n].drops \in Nat /\ P[n].drops <= Len(P) - n
    BY <2>1 DEF GoodRequest, Request
  <2> QED
    BY <1>1, <2>2
<1> QED
  BY <1>1, <1>2

\* Two programs that fill different parts, one after the other.
LEMMA BothAreOrderly ==
  ASSUME NEW m, NEW P, NEW Q, GoodProgram(P, m), GoodProgram(Q, m),
         Orderly(P, m), Orderly(Q, m), PartsIn(P) \cap PartsIn(Q) = {}
  PROVE  Orderly(P \o Q, m) /\ PartsIn(P \o Q) = PartsIn(P) \cup PartsIn(Q)
<1> DEFINE R == P \o Q
<1>1. /\ P \in Seq(Request) /\ Q \in Seq(Request)
      /\ Len(P) \in Nat /\ Len(Q) \in Nat
      /\ \A n \in 1 .. Len(P) : P[n].drops \in Nat /\ n + P[n].drops <= Len(P)
      /\ \A n \in 1 .. Len(Q) : Q[n].drops \in Nat /\ n + Q[n].drops <= Len(Q)
  BY DropsAreWithin
<1>2. /\ Len(R) = Len(P) + Len(Q)
      /\ \A n \in 1 .. Len(P) : R[n] = P[n]
      /\ \A n \in 1 .. Len(Q) : R[Len(P) + n] = Q[n]
  BY <1>1
<1>3. \A n \in 1 .. Len(R) : \/ n \in 1 .. Len(P)
                             \/ \E k \in 1 .. Len(Q) : n = Len(P) + k
  <2> SUFFICES ASSUME NEW n \in 1 .. Len(R), n > Len(P)
               PROVE  \E k \in 1 .. Len(Q) : n = Len(P) + k
    BY <1>1, <1>2
  <2>1. n - Len(P) \in 1 .. Len(Q) /\ n = Len(P) + (n - Len(P))
    BY <1>1, <1>2
  <2> QED
    BY <2>1
<1>4. PartsIn(R) = PartsIn(P) \cup PartsIn(Q)
  <2>1. \A n \in 1 .. Len(P) : n \in 1 .. Len(R)
    BY <1>1, <1>2
  <2>2. \A n \in 1 .. Len(Q) : Len(P) + n \in 1 .. Len(R)
    BY <1>1, <1>2
  <2> HIDE DEF R
  <2>3. PartsIn(P) \subseteq PartsIn(R)
    BY <1>2, <2>1 DEF PartsIn
  <2>4. PartsIn(Q) \subseteq PartsIn(R)
    <3>1. \A n \in 1 .. Len(Q) : Q[n].part = R[Len(P) + n].part
      BY <1>2
    <3> QED
      BY <2>2, <3>1 DEF PartsIn
  <2>5. PartsIn(R) \subseteq PartsIn(P) \cup PartsIn(Q)
    <3> SUFFICES ASSUME NEW n \in 1 .. Len(R)
                 PROVE  R[n].part \in PartsIn(P) \cup PartsIn(Q)
      BY DEF PartsIn
    <3>1. CASE n \in 1 .. Len(P)
      BY <1>2, <3>1 DEF PartsIn
    <3>2. ASSUME NEW k \in 1 .. Len(Q), n = Len(P) + k
          PROVE  R[n].part \in PartsIn(Q)
      BY <1>2, <3>2 DEF PartsIn
    <3> QED
      BY <1>3, <3>1, <3>2
  <2> QED
    BY <2>3, <2>4, <2>5
<1>5. \A n \in 1 .. Len(P), k \in 1 .. Len(Q) : P[n].part # Q[k].part
  BY DEF PartsIn
<1> HIDE DEF R
<1>6. ASSUME NEW n \in 1 .. Len(R) PROVE Careful(R[n], m)
  BY <1>2, <1>3 DEF Orderly
<1>7. ASSUME NEW n \in 1 .. Len(R), R[n].instead > 0
      PROVE  n < Len(R) /\ Serves(R[n + 1], R[n])
  <2>1. CASE n \in 1 .. Len(P)
    <3>1. n < Len(P) /\ Serves(P[n + 1], P[n])
      BY <1>2, <1>7, <2>1 DEF Orderly
    <3>2. n + 1 \in 1 .. Len(P) /\ n < Len(R)
      BY <1>1, <1>2, <2>1, <3>1
    <3> QED
      BY <1>2, <2>1, <3>1, <3>2
  <2>2. ASSUME NEW k \in 1 .. Len(Q), n = Len(P) + k
        PROVE  n < Len(R) /\ Serves(R[n + 1], R[n])
    <3>1. k < Len(Q) /\ Serves(Q[k + 1], Q[k])
      BY <1>2, <1>7, <2>2 DEF Orderly
    <3>2. k + 1 \in 1 .. Len(Q) /\ n < Len(R) /\ n + 1 = Len(P) + (k + 1)
      BY <1>1, <1>2, <2>2, <3>1
    <3> QED
      BY <1>2, <2>2, <3>1, <3>2
  <2> QED
    BY <1>3, <2>1, <2>2
<1> DEFINE Pair(n, k) ==
      /\ R[n].part = R[k].part => k = n + 1 /\ Serves(R[k], R[n])
      /\ k <= n + R[n].drops => Excused(R[k], R[n], m)
<1>8. ASSUME NEW n \in 1 .. Len(R), NEW k \in 1 .. Len(R), n < k
      PROVE  Pair(n, k)
  <2>1. CASE k \in 1 .. Len(P)
    <3>1. n \in 1 .. Len(P)
      BY <1>1, <1>8, <2>1
    <3> QED
      BY <1>2, <1>8, <2>1, <3>1 DEF Orderly
  <2>2. ASSUME NEW j \in 1 .. Len(Q), k = Len(P) + j
        PROVE  Pair(n, k)
    <3>1. CASE n \in 1 .. Len(P)
      <4>1. R[n].part # R[k].part
        <5>1. R[n] = P[n] /\ R[k] = Q[j]
          BY <1>2, <2>2, <3>1
        <5> QED
          BY <1>5, <3>1, <5>1
      <4>2. ~(k <= n + R[n].drops)
        <5>1. R[n] = P[n] /\ P[n].drops \in Nat /\ n + P[n].drops <= Len(P)
          BY <1>1, <1>2, <3>1
        <5> QED
          BY <1>1, <2>2, <3>1, <5>1
      <4> QED
        BY <1>8, <4>1, <4>2
    <3>2. ASSUME NEW i \in 1 .. Len(Q), n = Len(P) + i
          PROVE  Pair(n, k)
      <4>1. R[n] = Q[i] /\ R[k] = Q[j]
        BY <1>2, <2>2, <3>2
      <4>2. i < j /\ (j = i + 1 => k = n + 1) /\ (k <= n + Q[i].drops => j <= i + Q[i].drops)
        <5>1. Q[i].drops \in Nat
          BY <1>1
        <5>0. Len(P) \in Nat /\ Len(Q) \in Nat /\ i \in Nat /\ j \in Nat
          BY <1>1
        <5>2. ASSUME NEW d \in Nat, k <= n + d PROVE j <= i + d
          BY <2>2, <3>2, <5>0, <5>2
        <5>3. i < j /\ (j = i + 1 => k = n + 1)
          BY <1>8, <2>2, <3>2, <5>0
        <5> QED
          BY <5>1, <5>2, <5>3
      <4>3. /\ Q[i].part = Q[j].part => j = i + 1 /\ Serves(Q[j], Q[i])
            /\ j <= i + Q[i].drops => Excused(Q[j], Q[i], m)
        BY <4>2 DEF Orderly
      <4> QED
        BY <4>1, <4>2, <4>3
    <3> QED
      BY <1>3, <3>1, <3>2
  <2> QED
    BY <1>3, <2>1, <2>2
<1>9. Orderly(R, m)
  BY <1>6, <1>7, <1>8 DEF Orderly
<1> QED
  BY <1>4, <1>9 DEF R

\* Programs about different parts.
LEMMA TogetherAreGood ==
  ASSUME NEW m, m.tool \in Cards, NEW P, NEW Q, NEW A, NEW B, A \cap B = {},
         GoodProgram(P, m), Orderly(P, m), PartsIn(P) \subseteq A,
         GoodProgram(Q, m), Orderly(Q, m), PartsIn(Q) \subseteq B
  PROVE  GoodProgram(P \o Q, m) /\ Orderly(P \o Q, m) /\ PartsIn(P \o Q) \subseteq A \cup B
<1>1. PartsIn(P) \cap PartsIn(Q) = {}
  OBVIOUS
<1>2. GoodProgram(P \o Q, m)
  BY BothAreGood
<1>3. Orderly(P \o Q, m)
  BY <1>1, BothAreOrderly
<1>4. PartsIn(P \o Q) \subseteq PartsIn(P) \cup PartsIn(Q)
  BY <1>1, BothAreOrderly
<1>5. PartsIn(P \o Q) \subseteq A \cup B
  BY <1>4
<1> QED
  BY <1>2, <1>3, <1>5

-----------------------------------------------------------------------------
(* The programs, one by one                                                *)

\* A request that ends the call when anything goes wrong.
LEMMA MustIsCareful ==
  ASSUME NEW m, NEW p, NEW h, h \in {"type", "value"} => m.tool = "redis_get"
  PROVE  /\ Careful(Must(p, h), m) /\ Must(p, h).instead = 0 /\ Must(p, h).part = p
         /\ \A s : Excused(s, Must(p, h), m)
  BY DEF Careful, Must, Ask, Policy, Excused, Limits

LEMMA MustsAreOrderly ==
  ASSUME NEW m, NEW p, NEW h, h \notin {"type", "value"}
  PROVE  Orderly(<<Must(p, h)>>, m) /\ PartsIn(<<Must(p, h)>>) = {p}
  BY MustIsCareful, OneIsOrderly

LEMMA CatalogIsPlain ==
  ASSUME NEW e PROVE Catalog(e) \notin {"type", "value"}
  BY DEF Catalog

LEMMA ListsAreOrderly ==
  ASSUME NEW m, NEW e
  PROVE  /\ Orderly(ListSchemas(e), m) /\ Orderly(<<ListColumns(e)>>, m)
         /\ Orderly(<<Must("tables", Catalog(e))>>, m)
         /\ Orderly(<<ResolveIndex>>, m)
<1>1. \A p : Orderly(<<Must(p, Catalog(e))>>, m)
  BY MustsAreOrderly, CatalogIsPlain
<1>2. Orderly(<<ResolveIndex>>, m)
  BY MustsAreOrderly DEF ResolveIndex
<1> QED
  BY <1>1, <1>2, EmptyIsOrderly DEF ListSchemas, ListColumns

\* Of the two ways to list indices, the second serves the first.
LEMMA CatIsOrderly ==
  ASSUME NEW m, NEW limit \in Limits, NEW c,
         c \in {"fail", "ignore"}, c = "ignore" => m.tool = "es_list_indices"
  PROVE  Orderly(CatIndices(c, limit), m)
<1> DEFINE r == Limited(Sparing(Ask("indices", "body", "fail", c), 1), limit)
           s == Limited(ResolveIndex, limit)
<1>1. /\ r.part = "indices" /\ r.how = "body" /\ r.onError = "fail" /\ r.onCut = c
      /\ r.drops = 0 /\ r.instead = 1 /\ r.needed = FALSE /\ r.most = limit
      /\ r.partial = FALSE
  BY DEF Limited, Sparing, Ask
<1>2. /\ s.part = "indices" /\ s.how = "body" /\ s.onError = "fail" /\ s.onCut = "fail"
      /\ s.instead = 0 /\ s.needed = FALSE /\ s.most = limit /\ s.partial = FALSE
  BY DEF Limited, ResolveIndex, Must, Ask
<1> HIDE DEF r, s
<1>3. Careful(r, m) /\ Careful(s, m) /\ Serves(s, r)
  BY <1>1, <1>2 DEF Careful, Policy, Serves, MayLose
<1>4. Orderly(<<r, s>>, m)
  BY <1>1, <1>2, <1>3, TwoAreOrderly
<1> QED
  BY <1>4 DEF CatIndices, r, s

LEMMA TablesAreOrderly ==
  ASSUME NEW m, NEW e
  PROVE  Orderly(ListTables(e), m)
<1>1. NoLimit \in Limits
  BY DEF Limits
<1>2. Orderly(CatIndices("fail", NoLimit), m)
  <2>1. "fail" \in {"fail", "ignore"} /\ "fail" # "ignore"
    OBVIOUS
  <2> QED
    BY <1>1, <2>1, CatIsOrderly
<1> QED
  BY <1>2, ListsAreOrderly DEF ListTables

\* The sections of a card fill parts of their own.
LEMMA StatsAreOrderly ==
  ASSUME NEW m, m.tool \in Cards
  PROVE  /\ Orderly(TableStats(m.engine), m)
         /\ PartsIn(TableStats(m.engine)) \subseteq {"stats", "index_names"}
<1> DEFINE d == Dropping(May("stats", "body"), 1)
           q == Ask("stats", "body", "blank", "blank")
<1>1. ASSUME NEW h \in {"body", "refused"}, NEW r, r = May("stats", h)
      PROVE  Orderly(<<r>>, m) /\ PartsIn(<<r>>) = {"stats"}
  <2>1. /\ r.part = "stats" /\ r.how = h /\ r.onError = "skip" /\ r.onCut = "skip"
        /\ r.instead = 0 /\ r.needed = FALSE /\ r.most = NoLimit /\ r.partial = FALSE
    BY <1>1 DEF May, Ask
  <2>2. Careful(r, m)
    BY <2>1 DEF Careful, Policy, Limits
  <2> QED
    BY <2>1, <2>2, OneIsOrderly
<1>2. /\ d.part = "stats" /\ d.how = "body" /\ d.onError = "skip" /\ d.onCut = "skip"
      /\ d.instead = 0 /\ d.needed = FALSE /\ d.most = NoLimit /\ d.partial = FALSE
  BY DEF Dropping, May, Ask
<1>3. /\ q.part = "stats" /\ q.how = "body" /\ q.onError = "blank" /\ q.onCut = "blank"
      /\ q.drops = 0 /\ q.instead = 0 /\ q.needed = FALSE /\ q.most = NoLimit /\ q.partial = FALSE
  BY DEF Ask
<1>4. /\ IndexNames.part = "index_names" /\ IndexNames.how = "rows"
      /\ IndexNames.onError = "blank" /\ IndexNames.onCut = "ignore"
      /\ IndexNames.instead = 0 /\ IndexNames.needed = FALSE /\ IndexNames.most = NoLimit
      /\ IndexNames.partial = FALSE
  BY DEF IndexNames, Ask
<1> HIDE DEF d, q
<1>5. Careful(d, m) /\ Careful(q, m)
  BY <1>2, <1>3 DEF Careful, Policy, Limits
<1>6. ASSUME m.engine \in {"postgres", "mysql", "sqlite"}
      PROVE  /\ Orderly(<<q, IndexNames>>, m) /\ Orderly(<<d, IndexNames>>, m)
             /\ PartsIn(<<q, IndexNames>>) = {"stats", "index_names"}
             /\ PartsIn(<<d, IndexNames>>) = {"stats", "index_names"}
  <2>1. MayLose(IndexNames, m)
    BY <1>4, <1>6 DEF MayLose, KnownShort, KnownBlank
  <2>2. Careful(IndexNames, m)
    BY <1>4, <2>1 DEF Careful, Policy, Limits
  <2>3. Excused(IndexNames, d, m)
    BY <1>2, <2>1 DEF Excused, Policy
  <2> QED
    BY <1>2, <1>3, <1>4, <1>5, <2>2, <2>3, TwoAreOrderly
<1>7. /\ m.engine \in {"postgres", "mysql"} => TableStats(m.engine) = <<d, IndexNames>>
      /\ m.engine = "sqlite" => TableStats(m.engine) = <<q, IndexNames>>
      /\ m.engine \notin {"postgres", "mysql", "sqlite"} =>
            TableStats(m.engine) \in {<<May("stats", "body")>>, <<May("stats", "refused")>>}
  BY DEF TableStats, d, q
<1> QED
  BY <1>1, <1>6, <1>7

LEMMA SampleIsOrderly ==
  ASSUME NEW m, m.tool \in Cards
  PROVE  Orderly(SampleRows(m.engine), m) /\ PartsIn(SampleRows(m.engine)) = {"sample"}
<1>1. ASSUME NEW h, h \notin {"type", "value"}, NEW r, r = Limited(May("sample", h), SampleLimit)
      PROVE  Orderly(<<r>>, m) /\ PartsIn(<<r>>) = {"sample"}
  <2>1. /\ r.part = "sample" /\ r.how = h /\ r.onError = "skip" /\ r.onCut = "skip"
        /\ r.instead = 0 /\ r.needed = FALSE /\ r.most = SampleLimit /\ r.partial = FALSE
    BY <1>1 DEF Limited, May, Ask
  <2>2. Careful(r, m)
    BY <1>1, <2>1, BoundAssumption DEF Careful, Policy, Limits
  <2> QED
    BY <2>1, <2>2, OneIsOrderly
<1>2. "cursor" \notin {"type", "value"}
  OBVIOUS
<1> QED
  BY <1>1, <1>2, CatalogIsPlain DEF SampleRows

LEMMA RelationshipsAreOrderly ==
  ASSUME NEW m, NEW r \in {May("foreign_keys", "rows"), Must("foreign_keys", "rows")},
         m.tool \in Cards \/ r = Must("foreign_keys", "rows")
  PROVE  /\ Orderly(FindRelationships(m.engine, r), m)
         /\ PartsIn(FindRelationships(m.engine, r)) \subseteq {"foreign_keys"}
<1>1. r.part = "foreign_keys" /\ r.instead = 0 /\ Careful(r, m)
  BY DEF May, Must, Ask, Careful, Policy, Limits
<1>2. Orderly(<<r>>, m) /\ PartsIn(<<r>>) = {"foreign_keys"}
  BY <1>1, OneIsOrderly
<1> QED
  BY <1>2, EmptyIsOrderly DEF FindRelationships

LEMMA DetailsAreOrderly ==
  ASSUME NEW m, m.tool \in Cards
  PROVE  /\ Orderly(TableDetails(m.engine), m)
         /\ PartsIn(TableDetails(m.engine)) \subseteq Details
<1>1. ASSUME m.engine = "postgres",
             NEW r, r = Dropping(Ask("primary_key", "rows", "note", "ignore"), 2),
             NEW s, s = Dropping(Ask("references", "rows", "note", "ignore"), 1),
             NEW t, t = Ask("indexes", "rows", "note", "note")
      PROVE  Orderly(<<r, s, t>>, m) /\ PartsIn(<<r, s, t>>) \subseteq Details
  <2>1. /\ r.part = "primary_key" /\ r.how = "rows" /\ r.onError = "note" /\ r.onCut = "ignore"
        /\ r.instead = 0 /\ r.needed = FALSE /\ r.most = NoLimit
        /\ r.partial = FALSE
    BY <1>1 DEF Dropping, Ask
  <2>2. /\ s.part = "references" /\ s.how = "rows" /\ s.onError = "note" /\ s.onCut = "ignore"
        /\ s.instead = 0 /\ s.needed = FALSE /\ s.most = NoLimit
        /\ s.partial = FALSE
    BY <1>1 DEF Dropping, Ask
  <2>3. /\ t.part = "indexes" /\ t.how = "rows" /\ t.onError = "note" /\ t.onCut = "note"
        /\ t.instead = 0 /\ t.needed = FALSE /\ t.most = NoLimit
        /\ t.partial = FALSE
    BY <1>1 DEF Ask
  <2>4. MayLose(r, m) /\ MayLose(s, m)
    BY <1>1, <2>1, <2>2 DEF MayLose, KnownShort
  <2>5. Careful(r, m) /\ Careful(s, m) /\ Careful(t, m)
    BY <2>1, <2>2, <2>3, <2>4 DEF Careful, Policy, Details, Limits
  <2>6. Excused(s, r, m) /\ Excused(t, r, m) /\ Excused(t, s, m)
    BY <2>1, <2>2, <2>3 DEF Excused, Policy, Details
  <2>7. /\ Orderly(<<r, s, t>>, m)
        /\ PartsIn(<<r, s, t>>) = {"primary_key", "references", "indexes"}
    BY <2>1, <2>2, <2>3, <2>5, <2>6, ThreeAreOrderly
  <2> QED
    BY <2>7 DEF Details
<1>2. ASSUME NEW r, r = Dropping(Ask("primary_key", "body", "note", "note"), 1),
             NEW s, s = Ask("indexes", "rows", "skip", "note")
      PROVE  Orderly(<<r, s>>, m) /\ PartsIn(<<r, s>>) \subseteq Details
  <2>1. /\ r.part = "primary_key" /\ r.how = "body" /\ r.onError = "note" /\ r.onCut = "note"
        /\ r.instead = 0 /\ r.needed = FALSE /\ r.most = NoLimit
        /\ r.partial = FALSE
    BY <1>2 DEF Dropping, Ask
  <2>2. /\ s.part = "indexes" /\ s.how = "rows" /\ s.onError = "skip" /\ s.onCut = "note"
        /\ s.instead = 0 /\ s.needed = FALSE /\ s.most = NoLimit
        /\ s.partial = FALSE
    BY <1>2 DEF Ask
  <2>3. Careful(r, m) /\ Careful(s, m) /\ Excused(s, r, m)
    BY <2>1, <2>2 DEF Careful, Policy, Excused, Details, Limits
  <2>4. Orderly(<<r, s>>, m) /\ PartsIn(<<r, s>>) = {"primary_key", "indexes"}
    BY <2>1, <2>2, <2>3, TwoAreOrderly
  <2> QED
    BY <2>4 DEF Details
<1> QED
  BY <1>1, <1>2, EmptyIsOrderly DEF TableDetails

LEMMA CardIsOrderly ==
  ASSUME NEW m, m.tool \in Cards
  PROVE  Orderly(TableCard(m), m) /\ Orderly(TableCard(m) \o AddFullCard(m.engine), m)
<1> DEFINE C == <<Needed(ListColumns(m.engine))>>
           S == TableStats(m.engine)
           R == IF m.sample THEN SampleRows(m.engine) ELSE <<>>
           F == FindRelationships(m.engine, May("foreign_keys", "rows"))
           D == TableDetails(m.engine)
<1>1. GoodProgram(C, m) /\ Orderly(C, m) /\ PartsIn(C) = {"columns"}
  <2>1. ASSUME NEW h, NEW r, h \notin {"type", "value"}, r = Needed(Must("columns", h))
        PROVE  Careful(r, m) /\ r.instead = 0 /\ r.part = "columns"
    BY <2>1 DEF Needed, Must, Ask, Careful, Policy, Limits
  <2>2. Orderly(C, m) /\ PartsIn(C) = {"columns"}
    BY <2>1, CatalogIsPlain, OneIsOrderly DEF ListColumns
  <2> QED
    BY <2>2, ListsAreGood
<1>2. GoodProgram(S, m) /\ Orderly(S, m) /\ PartsIn(S) \subseteq {"stats", "index_names"}
  BY StatsAreGood, StatsAreOrderly
<1>3. GoodProgram(R, m) /\ Orderly(R, m) /\ PartsIn(R) \subseteq {"sample"}
  BY SampleIsGood, SampleIsOrderly, EmptyIsGood, EmptyIsOrderly
<1>4. GoodProgram(F, m) /\ Orderly(F, m) /\ PartsIn(F) \subseteq {"foreign_keys"}
  BY RelationshipsAreGood, RelationshipsAreOrderly
<1>5. GoodProgram(D, m) /\ Orderly(D, m) /\ PartsIn(D) \subseteq Details
  BY DetailsAreGood, DetailsAreOrderly
<1> HIDE DEF C, S, R, F, D
<1>6. GoodProgram(C \o S, m) /\ Orderly(C \o S, m)
      /\ PartsIn(C \o S) \subseteq {"columns"} \cup {"stats", "index_names"}
  <2>1. {"columns"} \cap {"stats", "index_names"} = {} /\ PartsIn(C) \subseteq {"columns"}
    BY <1>1
  <2> QED
    BY <1>1, <1>2, <2>1, TogetherAreGood
<1>7. GoodProgram((C \o S) \o R, m) /\ Orderly((C \o S) \o R, m)
      /\ PartsIn((C \o S) \o R) \subseteq {"columns", "stats", "index_names"} \cup {"sample"}
  <2> DEFINE P == C \o S
  <2> DEFINE A == {"columns", "stats", "index_names"}
  <2> DEFINE B == {"sample"}
  <2>1. A \cap B = {}
    OBVIOUS
  <2>2. GoodProgram(P, m) /\ Orderly(P, m) /\ PartsIn(P) \subseteq A
    BY <1>6
  <2>3. GoodProgram(R, m) /\ Orderly(R, m) /\ PartsIn(R) \subseteq B
    BY <1>3
  <2> HIDE DEF P, A, B
  <2>4. GoodProgram(P \o R, m) /\ Orderly(P \o R, m) /\ PartsIn(P \o R) \subseteq A \cup B
    BY <2>1, <2>2, <2>3, TogetherAreGood
  <2> QED
    BY <2>4 DEF P, A, B
<1>8. GoodProgram(F \o D, m) /\ Orderly(F \o D, m)
      /\ PartsIn(F \o D) \subseteq {"foreign_keys"} \cup Details
  <2>1. {"foreign_keys"} \cap Details = {}
    BY DEF Details
  <2> QED
    BY <1>4, <1>5, <2>1, TogetherAreGood
<1>9. Orderly(((C \o S) \o R) \o (F \o D), m)
  <2> DEFINE P == (C \o S) \o R
  <2> DEFINE Q == F \o D
  <2>1. GoodProgram(P, m) /\ Orderly(P, m) /\ GoodProgram(Q, m) /\ Orderly(Q, m)
    BY <1>7, <1>8
  <2>2. PartsIn(P) \cap PartsIn(Q) = {}
    BY <1>7, <1>8 DEF Details
  <2> HIDE DEF P, Q
  <2>3. Orderly(P \o Q, m)
    BY <2>1, <2>2, BothAreOrderly
  <2> QED
    BY <2>3 DEF P, Q
<1>10. TableCard(m) = (C \o S) \o R
  BY DEF TableCard, C, S, R
<1>11. AddFullCard(m.engine) = F \o D
  BY DEF AddFullCard, F, D
<1> QED
  BY <1>7, <1>9, <1>10, <1>11

\* A statement has no limit: its rows are all in the answer or the call fails, unless
\* nobody waits any more.
LEMMA StatementIsOrderly ==
  ASSUME NEW m, NEW e, NEW comment
  PROVE  Orderly(ExecuteQuery(e, comment), m)
<1>1. ASSUME NEW c \in {"fail", "fail_unless_gone"}, NEW w, NEW t,
             NEW r, r = Within(Ask("result", "rows", "fail", c), w, t)
      PROVE  Orderly(<<r>>, m)
  <2>1. /\ r.part = "result" /\ r.how = "rows" /\ r.onError = "fail" /\ r.onCut = c
        /\ r.instead = 0 /\ r.needed = FALSE /\ r.most = NoLimit /\ r.partial = FALSE
    BY <1>1 DEF Within, Ask
  <2>2. Careful(r, m)
    BY <1>1, <2>1 DEF Careful, Policy, Limits
  <2> QED
    BY <2>1, <2>2, OneIsOrderly
<1>2. Orderly(<<Must("result", "refused")>>, m) /\ Orderly(<<Must("result", "panics")>>, m)
  BY MustsAreOrderly
<1> QED
  BY <1>1, <1>2 DEF ExecuteQuery

LEMMA DocumentsAreOrderly ==
  ASSUME NEW m, m.engine = "mongodb", NEW limit \in Int
  PROVE  Orderly(MongoFind(limit), m) /\ Orderly(MongoAggregate(limit), m)
<1>1. ASSUME NEW n \in Limits, NEW r, r = Limited(Ask("documents", "cursor", "fail", "ignore"), n)
      PROVE  Orderly(<<r>>, m)
  <2>1. /\ r.part = "documents" /\ r.how = "cursor" /\ r.onError = "fail" /\ r.onCut = "ignore"
        /\ r.instead = 0 /\ r.needed = FALSE /\ r.most = n /\ r.partial = FALSE
    BY <1>1 DEF Limited, Ask
  <2>2. Careful(r, m)
    BY <2>1 DEF Careful, Policy, MayLose, KnownShort
  <2> QED
    BY <2>1, <2>2, OneIsOrderly
<1>2. (IF limit = 0 THEN NoLimit ELSE IF limit < 0 THEN -limit ELSE limit) \in Limits
  BY DEF Limits
<1>3. Orderly(MongoFind(limit), m)
  BY <1>1, <1>2 DEF MongoFind
<1>4. Orderly(<<Must("documents", "refused")>>, m)
  BY MustsAreOrderly
<1> QED
  BY <1>3, <1>4 DEF MongoAggregate

\* Hits and fields are the answers of shards, some of which may have failed.
LEMMA SearchesAreOrderly ==
  ASSUME NEW m, m.engine = "elasticsearch",
         m.limit \in Int, m.maxFields \in Nat, m.maxIndices \in Nat
  PROVE  /\ Orderly(<<RunSearch(m)>>, m) /\ Orderly(DescribeIndex(m), m)
         /\ Orderly(<<Limited(FetchFieldCaps, m.maxFields)>>, m)
<1>1. /\ Careful(RunSearch(m), m) /\ RunSearch(m).instead = 0 /\ RunSearch(m).part = "hits"
  <2>1. CASE m.limit < 0
    <3>1. RunSearch(m) = Must("hits", "refused")
      BY <2>1 DEF RunSearch
    <3> QED
      BY <3>1, MustIsCareful
  <2>2. CASE ~(m.limit < 0)
    <3>1. /\ RunSearch(m).part = "hits" /\ RunSearch(m).how = "body"
          /\ RunSearch(m).onError = "fail" /\ RunSearch(m).onCut = "fail"
          /\ RunSearch(m).instead = 0 /\ RunSearch(m).needed = FALSE /\ RunSearch(m).most = m.limit
      BY <2>2 DEF RunSearch, Limited, Partial, Within, Must, Ask
    <3>2. MayLose(RunSearch(m), m) /\ m.limit \in Limits
      BY <2>2, <3>1 DEF MayLose, KnownShort, Limits
    <3> QED
      BY <3>1, <3>2 DEF Careful, Policy
  <2> QED
    BY <2>1, <2>2
<1>2. ASSUME NEW r, r = Limited(ResolveIndex, m.maxIndices)
      PROVE  /\ Careful(r, m) /\ r.instead = 0 /\ r.part = "indices"
             /\ \A s : Excused(s, r, m)
  <2>1. /\ r.part = "indices" /\ r.how = "body" /\ r.onError = "fail" /\ r.onCut = "fail"
        /\ r.instead = 0 /\ r.needed = FALSE /\ r.most = m.maxIndices /\ r.partial = FALSE
    BY <1>2 DEF Limited, ResolveIndex, Must, Ask
  <2> QED
    BY <2>1 DEF Careful, Policy, Excused, Limits
<1>3. ASSUME NEW r, r = Limited(FetchFieldCaps, m.maxFields)
      PROVE  /\ Careful(r, m) /\ r.instead = 0 /\ r.part = "fields"
             /\ \A s : Excused(s, r, m)
  <2>1. /\ r.part = "fields" /\ r.how = "body" /\ r.onError = "fail" /\ r.onCut = "fail"
        /\ r.instead = 0 /\ r.needed = FALSE /\ r.most = m.maxFields
    BY <1>3 DEF Limited, FetchFieldCaps, Partial, Must, Ask
  <2>2. MayLose(r, m)
    BY <2>1 DEF MayLose, KnownShort
  <2> QED
    BY <2>1, <2>2 DEF Careful, Policy, Excused, Limits
<1>4. Orderly(DescribeIndex(m), m)
  BY <1>1, <1>2, <1>3, ThreeAreOrderly DEF DescribeIndex
<1> QED
  BY <1>1, <1>3, <1>4, OneIsOrderly

\* The program of every message.
LEMMA ProgramsAreOrderly ==
  ASSUME NEW m \in Messages
  PROVE  Orderly(ProgramOf(m), m)
<1>1. /\ m.limit \in Int
      /\ m.maxFields \in Nat /\ m.maxIndices \in Nat
      /\ m.tool \in EsTools => m.engine = "elasticsearch"
      /\ m.tool = "es_list_indices" => m.limit >= 1
      /\ m.tool \in MongoTools => m.engine = "mongodb"
  BY MessageAssumption DEF Message
<1>2. /\ Orderly(<<Must("keys", "scan")>>, m) /\ Orderly(<<Must("info", "body")>>, m)
      /\ Orderly(<<Must("tables", "body")>>, m)
  BY MustsAreOrderly
<1>3. ASSUME m.tool = "redis_get" PROVE Orderly(RedisGet, m)
  <2>1. \A h \in {"type", "value"} :
          /\ Careful(Must(h, h), m) /\ Must(h, h).instead = 0 /\ Must(h, h).part = h
          /\ \A s : Excused(s, Must(h, h), m)
    BY <1>3, MustIsCareful
  <2>2. Orderly(<<Must("type", "type"), Must("value", "value")>>, m)
    BY <2>1, TwoAreOrderly
  <2> QED
    BY <2>2 DEF RedisGet
<1>4. m.tool \in EsTools => /\ Orderly(<<RunSearch(m)>>, m) /\ Orderly(DescribeIndex(m), m)
                            /\ Orderly(<<Limited(FetchFieldCaps, m.maxFields)>>, m)
  BY <1>1, SearchesAreOrderly
<1>5. m.tool = "es_list_indices" => Orderly(CatIndices("ignore", m.limit), m)
  BY <1>1, CatIsOrderly DEF Limits
<1>6. m.tool \in MongoTools => Orderly(MongoFind(m.limit), m) /\ Orderly(MongoAggregate(m.limit), m)
  BY <1>1, DocumentsAreOrderly
<1>7. m.tool \in Cards => Orderly(TableCard(m), m) /\ Orderly(TableCard(m) \o AddFullCard(m.engine), m)
  BY CardIsOrderly
<1>8. Orderly(FindRelationships(m.engine, Must("foreign_keys", "rows")), m)
  BY RelationshipsAreOrderly
<1>9. /\ Orderly(ListSchemas(m.engine), m) /\ Orderly(ListTables(m.engine), m)
      /\ Orderly(<<ListColumns(m.engine)>>, m) /\ Orderly(<<ResolveIndex>>, m)
      /\ Orderly(ExecuteQuery(m.engine, m.comment), m) /\ Orderly(<<>>, m)
  BY ListsAreOrderly, TablesAreOrderly, StatementIsOrderly, EmptyIsOrderly
<1> QED
  BY <1>2, <1>3, <1>4, <1>5, <1>6, <1>7, <1>8, <1>9 DEF ProgramOf, EsTools, MongoTools, Cards

-----------------------------------------------------------------------------
(* The invariant                                                           *)

\* What the answer holds of the part that a request fills.
Filled(n) == Of(got, Program[n].part)

Settled(n) == Enough(Program[n]) \/ LeftOut(Program[n]) \/ MayLose(Program[n], message)

\* The handler has gone on from a request only when it is settled, or to the one that
\* serves it.  Who has gone is owed nothing.
Settling ==
    result = "none" /\ client # "gone" =>
        \A n \in 1 .. (pos - 1) : Settled(n) \/ (Program[n].instead = 1 /\ pos = n + 1)

\* The requests to come find their part empty.
Fresh ==
    phase \notin {"answering", "done"} =>
        \A n \in pos .. Len(Program) :
            \/ Filled(n) = {}
            \/ n = pos /\ (phase = "reading" \/ (phase = "sent" /\ Program[n].how = "scan"))

\* Between the answer and "batch", no row of a snapshot is lost; a cursor is not read
\* beyond its limit.
StreamKept ==
    phase = "reading" =>
        /\ Current.how \in {"rows", "cursor"}
        /\ Current.how = "rows" =>
              /\ batch \subseteq Of(Items, Current.part)
              /\ \/ Of(always, Current.part) \subseteq got \cup batch
                 \/ Current.most # NoLimit /\ Cardinality(Filled(pos) \cup batch) = Current.most
        /\ Current.how = "cursor" /\ Current.most # NoLimit =>
              Cardinality(Filled(pos)) <= Current.most

LastingInv == Settling /\ Fresh /\ StreamKept /\ LastingDataIsAnswered

\* What holds before every step.
Before == CallTypeOK /\ CallTypeOK' /\ BlankInv' /\ DeadlineInv /\ RedisInv /\ LastingInv

LEMMA ProgramFacts ==
  ASSUME CallTypeOK
  PROVE  /\ Orderly(Program, message) /\ Program \in Seq(Request)
         /\ Len(Program) \in Nat /\ DOMAIN Program = 1 .. Len(Program)
         /\ pos \in Nat /\ 1 <= pos /\ pos <= Len(Program) + 1
         /\ message \in Messages /\ message.limit \in Int
<1>1. message \in Messages /\ pos \in 1 .. (Len(Program) + 1)
  BY DEF CallTypeOK
<1>2. Orderly(Program, message) /\ GoodProgram(Program, message)
  BY <1>1, ProgramsAreOrderly, ProgramsAreGood DEF Program
<1>3. Program \in Seq(Request)
  BY <1>2 DEF GoodProgram
<1>4. Len(Program) \in Nat /\ DOMAIN Program = 1 .. Len(Program)
  BY <1>3
<1>5. message.limit \in Int
  BY <1>1, MessageAssumption DEF Message
<1> QED
  BY <1>1, <1>2, <1>3, <1>4, <1>5

\* What the current request is like.
LEMMA CurrentIsCareful ==
  ASSUME CallTypeOK, pos <= Len(Program)
  PROVE  /\ pos \in 1 .. Len(Program) /\ Careful(Current, message)
         /\ Current.drops \in Nat /\ pos + Current.drops <= Len(Program)
         /\ Current.instead \in {0, 1} /\ pos + Current.instead <= Len(Program)
         /\ Current.instead = 1 => Serves(Program[pos + 1], Current)
         /\ Current.most \in Limits
<1>1. pos \in 1 .. Len(Program) /\ Current = Program[pos]
  BY ProgramFacts DEF Current
<1>2. /\ Careful(Current, message)
      /\ Current.instead > 0 => Serves(Program[pos + 1], Current)
  BY <1>1, ProgramFacts DEF Orderly
<1>3. /\ Current \in Request
      /\ pos + Current.drops <= Len(Program) /\ pos + Current.instead <= Len(Program)
  BY <1>1, CurrentIsGood, ProgramFacts
<1>4. Current.drops \in Nat /\ Current.instead \in Nat /\ Current.most \in Int
  BY <1>3 DEF Request
<1>5. Current.instead \in {0, 1} /\ Current.most \in Limits
  BY <1>2, <1>4 DEF Serves, Careful
<1> QED
  BY <1>1, <1>2, <1>3, <1>4, <1>5

\* Two requests that fill the same part.
LEMMA SamePart ==
  ASSUME CallTypeOK, NEW n \in 1 .. Len(Program), NEW k \in 1 .. Len(Program), n < k,
         Program[n].part = Program[k].part
  PROVE  k = n + 1 /\ Serves(Program[k], Program[n])
  BY ProgramFacts DEF Orderly

\* What is shown blank is one of the known exceptions.
LEMMA BlankIsLost ==
  ASSUME NEW r, NEW m, BlankInv', message' = m, r.part \in blank'
  PROVE  MayLose(r, m)
  BY DEF BlankInv, MayLose, KnownShort

\* A request stays settled while others are at work.
LEMMA SettledKept ==
  ASSUME CallTypeOK, CallTypeOK', BlankInv', NEW n, message' = message, Settled(n),
         Filled(n)' = Filled(n), always' \subseteq always, count' >= count, noted => noted',
         Program[n].how = "value" => UNCHANGED <<got, shape>>
  PROVE  Settled(n)'
<1>1. Program' = Program /\ count \in Nat /\ count' \in Nat /\ message.limit \in Int
  BY ProgramFacts DEF Program, CallTypeOK
<1>2. CASE MayLose(Program[n], message)
  BY <1>1, <1>2 DEF Settled, MayLose
<1>3. CASE LeftOut(Program[n])
  <2>1. CASE Program[n].part \in blank'
    BY <1>1, <2>1, BlankIsLost DEF Settled
  <2>2. CASE Program[n].part \notin blank'
    BY <1>1, <1>3, <2>2 DEF Settled, LeftOut, IsCard, Filled
  <2> QED
    BY <2>1, <2>2
<1>4. CASE Enough(Program[n])
  <2>1. CASE Of(always, Program[n].part) \subseteq got
    <3>1. Of(always', Program[n].part) \subseteq got'
      BY <2>1 DEF Of, Filled
    <3> QED
      BY <1>1, <3>1 DEF Settled, Enough, Of
  <2>2. CASE Program[n].most # NoLimit /\ Cardinality(Of(got, Program[n].part)) = Program[n].most
    <3>1. Cardinality(Filled(n)') = Program[n].most
      BY <2>2 DEF Filled
    <3> QED
      BY <1>1, <2>2, <3>1 DEF Settled, Enough, Filled
  <2>3. CASE Program[n].how = "scan" /\ count >= message.limit
    BY <1>1, <2>3 DEF Settled, Enough
  <2>4. CASE Program[n].how = "value" /\ shape \in {"list", "zset"} /\ Cardinality(got) = RangeSize
    BY <1>1, <2>4 DEF Settled, Enough
  <2> QED
    BY <1>4, <2>1, <2>2, <2>3, <2>4 DEF Enough
<1> QED
  BY <1>2, <1>3, <1>4 DEF Settled

\* A request and the one that serves it are settled together.
LEMMA SettledTogether ==
  ASSUME NEW n, NEW k, message' = message, Serves(Program[k], Program[n])
  PROVE  Settled(k)' <=> Settled(n)'
<1>1. Program' = Program
  BY DEF Program
<1>2. /\ Program[k].part = Program[n].part /\ Program[k].most = Program[n].most
      /\ Program[k].how = "body" /\ Program[n].how = "body"
  BY DEF Serves
<1> QED
  BY <1>1, <1>2 DEF Settled, Enough, LeftOut, MayLose

-----------------------------------------------------------------------------
(* Steps                                                                   *)

LEMMA LastingInit == CallInit => LastingInv
<1> SUFFICES ASSUME CallInit PROVE LastingInv
  OBVIOUS
<1>1. pos = 1 /\ got = {} /\ phase = "received" /\ result = "none"
  BY DEF CallInit
<1>2. \A n : Filled(n) = {}
  BY <1>1 DEF Filled, Of
<1> QED
  BY <1>1, <1>2 DEF LastingInv, Settling, Fresh, StreamKept, LastingDataIsAnswered

\* The call goes on, and nothing that it counts on is taken back.
GoesOn ==
    /\ message' = message /\ always' \subseteq always /\ count' >= count
    /\ noted => noted'
    /\ client' # "gone" => client # "gone"

\* A step that adds nothing to the answer and does not move on.
LEMMA FrameStep ==
  ASSUME Before, GoesOn, UNCHANGED <<pos, got, shape, result>>,
         \/ phase' \in {"answering", "done"}
         \/ phase' = phase
         \/ phase \in {"received", "ready"}
         \/ phase = "sent" /\ Current.how # "scan",
         phase \in {"answering", "done"} => phase' \in {"answering", "done"},
         StreamKept'
  PROVE  LastingInv'
<1>1. Program' = Program
  BY DEF Program, GoesOn
<1>2. ASSUME NEW n, Settled(n) PROVE Settled(n)'
  <2>1. Filled(n)' = Filled(n)
    BY <1>1 DEF Filled, Of
  <2> QED
    BY <1>2, <2>1, SettledKept DEF Before, GoesOn
<1>3. Settling'
  BY <1>1, <1>2 DEF Settling, Before, LastingInv, GoesOn
<1>4. Fresh'
  <2> SUFFICES ASSUME phase' \notin {"answering", "done"}, NEW n \in pos .. Len(Program)
               PROVE  \/ Filled(n)' = {}
                      \/ n = pos /\ (phase' = "reading" \/ (phase' = "sent" /\ Program[n].how = "scan"))
    BY <1>1 DEF Fresh
  <2>1. phase \notin {"answering", "done"}
    OBVIOUS
  <2>2. Filled(n)' = Filled(n)
    BY <1>1 DEF Filled, Of
  <2> QED
    BY <2>1, <2>2 DEF Fresh, Current, Before, LastingInv
<1>5. LastingDataIsAnswered'
  <2>1. ASSUME result' = "ok" /\ client' # "gone", NEW n \in DOMAIN Program
        PROVE  (Enough(Program[n]) \/ LeftOut(Program[n]) \/ MayLose(Program[n], message))'
    <3>1. Settled(n)
      BY <2>1 DEF Settled, Before, LastingInv, LastingDataIsAnswered, GoesOn
    <3> QED
      BY <1>2, <3>1 DEF Settled
  <2>2. result' = "not_found" => Of(always, "columns")' = {}
    BY DEF Of, Before, LastingInv, LastingDataIsAnswered, GoesOn
  <2> QED
    BY <1>1, <2>1, <2>2 DEF LastingDataIsAnswered
<1> QED
  BY <1>3, <1>4, <1>5 DEF LastingInv

\* The call ends without an answer.
LEMMA EndsStep ==
  ASSUME NEW r, Ends(r), r \notin {"ok", "none"}, r = "not_found" => Of(always, "columns")' = {}
  PROVE  LastingInv'
<1>1. phase' = "answering" /\ result' = r
  BY DEF Ends
<1> QED
  BY <1>1 DEF LastingInv, Settling, Fresh, StreamKept, LastingDataIsAnswered

\* The handler goes on past k requests: they and the current one are settled, or the one
\* that serves it comes next; and the rest of its part is empty.
LEMMA GoesStep ==
  ASSUME Before, phase \notin {"answering", "done"}, pos <= Len(Program),
         NEW k \in Nat, pos + k <= Len(Program), Goes(k), GoesOn, client' = client,
         \A n \in 1 .. Len(Program) :
            Program[n].part # Current.part => Filled(n)' = Filled(n),
         \A n \in 1 .. (pos - 1) : Program[n].how = "value" => UNCHANGED <<got, shape>>,
         client # "gone" => \/ \A n \in pos .. (pos + k) : Settled(n)'
                            \/ k = 0 /\ Current.instead = 1,
         \A n \in (pos + k + 1) .. Len(Program) :
            Program[n].part = Current.part => Filled(n)' = {}
  PROVE  LastingInv'
<1>1. /\ Program' = Program /\ phase' = "ready" /\ pos' = pos + 1 + k
      /\ result' = "none" /\ result = "none"
  BY DEF Program, GoesOn, Goes, Before, DeadlineInv
<1>2. /\ Len(Program) \in Nat /\ pos \in Nat /\ 1 <= pos
      /\ Current = Program[pos]
  BY ProgramFacts DEF Before, Current
<1>3. Settling'
  <2> SUFFICES ASSUME client # "gone", NEW n \in 1 .. (pos + k)
               PROVE  Settled(n)' \/ (Program[n].instead = 1 /\ pos' = n + 1)
    BY <1>1, <1>2 DEF Settling
  <2>1. CASE n < pos
    <3>1. Settled(n) \/ (Program[n].instead = 1 /\ pos = n + 1)
      BY <1>1, <1>2, <2>1 DEF Settling, Before, LastingInv
    <3>2. n \in 1 .. Len(Program) /\ pos \in 1 .. Len(Program) /\ n \in 1 .. (pos - 1)
      BY <1>2, <2>1
    <3>3. CASE Program[n].part # Current.part
      <4>1. Program[n].instead = 1 /\ pos = n + 1 => Program[n].part = Current.part
        BY <1>2, <3>2, ProgramFacts DEF Orderly, Serves, Before
      <4>2. Filled(n)' = Filled(n) /\ Settled(n)
        BY <3>1, <3>2, <3>3, <4>1
      <4> QED
        BY <3>2, <4>2, SettledKept DEF Before, GoesOn
    <3>4. CASE Program[n].part = Current.part
      <4>1. pos = n + 1 /\ Serves(Program[n + 1], Program[n])
        BY <1>2, <2>1, <3>2, <3>4, SamePart DEF Before
      <4>2. Current.instead = 0
        BY <1>2, <4>1 DEF Serves
      <4>3. n + 1 \in pos .. (pos + k)
        BY <1>2, <4>1
      <4>4. \A j \in pos .. (pos + k) : Settled(j)'
        BY <4>2
      <4>5. Settled(n + 1)'
        BY <4>3, <4>4, Zenon
      <4> QED
        BY <4>1, <4>5, SettledTogether, <1>1 DEF GoesOn
    <3> QED
      BY <3>3, <3>4
  <2>2. CASE n >= pos
    <3>1. n \in pos .. (pos + k)
      BY <1>2, <2>2
    <3>2. k = 0 => n = pos /\ pos' = n + 1
      BY <1>1, <1>2, <3>1
    <3> QED
      BY <1>2, <3>1, <3>2
  <2> QED
    BY <1>2, <2>1, <2>2
<1>4. Fresh'
  <2> SUFFICES ASSUME NEW n \in (pos + 1 + k) .. Len(Program)
               PROVE  Filled(n)' = {}
    BY <1>1 DEF Fresh
  <2>1. n \in pos .. Len(Program) /\ n # pos /\ n \in 1 .. Len(Program)
        /\ n \in (pos + k + 1) .. Len(Program)
    BY <1>2
  <2>2. Filled(n) = {}
    BY <2>1 DEF Fresh, Before, LastingInv
  <2> QED
    BY <2>1, <2>2
<1> QED
  BY <1>1, <1>3, <1>4 DEF LastingInv, StreamKept, LastingDataIsAnswered

\* A step that leaves the store, the message and the client alone.
LEMMA ClosesGoesOn ==
  ASSUME CallTypeOK, Closes, count' >= count, noted => noted'
  PROVE  GoesOn /\ client' = client /\ always' = always /\ Program' = Program
  BY DEF Closes, GoesOn, otherVars, Program

\* Only redis_get reads values.
LEMMA OnlyRedisReadsValues ==
  ASSUME CallTypeOK, message.tool # "redis_get"
  PROVE  \A n \in 1 .. Len(Program) : Program[n].how \notin {"type", "value"}
  BY ProgramFacts DEF Orderly, Careful

\* Whatever goes wrong with a request.
LEMMA TroubleStep ==
  ASSUME Before, phase \notin {"answering", "done"}, pos <= Len(Program),
         NEW policy \in {Current.onError, Current.onCut}, NEW late,
         Trouble(policy, Current.drops, late)
  PROVE  LastingInv'
<1>1. Closes /\ UNCHANGED <<count, shape>> /\ (noted => noted')
  BY DEF Trouble
<1>2. count' >= count
  BY <1>1 DEF Before, CallTypeOK
<1>3. GoesOn /\ client' = client /\ Program' = Program
  BY <1>1, <1>2, ClosesGoesOn DEF Before
<1>4. /\ pos \in 1 .. Len(Program) /\ Careful(Current, message)
      /\ Current.drops \in Nat /\ pos + Current.drops <= Len(Program)
      /\ Len(Program) \in Nat /\ pos \in Nat /\ Current = Program[pos]
  BY CurrentIsCareful, ProgramFacts DEF Before, Current
<1>5. CASE policy = "fail" \/ (policy = "fail_unless_gone" /\ client # "gone")
  <2>1. Ends("deadline") \/ Ends("failed")
    BY <1>5 DEF Trouble
  <2> QED
    BY <2>1, EndsStep
<1>6. CASE policy = "skip"
  <2>1. Goes(Current.drops) /\ got' = got \ Of(got, Current.part)
    BY <1>6 DEF Trouble
  <2>2. message.tool \in Cards /\ Current.part # "columns" /\ Policy(Current, "skip")
    BY <1>4, <1>6 DEF Careful, Policy
  <2>3. \A n \in 1 .. Len(Program) :
          /\ Program[n].part # Current.part => Filled(n)' = Filled(n)
          /\ Program[n].part = Current.part => Filled(n)' = {}
    BY <1>3, <2>1 DEF Filled, Of
  <2>4. \A n \in 1 .. (pos - 1) : Program[n].how # "value"
    BY <1>4, <2>2, OnlyRedisReadsValues DEF Cards, Before
  <2>5. ASSUME NEW n \in pos .. (pos + Current.drops)
        PROVE  Settled(n)'
    <3>1. n \in 1 .. Len(Program)
      BY <1>4
    <3>2. CASE n = pos
      <4>1. Filled(n)' = {} /\ Program[n].part # "columns"
        BY <1>4, <2>2, <2>3, <3>1, <3>2
      <4>2. CASE Program[n].part \in blank'
        BY <1>3, <4>2, BlankIsLost DEF Settled, GoesOn, Before
      <4>3. CASE Program[n].part \notin blank'
        BY <1>3, <2>2, <4>1, <4>3 DEF Settled, LeftOut, IsCard, Cards, Filled, GoesOn
      <4> QED
        BY <4>2, <4>3
    <3>3. CASE n # pos
      <4>1. Excused(Program[n], Current, message)
        BY <1>4, <3>1, <3>3, ProgramFacts DEF Orderly, Before
      <4>2. MayLose(Program[n], message)
        BY <2>2, <4>1 DEF Excused
      <4> QED
        BY <1>3, <4>2 DEF Settled, MayLose, GoesOn
    <3> QED
      BY <3>2, <3>3
  <2>6. \A n \in (pos + Current.drops + 1) .. Len(Program) : n \in 1 .. Len(Program)
    BY <1>4
  <2> QED
    BY <1>3, <1>4, <2>1, <2>3, <2>4, <2>5, <2>6, GoesStep
<1> DEFINE Ahead == \A n \in 1 .. Len(Program) : n > pos => Filled(n) = {}
<1>7. Ahead
  <2> SUFFICES ASSUME NEW n \in 1 .. Len(Program), n > pos PROVE Filled(n) = {}
    OBVIOUS
  <2>1. n \in pos .. Len(Program) /\ n # pos
    BY <1>4
  <2> QED
    BY <2>1 DEF Fresh, Before, LastingInv
<1>8. got' = got => \A n : Filled(n)' = Filled(n)
  BY <1>3 DEF Filled, Of
<1>9. CASE policy = "note"
  <2>1. Goes(Current.drops) /\ noted' = TRUE /\ got' = got
    BY <1>9 DEF Trouble
  <2>2. message.tool \in Cards /\ Current.part \in Details /\ Policy(Current, "note")
    BY <1>4, <1>9 DEF Careful, Policy
  <2>3. ASSUME NEW n \in pos .. (pos + Current.drops)
        PROVE  Settled(n)'
    <3>1. n \in 1 .. Len(Program)
      BY <1>4
    <3>2. Program[n].part \in Details
      <4>1. CASE n = pos
        BY <1>4, <2>2, <4>1
      <4>2. CASE n # pos
        <5>1. Excused(Program[n], Current, message)
          BY <1>4, <3>1, <4>2, ProgramFacts DEF Orderly, Before
        <5> QED
          BY <2>2, <5>1 DEF Excused
      <4> QED
        BY <4>1, <4>2
    <3>3. CASE Program[n].part \in blank'
      BY <1>3, <3>3, BlankIsLost DEF Settled, GoesOn, Before
    <3>4. CASE Program[n].part \notin blank'
      BY <1>3, <2>1, <2>2, <3>2, <3>4 DEF Settled, LeftOut, IsCard, Cards, Details, GoesOn
    <3> QED
      BY <3>3, <3>4
  <2>4. \A n \in (pos + Current.drops + 1) .. Len(Program) : Filled(n)' = {}
    <3> SUFFICES ASSUME NEW n \in (pos + Current.drops + 1) .. Len(Program)
                 PROVE  Filled(n)' = {}
      OBVIOUS
    <3>1. n \in 1 .. Len(Program) /\ n > pos
      BY <1>4
    <3> QED
      BY <1>7, <1>8, <2>1, <3>1
  <2> QED
    BY <1>1, <1>3, <1>4, <1>8, <2>1, <2>3, <2>4, GoesStep
<1>10. CASE policy = "ignore" \/ (policy = "fail_unless_gone" /\ client = "gone")
  <2>1. Goes(0) /\ got' = got
    BY <1>10 DEF Trouble
  <2>2. client # "gone" => \A n \in pos .. (pos + 0) : Settled(n)'
    <3> SUFFICES ASSUME client # "gone", NEW n, n = pos PROVE Settled(n)'
      BY <1>4
    <3>1. MayLose(Program[n], message)
      BY <1>4, <1>10 DEF Careful, Policy
    <3> QED
      BY <1>3, <3>1 DEF Settled, MayLose, GoesOn
  <2>3. \A n \in (pos + 0 + 1) .. Len(Program) : Filled(n)' = {}
    <3> SUFFICES ASSUME NEW n \in (pos + 1) .. Len(Program) PROVE Filled(n)' = {}
      BY <1>4
    <3>1. n \in 1 .. Len(Program) /\ n > pos
      BY <1>4
    <3> QED
      BY <1>7, <1>8, <2>1, <3>1
  <2>4. 0 \in Nat /\ pos + 0 <= Len(Program)
    BY <1>4
  <2> QED
    BY <1>1, <1>3, <1>8, <2>1, <2>2, <2>3, <2>4, GoesStep
<1>12. CASE policy = "blank"
  <2>1. Goes(Current.drops) /\ blank' = blank \cup {Current.part} /\ got' = got
    BY <1>12 DEF Trouble
  <2>2. Policy(Current, "blank")
    BY <1>12 DEF Policy
  <2>3. ASSUME NEW n \in pos .. (pos + Current.drops)
        PROVE  Settled(n)'
    <3>1. n \in 1 .. Len(Program)
      BY <1>4
    <3>2. MayLose(Program[n], message)
      <4>1. CASE n = pos
        BY <1>3, <1>4, <2>1, <4>1, BlankIsLost DEF GoesOn, Before
      <4>2. CASE n # pos
        <5>1. Excused(Program[n], Current, message)
          BY <1>4, <3>1, <4>2, ProgramFacts DEF Orderly, Before
        <5> QED
          BY <2>2, <5>1 DEF Excused
      <4> QED
        BY <4>1, <4>2
    <3> QED
      BY <1>3, <3>2 DEF Settled, MayLose, GoesOn
  <2>4. \A n \in (pos + Current.drops + 1) .. Len(Program) : Filled(n)' = {}
    <3> SUFFICES ASSUME NEW n \in (pos + Current.drops + 1) .. Len(Program)
                 PROVE  Filled(n)' = {}
      OBVIOUS
    <3>1. n \in 1 .. Len(Program) /\ n > pos
      BY <1>4
    <3> QED
      BY <1>7, <1>8, <2>1, <3>1
  <2> QED
    BY <1>1, <1>3, <1>4, <1>8, <2>1, <2>3, <2>4, GoesStep
<1>11. policy \in Policies
  <2>1. Current \in Request
    BY <1>4, CurrentIsGood DEF Before, CallTypeOK
  <2> QED
    BY <2>1 DEF Request
<1> QED
  BY <1>5, <1>6, <1>9, <1>10, <1>11, <1>12 DEF Policies

\* What a store gives within a limit is all that has been there, or as much as the limit.
LEMMA AtMostIsEnough ==
  ASSUME CallTypeOK, NEW part, NEW n, NEW T \in AtMost(Of(store, part), n), n \in Limits
  PROVE  /\ T \subseteq Of(Items, part)
         /\ Of(always, part) \subseteq T \/ (n # NoLimit /\ Cardinality(T) = n)
<1> DEFINE S == Of(store, part)
<1>1. S \subseteq Of(Items, part) /\ S \subseteq Items /\ Of(always, part) \subseteq S
  BY DEF Of, CallTypeOK
<1>2. T \subseteq S /\ IsFiniteSet(S) /\ Cardinality(S) \in Nat
  BY <1>1, AtMostWithin, ItemsAreFinite
<1>3. Cardinality(T) = Cardinality(S) \/ (n # NoLimit /\ Cardinality(T) = n)
  BY DEF AtMost
<1>4. Cardinality(T) = Cardinality(S) => T = S
  BY <1>2, FS_Subset
<1> QED
  BY <1>1, <1>2, <1>3, <1>4

\* The whole answer has come, and T is what the answer now holds of its part.
LEMMA AnswersStep ==
  ASSUME Before, phase \notin {"answering", "done"}, pos <= Len(Program),
         Current.how \in {"rows", "cursor", "body"}, NEW T, Answers(T),
         T \subseteq Of(Items, Current.part), Of(got \cup T, Current.part) = T,
         \/ Of(always, Current.part) \subseteq T
         \/ Current.most # NoLimit /\ Cardinality(T) = Current.most
         \/ Current.partial
  PROVE  LastingInv'
<1>1. /\ Closes /\ UNCHANGED <<count, shape, noted, blank>> /\ got' = got \cup T
      /\ IF Current.needed /\ T = {} THEN Ends("not_found") ELSE Goes(Current.instead)
  BY DEF Answers
<1>2. count' >= count
  BY <1>1 DEF Before, CallTypeOK
<1>3. GoesOn /\ client' = client /\ Program' = Program /\ always' = always
  BY <1>1, <1>2, ClosesGoesOn DEF Before
<1>4. /\ pos \in 1 .. Len(Program) /\ Careful(Current, message)
      /\ Current.instead \in {0, 1} /\ pos + Current.instead <= Len(Program)
      /\ Current.instead = 1 => Serves(Program[pos + 1], Current)
      /\ Len(Program) \in Nat /\ pos \in Nat /\ Current = Program[pos]
  BY CurrentIsCareful, ProgramFacts DEF Before, Current
<1>5. CASE Current.needed /\ T = {}
  <2>1. Current.part = "columns" /\ Current.most = NoLimit /\ ~Current.partial
    BY <1>4, <1>5 DEF Careful
  <2>2. Of(always, "columns")' = {}
    BY <1>3, <1>5, <2>1 DEF Of
  <2> QED
    BY <1>1, <1>5, <2>2, EndsStep
<1>6. CASE ~(Current.needed /\ T = {})
  <2>1. Goes(Current.instead)
    BY <1>1, <1>6
  <2>2. \A n \in 1 .. Len(Program) : Program[n].part # Current.part => Filled(n)' = Filled(n)
    <3> SUFFICES ASSUME NEW n \in 1 .. Len(Program), Program[n].part # Current.part
                 PROVE  Of(got', Program[n].part) = Of(got, Program[n].part)
      BY <1>3 DEF Filled, Of
    <3> QED
      BY <1>1 DEF Of
  <2>3. \A n \in 1 .. (pos - 1) : Program[n].how # "value"
    <3>1. message.tool # "redis_get"
      BY RedisPlaces DEF Before
    <3> QED
      BY <1>4, <3>1, OnlyRedisReadsValues DEF Before
  <2>4. ASSUME NEW n, n = pos PROVE Settled(n)'
    <3>0. PICK r : r = Current
      OBVIOUS
    <3>1. Program'[n] = r /\ message' = message /\ always' = always /\ got' = got \cup T
      BY <1>1, <1>3, <1>4, <2>4, <3>0 DEF GoesOn
    <3>2. CASE Of(always, r.part) \subseteq T
      <4>1. Of(always', r.part) \subseteq got'
        BY <3>1, <3>2
      <4> QED
        BY <3>1, <4>1 DEF Settled, Enough, Of
    <3>3. CASE r.most # NoLimit /\ Cardinality(T) = r.most
      <4>1. Of(got', r.part) = T
        BY <3>0, <3>1
      <4> QED
        BY <3>1, <3>3, <4>1 DEF Settled, Enough, Of
    <3>4. CASE r.partial
      <4>1. MayLose(r, message)
        BY <1>4, <3>0, <3>4 DEF Careful
      <4> QED
        BY <3>1, <4>1 DEF Settled, MayLose
    <3> QED
      BY <3>0, <3>2, <3>3, <3>4
  <2>5. ASSUME NEW n \in pos .. (pos + Current.instead) PROVE Settled(n)'
    <3>1. n = pos \/ (n = pos + 1 /\ Current.instead = 1)
      BY <1>4
    <3>2. ASSUME NEW k, k = pos, n = k + 1, Current.instead = 1
          PROVE  Settled(n)'
      <4>1. Settled(k)' /\ Serves(Program[n], Program[k])
        BY <1>4, <2>4, <3>2
      <4> QED
        BY <1>3, <4>1, SettledTogether DEF GoesOn
    <3> QED
      BY <2>4, <3>1, <3>2
  <2>6. ASSUME NEW n \in (pos + Current.instead + 1) .. Len(Program)
        PROVE  Program[n].part # Current.part
    <3>1. n \in 1 .. Len(Program) /\ pos < n
      BY <1>4
    <3>2. Program[n].part = Current.part => n = pos + 1 /\ Serves(Program[n], Program[pos])
      BY <1>4, <3>1, SamePart DEF Before
    <3>3. Serves(Program[n], Program[pos]) => Current.instead = 1
      BY <1>4 DEF Serves
    <3>4. ~(n = pos + 1 /\ Current.instead = 1)
      BY <1>4
    <3> QED
      BY <3>2, <3>3, <3>4
  <2>7. Current.instead \in Nat
    BY <1>4
  <2> QED
    BY <1>3, <1>4, <2>1, <2>2, <2>3, <2>5, <2>6, <2>7, GoesStep
<1> QED
  BY <1>5, <1>6

LEMMA BodyStep ==
  ASSUME Before, Body
  PROVE  LastingInv'
<1>1. phase = "sent" /\ Current.how = "body" /\ pos <= Len(Program)
  BY DEF Body, Before, CallTypeOK
<1>2. Current.most \in Limits /\ pos \in 1 .. Len(Program) /\ pos \in pos .. Len(Program)
      /\ Current = Program[pos]
  BY <1>1, CurrentIsCareful, ProgramFacts DEF Before, Current
<1>3. Of(got, Current.part) = {}
  BY <1>1, <1>2 DEF Fresh, Filled, Before, LastingInv
<1>4. Of(store, Current.part) \subseteq Of(Items, Current.part)
  BY DEF Of, Before, CallTypeOK
<1>5. PICK T : /\ Answers(T) /\ T \subseteq Of(Items, Current.part)
               /\ \/ Of(always, Current.part) \subseteq T
                  \/ Current.most # NoLimit /\ Cardinality(T) = Current.most
                  \/ Current.partial
  <2>1. CASE Current.partial
    <3>1. PICK T : T \subseteq Of(store, Current.part) /\ Answers(T)
      BY BodyWithin
    <3> QED
      BY <1>4, <2>1, <3>1
  <2>2. CASE ~Current.partial
    <3>1. PICK T \in AtMost(Of(store, Current.part), Current.most) : Answers(T)
      BY <2>2 DEF Body
    <3> QED
      BY <1>2, <3>1, AtMostIsEnough DEF Before
  <2> QED
    BY <2>1, <2>2
<1>6. Of(got \cup T, Current.part) = T
  BY <1>3, <1>5 DEF Of
<1> QED
  BY <1>1, <1>5, <1>6, AnswersStep

LEMMA EndOfRowsStep ==
  ASSUME Before, EndOfRows
  PROVE  LastingInv'
<1> DEFINE T == Of(got, Current.part)
<1>1. phase = "reading" /\ batch = {} /\ pos <= Len(Program) /\ Answers(T)
  BY DEF EndOfRows, Before, CallTypeOK
<1>2. Current.how \in {"rows", "cursor"} /\ Filled(pos) = T
  BY <1>1 DEF StreamKept, Before, LastingInv, Filled, Current
<1>3. T \subseteq Of(Items, Current.part) /\ T \subseteq Items /\ Of(got \cup T, Current.part) = T
  BY DEF Of, Before, CallTypeOK
<1>4. Current.most \in Limits /\ Cardinality(T) \in Nat
  BY <1>1, <1>3, CurrentIsCareful, ItemsAreFinite DEF Before
<1>5. \/ Of(always, Current.part) \subseteq T
      \/ Current.most # NoLimit /\ Cardinality(T) = Current.most
  <2>1. CASE Current.how = "rows"
    <3>1. \/ Of(always, Current.part) \subseteq got \cup batch
          \/ Current.most # NoLimit /\ Cardinality(Filled(pos) \cup batch) = Current.most
      BY <1>1, <2>1 DEF StreamKept, Before, LastingInv
    <3>2. Of(always, Current.part) \subseteq got => Of(always, Current.part) \subseteq T
      BY DEF Of
    <3>3. got \cup batch = got /\ Filled(pos) \cup batch = T
      BY <1>1, <1>2
    <3> QED
      BY <3>1, <3>2, <3>3
  <2>2. CASE Current.how = "cursor"
    <3>1. AtLimit \/ Of(always, Current.part) \subseteq got
      BY <2>2 DEF EndOfRows
    <3>2. Of(always, Current.part) \subseteq got => Of(always, Current.part) \subseteq T
      BY DEF Of
    <3>3. AtLimit => Cardinality(T) = Current.most
      <4>1. Current.most # NoLimit => Cardinality(T) <= Current.most
        BY <1>1, <1>2, <2>2 DEF StreamKept, Before, LastingInv
      <4> QED
        BY <1>4, <4>1 DEF AtLimit, Limits
    <3> QED
      BY <3>1, <3>2, <3>3 DEF AtLimit
  <2> QED
    BY <1>2, <2>1, <2>2
<1> HIDE DEF T
<1> QED
  BY <1>1, <1>2, <1>3, <1>5, AnswersStep

LEMMA ForbiddenStep ==
  ASSUME Before, Forbidden
  PROVE  LastingInv'
<1>1. /\ phase = "sent" /\ pos <= Len(Program) /\ Current.instead > 0 /\ Goes(0)
      /\ Closes /\ UNCHANGED <<count, shape, got, noted>>
  BY DEF Forbidden, Before, CallTypeOK
<1>2. GoesOn /\ client' = client /\ Program' = Program
  <2>1. count' >= count /\ (noted => noted')
    BY <1>1 DEF Before, CallTypeOK
  <2> QED
    BY <1>1, <2>1, ClosesGoesOn DEF Before
<1>3. /\ Len(Program) \in Nat /\ pos \in 1 .. Len(Program) /\ Current.instead = 1
      /\ Current = Program[pos] /\ Serves(Program[pos + 1], Current)
  BY <1>1, CurrentIsCareful, ProgramFacts DEF Before, Current
<1>4. \A n : Filled(n)' = Filled(n)
  BY <1>1, <1>2 DEF Filled, Of
<1>5. ASSUME NEW n \in (pos + 0 + 1) .. Len(Program) PROVE Filled(n)' = {}
  <2>1. n \in pos .. Len(Program) /\ n # pos
    BY <1>3
  <2> QED
    BY <1>1, <1>4, <2>1 DEF Fresh, Before, LastingInv
<1>6. 0 \in Nat /\ pos + 0 <= Len(Program) /\ phase \notin {"answering", "done"}
  BY <1>1, <1>3
<1> QED
  BY <1>1, <1>2, <1>3, <1>4, <1>5, <1>6, GoesStep

LEMMA BeginsStep ==
  ASSUME Before, Begins
  PROVE  LastingInv'
<1>1. /\ phase = "sent" /\ phase' = "reading" /\ Current.how \in {"rows", "cursor"}
      /\ UNCHANGED <<message, pos, due, count, shape, got, noted, blank, result, age, client, otherVars>>
  BY DEF Begins
<1>2. PICK T \in AtMost(Of(store, Current.part), Current.most) :
        batch' = IF Current.how = "rows" THEN T ELSE {}
  BY DEF Begins
<1>3. /\ pos \in 1 .. Len(Program) /\ pos \in pos .. Len(Program) /\ Current = Program[pos]
      /\ Current.most \in Limits
  <2>1. pos <= Len(Program)
    BY <1>1 DEF Before, CallTypeOK
  <2> QED
    BY <2>1, CurrentIsCareful, ProgramFacts DEF Before, Current
<1>4. Filled(pos) = {}
  BY <1>1, <1>3 DEF Fresh, Before, LastingInv
<1>5. /\ T \subseteq Of(Items, Current.part)
      /\ Of(always, Current.part) \subseteq T \/ (Current.most # NoLimit /\ Cardinality(T) = Current.most)
  BY <1>3, AtMostIsEnough DEF Before
<1>6. /\ Program' = Program /\ Current' = Current /\ Filled(pos)' = Filled(pos)
      /\ always' = always /\ got' = got
  BY <1>1 DEF Program, Current, Filled, Of, otherVars
<1>7. StreamKept'
  <2>1. CASE Current.how = "rows"
    <3>1. batch' = T /\ Filled(pos)' \cup batch' = T
      BY <1>2, <1>4, <1>6, <2>1
    <3>2. \/ Of(always', Current'.part) \subseteq got' \cup batch'
          \/ Current'.most # NoLimit /\ Cardinality(Filled(pos)' \cup batch') = Current'.most
      BY <1>5, <1>6, <3>1
    <3>3. (Of(always, Current.part))' = Of(always', Current'.part)
          /\ (Of(Items, Current.part))' = Of(Items, Current'.part)
      BY DEF Of
    <3> QED
      BY <1>1, <1>5, <1>6, <2>1, <3>1, <3>2, <3>3 DEF StreamKept
  <2>2. CASE Current.how = "cursor"
    <3>1. Cardinality(Filled(pos)') = 0
      BY <1>4, <1>6, FS_EmptySet
    <3> QED
      BY <1>1, <1>3, <1>6, <2>2, <3>1 DEF StreamKept, Limits
  <2> QED
    BY <1>1, <2>1, <2>2
<1>8. GoesOn
  BY <1>1 DEF GoesOn, otherVars, Before, CallTypeOK
<1>9. Current.how # "scan"
  BY <1>1
<1> QED
  BY <1>1, <1>7, <1>8, <1>9, FrameStep

LEMMA RowStep ==
  ASSUME Before, NEW i \in Items, Row(i)
  PROVE  LastingInv'
<1>1. /\ phase = "reading" /\ got' = got \cup {i} /\ batch' = batch \ {i}
      /\ IF Current.how = "rows" THEN i \in batch ELSE i \in Missing /\ ~AtLimit
      /\ UNCHANGED <<message, phase, pos, due, count, shape, noted, blank, result, age, client, otherVars>>
  BY DEF Row
<1>2. /\ pos \in 1 .. Len(Program) /\ Current = Program[pos] /\ Len(Program) \in Nat
      /\ Current.most \in Limits /\ result = "none"
  <2>1. pos <= Len(Program)
    BY <1>1 DEF Before, CallTypeOK
  <2> QED
    BY <1>1, <2>1, CurrentIsCareful, ProgramFacts DEF Before, Current, DeadlineInv
<1>3. /\ Program' = Program /\ Current' = Current /\ always' = always
      /\ (Of(always, Current.part))' = Of(always, Current.part)
      /\ (Of(Items, Current.part))' = Of(Items, Current.part)
  BY <1>1 DEF Program, Current, Of, otherVars
<1>4. Current.how \in {"rows", "cursor"}
  BY <1>1 DEF StreamKept, Before, LastingInv
<1>5. i \in Of(Items, Current.part)
  <2>1. CASE Current.how = "rows"
    BY <1>1, <2>1 DEF StreamKept, Before, LastingInv
  <2>2. CASE Current.how # "rows"
    BY <1>1, <2>2 DEF Missing, Of
  <2> QED
    BY <2>1, <2>2
<1>6. ASSUME NEW n \in 1 .. Len(Program), Program[n].part # Current.part
      PROVE  Filled(n)' = Filled(n)
  BY <1>1, <1>3, <1>5, <1>6 DEF Filled, Of
<1>7. Filled(pos)' = Filled(pos) \cup {i}
  BY <1>1, <1>2, <1>3, <1>5 DEF Filled, Of
<1>8. message.tool # "redis_get"
  BY <1>1 DEF RedisInv, Before
<1>9. GoesOn
  BY <1>1 DEF GoesOn, otherVars, Before, CallTypeOK
<1>10. Settling'
  <2> SUFFICES ASSUME client # "gone", NEW n \in 1 .. (pos - 1)
               PROVE  Settled(n)' \/ (Program[n].instead = 1 /\ pos = n + 1)
    BY <1>1, <1>3 DEF Settling
  <2>1. n \in 1 .. Len(Program) /\ n < pos
    BY <1>2
  <2>2. Settled(n) \/ (Program[n].instead = 1 /\ pos = n + 1)
    BY <1>2 DEF Settling, Before, LastingInv
  <2>3. CASE Program[n].part = Current.part
    BY <1>2, <2>1, <2>3, SamePart DEF Serves, Before
  <2>4. CASE Program[n].part # Current.part /\ Settled(n)
    <3>1. Program[n].how # "value"
      BY <1>8, <2>1, OnlyRedisReadsValues DEF Before
    <3> QED
      BY <1>6, <1>9, <2>1, <2>4, <3>1, SettledKept DEF GoesOn, Before
  <2> QED
    BY <2>2, <2>3, <2>4
<1>11. Fresh'
  <2> SUFFICES ASSUME NEW n \in pos .. Len(Program), n # pos
               PROVE  Filled(n)' = {}
    BY <1>1, <1>3 DEF Fresh
  <2>1. n \in 1 .. Len(Program) /\ pos < n
    BY <1>2
  <2>2. Program[n].part # Current.part
    BY <1>2, <1>4, <2>1, SamePart DEF Serves, Before
  <2>3. Filled(n) = {}
    BY <1>1 DEF Fresh, Before, LastingInv
  <2> QED
    BY <1>6, <2>1, <2>2, <2>3
<1>12. StreamKept'
  <2>1. CASE Current.how = "rows"
    <3>1. /\ batch \subseteq Of(Items, Current.part)
          /\ \/ Of(always, Current.part) \subseteq got \cup batch
             \/ Current.most # NoLimit /\ Cardinality(Filled(pos) \cup batch) = Current.most
      BY <1>1, <2>1 DEF StreamKept, Before, LastingInv
    <3>2. got' \cup batch' = got \cup batch /\ Filled(pos)' \cup batch' = Filled(pos) \cup batch
      BY <1>1, <1>7, <2>1
    <3>3. batch' \subseteq Of(Items, Current.part)
      BY <1>1, <3>1
    <3> QED
      BY <1>1, <1>3, <2>1, <3>1, <3>2, <3>3 DEF StreamKept
  <2>2. CASE Current.how = "cursor"
    <3>1. ASSUME Current.most # NoLimit
          PROVE  Cardinality(Filled(pos)') <= Current.most
      <4>1. Filled(pos) = Of(got, Current.part) /\ Filled(pos) \subseteq Items
        BY <1>2 DEF Filled, Of, Before, CallTypeOK
      <4>2. IsFiniteSet(Filled(pos)) /\ Cardinality(Filled(pos)) \in Nat
        BY <4>1, ItemsAreFinite
      <4>3. ~(Cardinality(Filled(pos)) >= Current.most)
        BY <1>1, <2>2, <3>1, <4>1 DEF AtLimit
      <4>4. i \notin Filled(pos)
        BY <1>1, <2>2, <4>1 DEF Missing, Of
      <4>5. Cardinality(Filled(pos) \cup {i}) = Cardinality(Filled(pos)) + 1
        BY <4>2, <4>4, FS_AddElement
      <4> QED
        BY <1>2, <1>7, <3>1, <4>2, <4>3, <4>5 DEF Limits
    <3> QED
      BY <1>1, <1>3, <2>2, <3>1 DEF StreamKept
  <2> QED
    BY <1>4, <2>1, <2>2
<1>13. LastingDataIsAnswered'
  BY <1>1, <1>2 DEF LastingDataIsAnswered
<1> QED
  BY <1>10, <1>11, <1>12, <1>13 DEF LastingInv

\* Only redis_keys scans, and it does nothing else.
LEMMA ScanIsAlone ==
  ASSUME Before, phase = "sent", Current.how = "scan"
  PROVE  /\ message.tool = "redis_keys" /\ Len(Program) = 1 /\ pos = 1
         /\ Current = Program[1] /\ Current.part = "keys"
<1>1. pos <= Len(Program) /\ message \in Messages
  BY DEF Before, CallTypeOK
<1>2. pos \in 1 .. Len(Program)
  BY <1>1, CurrentIsCareful DEF Before
<1>3. message.tool = "redis_keys"
  BY <1>1, <1>2, CurrentIsGood DEF GoodRequest
<1>4. Program = <<Must("keys", "scan")>>
  BY <1>3 DEF Program, ProgramOf, EsTools
<1>5. Len(Program) = 1 /\ Program[1].part = "keys"
  BY <1>4 DEF Must, Ask
<1> QED
  BY <1>2, <1>3, <1>5 DEF Current

LEMMA ScanStep ==
  ASSUME Before, NEW B \in SUBSET Of(store, "keys"), ScanGoesOn(B) \/ ScanEnds(B)
  PROVE  LastingInv'
<1>1. phase = "sent" /\ Current.how = "scan" /\ count' = count + Cardinality(B)
  BY DEF ScanGoesOn, ScanEnds
<1>2. /\ message.tool = "redis_keys" /\ Len(Program) = 1 /\ pos = 1
      /\ Current = Program[1] /\ Current.part = "keys"
  BY <1>1, ScanIsAlone
<1>3. B \subseteq Items /\ Cardinality(B) \in Nat /\ count \in Nat /\ message.limit \in Int
  BY OfWithin, ItemsAreFinite, ProgramFacts DEF Before, CallTypeOK
<1>4. count' >= count /\ result = "none"
  BY <1>1, <1>3 DEF Before, DeadlineInv
<1>5. CASE ScanGoesOn(B)
  <2>1. Program' = Program /\ pos' = pos /\ phase' = "sent" /\ result' = result
    BY <1>1, <1>5 DEF ScanGoesOn, Program
  <2>2. Settling' /\ StreamKept' /\ LastingDataIsAnswered'
    BY <1>2, <1>4, <2>1 DEF Settling, StreamKept, LastingDataIsAnswered
  <2>3. Fresh'
    <3>1. Program[1].how = "scan" /\ \A n \in pos .. Len(Program) : n = 1
      BY <1>1, <1>2
    <3> QED
      BY <1>2, <2>1, <3>1 DEF Fresh
  <2> QED
    BY <2>2, <2>3 DEF LastingInv
<1>6. CASE ScanEnds(B) /\ Ends("panic")
  BY <1>6, EndsStep
<1>7. CASE ScanEnds(B) /\ ~Ends("panic")
  <2>1. /\ Goes(0) /\ Closes /\ UNCHANGED <<shape, noted>>
        /\ count' >= message.limit \/ LastBatch(B)
        /\ got' \in Truncated(got \cup B, count', message.limit)
    BY <1>1, <1>7 DEF ScanEnds
  <2>2. GoesOn /\ client' = client /\ Program' = Program /\ always' = always
    BY <1>4, <2>1, ClosesGoesOn DEF Before
  <2>3. count' >= message.limit \/ Of(always, "keys") \subseteq got'
    <3>1. CASE count' <= message.limit
      BY <2>1, <3>1 DEF Truncated, LastBatch
    <3>2. CASE ~(count' <= message.limit)
      BY <1>1, <1>3, <3>2
    <3> QED
      BY <3>1, <3>2
  <2>4. Settled(1)'
    <3>1. Program'[1].how = "scan" /\ Program'[1].part = "keys" /\ message' = message
      BY <1>1, <1>2, <2>2 DEF GoesOn
    <3>2. Of(always', "keys") = Of(always, "keys")
      BY <2>2 DEF Of
    <3> QED
      BY <2>3, <3>1, <3>2 DEF Settled, Enough, Of
  <2>5. \A n \in 1 .. Len(Program) : Program[n].part = Current.part
    BY <1>2
  <2>6. 0 \in Nat /\ pos + 0 <= Len(Program) /\ pos <= Len(Program)
        /\ pos .. (pos + 0) = {1} /\ 1 .. (pos - 1) = {} /\ (pos + 0 + 1) .. Len(Program) = {}
    BY <1>2
  <2>7. phase \notin {"answering", "done"}
    BY <1>1
  <2> QED
    BY <2>1, <2>2, <2>4, <2>5, <2>6, <2>7, GoesStep
<1> QED
  BY <1>5, <1>6, <1>7

\* TYPE puts nothing into the answer, and no item is of its part.
LEMMA TypeReturnsStep ==
  ASSUME Before, TypeReturns
  PROVE  LastingInv'
<1>1. /\ phase = "sent" /\ Current.how = "type" /\ Closes /\ UNCHANGED <<count, got, noted>>
      /\ Ends("failed") \/ Goes(0)
  BY DEF TypeReturns
<1>2. pos <= Len(Program)
  BY <1>1 DEF Before, CallTypeOK
<1>3. message.tool = "redis_get"
  BY <1>1, <1>2, CurrentIsCareful DEF Careful, Before
<1>4. pos = 1 /\ Len(Program) = 2 /\ Current = Must("type", "type")
  <2>1. Must("value", "value").how # "type"
    BY DEF Must, Ask
  <2> QED
    BY <1>1, <1>2, <1>3, <2>1, RedisPlaces DEF Before
<1>5. CASE Ends("failed")
  BY <1>5, EndsStep
<1>6. CASE Goes(0)
  <2>1. count' >= count
    BY <1>1 DEF Before, CallTypeOK
  <2>2. GoesOn /\ client' = client /\ Program' = Program
    BY <1>1, <2>1, ClosesGoesOn DEF Before
  <2>3. \A n : Filled(n)' = Filled(n)
    BY <1>1, <2>2 DEF Filled, Of
  <2>4. Settled(1)'
    <3>1. Program[1].part = "type"
      BY <1>4 DEF Must, Ask, Current
    <3>2. Of(always', "type") = {}
      BY ItemAssumption DEF Of, Before, CallTypeOK
    <3> QED
      BY <2>2, <3>1, <3>2 DEF Settled, Enough, Of
  <2>5. Filled(2) = {}
    BY <1>1, <1>4 DEF Fresh, Before, LastingInv
  <2>6. 0 \in Nat /\ pos + 0 <= Len(Program) /\ phase \notin {"answering", "done"}
        /\ pos .. (pos + 0) = {1} /\ 1 .. (pos - 1) = {} /\ (pos + 0 + 1) .. Len(Program) = {2}
    BY <1>1, <1>4
  <2> QED
    BY <1>2, <1>6, <2>2, <2>3, <2>4, <2>5, <2>6, GoesStep
<1> QED
  BY <1>1, <1>5, <1>6

LEMMA ValueReturnsStep ==
  ASSUME Before, ValueReturns
  PROVE  LastingInv'
<1>1. /\ phase = "sent" /\ Current.how = "value" /\ Closes /\ UNCHANGED <<count, shape, noted>>
  BY DEF ValueReturns
<1>2. pos <= Len(Program)
  BY <1>1 DEF Before, CallTypeOK
<1>3. message.tool = "redis_get"
  BY <1>1, <1>2, CurrentIsCareful DEF Careful, Before
<1>4. pos = 2 /\ Len(Program) = 2 /\ Current = Must("value", "value")
  <2>1. Must("type", "type").how # "value"
    BY DEF Must, Ask
  <2> QED
    BY <1>1, <1>2, <1>3, <2>1, RedisPlaces DEF Before
<1>5. CASE Ends("failed")
  BY <1>5, EndsStep
<1>6. ASSUME NEW m, m = (IF shape \in {"list", "zset"} THEN RangeSize ELSE NoLimit),
             NEW T \in AtMost(Of(store, "value"), m), got' = got \cup T, Goes(0)
      PROVE  LastingInv'
  <2>1. count' >= count
    BY <1>1 DEF Before, CallTypeOK
  <2>2. GoesOn /\ client' = client /\ Program' = Program /\ always' = always
    BY <1>1, <2>1, ClosesGoesOn DEF Before
  <2>3. got = {} /\ got' = T
    BY <1>3, <1>4, <1>6 DEF RedisInv, Before
  <2>4. m \in Limits /\ (m # NoLimit => m = RangeSize /\ shape \in {"list", "zset"})
    BY <1>6, BoundAssumption DEF Limits
  <2>5. /\ T \subseteq Of(Items, "value")
        /\ Of(always, "value") \subseteq T \/ (m # NoLimit /\ Cardinality(T) = m)
    BY <1>6, <2>4, AtMostIsEnough DEF Before
  <2>6. Program[2].part = "value" /\ Program[2].how = "value" /\ Current = Program[2]
        /\ Program[1].how = "type"
    <3>1. Program = RedisGet
      BY <1>3 DEF Program, ProgramOf, EsTools
    <3> QED
      BY <3>1, <1>4 DEF RedisGet, Must, Ask, Current
  <2>7. Settled(2)'
    BY <1>1, <2>2, <2>3, <2>4, <2>5, <2>6 DEF Settled, Enough, Of
  <2>8. ASSUME NEW n \in 1 .. Len(Program), Program[n].part # Current.part
        PROVE  Filled(n)' = Filled(n)
    <3>1. Of(got, Program[n].part) = {} /\ Of(T, Program[n].part) = {}
      BY <2>3, <2>5, <2>6, <2>8 DEF Of
    <3> QED
      BY <2>2, <2>3, <3>1 DEF Filled, Of
  <2>9. 0 \in Nat /\ pos + 0 <= Len(Program) /\ phase \notin {"answering", "done"}
        /\ pos .. (pos + 0) = {2} /\ 1 .. (pos - 1) = {1} /\ (pos + 0 + 1) .. Len(Program) = {}
    BY <1>1, <1>4
  <2>10. "type" # "value"
    OBVIOUS
  <2> QED
    BY <1>2, <1>6, <2>2, <2>6, <2>7, <2>8, <2>9, <2>10, GoesStep
<1> QED
  BY <1>5, <1>6 DEF ValueReturns

\* The end of the program: every request is settled.
LEMMA FinishStep ==
  ASSUME Before, Finish
  PROVE  LastingInv'
<1>1. /\ phase = "ready" /\ pos = Len(Program) + 1 /\ phase' = "answering" /\ result' = "ok"
      /\ UNCHANGED <<message, due, batch, count, shape, got, noted, age, client, otherVars>>
  BY DEF Finish, Ends
<1>2. result = "none" /\ Program' = Program /\ always' = always
  BY <1>1 DEF Before, DeadlineInv, Program, otherVars
<1>3. Len(Program) \in Nat /\ DOMAIN Program = 1 .. Len(Program)
  BY ProgramFacts DEF Before
<1>4. ASSUME client # "gone", NEW n \in 1 .. Len(Program)
      PROVE  Settled(n)'
  <2>1. n \in 1 .. (pos - 1)
    BY <1>1, <1>3
  <2>2. Settled(n) \/ (Program[n].instead = 1 /\ pos = n + 1)
    BY <1>2, <1>4, <2>1 DEF Settling, Before, LastingInv
  <2>3. Program[n].instead = 1 => n < Len(Program)
    BY ProgramFacts DEF Orderly, Before
  <2>4. Settled(n)
    BY <1>1, <1>3, <2>2, <2>3
  <2>5. Filled(n)' = Filled(n) /\ count' >= count
    BY <1>1, <1>2 DEF Filled, Of, Before, CallTypeOK
  <2> QED
    BY <1>1, <1>2, <2>4, <2>5, SettledKept DEF Before
<1>5. LastingDataIsAnswered'
  BY <1>1, <1>2, <1>3, <1>4 DEF LastingDataIsAnswered, Settled
<1> QED
  BY <1>1, <1>5 DEF LastingInv, Settling, Fresh, StreamKept

\* What is answered without a tool has no program.
LEMMA DispatchStep ==
  ASSUME Before, Dispatch
  PROVE  LastingInv'
<1>1. /\ phase = "received"
      /\ UNCHANGED <<message, pos, due, batch, count, shape, got, noted, age, client, otherVars>>
  BY DEF Dispatch
<1>2. GoesOn
  BY <1>1 DEF GoesOn, otherVars, Before, CallTypeOK
<1>3. CASE phase' = "ready" /\ result' = result
  BY <1>1, <1>2, <1>3, FrameStep DEF StreamKept
<1>4. CASE phase' = "answering" /\ result' = "failed"
  BY <1>4 DEF LastingInv, Settling, Fresh, StreamKept, LastingDataIsAnswered
<1>5. CASE message.method # "tools/call" /\ phase' = "answering" /\ result' = Immediate(message)
  <2>1. Program' = <<>>
    <3>1. message.tool = "none"
      BY <1>5, MessageAssumption DEF Before, CallTypeOK
    <3>2. ProgramOf(message) = <<>>
      BY <3>1 DEF ProgramOf, EsTools
    <3> QED
      BY <1>1, <3>2 DEF Program
  <2>2. result' \notin {"none", "not_found"}
    BY <1>5 DEF Immediate
  <2>3. DOMAIN Program' = {}
    BY <2>1
  <2> QED
    BY <1>5, <2>2, <2>3 DEF LastingInv, Settling, Fresh, StreamKept, LastingDataIsAnswered
<1> QED
  BY <1>3, <1>4, <1>5 DEF Dispatch

LEMMA LastingStep ==
  ASSUME Before, [CallNext]_callVars
  PROVE  LastingInv'
<1>1. CASE Send \/ Deliver \/ HangUp \/ Signal \/ Exit \/ Tick \/ UNCHANGED callVars
  <2>1. /\ UNCHANGED <<message, pos, count, shape, got, noted, result, batch, always>>
        /\ client' # "gone" => client # "gone"
    BY <1>1 DEF Send, Deliver, HangUp, Signal, Exit, Tick, callVars, handlerVars, otherVars
  <2>2. GoesOn
    BY <2>1 DEF GoesOn, Before, CallTypeOK
  <2>3. \/ phase = "ready" /\ phase' = "sent"
        \/ phase' = "done"
        \/ phase' = phase
    BY <1>1 DEF Send, Deliver, HangUp, Signal, Exit, Tick, callVars, handlerVars
  <2>4. StreamKept'
    <3>1. CASE phase' = "reading"
      <4>1. Program' = Program /\ Current' = Current /\ Filled(pos)' = Filled(pos)
        BY <2>1 DEF Program, Current, Filled, Of
      <4>2. \A p : Of(always', p) = Of(always, p)
        BY <2>1 DEF Of
      <4> QED
        BY <2>1, <2>3, <3>1, <4>1, <4>2 DEF StreamKept, Before, LastingInv, Of
    <3> QED
      BY <3>1 DEF StreamKept
  <2> QED
    BY <2>1, <2>2, <2>3, <2>4, FrameStep
<1>2. ASSUME NEW i \in Items, Create(i) \/ Drop(i)
      PROVE  LastingInv'
  <2>1. UNCHANGED <<message, phase, pos, count, shape, got, noted, result, batch, client>>
        /\ always' \subseteq always
    BY <1>2 DEF Create, Drop, handlerVars
  <2>2. GoesOn
    BY <2>1 DEF GoesOn, Before, CallTypeOK
  <2>3. StreamKept'
    <3>1. Program' = Program /\ Current' = Current /\ Filled(pos)' = Filled(pos)
      BY <2>1 DEF Program, Current, Filled, Of
    <3>2. \A p : Of(always', p) \subseteq Of(always, p)
      BY <2>1 DEF Of
    <3> QED
      BY <2>1, <3>1, <3>2 DEF StreamKept, Before, LastingInv, Of
  <2> QED
    BY <2>1, <2>2, <2>3, FrameStep
<1>3. CASE IsRefused
  BY <1>3, TroubleStep DEF IsRefused
<1>4. CASE StoreFails \/ GivesUp
  <2>1. ASSUME NEW late, Fails(late) PROVE LastingInv'
    <3>1. phase = "sent" /\ pos <= Len(Program)
      BY <2>1 DEF Fails, Before, CallTypeOK
    <3> QED
      BY <2>1, <3>1, TroubleStep DEF Fails
  <2>2. ASSUME NEW late, BreaksOff(late) PROVE LastingInv'
    <3>1. phase \in {"sent", "reading"} /\ pos <= Len(Program)
      BY <2>2 DEF BreaksOff, Before, CallTypeOK
    <3> QED
      BY <2>2, <3>1, TroubleStep DEF BreaksOff
  <2> QED
    BY <1>4, <2>1, <2>2 DEF StoreFails, GivesUp
<1>5. CASE Panics
  BY <1>5, EndsStep DEF Panics
<1> QED
  BY <1>1, <1>2, <1>3, <1>4, <1>5, DispatchStep, FinishStep, BodyStep, ForbiddenStep, BeginsStep,
     EndOfRowsStep, RowStep, ScanStep, TypeReturnsStep, ValueReturnsStep
     DEF CallNext, HandlerGoesOn, Returns

\* For any messages, items, limits and timeouts, and however the store changes and the
\* requests fail meanwhile, shard by shard where there are shards: a successful answer that
\* somebody waits for holds of every part what was there during the whole call, up to its
\* limit, but for a section of a card that is missing whole or noted, and for the parts of
\* MayLose, where the code drops an error: streams nobody asks for theirs, index names and
\* the row count of SQLite shown as none, hits and fields of a 200 with failed shards.
\* And no table that has a column all along is "not found".
THEOREM LastingDataAnswered == CallSpec => []LastingDataIsAnswered
<1>1. CallSpec => []RedisInv
  BY RedisInit, RedisStep, CallTypes, PTL DEF CallSpec
<1>2. CallTypeOK /\ CallTypeOK' /\ BlankInv' /\ DeadlineInv /\ RedisInv /\ LastingInv
        /\ [CallNext]_callVars => LastingInv'
  BY LastingStep DEF Before
<1>0. CallSpec => []BlankInv
  BY BlankInit, BlankStep, CallTypes, PTL DEF CallSpec
<1>3. CallSpec => []LastingInv
  BY <1>0, <1>1, <1>2, LastingInit, CallTypes, DeadlinesKept, PTL DEF CallSpec
<1>4. LastingInv => LastingDataIsAnswered
  BY DEF LastingInv
<1> QED
  BY <1>3, <1>4, PTL

-----------------------------------------------------------------------------
(* Limits.  Beyond what the answer holds of a part, the proof counts the    *)
(* rows of a snapshot that have not come yet, and of a scan the keys that   *)
(* were appended, which are no fewer than the distinct ones.                *)

WithinLimit(n) == Program[n].most # NoLimit => Cardinality(Filled(n)) <= Program[n].most

\* An answer is never longer than its limit: of no request, though one that a 403 refused
\* is answered by another; of redis_keys, though SCAN repeats keys; of the lists and sorted
\* sets of redis_get.
AnswersStayWithinLimits ==
    result = "ok" =>
        /\ \A n \in DOMAIN Program : WithinLimit(n)
        /\ message.tool = "redis_keys" => Cardinality(got) <= message.limit
        /\ message.tool = "redis_get" /\ shape \in {"list", "zset"} =>
              Cardinality(got) <= RangeSize

RowsWithin ==
    phase = "reading" /\ Current.how = "rows" /\ Current.most # NoLimit =>
        Cardinality(Filled(pos) \cup batch) <= Current.most

RequestsWithin == RowsWithin /\ \A n \in 1 .. Len(Program) : WithinLimit(n)

KeysWithin ==
    message.tool = "redis_keys" =>
        /\ pos = 1 => Cardinality(got) <= count
        /\ pos = 2 => Cardinality(got) <= message.limit
        /\ result = "ok" => pos = 2

ValuesWithin ==
    message.tool = "redis_get" /\ pos = 3 /\ shape \in {"list", "zset"} =>
        Cardinality(got) <= RangeSize

LimitInv == RequestsWithin /\ KeysWithin /\ ValuesWithin

LEMMA LimitInit == CallInit /\ CallTypeOK => LimitInv
<1> SUFFICES ASSUME CallInit, CallTypeOK PROVE LimitInv
  OBVIOUS
<1>1. pos = 1 /\ got = {} /\ phase = "received" /\ result = "none" /\ count = 0
  BY DEF CallInit
<1>2. \A n : Filled(n) = {}
  BY <1>1 DEF Filled, Of
<1>3. Cardinality({}) = 0
  BY FS_EmptySet
<1>4. ASSUME NEW n \in 1 .. Len(Program) PROVE WithinLimit(n)
  <2>1. Program[n].most \in Limits
    <3>1. Careful(Program[n], message) /\ Program[n] \in Request
      BY ProgramFacts DEF Orderly
    <3>2. Program[n].most \in Int
      BY <3>1 DEF Request
    <3> QED
      BY <3>1, <3>2 DEF Careful
  <2>2. Cardinality(Filled(n)) = 0
    BY <1>2, <1>3
  <2> QED
    BY <2>1, <2>2 DEF WithinLimit, Limits
<1> QED
  BY <1>1, <1>3, <1>4 DEF LimitInv, RequestsWithin, RowsWithin, KeysWithin, ValuesWithin

\* A subset of a set of items is no larger.
LEMMA FewerItems ==
  ASSUME NEW S \in SUBSET Items, NEW T \in SUBSET S
  PROVE  Cardinality(T) \in Nat /\ Cardinality(S) \in Nat /\ Cardinality(T) <= Cardinality(S)
<1>1. IsFiniteSet(S) /\ Cardinality(S) \in Nat
  BY ItemsAreFinite
<1>2. T \in SUBSET Items
  OBVIOUS
<1>3. Cardinality(T) \in Nat
  BY <1>2, ItemsAreFinite
<1> QED
  BY <1>1, <1>3, FS_Subset

\* A step that adds nothing to the answer.
LEMMA NothingAdded ==
  ASSUME CallTypeOK, RequestsWithin, message' = message, got' \subseteq got, RowsWithin'
  PROVE  RequestsWithin'
<1>1. Program' = Program
  BY DEF Program
<1>2. ASSUME NEW n \in 1 .. Len(Program) PROVE WithinLimit(n)'
  <2>1. Filled(n) \in SUBSET Items /\ Filled(n)' \in SUBSET Filled(n)
    BY <1>1 DEF Filled, Of, CallTypeOK
  <2>2. /\ Cardinality(Filled(n)') \in Nat /\ Cardinality(Filled(n)) \in Nat
        /\ Cardinality(Filled(n)') <= Cardinality(Filled(n))
    BY <2>1, FewerItems
  <2>3. Program[n].most \in Int
    <3>1. Program[n] \in Request
      BY ProgramFacts
    <3> QED
      BY <3>1 DEF Request
  <2>4. Program[n].most # NoLimit => Cardinality(Filled(n)) <= Program[n].most
    BY DEF RequestsWithin, WithinLimit
  <2> DEFINE c == Cardinality(Filled(n))
             d == Cardinality(Filled(n)')
             m == Program[n].most
  <2>5. m # NoLimit => d <= m
    <3> HIDE DEF c, d, m
    <3>1. c \in Nat /\ d \in Nat /\ d <= c /\ m \in Int /\ (m # NoLimit => c <= m)
      BY <2>2, <2>3, <2>4 DEF c, d, m
    <3> QED
      BY <3>1
  <2> QED
    BY <1>1, <2>5 DEF WithinLimit
<1> QED
  BY <1>1, <1>2 DEF RequestsWithin

\* A step that adds to the part of the current request, and not too much.
LEMMA PartAdded ==
  ASSUME CallTypeOK, RequestsWithin, message' = message, pos \in 1 .. Len(Program),
         NEW T \in SUBSET Of(Items, Current.part), got' = got \cup T,
         Current.most # NoLimit => Cardinality(Of(got \cup T, Current.part)) <= Current.most,
         RowsWithin'
  PROVE  RequestsWithin'
<1>1. Program' = Program /\ Len(Program) \in Nat /\ pos \in Nat /\ Current = Program[pos]
  BY ProgramFacts DEF Program, Current
<1>2. ASSUME NEW n \in 1 .. Len(Program) PROVE WithinLimit(n)'
  <2>1. Filled(n)' = Of(got \cup T, Program[n].part)
    BY <1>1 DEF Filled, Of
  <2>2. CASE Program[n].part # Current.part
    <3>1. Filled(n)' = Filled(n)
      BY <2>1, <2>2 DEF Filled, Of
    <3>2. WithinLimit(n)
      BY DEF RequestsWithin
    <3> QED
      BY <1>1, <3>1, <3>2 DEF WithinLimit
  <2>3. CASE Program[n].part = Current.part
    <3>1. Program[n].most = Current.most
      <4>1. CASE n = pos
        BY <1>1, <4>1
      <4>2. CASE n < pos
        BY <1>1, <2>3, <4>2, SamePart DEF Serves
      <4>3. CASE pos < n
        BY <1>1, <2>3, <4>3, SamePart DEF Serves
      <4> QED
        BY <1>1, <4>1, <4>2, <4>3
    <3> QED
      BY <1>1, <2>1, <2>3, <3>1 DEF WithinLimit
  <2> QED
    BY <2>2, <2>3
<1> QED
  BY <1>1, <1>2 DEF RequestsWithin

\* What a store gives within a limit is no more than the limit, of all shards or of some.
LEMMA AtMostIsWithin ==
  ASSUME NEW S \in SUBSET Items, NEW n \in Limits, n # NoLimit, NEW T \in AtMost(S, n)
  PROVE  Cardinality(T) <= n
<1>1. Cardinality(S) \in Nat /\ n \in Nat
  BY ItemsAreFinite DEF Limits
<1> QED
  BY <1>1 DEF AtMost

LEMMA BodyIsWithin ==
  ASSUME CallTypeOK, Body, Current.most \in Limits
  PROVE  \E T : /\ Answers(T) /\ T \in SUBSET Of(store, Current.part)
                /\ Current.most # NoLimit => Cardinality(T) <= Current.most
<1>1. Of(store, Current.part) \in SUBSET Items
  BY DEF Of, CallTypeOK
<1>2. CASE Current.partial
  <2>1. PICK T \in PartsOf(Of(store, Current.part), Current.most) : Answers(T)
    BY <1>2 DEF Body
  <2>2. PICK U \in SUBSET Of(store, Current.part) : T \in AtMost(U, Current.most)
    BY <2>1 DEF PartsOf
  <2>3. U \in SUBSET Items /\ T \in SUBSET Of(store, Current.part)
    BY <1>1, <2>2, AtMostWithin
  <2> QED
    BY <2>1, <2>2, <2>3, AtMostIsWithin
<1>3. CASE ~Current.partial
  <2>1. PICK T \in AtMost(Of(store, Current.part), Current.most) : Answers(T)
    BY <1>3 DEF Body
  <2> QED
    BY <1>1, <2>1, AtMostIsWithin, AtMostWithin
<1> QED
  BY <1>2, <1>3

\* The programs of Redis have no limits of their own.
LEMMA RedisIsUnlimited ==
  ASSUME message \in Messages, message.tool \in {"redis_keys", "redis_get"}
  PROVE  \A n \in 1 .. Len(Program) : Program[n].most = NoLimit
<1>1. CASE message.tool = "redis_keys"
  <2>1. Program = <<Must("keys", "scan")>>
    BY <1>1 DEF Program, ProgramOf, EsTools
  <2> QED
    BY <2>1 DEF Must, Ask
<1>2. CASE message.tool = "redis_get"
  <2>1. Program = RedisGet
    BY <1>2 DEF Program, ProgramOf, EsTools
  <2> QED
    BY <2>1 DEF RedisGet, Must, Ask
<1> QED
  BY <1>1, <1>2

LEMMA RequestsStep ==
  ASSUME Before, LastingInv', RequestsWithin, [CallNext]_callVars
  PROVE  RequestsWithin'
<1>0. CallTypeOK /\ message \in Messages
  BY DEF Before, CallTypeOK
<1>1. ASSUME message' = message, got' \subseteq got, phase' # "reading"
      PROVE  RequestsWithin'
  BY <1>0, <1>1, NothingAdded DEF RowsWithin
<1>2. CASE Dispatch \/ Send \/ Panics \/ Finish \/ Deliver \/ Exit \/ Forbidden \/ TypeReturns \/ EndOfRows
  <2>1. message' = message /\ phase' # "reading"
    BY <1>2 DEF Dispatch, Send, Panics, Finish, Deliver, Exit, Forbidden, TypeReturns, EndOfRows,
                Answers, Ends, Goes, Closes
  <2>2. got' \subseteq got
    BY <1>2 DEF Dispatch, Send, Panics, Finish, Deliver, Exit, Forbidden, TypeReturns, EndOfRows,
                Answers, Of
  <2> QED
    BY <1>1, <2>1, <2>2
<1>3. CASE IsRefused \/ StoreFails \/ GivesUp
  <2>1. ASSUME NEW policy, NEW drops, NEW late, Trouble(policy, drops, late)
        PROVE  RequestsWithin'
    BY <1>1, <2>1 DEF Trouble, Closes, Ends, Goes
  <2> QED
    BY <1>3, <2>1 DEF IsRefused, StoreFails, GivesUp, Fails, BreaksOff
<1>4. CASE HangUp \/ Signal \/ Tick \/ UNCHANGED callVars \/ \E i \in Items : Create(i) \/ Drop(i)
  <2>1. UNCHANGED <<message, phase, pos, batch, got>>
    BY <1>4 DEF HangUp, Signal, Tick, Create, Drop, callVars, handlerVars
  <2>2. RowsWithin'
    BY <2>1 DEF RequestsWithin, RowsWithin, Current, Program, Filled, Of
  <2> QED
    BY <1>0, <2>1, <2>2, NothingAdded
<1>5. CASE Body
  <2>1. phase = "sent" /\ Current.how = "body" /\ pos <= Len(Program)
    BY <1>5 DEF Body, Before, CallTypeOK
  <2>3. Current.most \in Limits /\ pos \in 1 .. Len(Program) /\ pos \in pos .. Len(Program)
        /\ Current = Program[pos]
    BY <2>1, CurrentIsCareful, ProgramFacts DEF Before, Current
  <2>4. Of(got, Current.part) = {}
    BY <2>1, <2>3 DEF Fresh, Filled, Before, LastingInv
  <2>2. PICK T : /\ Answers(T) /\ T \in SUBSET Of(store, Current.part)
                 /\ Current.most # NoLimit => Cardinality(T) <= Current.most
    <3>1. CallTypeOK /\ Body /\ Current.most \in Limits
      BY <1>0, <1>5, <2>3
    <3> QED
      BY ONLY <3>1, BodyIsWithin
  <2>5. T \in SUBSET Of(Items, Current.part)
    BY <1>0, <2>2 DEF Of, CallTypeOK
  <2>6. Of(got \cup T, Current.part) = T
    BY <2>4, <2>5 DEF Of
  <2>7. Current.most # NoLimit => Cardinality(T) <= Current.most
    BY <2>2
  <2>8. message' = message /\ got' = got \cup T /\ phase' # "reading"
    BY <2>2 DEF Answers, Closes, Ends, Goes
  <2>9. RowsWithin'
    BY <2>8 DEF RowsWithin
  <2> QED
    BY <1>0, <2>3, <2>5, <2>6, <2>7, <2>8, <2>9, PartAdded
<1>6. CASE Begins
  <2>1. /\ phase = "sent" /\ Current.how \in {"rows", "cursor"} /\ UNCHANGED <<message, pos, got>>
        /\ pos <= Len(Program)
    BY <1>6 DEF Begins, Before, CallTypeOK
  <2>2. PICK T \in AtMost(Of(store, Current.part), Current.most) :
          batch' = IF Current.how = "rows" THEN T ELSE {}
    BY <1>6 DEF Begins
  <2>3. Current.most \in Limits /\ pos \in 1 .. Len(Program) /\ pos \in pos .. Len(Program)
        /\ Current = Program[pos]
    BY <2>1, CurrentIsCareful, ProgramFacts DEF Before, Current
  <2>4. Filled(pos) = {} /\ Filled(pos)' = Filled(pos) /\ Current' = Current
    BY <2>1, <2>3 DEF Fresh, Filled, Before, LastingInv, Program, Current, Of
  <2>5. Current.most # NoLimit => Cardinality(T) <= Current.most
    <3>1. Of(store, Current.part) \in SUBSET Items
      BY <1>0 DEF Of, CallTypeOK
    <3> QED
      BY <2>2, <2>3, <3>1, AtMostIsWithin
  <2>6. RowsWithin'
    <3> SUFFICES ASSUME Current.how = "rows", Current.most # NoLimit
                 PROVE  Cardinality(Filled(pos)' \cup batch') <= Current.most
      BY <2>4 DEF RowsWithin
    <3>1. Filled(pos)' \cup batch' = T
      BY <2>2, <2>4
    <3> QED
      BY <2>5, <3>1
  <2> QED
    BY <1>0, <2>1, <2>6, NothingAdded
<1>7. ASSUME NEW i \in Items, Row(i) PROVE RequestsWithin'
  <2>1. /\ phase = "reading" /\ got' = got \cup {i} /\ batch' = batch \ {i}
        /\ IF Current.how = "rows" THEN i \in batch ELSE i \in Missing /\ ~AtLimit
        /\ UNCHANGED <<message, phase, pos>>
    BY <1>7 DEF Row
  <2>2. pos <= Len(Program) /\ Current.how \in {"rows", "cursor"} /\ batch \in SUBSET Items
    BY <2>1 DEF Before, CallTypeOK, LastingInv, StreamKept
  <2>3. /\ pos \in 1 .. Len(Program) /\ Current = Program[pos] /\ Program' = Program
        /\ Current' = Current /\ Current.most \in Limits
    BY <2>1, <2>2, CurrentIsCareful, ProgramFacts DEF Before, Current, Program
  <2>4. i \in Of(Items, Current.part)
    <3>1. CASE Current.how = "rows"
      BY <2>1, <3>1 DEF StreamKept, Before, LastingInv
    <3>2. CASE Current.how # "rows"
      BY <2>1, <3>2 DEF Missing, Of
    <3> QED
      BY <3>1, <3>2
  <2>5. Filled(pos)' = Filled(pos) \cup {i} /\ Filled(pos)' = Of(got \cup {i}, Current.part)
        /\ Filled(pos) \in SUBSET Items
    BY <2>1, <2>3, <2>4 DEF Filled, Of, Before, CallTypeOK
  <2>6. CASE Current.how = "rows"
    <3>1. Filled(pos)' \cup batch' = Filled(pos) \cup batch
          /\ Filled(pos)' \in SUBSET (Filled(pos) \cup batch)
          /\ Filled(pos) \cup batch \in SUBSET Items
      BY <2>1, <2>2, <2>5, <2>6
    <3>2. Current.most # NoLimit => Cardinality(Filled(pos) \cup batch) <= Current.most
      BY <2>1, <2>6 DEF RequestsWithin, RowsWithin
    <3>3. /\ Cardinality(Filled(pos)') \in Nat /\ Cardinality(Filled(pos) \cup batch) \in Nat
          /\ Cardinality(Filled(pos)') <= Cardinality(Filled(pos) \cup batch)
      BY <3>1, FewerItems
    <3>4. Current.most # NoLimit => Cardinality(Of(got \cup {i}, Current.part)) <= Current.most
      <4> DEFINE c == Cardinality(Filled(pos) \cup batch)
                 d == Cardinality(Filled(pos)')
                 m == Current.most
      <4>1. c \in Nat /\ d \in Nat /\ m \in Int /\ d <= c /\ (m # NoLimit => c <= m)
        BY <2>3, <3>2, <3>3 DEF Limits, NoLimit
      <4>2. m # NoLimit => d <= m
        <5> HIDE DEF c, d, m
        <5> QED
          BY <4>1
      <4> QED
        BY <2>5, <4>2
    <3>5. RowsWithin'
      <4>1. (Filled(pos) \cup batch)' = Filled(pos) \cup batch
        BY <2>1, <3>1 DEF Filled
      <4> QED
        BY <2>1, <2>3, <3>2, <4>1 DEF RowsWithin
    <3> QED
      BY <1>0, <2>1, <2>3, <2>4, <3>4, <3>5, PartAdded
  <2>7. CASE Current.how = "cursor"
    <3>1. Current.most # NoLimit => Cardinality(Filled(pos)') <= Current.most
      BY <2>1, <2>3, <2>7 DEF LastingInv, StreamKept, Filled
    <3>2. RowsWithin'
      BY <2>3, <2>7 DEF RowsWithin
    <3> QED
      BY <1>0, <2>1, <2>3, <2>4, <2>5, <3>1, <3>2, PartAdded
  <2> QED
    BY <2>2, <2>6, <2>7
<1>8. ASSUME NEW B \in SUBSET Of(store, "keys"), ScanGoesOn(B) \/ ScanEnds(B)
      PROVE  RequestsWithin'
  <2>1. message' = message /\ phase' # "reading" /\ phase = "sent" /\ Current.how = "scan"
    BY <1>8 DEF ScanGoesOn, ScanEnds, Closes, Ends, Goes
  <2>2. message.tool = "redis_keys"
    BY <2>1, ScanIsAlone
  <2>3. Program' = Program
    BY <2>1 DEF Program
  <2> QED
    BY <1>0, <2>1, <2>2, <2>3, RedisIsUnlimited DEF RequestsWithin, RowsWithin, WithinLimit
<1>9. CASE ValueReturns
  <2>1. message' = message /\ phase' # "reading" /\ phase = "sent" /\ Current.how = "value"
    BY <1>9 DEF ValueReturns, Closes, Ends, Goes
  <2>2. message.tool = "redis_get"
    BY <2>1, CurrentIsCareful DEF Careful, Before, CallTypeOK
  <2>3. Program' = Program
    BY <2>1 DEF Program
  <2> QED
    BY <1>0, <2>1, <2>2, <2>3, RedisIsUnlimited DEF RequestsWithin, RowsWithin, WithinLimit
<1> QED
  BY <1>2, <1>3, <1>4, <1>5, <1>6, <1>7, <1>8, <1>9 DEF CallNext, HandlerGoesOn, Returns

LEMMA KeysStep ==
  ASSUME Before, KeysWithin, [CallNext]_callVars
  PROVE  KeysWithin'
<1>0. message' = message
  BY DEF CallNext, HandlerGoesOn, Returns, Dispatch, Send, IsRefused, Panics, Finish, Deliver,
         Trouble, Body, Forbidden, Begins, EndOfRows, Answers, TypeReturns, ValueReturns, StoreFails,
         GivesUp, Fails, BreaksOff, Row, ScanGoesOn, ScanEnds, Closes, HangUp, Signal, Exit, Tick, Create, Drop,
         callVars, handlerVars
<1> SUFFICES ASSUME message.tool = "redis_keys" PROVE KeysWithin'
  BY <1>0 DEF KeysWithin
<1>1. /\ CallTypeOK /\ message \in Messages /\ message.limit \in Int /\ count \in Nat
      /\ Program = <<Must("keys", "scan")>> /\ Len(Program) = 1 /\ pos \in {1, 2}
  <2>1. Program = <<Must("keys", "scan")>>
    BY DEF Program, ProgramOf, EsTools
  <2>2. Len(Program) = 1
    BY <2>1
  <2>3. CallTypeOK
    BY DEF Before
  <2>4. message \in Messages /\ count \in Nat /\ pos \in 1 .. (Len(Program) + 1)
    BY <2>3 DEF CallTypeOK
  <2>5. message.limit \in Int
    BY <2>4, MessageAssumption DEF Message
  <2> QED
    BY <2>1, <2>2, <2>3, <2>4, <2>5
<1>2. /\ pos <= Len(Program) => /\ pos = 1 /\ Current.how = "scan" /\ Current.instead = 0
                                /\ Current.onError = "fail"
      /\ phase # "reading" /\ message.method = "tools/call"
  <2>1. pos <= Len(Program) => /\ pos = 1 /\ Current.how = "scan" /\ Current.instead = 0
                               /\ Current.onError = "fail"
    BY <1>1 DEF Current, Must, Ask
  <2>2. message.method = "tools/call"
    BY <1>1, MessageAssumption
  <2> QED
    BY <2>1, <2>2 DEF Before, CallTypeOK, LastingInv, StreamKept
<1>3. ASSUME UNCHANGED <<pos, got, count>>, result' = "ok" => result = "ok" \/ pos = 2
      PROVE  KeysWithin'
  BY <1>0, <1>3 DEF KeysWithin
<1>4. CASE Dispatch \/ Send \/ Finish \/ Deliver \/ HangUp \/ Signal \/ Exit \/ Tick \/ UNCHANGED callVars
           \/ \E i \in Items : Create(i) \/ Drop(i)
  <2>1. UNCHANGED <<pos, got, count>>
    BY <1>4 DEF Dispatch, Send, Finish, Deliver, HangUp, Signal, Exit, Tick, Create, Drop, callVars,
                handlerVars, Ends
  <2>2. result' = "ok" => result = "ok" \/ pos = 2
    <3>1. CASE Dispatch
      BY <1>2, <3>1 DEF Dispatch
    <3>2. CASE Finish
      BY <1>1, <3>2 DEF Finish
    <3>3. CASE ~Dispatch /\ ~Finish
      BY <1>4, <3>3 DEF Send, Deliver, HangUp, Signal, Exit, Tick, Create, Drop, callVars, handlerVars
    <3> QED
      BY <3>1, <3>2, <3>3
  <2> QED
    BY <1>3, <2>1, <2>2
<1>5. CASE StoreFails \/ GivesUp
  <2>1. \E late : Trouble("fail", Current.drops, late)
    BY <1>2, <1>5 DEF StoreFails, GivesUp, Fails, BreaksOff, Before, CallTypeOK
  <2>2. UNCHANGED <<pos, got, count>> /\ result' # "ok"
    BY <2>1 DEF Trouble, Ends
  <2> QED
    BY <1>3, <2>2
<1>6. ASSUME NEW B \in SUBSET Of(store, "keys"), ScanGoesOn(B) \/ ScanEnds(B)
      PROVE  KeysWithin'
  <2>1. phase = "sent" /\ Current.how = "scan" /\ count' = count + Cardinality(B) /\ pos = 1
    BY <1>2, <1>6 DEF ScanGoesOn, ScanEnds, Before, CallTypeOK
  <2>2. result = "none"
    BY <2>1 DEF Before, DeadlineInv
  <2>3. B \in SUBSET Items /\ got \in SUBSET Items /\ got \cup B \in SUBSET Items
    BY OfWithin DEF Before, CallTypeOK
  <2>4. Cardinality(got \cup B) \in Nat /\ Cardinality(got \cup B) <= count'
    <3>1. /\ IsFiniteSet(B) /\ IsFiniteSet(got) /\ Cardinality(B) \in Nat /\ Cardinality(got) \in Nat
          /\ Cardinality(got \cup B) \in Nat
      BY <2>3, ItemsAreFinite
    <3>2. Cardinality(got \cap B) \in Nat
      <4>1. got \cap B \in SUBSET Items
        BY <2>3
      <4> QED
        BY <4>1, ItemsAreFinite
    <3>3. Cardinality(got \cup B) = Cardinality(got) + Cardinality(B) - Cardinality(got \cap B)
      BY <3>1, FS_Union
    <3>4. Cardinality(got) <= count
      BY <2>1 DEF KeysWithin
    <3> QED
      BY <1>1, <2>1, <3>1, <3>2, <3>3, <3>4
  <2>5. CASE ScanGoesOn(B)
    <3>1. got' = got \cup B /\ pos' = pos /\ result' = result
      BY <2>5 DEF ScanGoesOn
    <3> QED
      BY <1>0, <2>1, <2>2, <2>4, <3>1 DEF KeysWithin
  <2>6. CASE ScanEnds(B) /\ message.limit < 0
    <3>1. got' = got /\ pos' = pos /\ result' = "panic"
      BY <2>6 DEF ScanEnds, Ends
    <3>2. Cardinality(got) <= count' /\ Cardinality(got) \in Nat
      <4>1. Cardinality(got) \in Nat /\ Cardinality(got) <= Cardinality(got \cup B)
        BY <2>3, FewerItems
      <4> QED
        BY <1>1, <2>4, <4>1, <2>1 DEF CallTypeOK, Before
    <3> QED
      BY <1>0, <2>1, <3>1, <3>2 DEF KeysWithin
  <2>7. CASE ScanEnds(B) /\ ~(message.limit < 0)
    <3>1. /\ pos' = 2 /\ result' = "none"
          /\ got' \in Truncated(got \cup B, count', message.limit)
      BY <2>1, <2>2, <2>7 DEF ScanEnds, Goes
    <3>2. Cardinality(got') <= message.limit
      <4>1. CASE count' <= message.limit
        <5>1. got' = got \cup B
          BY <3>1, <4>1 DEF Truncated
        <5> QED
          BY <1>1, <2>4, <4>1, <5>1 DEF Before, CallTypeOK
      <4>2. CASE ~(count' <= message.limit)
        <5>1. \E lo \in Int : Cardinality(got') \in lo .. message.limit
          <6>1. message.limit - (count' - Cardinality(got \cup B)) \in Int
            BY <1>1, <2>4 DEF Before, CallTypeOK
          <6> QED
            BY <3>1, <4>2, <6>1 DEF Truncated
        <5> QED
          BY <1>1, <5>1
      <4> QED
        BY <4>1, <4>2
    <3> QED
      BY <1>0, <3>1, <3>2 DEF KeysWithin
  <2> QED
    BY <1>6, <2>5, <2>6, <2>7
<1>7. ~IsRefused /\ ~Panics
  BY <1>2 DEF IsRefused, Panics
<1>8. ~Body /\ ~Forbidden /\ ~Begins /\ ~TypeReturns /\ ~ValueReturns
  BY <1>1, <1>2 DEF Body, Forbidden, Begins, TypeReturns, ValueReturns, CallTypeOK
<1>9. ~EndOfRows /\ \A i : ~Row(i)
  BY <1>2 DEF EndOfRows, Row
<1> QED
  BY <1>4, <1>5, <1>6, <1>7, <1>8, <1>9 DEF CallNext, HandlerGoesOn, Returns

LEMMA ValuesStep ==
  ASSUME Before, ValuesWithin, [CallNext]_callVars
  PROVE  ValuesWithin'
<1>0. message' = message
  BY DEF CallNext, HandlerGoesOn, Returns, Dispatch, Send, IsRefused, Panics, Finish, Deliver,
         Trouble, Body, Forbidden, Begins, EndOfRows, Answers, TypeReturns, ValueReturns, StoreFails,
         GivesUp, Fails, BreaksOff, Row, ScanGoesOn, ScanEnds, Closes, HangUp, Signal, Exit, Tick, Create, Drop,
         callVars, handlerVars
<1> SUFFICES ASSUME message.tool = "redis_get" PROVE ValuesWithin'
  BY <1>0 DEF ValuesWithin
<1>1. /\ CallTypeOK /\ Len(Program) = 2 /\ pos \in {1, 2, 3} /\ phase # "reading"
      /\ pos <= Len(Program) =>
            /\ \/ pos = 1 /\ Current = Must("type", "type")
               \/ pos = 2 /\ Current = Must("value", "value")
            /\ Current.onError = "fail" /\ Current.onCut = "fail" /\ Current.instead = 0
            /\ Current.how \in {"type", "value"}
  BY RedisPlaces DEF Before, RedisInv
<1>2. ASSUME UNCHANGED <<pos, got, shape>> PROVE ValuesWithin'
  BY <1>0, <1>2 DEF ValuesWithin
<1>3. CASE Dispatch \/ Send \/ Finish \/ Deliver \/ HangUp \/ Signal \/ Exit \/ Tick \/ UNCHANGED callVars
           \/ \E i \in Items : Create(i) \/ Drop(i)
  BY <1>2, <1>3 DEF Dispatch, Send, Finish, Deliver, HangUp, Signal, Exit, Tick, Create, Drop, callVars,
                    handlerVars, Ends
<1>4. CASE StoreFails \/ GivesUp
  <2>1. \E late : Trouble("fail", Current.drops, late)
    BY <1>1, <1>4 DEF StoreFails, GivesUp, Fails, BreaksOff, Before, CallTypeOK
  <2>2. UNCHANGED <<pos, got, shape>>
    BY <2>1 DEF Trouble, Ends
  <2> QED
    BY <1>2, <2>2
<1>5. CASE TypeReturns
  <2>1. pos = 1
    <3>1. Must("value", "value").how # "type"
      BY DEF Must, Ask
    <3> QED
      BY <1>1, <1>5, <3>1 DEF TypeReturns, CallTypeOK
  <2>2. pos' \in {1, 2}
    BY <1>5, <2>1 DEF TypeReturns, Ends, Goes
  <2> QED
    BY <2>2 DEF ValuesWithin
<1>6. CASE ValueReturns
  <2>1. pos = 2 /\ got = {} /\ shape' = shape
    <3>1. Must("type", "type").how # "value"
      BY DEF Must, Ask
    <3> QED
      BY <1>1, <1>6, <3>1 DEF ValueReturns, CallTypeOK, RedisInv, Before
  <2>2. CASE Ends("failed")
    BY <2>1, <2>2 DEF Ends, ValuesWithin
  <2>3. CASE ~Ends("failed")
    <3> SUFFICES ASSUME shape \in {"list", "zset"} PROVE Cardinality(got') <= RangeSize
      BY <2>1 DEF ValuesWithin
    <3>1. PICK T \in AtMost(Of(store, "value"), RangeSize) : got' = got \cup T
      BY <1>6, <2>3 DEF ValueReturns
    <3>2. RangeSize \in Limits /\ RangeSize # NoLimit
      BY BoundAssumption DEF Limits, NoLimit
    <3>3. Cardinality(T) <= RangeSize
      <4>1. Of(store, "value") \in SUBSET Items
        BY <1>1 DEF Of, CallTypeOK
      <4> QED
        BY <3>1, <3>2, <4>1, AtMostIsWithin
    <3> QED
      BY <2>1, <3>1, <3>3
  <2> QED
    BY <2>2, <2>3
<1>7. ~IsRefused /\ ~Panics
  BY <1>1 DEF IsRefused, Panics
<1>8. ~Body /\ ~Forbidden /\ ~Begins /\ \A B : ~ScanGoesOn(B) /\ ~ScanEnds(B)
  BY <1>1 DEF Body, Forbidden, Begins, ScanGoesOn, ScanEnds, CallTypeOK
<1>9. ~EndOfRows /\ \A i : ~Row(i)
  BY <1>1 DEF EndOfRows, Row
<1> QED
  BY <1>3, <1>4, <1>5, <1>6, <1>7, <1>8, <1>9 DEF CallNext, HandlerGoesOn, Returns

\* However a store answers, and whatever changes in it between two requests or two batches,
\* a successful answer keeps the limits that were asked for.
THEOREM AnswersAreLimited == CallSpec => []AnswersStayWithinLimits
<1>1. CallSpec => []RedisInv
  BY RedisInit, RedisStep, CallTypes, PTL DEF CallSpec
<1>2. CallTypeOK /\ CallTypeOK' /\ BlankInv' /\ DeadlineInv /\ RedisInv /\ LastingInv
        /\ [CallNext]_callVars => LastingInv'
  BY LastingStep DEF Before
<1>0. CallSpec => []BlankInv
  BY BlankInit, BlankStep, CallTypes, PTL DEF CallSpec
<1>3. CallTypeOK /\ CallTypeOK' /\ BlankInv' /\ DeadlineInv /\ RedisInv /\ LastingInv /\ LastingInv'
        /\ LimitInv /\ [CallNext]_callVars => LimitInv'
  BY RequestsStep, KeysStep, ValuesStep DEF Before, LimitInv
<1>4. CallSpec => []LimitInv
  BY <1>0, <1>1, <1>2, <1>3, LastingInit, LimitInit, CallTypes, DeadlinesKept, PTL DEF CallSpec
<1>5. CallTypeOK /\ RedisInv /\ LimitInv => AnswersStayWithinLimits
  <2> SUFFICES ASSUME CallTypeOK, RedisInv, LimitInv, result = "ok"
               PROVE  /\ \A n \in DOMAIN Program : WithinLimit(n)
                      /\ message.tool = "redis_keys" => Cardinality(got) <= message.limit
                      /\ message.tool = "redis_get" /\ shape \in {"list", "zset"} =>
                            Cardinality(got) <= RangeSize
    BY DEF AnswersStayWithinLimits
  <2>1. DOMAIN Program = 1 .. Len(Program)
    BY ProgramFacts
  <2> QED
    BY <2>1 DEF LimitInv, RequestsWithin, KeysWithin, ValuesWithin, RedisInv
<1> QED
  BY <1>1, <1>4, <1>5, CallTypes, PTL

=============================================================================
