-------------------------- MODULE SearchIndexProofs --------------------------
(***************************************************************************)
(* Proofs about SearchIndex, for every set of sources, schemas, tables,    *)
(* handlers and slices.  The invariant has three parts beside TypeOK: who  *)
(* can reach the slice the build writes (Private), where the walk stands   *)
(* (Walk), and what the walk still owes (Owed).  At the end: why a build   *)
(* comes to its end, and the bound on slices.                              *)
(***************************************************************************)
EXTENDS SearchIndex, FiniteSetTheorems, TLAPS

USE DEF Building

\* Every step is one of these actions.
LEMMA NextCases ==
    ASSUME Next
    PROVE  \/ \E t \in Tables : CreateTable(t) \/ DropTable(t) \/ AppendTable(t)
           \/ \E s \in Sources : ListSchemas(s) \/ SourceFails(s)
           \/ \E n \in Schemas : ListTables(n) \/ ListTablesFails(n)
           \/ ListColumns \/ ListColumnsFails
           \/ NextSchema \/ NextSource \/ Replace \/ StartBuild \/ Stop \/ Signal
           \/ \E h \in Handlers : Search(h) \/ Rank(h)
  BY DEF Next, Calls, Local

\* An entry stands for a table or for its columns.
LEMMA EntryCases ==
    /\ \A t \in Tables : TableEntry(t) \in Entry /\ ColumnEntry(t) \in Entry
    /\ \A t \in Tables : TableEntry(t).table = t /\ ColumnEntry(t).table = t
    /\ \A e \in Entry : e.table \in Tables
                        /\ (e = TableEntry(e.table) \/ e = ColumnEntry(e.table))
    /\ \A t, u \in Tables : TableEntry(t) # ColumnEntry(u)
    /\ \A t, u \in Tables : ColumnEntry(t) = ColumnEntry(u) => t = u
  BY DEF Entry, TableEntry, ColumnEntry

-----------------------------------------------------------------------------
(* Types, and who can reach the slice that the build appends to            *)

Private ==
    /\ Building => out \in Slices /\ out # entries /\ \A h \in Handlers : view[h] # out
    /\ \A h \in Handlers : view[h] \in Slices => seen[h] = slice[view[h]]

\* In the columns phase there is a table.
Typed == TypeOK /\ Private /\ (rpc = "columns" => table \in Tables)

LEMMA InitTyped == Init => Typed
  BY SliceAssumption DEF Init, Typed, TypeOK, Private, NoTable, NoSource

LEMMA NextTyped == Typed /\ [Next]_vars => Typed'
  <1> SUFFICES ASSUME Typed, [Next]_vars
               PROVE  Typed'
    OBVIOUS
  <1> USE DEF Typed, TypeOK, Private, dbVars, buildVars, indexVars, searchVars
  <1>1. ASSUME NEW t \in Tables, CreateTable(t)
        PROVE  Typed'
    BY <1>1 DEF CreateTable
  <1>2. ASSUME NEW t \in Tables, DropTable(t)
        PROVE  Typed'
    BY <1>2 DEF DropTable
  <1>3. CASE StartBuild
    <2>1. PICK b \in Slices \ ({entries} \cup {view[h] : h \in Handlers}) :
             out' = b /\ slice' = [slice EXCEPT ![b] = {}]
      BY <1>3 DEF StartBuild
    <2>2. TypeOK' /\ (rpc' = "columns" => table' \in Tables)
      BY <1>3, <2>1 DEF StartBuild
    <2>3. out' \in Slices /\ out' # entries' /\ \A h \in Handlers : view'[h] # out'
      BY <1>3, <2>1 DEF StartBuild
    <2>4. \A h \in Handlers : view'[h] \in Slices => seen'[h] = slice'[view'[h]]
      BY <1>3, <2>1 DEF StartBuild
    <2> QED BY <2>2, <2>3, <2>4
  <1>4. ASSUME NEW s \in Sources, ListSchemas(s)
        PROVE  Typed'
    BY <1>4 DEF ListSchemas
  <1>5. ASSUME NEW s \in Sources, SourceFails(s)
        PROVE  Typed'
    BY <1>5 DEF SourceFails, EntriesOf
  <1>6. ASSUME NEW n \in Schemas, ListTables(n)
        PROVE  Typed'
    BY <1>6 DEF ListTables
  <1>7. ASSUME NEW n \in Schemas, ListTablesFails(n)
        PROVE  Typed'
    BY <1>7 DEF ListTablesFails, EntriesOf
  <1>8. ASSUME NEW t \in Tables, AppendTable(t)
        PROVE  Typed'
    <2>1. slice' \in [Slices -> SUBSET Entry]
      BY <1>8, EntryCases DEF AppendTable
    <2>2. \A h \in Handlers : view'[h] \in Slices => seen'[h] = slice'[view'[h]]
      BY <1>8 DEF AppendTable
    <2> QED BY <1>8, <2>1, <2>2 DEF AppendTable
  <1>9. CASE ListColumns
    <2>1. slice' \in [Slices -> SUBSET Entry]
      BY <1>9, EntryCases DEF ListColumns
    <2>2. \A h \in Handlers : view'[h] \in Slices => seen'[h] = slice'[view'[h]]
      BY <1>9 DEF ListColumns
    <2> QED BY <1>9, <2>1, <2>2 DEF ListColumns
  <1>10. CASE ListColumnsFails
    BY <1>10, EntryCases DEF ListColumnsFails
  <1>11. CASE NextSchema \/ NextSource \/ Stop \/ Signal
    BY <1>11 DEF NextSchema, NextSource, Stop, Signal, NoSource
  <1>12. CASE Replace
    BY <1>12 DEF Replace
  <1>13. ASSUME NEW h \in Handlers, Search(h)
         PROVE  Typed'
    BY <1>13 DEF Search
  <1>14. ASSUME NEW h \in Handlers, Rank(h)
         PROVE  Typed'
    BY <1>14, SliceAssumption DEF Rank
  <1>15. CASE UNCHANGED vars
    BY <1>15 DEF vars
  <1> QED
    BY <1>1, <1>2, <1>3, <1>4, <1>5, <1>6, <1>7, <1>8, <1>9, <1>10, <1>11, <1>12, <1>13,
       <1>14, <1>15, NextCases

\* The state of the refresher, of the index and of the handlers keeps its shape
\* (search.RefreshEvery, search.Build, Index).
THEOREM TypeCorrect == Spec => []TypeOK
  <1>1. Typed => TypeOK
    BY DEF Typed
  <1> QED BY InitTyped, NextTyped, <1>1, PTL DEF Spec

\* A handler that took the slice header under the read lock ranks exactly what
\* it took, whatever builds run meanwhile (Index.Search, Index.Replace).
THEOREM SearchesAreStable == Spec => []SearchSeesOneBuild
  <1>1. Typed => SearchSeesOneBuild
    BY DEF Typed, TypeOK, Private, SearchSeesOneBuild
  <1> QED BY InitTyped, NextTyped, <1>1, PTL DEF Spec


-----------------------------------------------------------------------------
(* Where the walk stands: what it lists and what it has written existed.   *)

Walk ==
    /\ rpc \notin {"tables", "columns"} => listed = {}
    /\ rpc \in {"start", "sources", "wait", "stopped"} => schemas = {}
    /\ always \subseteq catalog
    /\ Building =>
         /\ catalog \subseteq ever /\ listed \subseteq ever
         /\ \A e \in slice[out] : e.table \in ever
    /\ rpc = "columns" => table \in ever /\ TableEntry(table) \in slice[out]

WInv == Typed /\ Walk

LEMMA InitWalk == Init => Walk
  BY DEF Init, Walk

LEMMA NextWalk == WInv /\ [Next]_vars => Walk'
  <1> SUFFICES ASSUME WInv, [Next]_vars
               PROVE  Walk'
    OBVIOUS
  <1> USE DEF WInv, Typed, TypeOK, Walk, dbVars, buildVars, indexVars, searchVars
  <1>1. ASSUME NEW t \in Tables, CreateTable(t)
        PROVE  Walk'
    BY <1>1 DEF CreateTable
  <1>2. ASSUME NEW t \in Tables, DropTable(t)
        PROVE  Walk'
    BY <1>2 DEF DropTable
  <1>3. CASE StartBuild
    <2>1. slice'[out'] = {}
      BY <1>3 DEF StartBuild
    <2> QED BY <1>3, <2>1 DEF StartBuild
  <1>4. ASSUME NEW s \in Sources, ListSchemas(s) \/ SourceFails(s)
        PROVE  Walk'
    BY <1>4 DEF ListSchemas, SourceFails
  <1>5. ASSUME NEW n \in Schemas, ListTables(n) \/ ListTablesFails(n)
        PROVE  Walk'
    BY <1>5 DEF ListTables, ListTablesFails
  <1>6. ASSUME NEW t \in Tables, AppendTable(t)
        PROVE  Walk'
    <2>1. out \in Slices /\ slice'[out] = slice[out] \cup {TableEntry(t)}
      BY <1>6 DEF AppendTable, Private
    <2>2. \A e \in slice'[out] : e.table \in ever
      BY <1>6, <2>1, EntryCases DEF AppendTable
    <2> QED BY <1>6, <2>1, <2>2 DEF AppendTable
  <1>7. CASE ListColumns
    <2>1. out \in Slices /\ slice'[out] = slice[out] \cup {ColumnEntry(table)}
      BY <1>7 DEF ListColumns, Private
    <2>2. \A e \in slice'[out] : e.table \in ever
      BY <1>7, <2>1, EntryCases DEF ListColumns
    <2> QED BY <1>7, <2>1, <2>2 DEF ListColumns
  <1>8. CASE ListColumnsFails \/ NextSchema \/ NextSource \/ Replace \/ Stop \/ Signal
    BY <1>8 DEF ListColumnsFails, NextSchema, NextSource, Replace, Stop, Signal
  <1>9. ASSUME NEW h \in Handlers, Search(h) \/ Rank(h)
        PROVE  Walk'
    BY <1>9 DEF Search, Rank
  <1>10. CASE UNCHANGED vars
    BY <1>10 DEF vars
  <1> QED
    BY <1>1, <1>2, <1>3, <1>4, <1>5, <1>6, <1>7, <1>8, <1>9, <1>10, NextCases

LEMMA WalkHolds == Spec => []WInv
  <1>1. Init => WInv
    BY InitTyped, InitWalk DEF WInv
  <1>2. WInv /\ [Next]_vars => WInv'
    BY NextTyped, NextWalk DEF WInv
  <1> QED BY <1>1, <1>2, PTL DEF Spec

\* Only Replace gives the index another slice, and it leaves every slice as it is.
LEMMA OnlyReplaceInstalls ==
    ASSUME WInv, [Next]_vars, entries' # entries
    PROVE  /\ rpc = "sources" /\ todo = {}
           /\ entries' = out /\ slice' = slice
  <1> USE DEF dbVars, buildVars, indexVars, searchVars
  <1>1. Next
    BY DEF vars
  <1>2. Replace
    BY <1>1, NextCases
       DEF CreateTable, DropTable, AppendTable, ListSchemas, SourceFails, ListTables,
           ListTablesFails, ListColumns, ListColumnsFails, NextSchema, NextSource, StartBuild,
           Stop, Signal, Search, Rank
  <1> QED BY <1>2 DEF Replace

\* A build installs only what existed at some time during it (search.Build).
THEOREM InstalledIsReal == Spec => InstalledWasReal
  <1>1. WInv /\ [Next]_vars =>
          [entries' # entries => \A e \in slice'[entries'] : e.table \in ever]_vars
    <2> SUFFICES ASSUME WInv, [Next]_vars, entries' # entries
                 PROVE  \A e \in slice'[entries'] : e.table \in ever
      OBVIOUS
    <2> QED BY OnlyReplaceInstalls DEF WInv, Walk
  <1> QED BY <1>1, WalkHolds, PTL DEF Spec, InstalledWasReal

-----------------------------------------------------------------------------
(* What the walk still owes: an entry that is due is in the slice, or it   *)
(* lies ahead.                                                             *)

Ahead(e) ==
    \/ SourceOf[e.table] \in todo
    \/ SourceOf[e.table] = source /\ SchemaOf[e.table] \in schemas
    \/ e.table \in listed
    \/ rpc = "columns" /\ e = ColumnEntry(table)

Owed ==
    Building => \A e \in Entry : e.table \in always /\ e \notin missed =>
                                    e \in slice[out] \/ Ahead(e)

OInv == WInv /\ Owed

LEMMA InitOwed == Init => Owed
  BY DEF Init, Owed

LEMMA NextOwed == OInv /\ [Next]_vars => Owed'
  <1> SUFFICES ASSUME OInv, [Next]_vars, Building',
                      NEW e \in Entry, e.table \in always', e \notin missed'
               PROVE  e \in slice'[out'] \/ Ahead(e)'
    BY DEF Owed
  <1> USE DEF OInv, WInv, Typed, TypeOK, dbVars, buildVars, indexVars, searchVars
  <1>0. e.table \in Tables /\ SourceOf[e.table] \in Sources /\ SchemaOf[e.table] \in Schemas
    BY EntryCases, TableAssumption
  <1>a. ASSUME Building, out' = out, slice'[out] = slice[out], missed \subseteq missed',
               always' \subseteq always, Ahead(e) => Ahead(e)'
        PROVE  e \in slice'[out'] \/ Ahead(e)'
    BY <1>a DEF Owed
  <1>1. ASSUME NEW t \in Tables, CreateTable(t) \/ DropTable(t)
        PROVE  e \in slice'[out'] \/ Ahead(e)'
    BY <1>a, <1>1 DEF CreateTable, DropTable, Ahead
  <1>2. CASE StartBuild
    BY <1>2, <1>0 DEF StartBuild, Ahead
  <1>3. ASSUME NEW s \in Sources, ListSchemas(s)
        PROVE  e \in slice'[out'] \/ Ahead(e)'
    <2>1. Ahead(e) => Ahead(e)'
      BY <1>3, <1>0 DEF ListSchemas, Ahead, Walk
    <2> QED BY <1>a, <1>3, <2>1 DEF ListSchemas
  <1>4. ASSUME NEW s \in Sources, SourceFails(s)
        PROVE  e \in slice'[out'] \/ Ahead(e)'
    <2>1. SourceOf[e.table] # s
      BY <1>4, <1>0 DEF SourceFails, EntriesOf
    <2>2. Ahead(e) => Ahead(e)'
      BY <1>4, <2>1 DEF SourceFails, Ahead
    <2> QED BY <1>a, <1>4, <2>2 DEF SourceFails
  <1>5. ASSUME NEW n \in Schemas, ListTables(n)
        PROVE  e \in slice'[out'] \/ Ahead(e)'
    <2>1. e.table \in catalog
      BY <1>5 DEF ListTables, Walk
    <2>2. Ahead(e) => Ahead(e)'
      BY <1>5, <1>0, <2>1 DEF ListTables, Ahead, Walk, TablesIn
    <2> QED BY <1>a, <1>5, <2>2 DEF ListTables
  <1>6. ASSUME NEW n \in Schemas, ListTablesFails(n)
        PROVE  e \in slice'[out'] \/ Ahead(e)'
    <2>1. ~(SourceOf[e.table] = source /\ SchemaOf[e.table] = n)
      BY <1>6, <1>0 DEF ListTablesFails, EntriesOf, TablesIn
    <2>2. Ahead(e) => Ahead(e)'
      BY <1>6, <2>1 DEF ListTablesFails, Ahead
    <2> QED BY <1>a, <1>6, <2>2 DEF ListTablesFails
  <1>7. ASSUME NEW t \in Tables, AppendTable(t)
        PROVE  e \in slice'[out'] \/ Ahead(e)'
    <2>1. out' = out /\ slice'[out] = slice[out] \cup {TableEntry(t)}
      BY <1>7 DEF AppendTable, Private
    <2>2. e \in slice[out] \/ Ahead(e)
      BY <1>7 DEF AppendTable, Owed
    <2>3. CASE e.table = t
      BY <1>7, <2>1, <2>3, EntryCases DEF AppendTable, Ahead
    <2>4. CASE e.table # t
      BY <1>7, <2>1, <2>2, <2>4 DEF AppendTable, Ahead
    <2> QED BY <2>3, <2>4
  <1>8. CASE ListColumns
    <2>1. out' = out /\ slice'[out] = slice[out] \cup {ColumnEntry(table)}
      BY <1>8 DEF ListColumns, Private
    <2>2. e \in slice[out] \/ Ahead(e)
      BY <1>8 DEF ListColumns, Owed
    <2> QED BY <1>8, <2>1, <2>2 DEF ListColumns, Ahead
  <1>9. CASE ListColumnsFails
    <2>1. e # ColumnEntry(table)
      BY <1>9 DEF ListColumnsFails
    <2>2. Ahead(e) => Ahead(e)'
      BY <1>9, <2>1 DEF ListColumnsFails, Ahead
    <2> QED BY <1>a, <1>9, <2>2 DEF ListColumnsFails
  <1>10. CASE NextSchema \/ NextSource
    <2>1. Ahead(e) => Ahead(e)'
      BY <1>10 DEF NextSchema, NextSource, Ahead
    <2> QED BY <1>a, <1>10, <2>1 DEF NextSchema, NextSource
  <1>11. CASE Replace \/ Stop
    BY <1>11 DEF Replace, Stop
  <1>12. CASE Signal
    BY <1>a, <1>12 DEF Signal, Ahead
  <1>13. ASSUME NEW h \in Handlers, Search(h) \/ Rank(h)
         PROVE  e \in slice'[out'] \/ Ahead(e)'
    BY <1>a, <1>13 DEF Search, Rank, Ahead
  <1>14. CASE UNCHANGED vars
    BY <1>a, <1>14 DEF vars, Ahead
  <1> QED
    BY <1>1, <1>2, <1>3, <1>4, <1>5, <1>6, <1>7, <1>8, <1>9, <1>10, <1>11, <1>12, <1>13,
       <1>14, NextCases

LEMMA OwedHolds == Spec => []OInv
  <1>1. Init => OInv
    BY InitTyped, InitWalk, InitOwed DEF OInv, WInv
  <1>2. OInv /\ [Next]_vars => OInv'
    BY NextTyped, NextWalk, NextOwed DEF OInv, WInv
  <1> QED BY <1>1, <1>2, PTL DEF Spec

\* A failed catalog call costs a build only what that call was to list
\* (the continue statements of search.Build).
THEOREM FailuresAreLocal == Spec => FailuresStayLocal
  <1>1. OInv /\ [Next]_vars =>
          [entries' # entries =>
             \A e \in EntriesOf(always) \ missed : e \in slice'[entries']]_vars
    <2> SUFFICES ASSUME OInv, [Next]_vars, entries' # entries,
                        NEW e \in EntriesOf(always) \ missed
                 PROVE  e \in slice'[entries']
      OBVIOUS
    <2>1. /\ rpc = "sources" /\ todo = {}
          /\ entries' = out /\ slice' = slice
      BY OnlyReplaceInstalls DEF OInv
    <2>2. ~Ahead(e)
      BY <2>1 DEF Ahead, OInv, WInv, Walk
    <2> QED BY <2>1, <2>2 DEF Owed, OInv, EntriesOf
  <1> QED BY <1>1, OwedHolds, PTL DEF Spec, FailuresStayLocal

\* A column is never found without its table: Build appends the table's entry
\* before it asks for columns.
THEOREM ColumnsFollowTables == Spec => []ColumnsHaveTables
  <1>1. Init => ColumnsHaveTables
    BY DEF Init, ColumnsHaveTables
  <1>2. WInv /\ ColumnsHaveTables /\ [Next]_vars => ColumnsHaveTables'
    <2> SUFFICES ASSUME WInv, ColumnsHaveTables, [Next]_vars,
                        NEW b \in Slices, NEW t \in Tables, ColumnEntry(t) \in slice'[b]
                 PROVE  TableEntry(t) \in slice'[b]
      BY DEF ColumnsHaveTables
    <2> USE DEF ColumnsHaveTables, WInv, Typed, TypeOK, dbVars, buildVars, indexVars, searchVars
    <2>1. CASE slice' = slice
      BY <2>1
    <2>2. CASE StartBuild
      BY <2>2 DEF StartBuild
    <2>3. ASSUME NEW u \in Tables, AppendTable(u)
          PROVE  TableEntry(t) \in slice'[b]
      BY <2>3, EntryCases DEF AppendTable
    <2>4. CASE ListColumns
      BY <2>4, EntryCases DEF ListColumns, Walk, Private
    <2>5. slice' = slice \/ StartBuild \/ ListColumns \/ \E u \in Tables : AppendTable(u)
      BY NextCases DEF vars, CreateTable, DropTable, ListSchemas, SourceFails, ListTables,
           ListTablesFails, ListColumnsFails, NextSchema, NextSource, Replace, Stop, Signal,
           Search, Rank
    <2> QED BY <2>1, <2>2, <2>3, <2>4, <2>5
  <1> QED BY <1>1, <1>2, WalkHolds, PTL DEF Spec

\* A table leaves the searches only with a build that is installed whole, and only because
\* it did not exist throughout that build or the call that was to list it failed.
NothingVanishes ==
    \A t \in Tables : Found(t) /\ ~Found(t)' =>
        entries' # entries /\ (t \notin always \/ TableEntry(t) \in missed)

\* The safety of LastingTablesAreFound: between two Replace a search finds the same, and a
\* Replace takes away no table that lasted and whose calls succeeded (search.Build appends
\* to a slice of its own, Index.Replace installs it under the write lock).
THEOREM TablesVanishForAReason == Spec => [][NothingVanishes]_vars
  <1>1. OInv /\ [Next]_vars => NothingVanishes
    <2> SUFFICES ASSUME OInv, [Next]_vars, NEW t \in Tables, Found(t), ~Found(t)'
                 PROVE  entries' # entries /\ (t \notin always \/ TableEntry(t) \in missed)
      BY DEF NothingVanishes
    <2> USE DEF OInv, WInv, Typed, TypeOK
    <2>1. ASSUME entries' = entries PROVE slice'[entries] = slice[entries]
      <3>1. CASE slice' = slice
        BY <3>1
      <3>2. CASE StartBuild
        BY <3>2 DEF StartBuild
      <3>3. ASSUME NEW u \in Tables, AppendTable(u)
            PROVE  slice'[entries] = slice[entries]
        BY <3>3 DEF AppendTable, Private
      <3>4. CASE ListColumns
        BY <3>4 DEF ListColumns, Private
      <3>5. slice' = slice \/ StartBuild \/ ListColumns \/ \E u \in Tables : AppendTable(u)
        BY NextCases DEF vars, indexVars, CreateTable, DropTable, ListSchemas, SourceFails,
             ListTables, ListTablesFails, ListColumnsFails, NextSchema, NextSource, Replace,
             Stop, Signal, Search, Rank
      <3> QED BY <3>1, <3>2, <3>3, <3>4, <3>5
    <2>2. entries' # entries
      BY <2>1 DEF Found
    <2>3. /\ rpc = "sources" /\ todo = {}
          /\ entries' = out /\ slice' = slice
      BY <2>2, OnlyReplaceInstalls
    <2>4. TableEntry(t) \notin slice[out] /\ TableEntry(t) \in Entry /\ TableEntry(t).table = t
      BY <2>3, EntryCases DEF Found
    <2>5. ~Ahead(TableEntry(t))
      BY <2>3 DEF Ahead, Walk
    <2> QED BY <2>2, <2>3, <2>4, <2>5 DEF Owed
  <1> QED BY <1>1, OwedHolds, PTL DEF Spec

-----------------------------------------------------------------------------
(* The bound on slices                                                     *)

\* A slice for Build to allocate: neither the index nor a handler reaches it.
Unreachable == Slices \ ({entries} \cup {view[h] : h \in Handlers})

\* Two slices more than there are handlers are as good as any number: Build, which can
\* always allocate, never waits for a slice, and the reuse of slices loses no behaviour.
THEOREM AllocationNeverWaits ==
  ASSUME IsFiniteSet(Handlers), IsFiniteSet(Slices),
         Cardinality(Slices) > Cardinality(Handlers) + 1
  PROVE  Spec => [](Unreachable # {})
  <1>1. TypeOK => Unreachable # {}
    <2> SUFFICES ASSUME TypeOK PROVE Unreachable # {}
      OBVIOUS
    <2> DEFINE Views == {view[h] : h \in Handlers}
               f == [h \in Handlers |-> view[h]]
    <2>1. f \in Surjection(Handlers, Views)
      BY DEF Surjection
    <2>2. IsFiniteSet(Views) /\ Cardinality(Views) <= Cardinality(Handlers)
      <3> HIDE DEF Views, f
      <3> QED BY <2>1, FS_Surjection
    <2>3. Cardinality(Views) \in Nat /\ Cardinality(Handlers) \in Nat /\ Cardinality(Slices) \in Nat
      BY <2>2, FS_CardinalityType
    <2>4. /\ IsFiniteSet(Views \cup {entries})
          /\ Cardinality(Views \cup {entries}) <= Cardinality(Views) + 1
      <3>1. /\ IsFiniteSet(Views \cup {entries})
            /\ Cardinality(Views \cup {entries})
                 = IF entries \in Views THEN Cardinality(Views) ELSE Cardinality(Views) + 1
        <4> HIDE DEF Views
        <4> QED BY <2>2, FS_AddElement, Zenon
      <3> QED BY <2>3, <3>1
    <2>5. ASSUME Slices \subseteq Views \cup {entries} PROVE FALSE
      <3>1. Cardinality(Slices) <= Cardinality(Views \cup {entries})
        <4> HIDE DEF Views
        <4> QED BY <2>4, <2>5, FS_Subset
      <3>2. Cardinality(Views \cup {entries}) \in Nat
        BY <2>4, FS_CardinalityType
      <3> QED BY <2>2, <2>3, <2>4, <3>1, <3>2
    <2> QED BY <2>5 DEF Unreachable
  <1> QED BY <1>1, TypeCorrect, PTL

-----------------------------------------------------------------------------
(* Every build ends.                                                       *)

\* What is left of a build: its sources, the schemas of the current one, the tables of
\* the current one of these, in this order of weight.
SourcesLeft == Cardinality(todo)
SchemasLeft == IF rpc = "schemas" THEN 2 * Cardinality(schemas) + 1
               ELSE IF rpc \in {"tables", "columns"} THEN 2 * Cardinality(schemas) + 2
               ELSE 0
TablesLeft == IF rpc = "tables" THEN 2 * Cardinality(listed)
              ELSE IF rpc = "columns" THEN 2 * Cardinality(listed) + 1
              ELSE 0

NearerEnd ==
    \/ SourcesLeft' < SourcesLeft
    \/ SourcesLeft' = SourcesLeft /\ SchemasLeft' < SchemasLeft
    \/ SourcesLeft' = SourcesLeft /\ SchemasLeft' = SchemasLeft /\ TablesLeft' < TablesLeft

\* Each step of a build brings it nearer to its end, the calls that fail as well as
\* those that succeed, and nothing but these steps moves it.
BuildsComeNearer ==
    Building =>
        /\ Calls \/ Local => NearerEnd \/ rpc' = "wait"
        /\ ~(Calls \/ Local) => UNCHANGED <<rpc, todo, schemas, listed>>

LEMMA Taken ==
    ASSUME NEW S, IsFiniteSet(S), NEW T \in SUBSET S, NEW x \in T
    PROVE  Cardinality(T) \in Nat /\ Cardinality(T \ {x}) \in Nat
           /\ Cardinality(T \ {x}) < Cardinality(T)
  <1>1. IsFiniteSet(T)
    BY FS_Subset
  <1>2. IsFiniteSet(T \ {x}) /\ Cardinality(T \ {x}) = Cardinality(T) - 1
    BY <1>1, FS_RemoveElement
  <1>3. Cardinality(T) \in Nat /\ Cardinality(T \ {x}) \in Nat
    BY <1>1, <1>2, FS_CardinalityType
  <1> QED BY <1>2, <1>3

\* The safety of RefresherStops, and of the builds of LastingTablesAreFound: a build of any
\* finite number of sources, schemas and tables comes to its end, unless a call hangs, and
\* under a cancelled context no call does (the three nested loops of search.Build).
THEOREM BuildsEnd ==
  ASSUME IsFiniteSet(Sources), IsFiniteSet(Schemas), IsFiniteSet(Tables)
  PROVE  Spec => [][BuildsComeNearer]_vars
  <1>1. Typed /\ [Next]_vars => BuildsComeNearer
    <2> SUFFICES ASSUME Typed, [Next]_vars, Building
                 PROVE  /\ Calls \/ Local => NearerEnd \/ rpc' = "wait"
                        /\ ~(Calls \/ Local) => UNCHANGED <<rpc, todo, schemas, listed>>
      BY DEF BuildsComeNearer
    <2>0. /\ todo \subseteq Sources /\ schemas \subseteq Schemas /\ listed \subseteq Tables
          /\ Cardinality(todo) \in Nat /\ Cardinality(schemas) \in Nat
          /\ Cardinality(listed) \in Nat
      <3>1. todo \subseteq Sources /\ schemas \subseteq Schemas /\ listed \subseteq Tables
        BY DEF Typed, TypeOK
      <3> QED BY <3>1, FS_Subset, FS_CardinalityType
    <2> USE DEF SourcesLeft, SchemasLeft, TablesLeft, NearerEnd
    <2>1. ASSUME NEW s \in Sources, ListSchemas(s) \/ SourceFails(s)
          PROVE  NearerEnd
      <3>1. s \in todo /\ todo' = todo \ {s}
        BY <2>1 DEF ListSchemas, SourceFails
      <3>2. Cardinality(todo \ {s}) < Cardinality(todo)
        BY <2>0, <3>1, Taken
      <3> QED BY <3>1, <3>2
    <2>2. ASSUME NEW n \in Schemas, ListTables(n) \/ ListTablesFails(n)
          PROVE  NearerEnd
      <3>1. /\ n \in schemas /\ schemas' = schemas \ {n} /\ todo' = todo
            /\ rpc = "schemas" /\ rpc' \in {"tables", "schemas"}
        BY <2>2 DEF ListTables, ListTablesFails
      <3>2. Cardinality(schemas \ {n}) < Cardinality(schemas) /\ Cardinality(schemas \ {n}) \in Nat
        BY <2>0, <3>1, Taken
      <3>3. SchemasLeft' < SchemasLeft
        BY <2>0, <3>1, <3>2
      <3> QED BY <3>1, <3>3
    <2>3. ASSUME ListColumns \/ ListColumnsFails PROVE NearerEnd
      <3>1. /\ rpc = "columns" /\ rpc' = "tables" /\ UNCHANGED <<todo, schemas, listed>>
        BY <2>3 DEF ListColumns, ListColumnsFails
      <3>2. SourcesLeft' = SourcesLeft /\ SchemasLeft' = SchemasLeft
        BY <3>1
      <3>3. TablesLeft = 2 * Cardinality(listed) + 1 /\ TablesLeft' = 2 * Cardinality(listed)
        BY <3>1
      <3> QED BY <2>0, <3>2, <3>3
    <2>4. ASSUME NEW t \in Tables, AppendTable(t)
          PROVE  NearerEnd
      <3>1. /\ t \in listed /\ listed' = listed \ {t} /\ rpc = "tables" /\ rpc' = "columns"
            /\ UNCHANGED <<todo, schemas>>
        BY <2>4 DEF AppendTable
      <3>2. Cardinality(listed \ {t}) < Cardinality(listed) /\ Cardinality(listed \ {t}) \in Nat
        BY <2>0, <3>1, Taken
      <3>3. TablesLeft' < TablesLeft /\ SchemasLeft' = SchemasLeft
        BY <2>0, <3>1, <3>2
      <3> QED BY <3>1, <3>3
    <2>5. ASSUME NextSchema PROVE NearerEnd
      <3>1. /\ rpc = "tables" /\ rpc' = "schemas" /\ UNCHANGED <<todo, schemas>>
        BY <2>5 DEF NextSchema
      <3>2. /\ SourcesLeft' = SourcesLeft
            /\ SchemasLeft = 2 * Cardinality(schemas) + 2
            /\ SchemasLeft' = 2 * Cardinality(schemas) + 1
        BY <3>1
      <3> QED BY <2>0, <3>2
    <2>6. ASSUME NextSource PROVE NearerEnd
      <3>1. /\ rpc = "schemas" /\ rpc' = "sources" /\ UNCHANGED <<todo, schemas>>
        BY <2>6 DEF NextSource
      <3>2. /\ SourcesLeft' = SourcesLeft
            /\ SchemasLeft = 2 * Cardinality(schemas) + 1 /\ SchemasLeft' = 0
        BY <3>1
      <3> QED BY <2>0, <3>2
    <2>7. ASSUME Replace PROVE rpc' = "wait"
      BY <2>7 DEF Replace
    <2>8. Calls \/ Local => NearerEnd \/ rpc' = "wait"
      <3> HIDE DEF NearerEnd
      <3> QED BY <2>1, <2>2, <2>3, <2>4, <2>5, <2>6, <2>7 DEF Calls, Local
    <2>9. ASSUME ~(Calls \/ Local) PROVE UNCHANGED <<rpc, todo, schemas, listed>>
      BY <2>9 DEF Next, CreateTable, DropTable, StartBuild, Stop, Signal, Search, Rank,
                  vars, buildVars
    <2> QED BY <2>8, <2>9
  <1>2. Spec => []Typed
    BY InitTyped, NextTyped, PTL DEF Spec
  <1> QED BY <1>1, <1>2, PTL DEF Spec

=============================================================================
