----------------------------- MODULE SearchIndex -----------------------------
(***************************************************************************)
(* The search index behind search_tables: the refresher goroutine that     *)
(* walks every source and rebuilds it, the handlers that search it, the    *)
(* databases whose tables come and go and whose catalog queries fail, and  *)
(* the shutdown that cancels the refresher's context in the middle.        *)
(*                                                                         *)
(* A build is a long sequence of catalog queries, each seeing the catalog  *)
(* of its own moment.  Index.Replace swaps the slice header, so a search   *)
(* that runs during a swap goes on over the old slice.                     *)
(***************************************************************************)
EXTENDS Naturals, FiniteSets

CONSTANTS
    Sources,    \* the discovered sources
    Schemas,    \* schema names
    Tables,     \* every table that may exist
    SourceOf,   \* table -> its source
    SchemaOf,   \* table -> its schema
    Handlers,   \* goroutines that run search_tables
    Slices      \* identities of entry slices, reused once unreachable

NoSource == "no source"
NoTable == "no table"
NoSlice == "no slice"

ASSUME TableAssumption ==
    SourceOf \in [Tables -> Sources] /\ SchemaOf \in [Tables -> Schemas]
ASSUME SliceAssumption == NoSlice \notin Slices

\* Index entries: one for a table, one for its columns.
Entry == [table : Tables, level : {"table", "column"}]
TableEntry(t) == [table |-> t, level |-> "table"]
ColumnEntry(t) == [table |-> t, level |-> "column"]

-----------------------------------------------------------------------------
VARIABLES
    catalog,    \* the tables that exist now
    canceled,   \* the process context
    rpc,        \* where the refresher is
    todo,       \* sources the build has not reached
    source,     \* the source it is at
    schemas,    \* schemas of it that are left
    listed,     \* tables of the schema that are left
    table,      \* the table whose columns are due
    out,        \* the slice the build appends to
    slice,      \* contents of every slice
    entries,    \* the slice the index holds
    view,       \* handler -> the slice it ranks, or none
    seen,       \* history: what that slice held when the handler took it
    always,     \* history: tables that existed throughout the current build
    ever,       \* history: tables that existed at some time during it
    missed      \* history: entries the build lost to a failed call

dbVars == <<catalog, always, ever>>
buildVars == <<rpc, todo, source, schemas, listed, table, out, missed>>
indexVars == <<slice, entries>>
searchVars == <<view, seen>>
vars == <<dbVars, canceled, buildVars, indexVars, searchVars>>

TypeOK ==
    /\ catalog \subseteq Tables
    /\ canceled \in BOOLEAN
    /\ rpc \in {"start", "sources", "schemas", "tables", "columns", "wait", "stopped"}
    /\ todo \subseteq Sources
    /\ source \in Sources \cup {NoSource}
    /\ schemas \subseteq Schemas
    /\ listed \subseteq Tables
    /\ table \in Tables \cup {NoTable}
    /\ out \in Slices \cup {NoSlice}
    /\ slice \in [Slices -> SUBSET Entry]
    /\ entries \in Slices
    /\ view \in [Handlers -> Slices \cup {NoSlice}]
    /\ seen \in [Handlers -> SUBSET Entry]
    /\ always \subseteq Tables /\ ever \subseteq Tables
    /\ missed \subseteq Entry

Init ==
    /\ catalog \in SUBSET Tables
    /\ canceled = FALSE
    /\ rpc = "start"
    /\ todo = {} /\ source = NoSource /\ schemas = {} /\ listed = {} /\ table = NoTable
    /\ out = NoSlice
    /\ slice = [b \in Slices |-> {}]
    /\ entries \in Slices
    /\ view = [h \in Handlers |-> NoSlice]
    /\ seen = [h \in Handlers |-> {}]
    /\ always = {} /\ ever = {} /\ missed = {}

-----------------------------------------------------------------------------
(* The databases (external)                                                *)

Building == rpc \in {"sources", "schemas", "tables", "columns"}

CreateTable(t) ==
    /\ t \notin catalog
    /\ catalog' = catalog \cup {t}
    /\ ever' = IF Building THEN ever \cup {t} ELSE ever
    /\ UNCHANGED <<always, canceled, buildVars, indexVars, searchVars>>

DropTable(t) ==
    /\ t \in catalog
    /\ catalog' = catalog \ {t}
    /\ always' = always \ {t}
    /\ UNCHANGED <<ever, canceled, buildVars, indexVars, searchVars>>

-----------------------------------------------------------------------------
(* The refresher                                                           *)

EntriesOf(S) == {e \in Entry : e.table \in S}
TablesIn(s, n) == {t \in Tables : SourceOf[t] = s /\ SchemaOf[t] = n}

\* Mutant: Build appends to what the index holds.
StartBuildKeeps ==
    /\ rpc = "start" \/ rpc = "wait"
    /\ rpc' = "sources"
    /\ todo' = Sources
    /\ \E b \in Slices \ ({entries} \cup {view[h] : h \in Handlers}) :
         /\ out' = b
         /\ slice' = [slice EXCEPT ![b] = slice[entries]]
    /\ always' = catalog /\ ever' = catalog /\ missed' = {}
    /\ UNCHANGED <<catalog, canceled, source, schemas, listed, table, entries, searchVars>>

\* Mutant: Build reuses the array of the index, out := entries[:0].
StartBuildReuses ==
    /\ rpc = "start" \/ rpc = "wait"
    /\ rpc' = "sources"
    /\ todo' = Sources
    /\ out' = entries
    /\ slice' = [slice EXCEPT ![entries] = {}]
    /\ always' = catalog /\ ever' = catalog /\ missed' = {}
    /\ UNCHANGED <<catalog, canceled, source, schemas, listed, table, entries, searchVars>>

\* Build starts with a slice of its own: one that neither the index nor a
\* handler can still reach.
StartBuild ==
    /\ rpc = "start" \/ rpc = "wait"
    /\ rpc' = "sources"
    /\ todo' = Sources
    /\ \E b \in Slices \ ({entries} \cup {view[h] : h \in Handlers}) :
         /\ out' = b
         /\ slice' = [slice EXCEPT ![b] = {}]
    /\ always' = catalog /\ ever' = catalog /\ missed' = {}
    /\ UNCHANGED <<catalog, canceled, source, schemas, listed, table, entries, searchVars>>

\* Connect and ListSchemas of the next source.  A source has every schema.
ListSchemas(s) ==
    /\ rpc = "sources" /\ s \in todo /\ ~canceled
    /\ rpc' = "schemas"
    /\ todo' = todo \ {s} /\ source' = s /\ schemas' = Schemas
    /\ UNCHANGED <<dbVars, canceled, listed, table, out, missed, indexVars, searchVars>>

\* Mutant: a source that fails ends the build with an error, and Replace is skipped.
SourceFailsBuild(s) ==
    /\ rpc = "sources" /\ s \in todo
    /\ rpc' = "wait" /\ todo' = {} /\ out' = NoSlice
    /\ always' = {} /\ ever' = {} /\ missed' = {}
    /\ UNCHANGED <<catalog, canceled, source, schemas, listed, table, indexVars, searchVars>>

\* Connect or ListSchemas fails: "continue" drops the source from this build.
SourceFails(s) ==
    /\ rpc = "sources" /\ s \in todo
    /\ todo' = todo \ {s}
    /\ missed' = missed \cup EntriesOf({t \in Tables : SourceOf[t] = s})
    /\ UNCHANGED <<dbVars, canceled, rpc, source, schemas, listed, table, out, indexVars, searchVars>>

ListTables(n) ==
    /\ rpc = "schemas" /\ n \in schemas /\ ~canceled
    /\ rpc' = "tables"
    /\ schemas' = schemas \ {n}
    /\ listed' = catalog \cap TablesIn(source, n)
    /\ UNCHANGED <<dbVars, canceled, todo, source, table, out, missed, indexVars, searchVars>>

\* Mutant: break instead of continue.
ListTablesFailsBreaks(n) ==
    /\ rpc = "schemas" /\ n \in schemas
    /\ schemas' = {}
    /\ missed' = missed \cup EntriesOf(TablesIn(source, n))
    /\ UNCHANGED <<dbVars, canceled, rpc, todo, source, listed, table, out, indexVars, searchVars>>

\* Also what Redis always does here: it has a schema but no tables to list.
ListTablesFails(n) ==
    /\ rpc = "schemas" /\ n \in schemas
    /\ schemas' = schemas \ {n}
    /\ missed' = missed \cup EntriesOf(TablesIn(source, n))
    /\ UNCHANGED <<dbVars, canceled, rpc, todo, source, listed, table, out, indexVars, searchVars>>

\* The entry of the table goes in before its columns are asked for.
AppendTable(t) ==
    /\ rpc = "tables" /\ t \in listed
    /\ rpc' = "columns"
    /\ listed' = listed \ {t} /\ table' = t
    /\ slice' = [slice EXCEPT ![out] = @ \cup {TableEntry(t)}]
    /\ UNCHANGED <<dbVars, canceled, todo, source, schemas, out, missed, entries, searchVars>>

ListColumns ==
    /\ rpc = "columns" /\ ~canceled /\ table \in catalog
    /\ rpc' = "tables" /\ table' = NoTable
    /\ slice' = [slice EXCEPT ![out] = @ \cup {ColumnEntry(table)}]
    /\ UNCHANGED <<dbVars, canceled, todo, source, schemas, listed, out, missed, entries,
                   searchVars>>

\* The call fails, or the table is gone and has no columns to list.
ListColumnsFails ==
    /\ rpc = "columns"
    /\ rpc' = "tables" /\ table' = NoTable
    /\ missed' = missed \cup {ColumnEntry(table)}
    /\ UNCHANGED <<dbVars, canceled, todo, source, schemas, listed, out, indexVars, searchVars>>

NextSchema ==
    /\ rpc = "tables" /\ listed = {}
    /\ rpc' = "schemas"
    /\ UNCHANGED <<dbVars, canceled, todo, source, schemas, listed, table, out, missed,
                   indexVars, searchVars>>

NextSource ==
    /\ rpc = "schemas" /\ schemas = {}
    /\ rpc' = "sources" /\ source' = NoSource
    /\ UNCHANGED <<dbVars, canceled, todo, schemas, listed, table, out, missed, indexVars,
                   searchVars>>

\* Mutant: a build under a cancelled context installs nil.
ReplaceNil ==
    /\ rpc = "sources" /\ todo = {}
    /\ rpc' = "wait"
    /\ entries' = (IF canceled THEN NoSlice ELSE out) /\ out' = NoSlice
    /\ always' = {} /\ ever' = {} /\ missed' = {}
    /\ UNCHANGED <<catalog, canceled, todo, source, schemas, listed, table, slice, searchVars>>

\* Build never returns an error, so whatever it has collected is installed.
Replace ==
    /\ rpc = "sources" /\ todo = {}
    /\ rpc' = "wait"
    /\ entries' = out /\ out' = NoSlice
    /\ always' = {} /\ ever' = {} /\ missed' = {}
    /\ UNCHANGED <<catalog, canceled, todo, source, schemas, listed, table, slice, searchVars>>

\* Mutant: the loop waits for the ticker alone.
StopNever == FALSE

\* The select of RefreshEvery; a tick may still win over the cancelled context.
Stop ==
    /\ rpc = "wait" /\ canceled
    /\ rpc' = "stopped"
    /\ UNCHANGED <<dbVars, canceled, todo, source, schemas, listed, table, out, missed,
                   indexVars, searchVars>>

Signal ==
    /\ ~canceled /\ canceled' = TRUE
    /\ UNCHANGED <<dbVars, buildVars, indexVars, searchVars>>

-----------------------------------------------------------------------------
(* Handlers of search_tables                                               *)

\* Under the read lock a search takes the slice header, no more.
Search(h) ==
    /\ view[h] = NoSlice
    /\ view' = [view EXCEPT ![h] = entries]
    /\ seen' = [seen EXCEPT ![h] = slice[entries]]
    /\ UNCHANGED <<dbVars, canceled, buildVars, indexVars>>

\* rank has gone over the slice, and the handler answers.
Rank(h) ==
    /\ view[h] # NoSlice
    /\ view' = [view EXCEPT ![h] = NoSlice]
    /\ seen' = [seen EXCEPT ![h] = {}]
    /\ UNCHANGED <<dbVars, canceled, buildVars, indexVars>>

-----------------------------------------------------------------------------
Calls ==
    \/ \E s \in Sources : ListSchemas(s) \/ SourceFails(s)
    \/ \E n \in Schemas : ListTables(n) \/ ListTablesFails(n)
    \/ ListColumns \/ ListColumnsFails

Local ==
    \/ \E t \in Tables : AppendTable(t)
    \/ NextSchema \/ NextSource \/ Replace
    \/ rpc = "start" /\ StartBuild

Next ==
    \/ \E t \in Tables : CreateTable(t) \/ DropTable(t)
    \/ Calls \/ Local \/ StartBuild \/ Stop \/ Signal
    \/ \E h \in Handlers : Search(h) \/ Rank(h)

Spec == Init /\ [][Next]_vars

\* The goroutine is scheduled, the ticker ticks, a cancelled context ends every
\* call, and the select does not ignore a closed Done for ever.  A call under a
\* live context may hang.
FairSpec ==
    /\ Spec
    /\ WF_vars(Local) /\ WF_vars(StartBuild) /\ WF_vars(canceled /\ Calls)
    /\ SF_vars(Stop)

-----------------------------------------------------------------------------
(* Properties                                                              *)

Found(t) == TableEntry(t) \in slice[entries]

\* What a build installs once existed: at some time during that build.  A table
\* dropped before a build began is not found after it.
InstalledWasReal ==
    [][entries' # entries => \A e \in slice'[entries'] : e.table \in ever]_vars

\* A failed call costs only what that call was to list: a table that existed
\* throughout the build, and whose own calls succeeded, is installed with its
\* columns, whatever happened to other tables, schemas and sources.
FailuresStayLocal ==
    [][entries' # entries =>
         \A e \in EntriesOf(always) \ missed : e \in slice'[entries']]_vars

\* A column entry never stands without the entry of its table.
ColumnsHaveTables ==
    \A b \in Slices, t \in Tables :
        ColumnEntry(t) \in slice[b] => TableEntry(t) \in slice[b]

\* A search that began before a Replace answers from the slice it took: no
\* build writes to a slice a handler or the index can reach.
SearchSeesOneBuild ==
    \A h \in Handlers : view[h] # NoSlice => slice[view[h]] = seen[h]

\* The refresher does not outlive the process context for ever.
RefresherStops == canceled ~> rpc = "stopped"

\* A table that stays, in a source that answers from some time on, is found in
\* the end and stays found, though other sources fail, as long as no catalog
\* query hangs for ever.
InCall == (rpc = "sources" /\ todo # {}) \/ (rpc = "schemas" /\ schemas # {}) \/ rpc = "columns"
LastingTablesAreFound ==
    ([]<>~InCall /\ []~canceled) =>
        \A t \in Tables :
            <>[](t \in catalog /\ TableEntry(t) \notin missed) => <>[]Found(t)

=============================================================================
