---------------------------- MODULE WriteContract ----------------------------
(***************************************************************************)
(* What db_execute_query and db_execute_write promise a caller, whatever   *)
(* engine stands behind a source: data changes only for the write tool, a  *)
(* writer and a source opted into writes, at most once per request;        *)
(* "refused" means that nothing changed, nor will, and "error" leaves it   *)
(* open: a change may still arrive after an error was answered.  "ok"      *)
(* means that the change is made, with one exception: on a source whose    *)
(* sessions outlive a call, once the write tool has sent a text there that *)
(* leaves a transaction open, a change answered "ok" may still be waiting, *)
(* and may never be made.                                                  *)
(***************************************************************************)
CONSTANTS
    Requests,   \* the tool calls of one behaviour
    Writable,   \* the sources whose env says WRITE=true
    Lasting,    \* the sources whose sessions outlive a call
    Programs    \* the ways to give each request its call, see SqlExecution

\* Principal.CanWrite: the role is writer or better.
CanWrite(role) == role \in {"writer", "admin"}

\* requireWrite: both gates must agree, and admin does not override the second.
MayWrite(q) == q.tool = "write" /\ CanWrite(q.role) /\ q.source \in Writable

VARIABLES
    call,       \* request -> the call it carries
    data,       \* the requests whose change is in the database
    answer      \* request -> none, ok, cut (some rows are missing), refused, error

vars == <<call, data, answer>>

Init ==
    /\ call \in Programs
    /\ data = {}
    /\ answer = [r \in Requests |-> "none"]

\* A text that was let through has left a transaction open where r writes.
Exposed(r) ==
    /\ call[r].source \in Lasting
    /\ \E p \in Requests :
         /\ call[p].source = call[r].source
         /\ MayWrite(call[p]) /\ call[p].stmt.opens
         /\ answer[p] # "refused"

\* The changes of some requests are made: one commit may carry several.
Change(some) ==
    /\ some \cap data = {}
    /\ \A r \in some :
         /\ MayWrite(call[r]) /\ call[r].stmt.mutates
         /\ answer[r] \in {"none", "error"} \/ (answer[r] = "ok" /\ Exposed(r))
    /\ data' = data \cup some
    /\ UNCHANGED <<call, answer>>

Answer(r, a) ==
    /\ answer[r] = "none"
    /\ a = "ok" /\ call[r].tool = "write" /\ call[r].stmt.mutates => r \in data \/ Exposed(r)
    /\ a = "cut" => call[r].tool = "query"
    /\ a = "refused" => r \notin data
    /\ answer' = [answer EXCEPT ![r] = a]
    /\ UNCHANGED <<call, data>>

Next ==
    \/ \E some \in (SUBSET Requests) \ {{}} : Change(some)
    \/ \E r \in Requests, a \in {"ok", "cut", "refused", "error"} : Answer(r, a)

Spec == Init /\ [][Next]_vars

=============================================================================
