------------------------------- MODULE Startup -------------------------------
(***************************************************************************)
(* The process from its start to its answers: main reads the users and the *)
(* sources from one environment, serves, and may be started again.  A      *)
(* client sends the same call at every start, and the history keeps what   *)
(* it was answered.                                                        *)
(*                                                                         *)
(* Composes Principals (who the caller is) with Sources (what the name in  *)
(* the call stands for); the two meet in requireWrite.                     *)
(***************************************************************************)
EXTENDS Principals, Sources

CONSTANTS
    Calls,      \* the calls considered
    Starts      \* environments together with the call that the client repeats

NoSource == [kind |-> "none"]

\* A tool call: the write tool, or a tool that reads, with the name of a source.
Call == [token : Tokens \cup {NoToken}, tool : Tools \cup {"db_execute_write"},
         name : SourceNames]

ASSUME CallAssumption == Calls \subseteq Call
ASSUME StartAssumption == Starts \subseteq Envs \X SourceEnvs \X Calls

VARIABLES
    call,       \* the call the client repeats
    answers     \* history: the answers to it, with the source they are about

clientVars == <<call, answers>>
processVars == <<vars, sourceVars, clientVars>>

Results == {"unauthorized", "not found", "wrong kind", "reads", "forbidden",
            "read-only", "writes"}
Answer == [result : Results, source : Source \cup {NoSource}]

StartupTypeOK ==
    /\ TypeOK /\ SourcesTypeOK
    /\ call \in Calls
    /\ answers \subseteq Answer
    /\ serving => stage = "serving"

StartupInit ==
    /\ \E s \in Starts : env = s[1] /\ settings = s[2] /\ call = s[3]
    /\ Init /\ SourcesInit
    /\ answers = {}

-----------------------------------------------------------------------------
(* Start and restart                                                       *)

\* config.Load.
ParsePrincipals ==
    /\ \/ ReadKeys \/ NextPass \/ AddUsers \/ Listen
       \/ \E v \in todo : ReadVar(v)
       \/ \E k \in todo : AppendPrincipal(k)
    /\ UNCHANGED <<sourceVars, clientVars>>

\* adapters.DiscoverAll, once the principals are known.
DiscoverSources ==
    /\ stage = "serving"
    /\ (\E v \in unread : ReadSetting(v)) \/ DiscoverAll
    /\ UNCHANGED <<vars, clientVars>>

RestartProcess == Restart /\ SourcesRestart /\ UNCHANGED clientVars

-----------------------------------------------------------------------------
(* The tools                                                               *)

Says(result, s) == answers' = answers \cup {[result |-> result, source |-> s]}

\* The middleware has found a principal, and the handler of the tool runs.
Handles == serving /\ Accept(call.token) /\ UNCHANGED <<call, sourceVars>>

\* What the call passes to findSource as prefer.
Generic == IF call.tool = "db_execute_write" THEN "db" ELSE call.tool
Finds(s) == findSource(sources, Generic, call.name, s)
CanWrite == \E i \in DOMAIN principals :
                lookup(call.token, i) /\ principals[i].role \in {"writer", "admin"}

Unauthorized ==
    /\ serving /\ Reject(call.token) /\ Says("unauthorized", NoSource)
    /\ UNCHANGED <<call, sourceVars>>

NotFound ==
    /\ Handles
    /\ Matches(sources, call.name) = {} /\ Says("not found", NoSource)

WrongKind(s) ==
    /\ Handles /\ Finds(s)
    /\ ~OwnKind(Generic, s) /\ Says("wrong kind", s)

\* The tool goes on to connect to s.
Reads(s) ==
    /\ Handles /\ Finds(s)
    /\ call.tool # "db_execute_write" /\ OwnKind(Generic, s)
    /\ Says("reads", s)

\* Mutant: an admin may write to any source.
requireWriteUnlessAdmin(s) ==
    \/ CanWrite /\ Writable(s)
    \/ \E i \in DOMAIN principals :
         lookup(call.token, i) /\ principals[i].role = "admin"

\* requireWrite: the caller's role and the source's own switch must agree.
requireWrite(s) == CanWrite /\ Writable(s)

Refuses(s) ==
    /\ Handles /\ Finds(s)
    /\ call.tool = "db_execute_write" /\ ~requireWrite(s)
    /\ Says(IF CanWrite THEN "read-only" ELSE "forbidden", s)

Writes(s) ==
    /\ Handles /\ Finds(s)
    /\ call.tool = "db_execute_write" /\ requireWrite(s)
    /\ Says("writes", s)

-----------------------------------------------------------------------------
StartupNext ==
    \/ ParsePrincipals \/ DiscoverSources \/ RestartProcess
    \/ Unauthorized \/ NotFound
    \/ \E s \in sources : WrongKind(s) \/ Reads(s) \/ Refuses(s) \/ Writes(s)

StartupSpec == StartupInit /\ [][StartupNext]_processVars

-----------------------------------------------------------------------------
(* Properties                                                              *)

\* "Both gates must agree" (README.md): in any environment, however its
\* variables are spelled and its maps ranged over, a call writes to a source
\* only if the environment has an entry with the caller's token and a role that
\* may write, and a variable that opts in that very source, of the called name
\* up to case and of a kind that has a write path.
WritesAreOptedIn ==
    \A a \in answers : a.result = "writes" =>
        /\ \/ \E i \in DOMAIN env.keys : env.keys[i].token = call.token
                                         /\ env.keys[i].role # "reader"
           \/ \E v \in env.vars : v.token = call.token /\ env.role[v.name] # "reader"
        /\ \E v \in settings : SourceOf(v) = a.source /\ v.key = "WRITE" /\ v.value = "on"
        /\ Upper[a.source.name] = Upper[call.name]
        /\ a.source.kind \in {"postgres", "mysql", "clickhouse", "sqlite"}

\* No key of a source is set to two values by two spellings.
Consistent ==
    \A v, w \in settings : SlotOf(v) = SlotOf(w) => Parsed(v) = Parsed(w)

\* An environment without contradictions alone decides what a call does, though
\* names are shared across kinds and cases and every start ranges over its maps
\* in another order: the same call is given the same answer about the same
\* source at every start.
EnvDecidesAnswers ==
    Unambiguous /\ Consistent => \A a, b \in answers : a = b

=============================================================================
