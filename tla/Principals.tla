------------------------------ MODULE Principals ------------------------------
(***************************************************************************)
(* From the environment to the role of a request: parsePrincipals reads    *)
(* the two spellings of API tokens into Go maps and ranges over them, and  *)
(* the middleware looks a request's token up in the slice that comes out.  *)
(*                                                                         *)
(* Go leaves the order of a range over a map open and picks another one    *)
(* each time, so every start of the process may build another slice from   *)
(* the same environment.                                                   *)
(***************************************************************************)
EXTENDS Naturals, Sequences

CONSTANTS
    Tokens,     \* raw tokens, trimmed and not empty
    NoToken,    \* what a request without credentials carries
    Names,      \* user names, in upper case
    Envs        \* the environments considered

Roles == {"reader", "writer", "admin"}
Credential == [token : Tokens, role : Roles]

\* MCP_USER_<NAME>=token (bare) or MCP_USER_<NAME>_TOKEN=token (explicit), the
\* name spelled in upper case or not.
UserVar == [name : Names, upper : BOOLEAN, explicit : BOOLEAN, token : Tokens]

\* keys: MCP_API_KEYS, in its order, roles parsed.  vars: the MCP_USER_ variables
\* that hold tokens.  role: what MCP_USER_<NAME>_ROLE parses to under the name in
\* upper case; a variable that is unset or unknown parses to reader.
Env == [keys : Seq(Credential),
        vars : SUBSET UserVar,
        role : [Names -> Roles]]

\* A variable has one value.
OneValue(e) ==
    \A v, w \in e.vars :
        v.name = w.name /\ v.upper = w.upper /\ v.explicit = w.explicit => v = w

ASSUME TokenAssumption == NoToken \notin Tokens
ASSUME EnvAssumption == \A e \in Envs : e \in Env /\ OneValue(e)

-----------------------------------------------------------------------------
VARIABLES
    env,        \* the environment, the same at every start
    stage,      \* of the process: keys, bare, explicit, users, list, serving
    todo,       \* variables or keys that the range has not come to
    tokens,     \* name -> token, a partial function
    byName,     \* key -> token and role
    principals, \* the slice under construction, then in use
    granted     \* history: the roles a token was answered with, or "unknown"

parseVars == <<stage, todo, tokens, byName, principals>>
vars == <<env, parseVars, granted>>

LegacyKey(i) == <<"legacy", i>>
UserKey(n) == <<"user", n>>
Keys(e) == {LegacyKey(i) : i \in DOMAIN e.keys} \cup {UserKey(n) : n \in Names}

TypeOK ==
    /\ env \in Envs
    /\ stage \in {"keys", "bare", "explicit", "users", "list", "serving"}
    /\ stage \in {"bare", "explicit"} => todo \subseteq env.vars
    /\ stage = "list" => todo \subseteq DOMAIN byName
    /\ DOMAIN tokens \subseteq Names /\ \A n \in DOMAIN tokens : tokens[n] \in Tokens
    /\ DOMAIN byName \subseteq Keys(env) /\ \A k \in DOMAIN byName : byName[k] \in Credential
    /\ principals \in Seq(Credential)
    /\ granted \in [Tokens \cup {NoToken} -> SUBSET (Roles \cup {"unknown"})]

Start ==
    /\ stage' = "keys" /\ todo' = {}
    /\ tokens' = <<>> /\ byName' = <<>> /\ principals' = <<>>

Init ==
    /\ env \in Envs
    /\ stage = "keys" /\ todo = {}
    /\ tokens = <<>> /\ byName = <<>> /\ principals = <<>>
    /\ granted = [t \in Tokens \cup {NoToken} |-> {}]

-----------------------------------------------------------------------------
(* parsePrincipals                                                         *)

\* Mutant: one range for both spellings.
SpelledAtOnce(explicit) == {v \in env.vars : ~explicit}

Spelled(explicit) == {v \in env.vars : v.explicit = explicit}

\* The legacy list: one credential a position, told apart by the position.
ReadKeys ==
    /\ stage = "keys" /\ stage' = "bare"
    /\ byName' = [k \in {LegacyKey(i) : i \in DOMAIN env.keys} |-> env.keys[k[2]]]
    /\ todo' = Spelled(FALSE)
    /\ UNCHANGED <<env, tokens, principals, granted>>

\* One step of the range over the environment; names are folded to upper case.
ReadVar(v) ==
    /\ stage \in {"bare", "explicit"} /\ v \in todo
    /\ todo' = todo \ {v}
    /\ tokens' = [n \in DOMAIN tokens \cup {v.name} |->
                    IF n = v.name THEN v.token ELSE tokens[n]]
    /\ UNCHANGED <<env, stage, byName, principals, granted>>

\* The bare spellings are read before the explicit ones.
NextPass ==
    /\ stage \in {"bare", "explicit"} /\ todo = {}
    /\ stage' = IF stage = "bare" THEN "explicit" ELSE "users"
    /\ todo' = IF stage = "bare" THEN Spelled(TRUE) ELSE {}
    /\ UNCHANGED <<env, tokens, byName, principals, granted>>

\* Mutant: the role's text is kept as it is.
AddUsersUnparsed ==
    /\ stage = "users" /\ stage' = "list"
    /\ byName' = [k \in DOMAIN byName \cup {UserKey(n) : n \in DOMAIN tokens} |->
                    IF k[1] = "user" THEN [token |-> tokens[k[2]], role |-> "owner"]
                                     ELSE byName[k]]
    /\ todo' = DOMAIN byName'
    /\ UNCHANGED <<env, tokens, principals, granted>>

\* Mutant: a user without a role may write.
AddUsersAsWriters ==
    /\ stage = "users" /\ stage' = "list"
    /\ byName' = [k \in DOMAIN byName \cup {UserKey(n) : n \in DOMAIN tokens} |->
                    IF k[1] = "user" THEN [token |-> tokens[k[2]], role |-> "writer"]
                                     ELSE byName[k]]
    /\ todo' = DOMAIN byName'
    /\ UNCHANGED <<env, tokens, principals, granted>>

\* The second range, over the users collected; each has a key of its own.
AddUsers ==
    /\ stage = "users" /\ stage' = "list"
    /\ byName' = [k \in DOMAIN byName \cup {UserKey(n) : n \in DOMAIN tokens} |->
                    IF k[1] = "user"
                    THEN [token |-> tokens[k[2]], role |-> env.role[k[2]]]
                    ELSE byName[k]]
    /\ todo' = DOMAIN byName'
    /\ UNCHANGED <<env, tokens, principals, granted>>

\* One step of the range over byName.
AppendPrincipal(k) ==
    /\ stage = "list" /\ k \in todo
    /\ todo' = todo \ {k}
    /\ principals' = Append(principals, byName[k])
    /\ UNCHANGED <<env, stage, tokens, byName, granted>>

Listen ==
    /\ stage = "list" /\ todo = {}
    /\ stage' = "serving"
    /\ UNCHANGED <<env, todo, tokens, byName, principals, granted>>

Restart ==
    /\ stage = "serving" /\ Start
    /\ UNCHANGED <<env, granted>>

-----------------------------------------------------------------------------
(* The middleware                                                          *)

\* lookup goes over the whole slice and keeps the last match.
lookup(t, i) ==
    /\ i \in DOMAIN principals /\ principals[i].token = t
    /\ \A j \in DOMAIN principals : j > i => principals[j].token # t

Grant(t, r) == granted' = [granted EXCEPT ![t] = @ \cup {r}]

Accept(t) ==
    /\ stage = "serving"
    /\ \E i \in DOMAIN principals : lookup(t, i) /\ Grant(t, principals[i].role)
    /\ UNCHANGED <<env, parseVars>>

\* No token, or one that no principal has: 401.
Reject(t) ==
    /\ stage = "serving"
    /\ \A i \in DOMAIN principals : principals[i].token # t
    /\ Grant(t, "unknown")
    /\ UNCHANGED <<env, parseVars>>

-----------------------------------------------------------------------------
Next ==
    \/ ReadKeys \/ NextPass \/ AddUsers \/ Listen \/ Restart
    \/ \E v \in todo : ReadVar(v)
    \/ \E k \in todo : AppendPrincipal(k)
    \/ \E t \in Tokens \cup {NoToken} : Accept(t) \/ Reject(t)

Spec == Init /\ [][Next]_vars

-----------------------------------------------------------------------------
(* Properties                                                              *)

\* The variable that sets the token of user n, when no variable of the same
\* spelling differs from it only in the case of the name.
Sets(v, n) ==
    /\ v \in env.vars /\ v.name = n
    /\ v.explicit \/ \A w \in env.vars : w.name = n => ~w.explicit

\* Who claims token t with role r: a position of the list, or a user.
Claims(k, t, r) ==
    \/ \E i \in DOMAIN env.keys : k = LegacyKey(i) /\ env.keys[i] = [token |-> t, role |-> r]
    \/ \E v \in env.vars : /\ k = UserKey(v.name) /\ Sets(v, v.name)
                           /\ v.token = t /\ env.role[v.name] = r

\* No token is claimed twice with different roles, no name is spelled twice.
Unambiguous ==
    /\ \A t \in Tokens, r, q \in Roles, k, m \in Keys(env) :
         Claims(k, t, r) /\ Claims(m, t, q) => r = q
    /\ \A v, w \in env.vars : v.name = w.name /\ v.explicit = w.explicit => v = w

\* An unambiguous environment alone decides what a token is worth: however the
\* maps were ranged over, at this start or at any earlier one, a token was
\* answered with the role that the environment claims for it, and with 401
\* exactly if nothing claims it.
EnvDecidesRoles ==
    Unambiguous =>
        \A t \in Tokens : \A r \in granted[t] :
            IF r = "unknown" THEN \A k \in Keys(env), q \in Roles : ~Claims(k, t, q)
                             ELSE \E k \in Keys(env) : Claims(k, t, r)

\* In any environment a token gets a role only from an entry that holds that
\* very token, in whatever case its name is spelled, and a request without a
\* token gets none.
RolesAreConfigured ==
    \A t \in Tokens \cup {NoToken} : \A r \in granted[t] \ {"unknown"} :
        \/ \E i \in DOMAIN env.keys : env.keys[i] = [token |-> t, role |-> r]
        \/ \E v \in env.vars : v.token = t /\ env.role[v.name] = r

\* "so the explicit spelling wins when both are set" (parsePrincipals).
ExplicitSpellingWins ==
    stage = "serving" =>
        \A n \in Names : UserKey(n) \in DOMAIN byName =>
            \E v \in env.vars : Sets(v, n) /\ byName[UserKey(n)].token = v.token

\* "On token collision, the per-user form wins" (parsePrincipals): a token that
\* a user has is answered with a role of such a user.
PerUserWins ==
    \A v \in env.vars : Sets(v, v.name) =>
        \A r \in granted[v.token] \ {"unknown"} :
            \E w \in env.vars : Sets(w, w.name) /\ w.token = v.token /\ env.role[w.name] = r

=============================================================================
