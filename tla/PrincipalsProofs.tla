--------------------------- MODULE PrincipalsProofs ---------------------------
(***************************************************************************)
(* Proofs about Principals, for every set of environments.  The invariant  *)
(* follows a token through the three collections: the map of users (Users),*)
(* the map of credentials (Credentials), and the slice (Slice).            *)
(***************************************************************************)
EXTENDS Principals, TLAPS

LEMMA Start0 == DOMAIN <<>> = {}
  OBVIOUS

LEMMA KeyFacts ==
    /\ \A i, j : LegacyKey(i) = LegacyKey(j) => i = j
    /\ \A n, m : UserKey(n) = UserKey(m) => n = m
    /\ \A i, n : LegacyKey(i) # UserKey(n)
    /\ \A i : LegacyKey(i)[1] = "legacy" /\ LegacyKey(i)[2] = i
    /\ \A n : UserKey(n)[1] = "user" /\ UserKey(n)[2] = n
  BY DEF LegacyKey, UserKey

LEMMA EnvFacts ==
    ASSUME NEW e \in Envs
    PROVE  /\ e.keys \in Seq(Credential) /\ e.vars \subseteq UserVar
           /\ e.role \in [Names -> Roles]
           /\ \A i \in DOMAIN e.keys : e.keys[i] \in Credential
  <1>1. e \in Env
    BY EnvAssumption
  <1>2. e.keys \in Seq(Credential) /\ e.vars \subseteq UserVar /\ e.role \in [Names -> Roles]
    BY <1>1 DEF Env
  <1> QED BY <1>2

-----------------------------------------------------------------------------
(* The invariant                                                           *)

\* The range over the variables: what tokens holds of a name, and that it holds
\* something of every name it has come to.
Read(v) ==
    CASE stage = "keys"     -> FALSE
      [] stage = "bare"     -> ~v.explicit /\ v \notin todo
      [] stage = "explicit" -> ~v.explicit \/ v \notin todo
      [] OTHER              -> TRUE

Best(v) ==
    v.explicit \/ \A w \in env.vars : w.name = v.name /\ w.explicit => ~Read(w)

Users ==
    /\ \A n \in DOMAIN tokens : \E v \in env.vars :
         v.name = n /\ v.token = tokens[n] /\ Read(v) /\ Best(v)
    /\ \A v \in env.vars : Read(v) => v.name \in DOMAIN tokens
    /\ stage \in {"bare", "explicit"} => todo \subseteq Spelled(stage = "explicit")

Credentials ==
    /\ stage # "keys" => \A i \in DOMAIN env.keys :
         LegacyKey(i) \in DOMAIN byName /\ byName[LegacyKey(i)] = env.keys[i]
    /\ \A n \in Names : UserKey(n) \in DOMAIN byName =>
         /\ stage \in {"list", "serving"} /\ n \in DOMAIN tokens
         /\ byName[UserKey(n)] = [token |-> tokens[n], role |-> env.role[n]]
    /\ stage \in {"list", "serving"} =>
         \A n \in DOMAIN tokens : UserKey(n) \in DOMAIN byName
    /\ stage = "keys" => byName = <<>>

Slice ==
    /\ \A i \in DOMAIN principals : \E k \in DOMAIN byName : principals[i] = byName[k]
    /\ stage \in {"list", "serving"} => \A k \in DOMAIN byName :
         (stage = "list" /\ k \in todo) \/ \E i \in DOMAIN principals : principals[i] = byName[k]
    /\ stage \notin {"list", "serving"} => principals = <<>>

\* What parsing one environment keeps.
PInv == TypeOK /\ Users /\ Credentials /\ Slice

-----------------------------------------------------------------------------
(* Types                                                                   *)

LEMMA InitType == Init => TypeOK
  BY Start0 DEF Init, TypeOK

LEMMA NextType == PInv /\ [Next]_vars => TypeOK'
  <1> SUFFICES ASSUME PInv, [Next]_vars
               PROVE  TypeOK'
    OBVIOUS
  <1> USE DEF PInv, TypeOK
  <1>0. /\ \A i \in DOMAIN env.keys : env.keys[i] \in Credential
        /\ env.vars \subseteq UserVar /\ env.role \in [Names -> Roles]
    BY EnvFacts
  <1>1. CASE ReadKeys
    <2>1. DOMAIN byName' \subseteq Keys(env)
      BY <1>1 DEF ReadKeys, Keys
    <2>2. \A k \in DOMAIN byName' : byName'[k] \in Credential
      BY <1>0, <1>1, KeyFacts DEF ReadKeys
    <2> QED BY <1>1, <2>1, <2>2 DEF ReadKeys, Spelled
  <1>2. ASSUME NEW v \in todo, ReadVar(v)
        PROVE  TypeOK'
    BY <1>0, <1>2 DEF ReadVar, UserVar
  <1>3. CASE NextPass
    BY <1>3 DEF NextPass, Spelled
  <1>4. CASE AddUsers
    <2>1. DOMAIN byName' \subseteq Keys(env) /\ DOMAIN byName' = DOMAIN byName \cup {UserKey(n) : n \in DOMAIN tokens}
      BY <1>4 DEF AddUsers, Keys
    <2>2. ASSUME NEW k \in DOMAIN byName'
          PROVE  byName'[k] \in Credential
      <3>1. CASE k[1] = "user"
        <4>1. PICK n \in Names : k = UserKey(n)
          BY <2>1, <3>1, KeyFacts DEF Keys
        <4>2. n \in DOMAIN tokens
          BY <1>4, <2>1, <4>1, KeyFacts DEF AddUsers, Credentials
        <4>3. byName'[k] = [token |-> tokens[n], role |-> env.role[n]]
          BY <1>4, <2>1, <4>1, KeyFacts DEF AddUsers
        <4> QED BY <1>0, <4>2, <4>3 DEF Credential
      <3>2. CASE k[1] # "user"
        <4>1. k \in DOMAIN byName
          BY <2>1, <3>2, KeyFacts
        <4> QED BY <1>4, <2>1, <3>2, <4>1 DEF AddUsers
      <3> QED BY <3>1, <3>2
    <2> QED BY <1>4, <2>1, <2>2 DEF AddUsers
  <1>5. ASSUME NEW k \in todo, AppendPrincipal(k)
        PROVE  TypeOK'
    <2>1. principals' \in Seq(Credential)
      BY <1>5 DEF AppendPrincipal
    <2> QED BY <1>5, <2>1 DEF AppendPrincipal
  <1>6. CASE Listen
    BY <1>6 DEF Listen
  <1>7. CASE Restart
    BY <1>7, Start0 DEF Restart, Start
  <1>8. ASSUME NEW t \in Tokens \cup {NoToken}, Accept(t) \/ Reject(t)
        PROVE  TypeOK'
    <2>a. \A i \in DOMAIN principals : principals[i] \in Credential
      OBVIOUS
    <2>0. \A i \in DOMAIN principals : principals[i].role \in Roles
      BY <2>a DEF Credential
    <2>1. PICK r \in Roles \cup {"unknown"} : granted' = [granted EXCEPT ![t] = @ \cup {r}]
      <3>1. CASE Accept(t)
        <4>1. PICK i \in DOMAIN principals : Grant(t, principals[i].role)
          BY <3>1 DEF Accept
        <4> QED BY <2>0, <4>1 DEF Grant
      <3>2. CASE Reject(t)
        BY <3>2 DEF Reject, Grant
      <3> QED BY <1>8, <3>1, <3>2
    <2>2. granted' \in [Tokens \cup {NoToken} -> SUBSET (Roles \cup {"unknown"})]
      BY <2>1
    <2> QED BY <1>8, <2>2 DEF Accept, Reject, parseVars
  <1>9. CASE UNCHANGED vars
    BY <1>9 DEF vars, parseVars
  <1> QED
    BY <1>1, <1>2, <1>3, <1>4, <1>5, <1>6, <1>7, <1>8, <1>9 DEF Next

-----------------------------------------------------------------------------
(* The three collections                                                   *)

LEMMA InitParse == Init => Users /\ Credentials /\ Slice
  BY Start0 DEF Init, Users, Credentials, Slice, Read

\* A step of the middleware leaves what was parsed alone.
LEMMA Idle ==
    ASSUME PInv, UNCHANGED <<env, parseVars>>
    PROVE  Users' /\ Credentials' /\ Slice'
  <1> USE DEF PInv, parseVars
  <1>1. Users'
    BY DEF Users, Read, Best, Spelled
  <1>2. Credentials' /\ Slice'
    BY DEF Credentials, Slice
  <1> QED BY <1>1, <1>2

LEMMA NextUsers == PInv /\ [Next]_vars => Users'
  <1> SUFFICES ASSUME PInv, [Next]_vars
               PROVE  Users'
    OBVIOUS
  <1> USE DEF PInv
  <1>0. env.vars \subseteq UserVar
    BY EnvFacts DEF TypeOK
  <1>1. CASE ReadKeys
    <2>1. tokens' = tokens /\ env' = env /\ stage = "keys" /\ stage' = "bare" /\ todo' = Spelled(FALSE)
      BY <1>1 DEF ReadKeys
    <2>2. \A v \in env.vars : ~Read(v) /\ ~Read(v)'
      BY <1>0, <2>1 DEF Read, Spelled, UserVar
    <2>3. DOMAIN tokens = {}
      BY <2>1, <2>2 DEF Users
    <2> QED BY <2>1, <2>2, <2>3 DEF Users, Spelled
  <1>2. ASSUME NEW v \in todo, ReadVar(v)
        PROVE  Users'
    <2>1. /\ v \in env.vars /\ stage \in {"bare", "explicit"} /\ v.explicit = (stage = "explicit")
          /\ env' = env /\ stage' = stage /\ todo' = todo \ {v}
      BY <1>0, <1>2 DEF ReadVar, Users, Spelled, UserVar
    <2>2. /\ DOMAIN tokens' = DOMAIN tokens \cup {v.name}
          /\ tokens'[v.name] = v.token
          /\ \A n \in DOMAIN tokens \ {v.name} : tokens'[n] = tokens[n]
      BY <1>2 DEF ReadVar
    <2>3. \A w \in env.vars : Read(w)' <=> Read(w) \/ w = v
      BY <1>0, <2>1 DEF Read, UserVar
    <2>4. Best(v)'
      BY <1>0, <2>1, <2>3 DEF Best, Read, UserVar
    <2>5. ASSUME NEW n \in DOMAIN tokens, n # v.name
          PROVE  \E w \in env.vars :
                   w.name = n /\ w.token = tokens'[n] /\ Read(w)' /\ Best(w)'
      <3>1. PICK w \in env.vars : w.name = n /\ w.token = tokens[n] /\ Read(w) /\ Best(w)
        BY DEF Users
      <3>2. Best(w)'
        BY <2>1, <2>3, <2>5, <3>1 DEF Best
      <3> QED BY <2>2, <2>3, <2>5, <3>1, <3>2
    <2> QED BY <2>1, <2>2, <2>3, <2>4, <2>5 DEF Users, Spelled
  <1>3. CASE NextPass
    <2>1. /\ todo = {} /\ env' = env /\ tokens' = tokens
          /\ \/ stage = "bare" /\ stage' = "explicit" /\ todo' = Spelled(TRUE)
             \/ stage = "explicit" /\ stage' = "users" /\ todo' = {}
      BY <1>3 DEF NextPass
    <2>2. \A w \in env.vars : Read(w)' <=> Read(w)
      BY <1>0, <2>1 DEF Read, Spelled, UserVar
    <2>3. \A w \in env.vars : Best(w)' <=> Best(w)
      BY <2>1, <2>2 DEF Best
    <2> QED BY <2>1, <2>2, <2>3 DEF Users, Spelled
  <1>4. CASE AddUsers \/ Listen \/ \E k \in todo : AppendPrincipal(k)
    <2>1. /\ env' = env /\ tokens' = tokens
          /\ stage \in {"users", "list"} /\ stage' \in {"list", "serving"}
      BY <1>4 DEF AddUsers, Listen, AppendPrincipal
    <2>2. \A w \in env.vars : (Read(w)' <=> Read(w)) /\ (Best(w)' <=> Best(w))
      BY <2>1 DEF Read, Best
    <2> QED BY <2>1, <2>2 DEF Users
  <1>5. CASE Restart
    BY <1>5, Start0 DEF Restart, Start, Users, Read
  <1>6. ASSUME NEW t \in Tokens \cup {NoToken}, Accept(t) \/ Reject(t)
        PROVE  Users'
    BY <1>6, Idle DEF Accept, Reject
  <1>7. CASE UNCHANGED vars
    BY <1>7, Idle DEF vars
  <1> QED BY <1>1, <1>2, <1>3, <1>4, <1>5, <1>6, <1>7 DEF Next

LEMMA NextCredentials == PInv /\ [Next]_vars => Credentials' /\ Slice'
  <1> SUFFICES ASSUME PInv, [Next]_vars
               PROVE  Credentials' /\ Slice'
    OBVIOUS
  <1> USE DEF PInv, Credentials, Slice
  <1>1. CASE ReadKeys
    BY <1>1, KeyFacts, Start0 DEF ReadKeys
  <1>2. CASE NextPass \/ Listen
    <2>1. /\ env' = env /\ tokens' = tokens /\ byName' = byName /\ principals' = principals
          /\ \/ stage \in {"bare", "explicit"} /\ stage' \in {"explicit", "users"}
             \/ stage = "list" /\ todo = {} /\ stage' = "serving"
      BY <1>2 DEF NextPass, Listen
    <2> QED BY <2>1
  <1>3. ASSUME NEW v \in todo, ReadVar(v)
        PROVE  Credentials' /\ Slice'
    BY <1>3 DEF ReadVar
  <1>4. CASE AddUsers
    <2>1. DOMAIN tokens \subseteq Names /\ DOMAIN byName \subseteq Keys(env)
      BY DEF TypeOK
    <2>2. /\ stage = "users" /\ stage' = "list" /\ todo' = DOMAIN byName'
          /\ env' = env /\ tokens' = tokens /\ principals' = principals
      BY <1>4 DEF AddUsers
    <2>3. DOMAIN byName' = DOMAIN byName \cup {UserKey(n) : n \in DOMAIN tokens}
      BY <1>4 DEF AddUsers
    <2>4. \A i \in DOMAIN env.keys : LegacyKey(i) \in DOMAIN byName'
                                  /\ byName'[LegacyKey(i)] = env.keys[i]
      BY <1>4, <2>2, <2>3, KeyFacts DEF AddUsers
    <2>5. \A n \in Names : UserKey(n) \in DOMAIN byName' =>
            n \in DOMAIN tokens /\ byName'[UserKey(n)] = [token |-> tokens[n], role |-> env.role[n]]
      BY <1>4, <2>2, <2>3, KeyFacts DEF AddUsers
    <2>6. principals = <<>>
      BY <2>2
    <2> QED BY <2>2, <2>3, <2>4, <2>5, <2>6, Start0
  <1>5. ASSUME NEW k \in todo, AppendPrincipal(k)
        PROVE  Credentials' /\ Slice'
    <2>1. /\ stage = "list" /\ stage' = "list" /\ k \in DOMAIN byName /\ todo' = todo \ {k}
          /\ env' = env /\ tokens' = tokens /\ byName' = byName
      BY <1>5 DEF AppendPrincipal, TypeOK
    <2>2. /\ DOMAIN principals' = 1 .. Len(principals) + 1 /\ DOMAIN principals = 1 .. Len(principals)
          /\ Len(principals) \in Nat
          /\ principals'[Len(principals) + 1] = byName[k]
          /\ \A i \in DOMAIN principals : principals'[i] = principals[i]
      BY <1>5 DEF AppendPrincipal, TypeOK
    <2>3. Credentials'
      BY <2>1
    <2>4. \A i \in DOMAIN principals' : \E m \in DOMAIN byName : principals'[i] = byName[m]
      BY <2>1, <2>2
    <2>5. \A m \in DOMAIN byName :
            m \in todo' \/ \E i \in DOMAIN principals' : principals'[i] = byName[m]
      BY <2>1, <2>2
    <2> QED BY <2>1, <2>3, <2>4, <2>5
  <1>6. CASE Restart
    BY <1>6, Start0, KeyFacts DEF Restart, Start
  <1>7. ASSUME NEW t \in Tokens \cup {NoToken}, Accept(t) \/ Reject(t)
        PROVE  Credentials' /\ Slice'
    BY <1>7, Idle DEF Accept, Reject
  <1>8. CASE UNCHANGED vars
    BY <1>8, Idle DEF vars
  <1> QED BY <1>1, <1>2, <1>3, <1>4, <1>5, <1>6, <1>7, <1>8 DEF Next

LEMMA ParseHolds == Spec => []PInv
  <1>1. Init => PInv
    BY InitType, InitParse DEF PInv
  <1>2. PInv /\ [Next]_vars => PInv'
    BY NextType, NextUsers, NextCredentials DEF PInv
  <1> QED BY <1>1, <1>2, PTL DEF Spec

\* The maps, the slice and the history keep their shape (parsePrincipals).
THEOREM TypeCorrect == Spec => []TypeOK
  <1>1. PInv => TypeOK
    BY DEF PInv
  <1> QED BY <1>1, ParseHolds, PTL

-----------------------------------------------------------------------------
(* What is served                                                          *)

LEMMA UsersAreBest ==
    ASSUME PInv, stage \in {"list", "serving"}, NEW n \in Names, UserKey(n) \in DOMAIN byName
    PROVE  \E v \in env.vars : /\ Sets(v, n) /\ v.name = n
                              /\ byName[UserKey(n)] = [token |-> v.token, role |-> env.role[n]]
  <1>1. n \in DOMAIN tokens /\ byName[UserKey(n)] = [token |-> tokens[n], role |-> env.role[n]]
    BY DEF PInv, Credentials
  <1>2. PICK v \in env.vars : v.name = n /\ v.token = tokens[n] /\ Best(v)
    BY <1>1 DEF PInv, Users
  <1>3. Sets(v, n)
    BY <1>2 DEF Sets, Best, Read
  <1> QED BY <1>1, <1>2, <1>3

LEMMA ServedIsClaimed ==
    ASSUME PInv, stage = "serving", NEW i \in DOMAIN principals
    PROVE  \E k \in Keys(env) : Claims(k, principals[i].token, principals[i].role)
  <1>1. PICK k \in DOMAIN byName : principals[i] = byName[k]
    BY DEF PInv, Slice
  <1>2. k \in Keys(env)
    BY DEF PInv, TypeOK
  <1>3. ASSUME NEW j \in DOMAIN env.keys, k = LegacyKey(j)
        PROVE  Claims(k, byName[k].token, byName[k].role)
    <2>1. byName[k] = env.keys[j] /\ env.keys[j] \in Credential
      BY <1>3, EnvFacts DEF PInv, Credentials, TypeOK
    <2>2. env.keys[j] = [token |-> byName[k].token, role |-> byName[k].role]
      BY <2>1 DEF Credential
    <2> QED BY <1>3, <2>2 DEF Claims
  <1>4. ASSUME NEW n \in Names, k = UserKey(n)
        PROVE  Claims(k, byName[k].token, byName[k].role)
    <2>1. PICK v \in env.vars : /\ Sets(v, n) /\ v.name = n
                                /\ byName[k] = [token |-> v.token, role |-> env.role[n]]
      BY <1>4, UsersAreBest
    <2> QED BY <1>4, <2>1 DEF Claims
  <1> QED BY <1>1, <1>2, <1>3, <1>4 DEF Keys

LEMMA ClaimedIsServed ==
    ASSUME PInv, stage = "serving", Unambiguous,
           NEW t \in Tokens, NEW q \in Roles, NEW k \in Keys(env), Claims(k, t, q)
    PROVE  \E i \in DOMAIN principals : principals[i].token = t
  <1>1. k \in DOMAIN byName /\ byName[k].token = t
    <2>1. CASE \E j \in DOMAIN env.keys :
                  k = LegacyKey(j) /\ env.keys[j] = [token |-> t, role |-> q]
      BY <2>1 DEF PInv, Credentials
    <2>2. CASE \E v \in env.vars : k = UserKey(v.name) /\ Sets(v, v.name) /\ v.token = t
      <3>1. PICK v \in env.vars : k = UserKey(v.name) /\ Sets(v, v.name) /\ v.token = t
        BY <2>2
      <3>2. v.name \in Names
        BY EnvFacts DEF PInv, TypeOK, UserVar
      <3>3. k \in DOMAIN byName
        BY <3>1, <3>2 DEF PInv, Users, Credentials, Read
      <3>4. PICK w \in env.vars : /\ Sets(w, v.name) /\ w.name = v.name
                                  /\ byName[k] = [token |-> w.token, role |-> env.role[v.name]]
        BY <3>1, <3>2, <3>3, UsersAreBest
      <3>5. v.explicit \in BOOLEAN /\ w.explicit \in BOOLEAN
        BY EnvFacts DEF PInv, TypeOK, UserVar
      <3>6. v = w
        BY <3>1, <3>4, <3>5 DEF Sets, Unambiguous
      <3> QED BY <3>1, <3>3, <3>4, <3>6
    <2> QED BY <2>1, <2>2 DEF Claims
  <1> QED BY <1>1 DEF PInv, Slice

\* Every answer of the middleware adds one role to the history of one token.
LEMMA Answers ==
    ASSUME PInv, [Next]_vars
    PROVE  /\ env' = env
           /\ \/ granted' = granted
              \/ \E t \in Tokens \cup {NoToken} : Accept(t) \/ Reject(t)
  BY DEF Next, vars, ReadKeys, ReadVar, NextPass, AddUsers, AppendPrincipal, Listen, Restart,
         Accept, Reject, parseVars

\* The environment does not change, and with it nothing it alone decides.
LEMMA ClaimsStay ==
    ASSUME env' = env
    PROVE  /\ Keys(env') = Keys(env)
           /\ \A k, t, q : Claims(k, t, q)' <=> Claims(k, t, q)
           /\ Unambiguous' => Unambiguous
  <1>1. \A v, n : Sets(v, n)' <=> Sets(v, n)
    BY DEF Sets
  <1>2. \A k, t, q : Claims(k, t, q)' <=> Claims(k, t, q)
    BY <1>1 DEF Claims
  <1>3. Keys(env') = Keys(env)
    OBVIOUS
  <1>4. Unambiguous' => Unambiguous
    BY <1>2, <1>3 DEF Unambiguous
  <1> QED BY <1>2, <1>3, <1>4

\* A user's credential is the one of the preferred spelling
\* (parsePrincipals: the bare variables are read first).
THEOREM ExplicitWins == Spec => []ExplicitSpellingWins
  <1>1. PInv => ExplicitSpellingWins
    <2> SUFFICES ASSUME PInv, stage = "serving", NEW n \in Names, UserKey(n) \in DOMAIN byName
                 PROVE  \E v \in env.vars : Sets(v, n) /\ byName[UserKey(n)].token = v.token
      BY DEF ExplicitSpellingWins
    <2> QED BY UsersAreBest
  <1> QED BY <1>1, ParseHolds, PTL

\* No token is answered with a role that no entry of the environment gives it
\* (parsePrincipals, lookup).
THEOREM RolesComeFromEnv == Spec => []RolesAreConfigured
  <1>1. Init => RolesAreConfigured
    BY DEF Init, RolesAreConfigured
  <1>2. PInv /\ RolesAreConfigured /\ [Next]_vars => RolesAreConfigured'
    <2> SUFFICES ASSUME PInv, RolesAreConfigured, [Next]_vars,
                        NEW u \in Tokens \cup {NoToken}, NEW r \in granted'[u] \ {"unknown"}
                 PROVE  \/ \E i \in DOMAIN env.keys : env.keys[i] = [token |-> u, role |-> r]
                        \/ \E v \in env.vars : v.token = u /\ env.role[v.name] = r
      BY Answers DEF RolesAreConfigured
    <2>1. CASE r \in granted[u]
      BY <2>1 DEF RolesAreConfigured
    <2>2. ASSUME NEW t \in Tokens \cup {NoToken}, Accept(t), r \notin granted[u]
          PROVE  \E k \in Keys(env) : Claims(k, u, r)
      <3>1. PICK i \in DOMAIN principals : principals[i].token = t /\ Grant(t, principals[i].role)
        BY <2>2 DEF Accept, lookup
      <3>2. u = t /\ r = principals[i].role
        BY <2>2, <3>1 DEF Grant, PInv, TypeOK
      <3> QED BY <2>2, <3>1, <3>2, ServedIsClaimed DEF Accept
    <2>3. ASSUME NEW t \in Tokens \cup {NoToken}, Reject(t)
          PROVE  r \in granted[u]
      BY <2>3 DEF Reject, Grant, PInv, TypeOK
    <2>4. CASE \E k \in Keys(env) : Claims(k, u, r)
      BY <2>4 DEF Claims
    <2> QED BY <2>1, <2>2, <2>3, <2>4, Answers
  <1> QED BY <1>1, <1>2, ParseHolds, PTL DEF Spec

\* In an environment without collisions the order of the map ranges never shows
\* (parsePrincipals, lookup).
THEOREM OrderNeverShows == Spec => []EnvDecidesRoles
  <1>1. Init => EnvDecidesRoles
    BY DEF Init, EnvDecidesRoles
  <1>2. PInv /\ EnvDecidesRoles /\ [Next]_vars => EnvDecidesRoles'
    <2> SUFFICES ASSUME PInv, EnvDecidesRoles, [Next]_vars, Unambiguous',
                        NEW u \in Tokens, NEW r \in granted'[u]
                 PROVE  IF r = "unknown"
                        THEN \A k \in Keys(env) , q \in Roles : ~Claims(k, u, q)
                        ELSE \E k \in Keys(env) : Claims(k, u, r)
      BY Answers, ClaimsStay DEF EnvDecidesRoles
    <2>0. Unambiguous
      BY Answers, ClaimsStay
    <2>1. CASE r \in granted[u]
      BY <2>0, <2>1 DEF EnvDecidesRoles
    <2>2. ASSUME NEW t \in Tokens \cup {NoToken}, Accept(t), r \notin granted[u]
          PROVE  r # "unknown" /\ \E k \in Keys(env) : Claims(k, u, r)
      <3>1. PICK i \in DOMAIN principals : principals[i].token = t /\ Grant(t, principals[i].role)
        BY <2>2 DEF Accept, lookup
      <3>2. u = t /\ r = principals[i].role
        BY <2>2, <3>1 DEF Grant, PInv, TypeOK
      <3>3. principals[i] \in Credential
        BY DEF PInv, TypeOK
      <3>4. r # "unknown"
        BY <3>2, <3>3 DEF Credential, Roles
      <3> QED BY <2>2, <3>1, <3>2, <3>4, ServedIsClaimed DEF Accept
    <2>3. ASSUME NEW t \in Tokens \cup {NoToken}, Reject(t), r \notin granted[u]
          PROVE  r = "unknown" /\ \A k \in Keys(env), q \in Roles : ~Claims(k, u, q)
      <3>1. u = t /\ r = "unknown"
        BY <2>3 DEF Reject, Grant, PInv, TypeOK
      <3>2. \A i \in DOMAIN principals : principals[i].token # u
        BY <2>3, <3>1 DEF Reject
      <3>3. stage = "serving"
        BY <2>3 DEF Reject
      <3>4. \A k \in Keys(env), q \in Roles : ~Claims(k, u, q)
        BY <2>0, <3>2, <3>3, ClaimedIsServed
      <3> QED BY <3>1, <3>4
    <2> QED BY <2>1, <2>2, <2>3, Answers
  <1> QED BY <1>1, <1>2, ParseHolds, PTL DEF Spec

=============================================================================
