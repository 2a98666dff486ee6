----------------------------- MODULE MCPrincipals -----------------------------
(***************************************************************************)
(* An instance of Principals: one user and a legacy list.                  *)
(***************************************************************************)
EXTENDS Principals

CONSTANTS ALI, k1, k2

\* Environments over some users and legacy lists up to a length.
MCKeyLists(n) == UNION {[1 .. m -> [token : Tokens, role : {"reader", "admin"}]] : m \in 0 .. n}
MCEnvs(V, n) ==
    {e \in [keys : MCKeyLists(n), vars : SUBSET V, role : [Names -> {"reader", "writer"}]] :
        OneValue(e)}

\* One user in every spelling, and up to two legacy keys.
MCOneUser == MCEnvs({v \in UserVar : v.name = ALI}, 2)
=============================================================================
