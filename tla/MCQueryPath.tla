---------------------------- MODULE MCQueryPath ----------------------------
(* Instances of QueryPath for TLC.                                         *)
EXTENDS QueryPath, TLC

CONSTANTS a, b, u, Own, Other, p1, p2

(* A dataset of the tenant's own, one of another's, one in no dataverse.   *)
MCDataverseOf == a :> Own @@ b :> Other @@ u :> None
MCDefinitions == {{a}, {a, b}, {u}}
MCDataverses  == {Own, Other}
MCPrincipals  == {p1, p2}

(* Rows that fit together, that do not, and one beyond any budget.         *)
MCRows == {a} :> <<1, 1, 3, 1>> @@ {a, b} :> <<2, 2>> @@ {u} :> <<5, 1>>

MCRestricting == {{a, b}}
MCColumnar    == {a, u}

(* No allowlist; a dataverse for one tenant and none for the other.        *)
MCDeployments == {[allowlist |-> <<>>, artifacts |-> TRUE],
                  [allowlist |-> p1 :> {Own}, artifacts |-> FALSE]}
=============================================================================
