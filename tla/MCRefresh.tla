------------------------------ MODULE MCRefresh ------------------------------
(* Instances of Refresh for TLC.                                           *)
EXTENDS Refresh, TLC

CONSTANTS p1, p2, x, y, z, All, D, e, c, d, q1, q2

(* Two dataverses, with a concept each.                                    *)
MCScopes == (All :> {x, y}) @@ (D :> {y})

MCRefs == (c :> {e}) @@ (d :> {})

(* A note may be written over, without a query and with another one.       *)
MCLessons == {<<x, c, None>>, <<y, c, None>>, <<z, d, None>>, <<z, d, q2>>}

MCMode == (p1 :> [scope |-> All, ground |-> TRUE, revalidate |-> TRUE])
            @@ (p2 :> [scope |-> D, ground |-> FALSE, revalidate |-> FALSE])

MCOldCatalogs == {(x :> None) @@ (y :> {e}), (x :> {e}) @@ (y :> None)}

(* A concept in the shared tier, and again without an owner, as is a note. *)
MCOldRows == (<<x, 0>> :> Concept(x, Shared, [has |-> {e}, count |-> None], {}))
               @@ (<<x, 1>> :> Concept(x, None, [has |-> {}, count |-> None], {}))
               @@ (<<z, 0>> :> Note(z, None, c, q1))
=============================================================================
