----------------------------- MODULE MCLearning -----------------------------
(* Instances of Learning for TLC.                                          *)
EXTENDS Learning, TLC

CONSTANTS c1, c2, c3, D, E, s1, s2, x

(* Two connections of the deployment's tenant, and one of another.         *)
MCTenantOf   == c1 :> D @@ c2 :> D @@ c3 :> E

(* Two statements on one dataset, short enough to be kept whole.           *)
MCShort      == s1 :> s1 @@ s2 :> s2
MCSubjectsOf == s1 :> {x} @@ s2 :> {x}

(* Failures, slow queries, and an asynchronous one.                        *)
Failing == [ok |-> FALSE, ms |-> None, async |-> FALSE]
Working == [ok |-> TRUE, ms |-> 9, async |-> FALSE]
InBackground == [ok |-> TRUE, ms |-> None, async |-> TRUE]
MCOutcomes ==
  [p \in Conns \X Statements |->
     CASE p = <<c1, s1>> -> {Failing, Working}
       [] p = <<c1, s2>> -> {Working, InBackground}
       [] p = <<c2, s2>> -> {Working}
       [] p = <<c3, s2>> -> {Failing, Working}
       [] OTHER          -> {}]
=============================================================================
