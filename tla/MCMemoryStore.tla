---------------------------- MODULE MCMemoryStore ----------------------------
(* Instances of MemoryStore for TLC.                                       *)
EXTENDS MemoryStore, TLC

CONSTANTS l1, l2, short, long, split, other

(* One note is a line; one goes on after it; one has the two lines in two  *)
(* paragraphs; and one says the first line in other words.                 *)
Text == short :> {{l1}} @@ long :> {{l1, l2}} @@ split :> {{l1}, {l2}} @@ other :> {{l2}}
MCParagraphs == [n \in Notes |-> Text[n]]
MCLead == [n \in Notes |-> IF n = other THEN l2 ELSE l1]
MCBegins == {x \in Notes \X SUBSET Lines :
               Text[x[1]] # {{l1}, {l2}} /\ MCLead[x[1]] \in x[2] /\ UNION Text[x[1]] \subseteq x[2]
               /\ (x[1] = other => l1 \notin x[2])}
MCWithin == {x \in Notes \X SUBSET Lines : Text[x[1]] # {{l1}, {l2}} /\ UNION Text[x[1]] \subseteq x[2]}
MCParaphrases == {x \in Notes \X SUBSET Lines : x = <<other, {l1}>>}

(* The first line mentions every element, and a correction names it.       *)
MCRefs == [l \in Lines |-> IF l = l1 THEN Elements ELSE {}]
MCFragments == {{l1}}

MCSymmetry == Permutations(Actors) \cup Permutations(Subjects)
=============================================================================
