---------------------------- MODULE ArtifactShelf ----------------------------
(***************************************************************************)
(* What an overflow artifact promises, with no files: a result that was    *)
(* offered until some date can be read in full until that date, whatever   *)
(* the gateways that share the directory do meanwhile; after it, it may be *)
(* gone.  Artifacts models artifacts.py and is shown to implement this.    *)
(***************************************************************************)
EXTENDS Naturals

CONSTANTS
  Ids,       \* artifact ids
  Readers,   \* clients that follow a reference
  Dates,     \* the dates an artifact may be offered until
  None

VARIABLES
  now,    \* the clock
  due,    \* due[a]: the date until which a was offered; the offered ones are its domain
  kept,   \* the offered results that are there
  heard   \* heard[r]: the artifact a reader asked for last, and the answer

vars == <<now, due, kept, heard>>

Promised(a) == a \in DOMAIN due /\ now <= due[a]

Init ==
  /\ now = 0
  /\ due = [a \in {} |-> 0]
  /\ kept = {}
  /\ heard = [r \in Readers |-> None]

(* A result is offered; it is there unless the date has passed already.    *)
Offer(a, d) ==
  /\ a \in Ids \ DOMAIN due
  /\ due' = [x \in DOMAIN due \cup {a} |-> IF x = a THEN d ELSE due[x]]
  /\ \/ kept' = kept \cup {a}
     \/ d < now /\ kept' = kept
  /\ UNCHANGED <<now, heard>>

Withdraw(a) ==
  /\ a \in kept /\ ~Promised(a)
  /\ kept' = kept \ {a}
  /\ UNCHANGED <<now, due, heard>>

Answer(r, a) ==
  /\ \/ a \in kept /\ heard' = [heard EXCEPT ![r] = [of |-> a, got |-> "whole"]]
     \/ a \in DOMAIN due /\ ~Promised(a) /\ heard' = [heard EXCEPT ![r] = [of |-> a, got |-> "none"]]
  /\ UNCHANGED <<now, due, kept>>

Tick == now' = now + 1 /\ UNCHANGED <<due, kept, heard>>

Next ==
  \/ Tick
  \/ \E a \in Ids : \/ Withdraw(a)
                    \/ \E d \in Dates : Offer(a, d)
                    \/ \E r \in Readers : Answer(r, a)

Spec == Init /\ [][Next]_vars
=============================================================================
