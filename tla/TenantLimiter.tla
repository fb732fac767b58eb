---------------------------- MODULE TenantLimiter ----------------------------
(***************************************************************************)
(* What a permit pool promises, with no counters: the calls whose body is  *)
(* running are never more than the pool's capacity, those of one tenant    *)
(* never more than its share, and a call is admitted or turned away on     *)
(* exactly these two numbers.  permits.py keeps counters to decide it; the *)
(* module PermitPool models them and is shown to implement this one.       *)
(***************************************************************************)
EXTENDS Naturals, FiniteSets

CONSTANTS
  Calls,      \* tool calls that may be in flight at once
  Buckets,    \* tenants the pool accounts for
  Free,       \* marks a call that holds no permit
  Capacity,   \* permits in the pool
  Share       \* permits one tenant may hold

VARIABLE holder    \* holder[c]: the tenant call c holds a permit for, or Free

(* The calls that hold a permit, and those that hold one for tenant b.     *)
Holding     == {c \in Calls : holder[c] # Free}
HoldingOf(b) == {c \in Calls : holder[c] = b}

Init == holder = [c \in Calls |-> Free]

Admit(c, b) ==
  /\ holder[c] = Free
  /\ Cardinality(Holding) < Capacity
  /\ Cardinality(HoldingOf(b)) < Share
  /\ holder' = [holder EXCEPT ![c] = b]

Finish(c) ==
  /\ holder[c] # Free
  /\ holder' = [holder EXCEPT ![c] = Free]

Next == \E c \in Calls : Finish(c) \/ \E b \in Buckets : Admit(c, b)

Spec == Init /\ [][Next]_holder
=============================================================================
