----------------------------- MODULE PermitPool -----------------------------
(***************************************************************************)
(* One permit pool of permits.py: a counter of the permits in use, a       *)
(* dictionary of the permits each tenant holds, and the tool calls that    *)
(* run inside `async with pool.acquire(principal)`.  The pool's lock is    *)
(* never held across an await, so taking and giving back are each one      *)
(* step.                                                                   *)
(***************************************************************************)
EXTENDS Naturals, FiniteSets

CONSTANTS
  Calls,         \* tool calls that may be in flight at once
  Tenants,       \* tenants that calls arrive bound to
  NoPrincipal,   \* the binding of a call with no tenant (Python's None)
  Unattributed,  \* the bucket such calls are accounted to
  Free,          \* marks a call that is not inside the pool's body
  Capacity,      \* the pool's size
  PerPrincipal   \* the configured per-tenant share; 0 when there is none

Callers == Tenants \cup {NoPrincipal}
Buckets == Tenants \cup {Unattributed}

ASSUME PoolAssumption ==
  /\ IsFiniteSet(Calls)
  /\ Capacity \in Nat \ {0}
  /\ PerPrincipal \in Nat
  /\ Free \notin Buckets
  /\ NoPrincipal \notin Tenants

(* A share larger than the pool is clamped; no share means the whole pool. *)
Share == IF PerPrincipal = 0 \/ PerPrincipal > Capacity THEN Capacity ELSE PerPrincipal

(* The bucket a call is accounted to.                                      *)
Who(p) == IF p = NoPrincipal THEN Unattributed ELSE p

VARIABLES
  inUse,    \* the pool's _in_use
  held,     \* the pool's _held: a function whose domain is the tracked tenants
  holder    \* holder[c]: the bucket call c took its permit for, or Free

poolVars == <<inUse, held, holder>>

HeldBy(b) == IF b \in DOMAIN held THEN held[b] ELSE 0

PoolInit ==
  /\ inUse = 0
  /\ held = [b \in {} |-> 0]
  /\ holder = [c \in Calls |-> Free]

-----------------------------------------------------------------------------

(* Mutant of CanTake: the tenant's share is not consulted.                 *)
CanTakeUnshared(b) == b \in Buckets /\ inUse < Capacity

(* Mutant of CanTake: the share is compared off by one.                    *)
CanTakeOneMore(b) == inUse < Capacity /\ HeldBy(b) <= Share

(* _take: both limits are checked before either counter moves; a call that *)
(* fails one of them raises NOT_READY and leaves the pool as it found it.  *)
CanTake(b) == inUse < Capacity /\ HeldBy(b) < Share

Take(b) ==
  /\ CanTake(b)
  /\ inUse' = inUse + 1
  /\ held' = [x \in DOMAIN held \cup {b} |-> IF x = b THEN HeldBy(b) + 1 ELSE held[x]]

(* What _give_back leaves to bucket b: a bucket that is missing from the   *)
(* dictionary counts as one that holds a single permit.                    *)
Remaining(b) == (IF b \in DOMAIN held THEN held[b] ELSE 1) - 1

(* Mutant of GiveBack: the tenant's counter moves only for its last call.  *)
GiveBackLastOnly(b) ==
  /\ inUse' = inUse - 1
  /\ held' = IF Remaining(b) > 0 THEN held ELSE [x \in DOMAIN held \ {b} |-> held[x]]

(* _give_back: a tenant left with nothing is dropped from the dictionary.  *)
GiveBack(b) ==
  /\ inUse' = inUse - 1
  /\ held' = IF Remaining(b) > 0
               THEN [held EXCEPT ![b] = Remaining(b)]
               ELSE [x \in DOMAIN held \ {b} |-> held[x]]

(* acquire: enter the body with a permit; leave it, returning or raising,  *)
(* through the same give-back.                                             *)
Enter(c, p) ==
  /\ holder[c] = Free
  /\ Take(Who(p))
  /\ holder' = [holder EXCEPT ![c] = Who(p)]

Leave(c) ==
  /\ holder[c] # Free
  /\ GiveBack(holder[c])
  /\ holder' = [holder EXCEPT ![c] = Free]

PoolNext == \E c \in Calls : Leave(c) \/ \E p \in Callers : Enter(c, p)

PoolSpec == PoolInit /\ [][PoolNext]_poolVars

-----------------------------------------------------------------------------

TypeOK ==
  /\ inUse \in 0..Capacity
  /\ held \in [DOMAIN held -> Nat \ {0}]
  /\ DOMAIN held \subseteq Buckets
  /\ holder \in [Calls -> Buckets \cup {Free}]

(* The calls inside the body, and those of one tenant.                     *)
Holders      == {c \in Calls : holder[c] # Free}
HoldersOf(b) == {c \in Calls : holder[c] = b}

(* The counters are the calls: the pool counts exactly the calls inside    *)
(* its body and, tenant by tenant, exactly the calls of that tenant, after *)
(* any sequence of entries and of exits, normal or by an exception; so a   *)
(* tenant with nothing in flight has no entry left in the dictionary.      *)
Accounting ==
  /\ inUse = Cardinality(Holders)
  /\ \A b \in Buckets : HeldBy(b) = Cardinality(HoldersOf(b))

(* What a share is worth, in a pool of any size: a tenant with nothing in  *)
(* flight is turned away only while so many others hold permits that their *)
(* shares together are the pool.  Two others at least share the blocking   *)
(* pool that config.py ships (3, with a share of 2); one is enough for its *)
(* async pool (2, with a share of 2), where the share keeps nothing free.  *)
CrowdedOut ==
  \A b \in Buckets : HoldersOf(b) = {} /\ ~CanTake(b) =>
    Capacity <= Cardinality({holder[c] : c \in Holders}) * Share

Limiter == INSTANCE TenantLimiter

(* The counters implement the promise: every step of the pool is a step of *)
(* the limiter that counts the calls themselves.                           *)
LimiterSpec == Limiter!Spec
=============================================================================
