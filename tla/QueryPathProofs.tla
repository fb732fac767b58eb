--------------------------- MODULE QueryPathProofs ---------------------------
(***************************************************************************)
(* Proofs about a blocking read, for every value of the constants: of the  *)
(* pools it takes its permit from (PermitPool), that the counters always   *)
(* equal the calls inside the body and so implement TenantLimiter, which   *)
(* decides by the calls themselves; of QueryPath, that what is read is of  *)
(* dataverses that the tenant is allowed, and that the pages of a result   *)
(* are together the result.                                                *)
(***************************************************************************)
EXTENDS PermitPool, QueryPath, FiniteSetTheorems, WellFoundedInduction, TLAPS

-----------------------------------------------------------------------------
(* Permits.                                                                *)

(* The inductive invariant: Accounting alone does not keep the counters    *)
(* non-negative, TypeOK alone does not know that a call that leaves was    *)
(* counted.                                                                *)
PoolInv == TypeOK /\ Accounting

(* Every set of calls is finite, with a natural number of members.         *)
LEMMA CallSetsFinite ==
  /\ IsFiniteSet(Holders) /\ Cardinality(Holders) \in Nat
  /\ \A b : IsFiniteSet(HoldersOf(b)) /\ Cardinality(HoldersOf(b)) \in Nat
<1>1. IsFiniteSet(Holders) /\ \A b : IsFiniteSet(HoldersOf(b))
  BY FS_Subset, PoolAssumption DEF PoolAssumption, Holders, HoldersOf
<1>2. QED
  BY <1>1, FS_CardinalityType

(* The bucket of any caller is one the pool accounts for, never Free.      *)
LEMMA WhoIsBucket ==
  ASSUME NEW p \in Callers
  PROVE  Who(p) \in Buckets /\ Who(p) # Free
BY PoolAssumption DEF PoolAssumption, Callers, Buckets, Who

(* The share is a positive number of permits and at most the pool.         *)
LEMMA ShareIsBounded == Share \in 1..Capacity
BY PoolAssumption DEF PoolAssumption, Share

(* A call that enters joins the holders, and the holders of its tenant.    *)
LEMMA EnterSets ==
  ASSUME TypeOK, NEW c \in Calls, NEW b \in Buckets, holder[c] = Free,
         holder' = [holder EXCEPT ![c] = b]
  PROVE  /\ Cardinality(Holders') = Cardinality(Holders) + 1
         /\ Cardinality(HoldersOf(b)') = Cardinality(HoldersOf(b)) + 1
         /\ \A x \in Buckets : x # b => HoldersOf(x)' = HoldersOf(x)
<1>1. b # Free
  BY PoolAssumption DEF PoolAssumption
<1>2. Holders' = Holders \cup {c} /\ c \notin Holders
  BY <1>1 DEF TypeOK, Holders
<1>3. HoldersOf(b)' = HoldersOf(b) \cup {c} /\ c \notin HoldersOf(b)
  BY <1>1 DEF TypeOK, HoldersOf
<1>4. \A x \in Buckets : x # b => HoldersOf(x)' = HoldersOf(x)
  BY PoolAssumption DEF PoolAssumption, TypeOK, HoldersOf
<1>5. QED
  BY <1>2, <1>3, <1>4, CallSetsFinite, FS_AddElement

(* A call that leaves is taken out of the same sets.                       *)
LEMMA LeaveSets ==
  ASSUME TypeOK, NEW c \in Calls, NEW b \in Buckets, holder[c] = b,
         holder' = [holder EXCEPT ![c] = Free]
  PROVE  /\ Cardinality(Holders') = Cardinality(Holders) - 1
         /\ Cardinality(Holders) >= 1
         /\ Cardinality(HoldersOf(b)) >= 1
         /\ Cardinality(HoldersOf(b)') = Cardinality(HoldersOf(b)) - 1
         /\ \A x \in Buckets : x # b => HoldersOf(x)' = HoldersOf(x)
<1>1. b # Free
  BY PoolAssumption DEF PoolAssumption
<1>2. Holders' = Holders \ {c} /\ c \in Holders
  BY <1>1 DEF TypeOK, Holders
<1>3. HoldersOf(b)' = HoldersOf(b) \ {c} /\ c \in HoldersOf(b)
  BY <1>1 DEF TypeOK, HoldersOf
<1>4. \A x \in Buckets : x # b => HoldersOf(x)' = HoldersOf(x)
  BY PoolAssumption DEF PoolAssumption, TypeOK, HoldersOf
<1>5. Cardinality(Holders) # 0 /\ Cardinality(HoldersOf(b)) # 0
  BY <1>2, <1>3, CallSetsFinite, FS_EmptySet
<1>6. /\ Cardinality(Holders') = Cardinality(Holders) - 1
      /\ Cardinality(HoldersOf(b)') = Cardinality(HoldersOf(b)) - 1
  <2>1. ASSUME NEW S, IsFiniteSet(S) PROVE Cardinality(S \ {c}) = IF c \in S THEN Cardinality(S) - 1 ELSE Cardinality(S)
    BY <2>1, FS_RemoveElement
  <2> QED
    BY <1>2, <1>3, <2>1, CallSetsFinite
<1>7. Cardinality(Holders) >= 1 /\ Cardinality(HoldersOf(b)) >= 1
  BY <1>5, CallSetsFinite
<1>8. QED
  BY <1>4, <1>6, <1>7

(* An empty pool counts no calls.                                          *)
LEMMA PoolInvInit == PoolInit => PoolInv
<1> SUFFICES ASSUME PoolInit PROVE PoolInv
  OBVIOUS
<1>1. TypeOK
  BY PoolAssumption DEF PoolAssumption, PoolInit, TypeOK
<1>2. Holders = {} /\ \A b \in Buckets : HoldersOf(b) = {}
  BY PoolAssumption DEF PoolAssumption, PoolInit, Holders, HoldersOf
<1>3. Accounting
  BY <1>2, FS_EmptySet DEF PoolInit, Accounting, HeldBy
<1>4. QED
  BY <1>1, <1>3 DEF PoolInv

(* Entering: both limits were checked, so both counters may move up.       *)
LEMMA EnterInv ==
  ASSUME PoolInv, NEW c \in Calls, NEW p \in Callers, Enter(c, p)
  PROVE  PoolInv'
<1> DEFINE b == Who(p)
<1>1. b \in Buckets /\ b # Free
  BY WhoIsBucket
<1>2. holder[c] = Free /\ holder' = [holder EXCEPT ![c] = b] /\ Take(b)
  BY DEF Enter
<1> HIDE DEF b
<1>3. HeldBy(b) \in Nat /\ HeldBy(b) + 1 \in Nat \ {0}
  BY <1>1, CallSetsFinite DEF PoolInv, Accounting
<1>4. TypeOK'
  BY <1>1, <1>2, <1>3, PoolAssumption DEF PoolAssumption, PoolInv, TypeOK, Take, CanTake
<1>5. inUse' = Cardinality(Holders')
  BY <1>1, <1>2, EnterSets DEF PoolInv, Accounting, Take
<1>6. ASSUME NEW x \in Buckets
      PROVE  HeldBy(x)' = Cardinality(HoldersOf(x)')
  <2>1. CASE x = b
    BY <2>1, <1>1, <1>2, EnterSets DEF PoolInv, Accounting, Take, HeldBy
  <2>2. CASE x # b
    BY <2>2, <1>1, <1>2, EnterSets DEF PoolInv, Accounting, Take, HeldBy
  <2>3. QED
    BY <2>1, <2>2
<1>7. QED
  BY <1>4, <1>5, <1>6 DEF PoolInv, Accounting

(* Leaving: the tenant's entry is decremented, or dropped with its last    *)
(* permit.                                                                 *)
LEMMA LeaveInv ==
  ASSUME PoolInv, NEW c \in Calls, Leave(c)
  PROVE  PoolInv'
<1> PICK b \in Buckets : holder[c] = b
  BY DEF PoolInv, TypeOK, Leave
<1>1. b # Free
  BY PoolAssumption DEF PoolAssumption
<1>2. holder' = [holder EXCEPT ![c] = Free] /\ GiveBack(b)
  BY DEF Leave
<1>3. /\ Cardinality(Holders') = Cardinality(Holders) - 1
      /\ Cardinality(Holders) >= 1
      /\ Cardinality(HoldersOf(b)) >= 1
      /\ Cardinality(HoldersOf(b)') = Cardinality(HoldersOf(b)) - 1
      /\ \A x \in Buckets : x # b => HoldersOf(x)' = HoldersOf(x)
  BY <1>2, LeaveSets DEF PoolInv
<1>4. HeldBy(b) = Cardinality(HoldersOf(b)) /\ HeldBy(b) \in Nat
  BY CallSetsFinite DEF PoolInv, Accounting
<1>5. b \in DOMAIN held /\ Remaining(b) = HeldBy(b) - 1 /\ Remaining(b) \in Nat
  BY <1>3, <1>4 DEF HeldBy, Remaining
<1>6. inUse' = Cardinality(Holders') /\ inUse' \in 0..Capacity
  BY <1>2, <1>3, PoolAssumption DEF PoolAssumption, PoolInv, Accounting, TypeOK, GiveBack
<1>7. TypeOK'
  BY <1>2, <1>5, <1>6 DEF PoolInv, TypeOK, GiveBack
<1>8. ASSUME NEW x \in Buckets, x # b
      PROVE  HeldBy(x)' = Cardinality(HoldersOf(x)')
  <2>1. HeldBy(x)' = HeldBy(x)
    BY <1>2, <1>8 DEF GiveBack, HeldBy, PoolInv, TypeOK
  <2>2. QED
    BY <2>1, <1>3, <1>8 DEF PoolInv, Accounting
<1>9. HeldBy(b)' = Remaining(b)
  BY <1>2, <1>5 DEF PoolInv, TypeOK, GiveBack, HeldBy
<1>10. HeldBy(b)' = Cardinality(HoldersOf(b)')
  BY <1>3, <1>4, <1>5, <1>9
<1>11. \A x \in Buckets : HeldBy(x)' = Cardinality(HoldersOf(x)')
  BY <1>8, <1>10
<1>12. QED
  BY <1>6, <1>7, <1>11 DEF PoolInv, Accounting

(* So every step of the pool keeps the counters equal to the calls.        *)
LEMMA PoolInvStep == PoolInv /\ [PoolNext]_poolVars => PoolInv'
<1> SUFFICES ASSUME PoolInv, [PoolNext]_poolVars PROVE PoolInv'
  OBVIOUS
<1>1. ASSUME NEW c \in Calls, NEW p \in Callers, Enter(c, p) PROVE PoolInv'
  BY <1>1, EnterInv
<1>2. ASSUME NEW c \in Calls, Leave(c) PROVE PoolInv'
  BY <1>2, LeaveInv
<1>3. CASE UNCHANGED poolVars
  BY <1>3 DEF poolVars, PoolInv, TypeOK, Accounting, HeldBy, Holders, HoldersOf
<1>4. QED
  BY <1>1, <1>2, <1>3 DEF PoolNext

(* permits.py never loses or invents a permit: in every reachable state    *)
(* the pool's counter and every tenant's are the numbers of their calls    *)
(* inside the body, and the counter stays within the pool.                 *)
THEOREM CountersAreTheCalls == PoolSpec => [](TypeOK /\ Accounting)
<1>1. PoolSpec => []PoolInv
  BY PoolInvInit, PoolInvStep, PTL DEF PoolSpec
<1>2. QED
  BY <1>1, PTL DEF PoolInv

(* A call is admitted, by its counters, exactly when the calls themselves  *)
(* leave room; so the pool of permits.py implements TenantLimiter.         *)
THEOREM PoolImplementsLimiter == PoolSpec => LimiterSpec
<1>1. PoolInit => Limiter!Init
  BY DEF PoolInit, Limiter!Init
<1>2. PoolInv /\ [PoolNext]_poolVars => [Limiter!Next]_holder
  <2> SUFFICES ASSUME PoolInv, [PoolNext]_poolVars PROVE [Limiter!Next]_holder
    OBVIOUS
  <2>1. ASSUME NEW c \in Calls, NEW p \in Callers, Enter(c, p)
        PROVE  Limiter!Admit(c, Who(p)) /\ Who(p) \in Buckets
    <3>1. Who(p) \in Buckets
      BY WhoIsBucket
    <3>2. Cardinality(Holders) < Capacity /\ Cardinality(HoldersOf(Who(p))) < Share
      BY <2>1, <3>1 DEF Enter, Take, CanTake, PoolInv, Accounting
    <3>3. Limiter!Holding = Holders /\ Limiter!HoldingOf(Who(p)) = HoldersOf(Who(p))
      BY DEF Limiter!Holding, Limiter!HoldingOf, Holders, HoldersOf
    <3>4. holder[c] = Free /\ holder' = [holder EXCEPT ![c] = Who(p)]
      BY <2>1 DEF Enter
    <3>5. \A S : Limiter!Cardinality(S) = Cardinality(S)
      BY DEF Cardinality, Limiter!Cardinality
    <3>6. QED
      BY <3>1, <3>2, <3>3, <3>4, <3>5 DEF Limiter!Admit
  <2>2. ASSUME NEW c \in Calls, Leave(c) PROVE Limiter!Finish(c)
    BY <2>2 DEF Leave, Limiter!Finish
  <2>3. CASE UNCHANGED poolVars
    BY <2>3 DEF poolVars
  <2>4. QED
    BY <2>1, <2>2, <2>3 DEF PoolNext, Limiter!Next
<1>3. PoolSpec => []PoolInv
  BY PoolInvInit, PoolInvStep, PTL DEF PoolSpec
<1>4. QED
  BY <1>1, <1>2, <1>3, PTL DEF PoolSpec, LimiterSpec, Limiter!Spec

(* No tenant is ever over its share.                                       *)
WithinShare == \A b \in Buckets : HeldBy(b) <= Share

(* A call enters below its tenant's share, and leaving takes nobody up.    *)
LEMMA WithinShareStep == PoolInv /\ WithinShare /\ [PoolNext]_poolVars => WithinShare'
<1> SUFFICES ASSUME PoolInv, WithinShare, [PoolNext]_poolVars, NEW b \in Buckets PROVE HeldBy(b)' <= Share
  BY DEF WithinShare
<1>0. HeldBy(b) \in Nat /\ Share \in Nat /\ HeldBy(b) <= Share
  BY ShareIsBounded, CallSetsFinite DEF PoolInv, Accounting, WithinShare
<1>1. ASSUME NEW c \in Calls, NEW p \in Callers, Enter(c, p) PROVE HeldBy(b)' <= Share
  BY <1>0, <1>1 DEF Enter, Take, CanTake, HeldBy
<1>2. ASSUME NEW c \in Calls, Leave(c) PROVE HeldBy(b)' <= Share
  <2> PICK h \in Buckets : holder[c] = h
    BY <1>2 DEF PoolInv, TypeOK, Leave
  <2>1. GiveBack(h)
    BY <1>2 DEF Leave
  <2>2. QED
    BY <1>0, <2>1, ShareIsBounded DEF GiveBack, HeldBy, Remaining, PoolInv, TypeOK
<1>3. CASE UNCHANGED poolVars
  BY <1>0, <1>3 DEF poolVars, HeldBy
<1>4. QED
  BY <1>1, <1>2, <1>3 DEF PoolNext

(* A finite set of at most n members can be numbered from 1 to n.          *)
LEMMA Numbered ==
  ASSUME NEW S, IsFiniteSet(S), NEW n \in Nat, Cardinality(S) <= n
  PROVE  \E g \in [S -> 1..n] : \A x, y \in S : g[x] = g[y] => x = y
<1>1. Cardinality(S) \in Nat /\ ExistsBijection(1..Cardinality(S), S)
  BY FS_CardinalityType
<1>2. PICK f \in [1..Cardinality(S) -> S] : \A x \in S : \E i \in 1..Cardinality(S) : f[i] = x
  BY <1>1 DEF ExistsBijection, Bijection, Surjection
<1> DEFINE g == [x \in S |-> CHOOSE i \in 1..Cardinality(S) : f[i] = x]
<1>3. \A x \in S : g[x] \in 1..Cardinality(S) /\ f[g[x]] = x
  BY <1>2
<1>4. g \in [S -> 1..n]
  BY <1>1, <1>3
<1>5. \A x, y \in S : g[x] = g[y] => x = y
  BY <1>3
<1> QED
  BY <1>4, <1>5

(* The tenants inside a pool.                                              *)
Inside == {holder[c] : c \in Holders}

(* Every call inside is one of its tenant's, and no tenant has more than   *)
(* its share.                                                              *)
LEMMA SharesCover ==
  ASSUME PoolInv, WithinShare
  PROVE  Cardinality(Holders) <= Cardinality(Inside) * Share
<1> DEFINE G(b) == CHOOSE g \in [HoldersOf(b) -> 1..Share] : \A x, y \in HoldersOf(b) : g[x] = g[y] => x = y
           f == [c \in Holders |-> <<holder[c], G(holder[c])[c]>>]
<1>1. ASSUME NEW b \in Inside
      PROVE  G(b) \in [HoldersOf(b) -> 1..Share] /\ \A x, y \in HoldersOf(b) : G(b)[x] = G(b)[y] => x = y
  <2>1. b \in Buckets
    BY DEF Inside, Holders, PoolInv, TypeOK
  <2>2. Cardinality(HoldersOf(b)) <= Share /\ IsFiniteSet(HoldersOf(b)) /\ Share \in Nat
    BY <2>1, CallSetsFinite, ShareIsBounded DEF PoolInv, Accounting, WithinShare
  <2> QED
    BY <2>2, Numbered
<1> HIDE DEF G
<1>2. \A c \in Holders : holder[c] \in Inside /\ c \in HoldersOf(holder[c])
  BY DEF Inside, Holders, HoldersOf
<1>3. f \in [Holders -> Inside \X (1..Share)]
  BY <1>1, <1>2
<1>4. \A c, d \in Holders : f[c] = f[d] => c = d
  BY <1>1, <1>2
<1>5. IsFiniteSet(Inside) /\ Cardinality(Inside) \in Nat
  <2> DEFINE h == [c \in Holders |-> holder[c]]
  <2>1. h \in Surjection(Holders, Inside)
    BY DEF Surjection, Inside
  <2> QED
    BY <2>1, CallSetsFinite, FS_Surjection, FS_CardinalityType
<1>6. IsFiniteSet(1..Share) /\ Cardinality(1..Share) = Share
  BY ShareIsBounded, FS_Interval, PoolAssumption DEF PoolAssumption
<1>7. IsFiniteSet(Inside \X (1..Share)) /\ Cardinality(Inside \X (1..Share)) = Cardinality(Inside) * Share
  BY <1>5, <1>6, FS_Product
<1>8. f \in Injection(Holders, Inside \X (1..Share))
  BY <1>3, <1>4 DEF Injection, IsInjective
<1> QED
  BY <1>7, <1>8, FS_Injection

(* For every size of the pool and every share: a tenant with nothing in    *)
(* flight is turned away only when the shares of the tenants inside add up *)
(* to the pool.                                                            *)
THEOREM NewcomersAreCrowdedOut == PoolSpec => []CrowdedOut
<1>1. PoolInit => WithinShare
  BY ShareIsBounded DEF PoolInit, HeldBy, WithinShare
<1>2. PoolInv /\ WithinShare => CrowdedOut
  <2> SUFFICES ASSUME PoolInv, WithinShare, NEW b \in Buckets, HoldersOf(b) = {}, ~CanTake(b)
               PROVE  Capacity <= Cardinality(Inside) * Share
    BY DEF CrowdedOut, Inside
  <2>1. HeldBy(b) = 0
    BY FS_EmptySet DEF PoolInv, Accounting
  <2>2. inUse = Capacity
    BY <2>1, ShareIsBounded, PoolAssumption DEF CanTake, PoolInv, TypeOK, PoolAssumption
  <2> QED
    BY <2>2, SharesCover DEF PoolInv, Accounting
<1>3. PoolSpec => []PoolInv
  BY PoolInvInit, PoolInvStep, PTL DEF PoolSpec
<1>4. QED
  BY <1>1, <1>2, <1>3, WithinShareStep, PTL DEF PoolSpec

-----------------------------------------------------------------------------
(* Authorization.                                                          *)

(* The fields that the argument follows from step to step.                 *)
Shaped ==
  /\ {"at", "by", "dv", "seen", "total", "saved", "steady", "kind"} \subseteq DOMAIN reading
  /\ {"at", "plan", "sources", "todo", "columnar", "judged"} \subseteq DOMAIN call

(* What the name stands for may be read by the caller in its dataverse.    *)
Cleared(d, by, dv) ==
  d = Missing \/ (Unresolved(d, dv) = {} /\ Touched(d, dv) \subseteq Allowed(by))

(* A call that has passed the authorization was cleared for what the name  *)
(* still stands for, unless that was redefined since.                      *)
CallCleared ==
  Enforced /\ call.at \in {"lookup", "run"} /\ call.judged =>
    Cleared(catalog, reading.by, reading.dv)

AuthInv == Shaped /\ CallCleared /\ ReadsAreAuthorized

(* No call has been cleared and none has run.                              *)
LEMMA InitAuth == Init => AuthInv
  BY DEF Init, AuthInv, Shaped, CallCleared, ReadsAreAuthorized, NotReading, NoCall, NoRun

(* A definition that is cleared is read from allowed dataverses only.      *)
LEMMA ClearedIsAllowed ==
  ASSUME NEW d, NEW by, NEW dv, d # Missing, Cleared(d, by, dv), NEW s \in d
  PROVE  by \in DOMAIN allowlist /\ ReadFrom(s, dv) \in allowlist[by]
<1>1. Resolved(s, dv) # None
  BY DEF Cleared, Unresolved
<1>2. Resolved(s, dv) \in Allowed(by)
  BY <1>1 DEF Cleared, Touched
<1> QED
  BY <1>1, <1>2 DEF Allowed, ReadFrom, Resolved

(* Every step leaves the records whole.                                    *)
LEMMA StepShaped == Shaped /\ [Next]_vars => Shaped'
<1> SUFFICES ASSUME Shaped, [Next]_vars PROVE Shaped'
  OBVIOUS
<1> USE DEF Shaped
<1>1. CASE UNCHANGED vars
  BY <1>1 DEF vars, settings
<1>2. ASSUME NEW p, NEW dv, NEW own, NEW limit, NEW kind, Open(p, dv, own, limit, kind)
      PROVE  Shaped'
  BY <1>2 DEF Open, NotReading, NoCall, settings
<1>3. CASE NextPage
  BY <1>3 DEF NextPage, NoCall, settings
<1>4. ASSUME NEW errors \in BOOLEAN, NEW plan, Compile(errors, plan) PROVE Shaped'
  BY <1>4 DEF Compile, Answer, NoCall, settings
<1>5. ASSUME NEW s, LookUp(s) PROVE Shaped'
  BY <1>5 DEF LookUp, settings
<1>6. CASE LookedUp
  BY <1>6 DEF LookedUp, settings
<1>7. CASE Run
  BY <1>7 DEF Run, Show, Answer, NoCall, settings
<1>8. CASE RunErrs
  BY <1>8 DEF RunErrs, Answer, NoCall, settings
<1>9. CASE Fetch
  BY <1>9 DEF Fetch, Show, NoCall, settings
<1>10. CASE Fails
  BY <1>10 DEF Fails, Answer, NoCall, settings
<1>11. ASSUME NEW d, Redefine(d) PROVE Shaped'
  BY <1>11 DEF Redefine, settings
<1> QED
  BY <1>1, <1>2, <1>3, <1>4, <1>5, <1>6, <1>7, <1>8, <1>9, <1>10, <1>11 DEF Next, Step
(* An execution reads what the call was cleared for.                       *)
LEMMA RunAuthorized ==
  ASSUME AuthInv, Run
  PROVE  CallCleared' /\ ReadsAreAuthorized'
<1>1. call' = NoCall /\ call'.at = "none"
  BY DEF Run, Show, Answer, NoCall, settings
<1>2. /\ call.at = "run" /\ catalog # Missing /\ allowlist' = allowlist
      /\ ran'.by = reading.by /\ ran'.dv = reading.dv
      /\ ran'.reads = catalog /\ ran'.judged = call.judged
  BY DEF Run, settings
<1>3. ASSUME Enforced', ran'.judged, NEW s \in ran'.reads
      PROVE  ran'.by \in DOMAIN allowlist' /\ ReadFrom(s, ran'.dv) \in allowlist'[ran'.by]
  <2>1. Enforced /\ call.judged
    BY <1>2, <1>3 DEF Enforced
  <2>2. Cleared(catalog, reading.by, reading.dv)
    BY <1>2, <2>1 DEF AuthInv, CallCleared
  <2> QED
    BY <1>2, <1>3, <2>2, ClearedIsAllowed
<1>4. CallCleared'
  BY <1>1 DEF CallCleared
<1> QED
  BY <1>3, <1>4 DEF ReadsAreAuthorized

(* What a step that runs nothing leaves of the earlier claims.             *)
LEMMA RanKept == ReadsAreAuthorized /\ UNCHANGED <<allowlist, ran>> => ReadsAreAuthorized'
  BY DEF ReadsAreAuthorized, Enforced, ReadFrom

(* The compile request clears the call for what the name stands for.       *)
LEMMA CompileClears ==
  ASSUME AuthInv, NEW errors \in BOOLEAN, NEW plan, Compile(errors, plan)
  PROVE  CallCleared'
<1> SUFFICES ASSUME Enforced', call'.at \in {"lookup", "run"}, call'.judged
             PROVE  Cleared(catalog, reading.by, reading.dv)' 
  BY DEF CallCleared
<1> DEFINE parsed == plan /\ ~errors
           sources == IF errors \/ ~plan THEN {} ELSE catalog
<1>1. allowlist' = allowlist /\ catalog' = catalog /\ Enforced
  BY DEF Compile, Enforced, settings
<1>2. CASE Authorized(reading.by, reading.dv, errors, parsed, sources)
  <2>1. reading' = reading
    BY <1>2 DEF Compile, settings
  <2>2. ~errors
    BY <1>2 DEF Compile, AuthInv, Shaped
  <2>3. Cleared(catalog, reading.by, reading.dv)
    BY <1>1, <1>2, <2>2 DEF Authorized, Cleared
  <2> QED
    BY <1>1, <2>1, <2>3 DEF Cleared, Unresolved, Touched, Resolved, Allowed
<1>3. CASE ~Authorized(reading.by, reading.dv, errors, parsed, sources)
  <2>1. call' = NoCall
    BY <1>3 DEF Compile, Answer, settings
  <2> QED
    BY <2>1 DEF NoCall
<1> QED
  BY <1>2, <1>3

(* Clearance follows the caller, the name and the list, and nothing else.  *)
LEMMA ClearedKept ==
  ASSUME UNCHANGED <<allowlist, catalog>>, reading'.by = reading.by, reading'.dv = reading.dv,
         CallCleared, Enforced' /\ call'.at \in {"lookup", "run"} /\ call'.judged =>
                        call.at \in {"lookup", "run"} /\ call.judged
  PROVE  CallCleared'
BY DEF CallCleared, Cleared, Enforced, Unresolved, Touched, Resolved, Allowed

(* A call that begins has passed nothing yet, or needs not.                *)
LEMMA BegunCleared ==
  ASSUME NEW kind, call' = [NoCall EXCEPT !.at = FirstRequest(kind)], allowlist' = allowlist
  PROVE  CallCleared'
BY DEF CallCleared, NoCall, FirstRequest, Enforced

(* Every step keeps what is read in the allowlist.                         *)
LEMMA StepAuth == AuthInv /\ [Next]_vars => AuthInv'
<1> SUFFICES ASSUME AuthInv, [Next]_vars PROVE AuthInv'
  OBVIOUS
<1>0. Shaped'
  BY StepShaped DEF AuthInv
<1> SUFFICES CallCleared' /\ ReadsAreAuthorized'
  BY <1>0 DEF AuthInv
<1> USE DEF AuthInv
<1>1. CASE UNCHANGED vars
  BY <1>1, RanKept, ClearedKept DEF vars, settings
<1>2. ASSUME NEW p, NEW dv, NEW own, NEW limit, NEW kind, Open(p, dv, own, limit, kind)
      PROVE  CallCleared' /\ ReadsAreAuthorized'
  BY <1>2, BegunCleared, RanKept DEF Open, settings
<1>3. CASE NextPage
  BY <1>3, BegunCleared, RanKept DEF NextPage, settings
<1>4. ASSUME NEW errors \in BOOLEAN, NEW plan, Compile(errors, plan) PROVE CallCleared' /\ ReadsAreAuthorized'
  BY <1>4, CompileClears, RanKept DEF Compile, settings
<1>5. ASSUME NEW s, LookUp(s) PROVE CallCleared' /\ ReadsAreAuthorized'
  <2>1. call.at = "lookup" /\ call'.at = call.at /\ call'.judged = call.judged
    BY <1>5 DEF LookUp, Shaped, settings
  <2> QED
    BY <1>5, <2>1, RanKept, ClearedKept DEF LookUp, settings
<1>6. CASE LookedUp
  <2>1. call.at = "lookup" /\ call'.judged = call.judged
    BY <1>6 DEF LookedUp, Shaped, settings
  <2> QED
    BY <1>6, <2>1, RanKept, ClearedKept DEF LookedUp, settings
<1>7. CASE Run
  BY <1>7, RunAuthorized
<1>8. CASE RunErrs
  BY <1>8, RanKept DEF RunErrs, Answer, NoCall, CallCleared, settings
<1>9. CASE Fetch
  BY <1>9, RanKept DEF Fetch, Show, NoCall, CallCleared, settings
<1>10. CASE Fails
  BY <1>10, RanKept DEF Fails, Answer, NoCall, CallCleared, settings
<1>11. ASSUME NEW d, Redefine(d) PROVE CallCleared' /\ ReadsAreAuthorized'
  <2>1. ~call'.judged
    BY <1>11 DEF Redefine, Shaped, settings
  <2> QED
    BY <1>11, <2>1, RanKept DEF Redefine, CallCleared, settings
<1> QED
  BY <1>1, <1>2, <1>3, <1>4, <1>5, <1>6, <1>7, <1>8, <1>9, <1>10, <1>11 DEF Next, Step

-----------------------------------------------------------------------------
(* Pages.                                                                  *)

(* A set of numbers up to m that has a member has a greatest one.          *)
LEMMA Greatest ==
  ASSUME NEW m \in Nat, NEW S \in SUBSET (0..m), NEW z \in S
  PROVE  \E n \in S : \A k \in S : k <= n
<1> DEFINE P == {k \in Nat : \A x \in S : x <= k}
<1>1. m \in P
  OBVIOUS
<1>2. PICK n \in P : \A k \in P : n <= k
  <2> DEFINE R == OpToRel(<, Nat)
  <2>1. \A x, y \in Nat : x < y => <<x, y>> \in R
    BY DEF OpToRel
  <2>2. IsWellFoundedOn(R, Nat)
    BY NatLessThanWellFounded
  <2>3. P \subseteq Nat /\ P # {}
    BY <1>1
  <2> HIDE DEF R, P
  <2>4. PICK n \in P : \A k \in P : ~ (<<k, n>> \in R)
    BY <2>2, <2>3, WFMin
  <2>5. ASSUME NEW k \in P PROVE n <= k
    <3>1. k \in Nat /\ n \in Nat
      BY <2>3
    <3>2. ~ (k < n)
      BY <2>1, <2>4, <3>1
    <3> QED
      BY <3>1, <3>2
  <2> QED
    BY <2>5
<1>3. n \in S
  <2>1. SUFFICES ASSUME n \notin S PROVE FALSE
    OBVIOUS
  <2>2. n # 0
    BY <2>1
  <2>3. n - 1 \in P
    BY <1>2, <2>1, <2>2
  <2> QED
    BY <1>2, <2>3
<1> QED
  BY <1>2, <1>3

(* The lesser of two caps.                                                 *)
LEMMA LeastIs == ASSUME NEW a \in Nat, NEW b \in Nat
                 PROVE  Least(a, b) \in Nat /\ Least(a, b) <= a /\ Least(a, b) <= b
                        /\ (Least(a, b) = a \/ Least(a, b) = b)
  BY DEF Least

(* truncate_for_llm delivers some of the rows of the page.                 *)
LEMMA DeliveredIsPart ==
  ASSUME NEW rows, Len(rows) \in Nat, NEW r \in Nat, NEW b
  PROVE  Delivered(rows, r, b) \in 0..Len(rows)
<1> DEFINE m == Least(Len(rows), r)
           S == {n \in 0..m : Fits(rows, n, b)}
<1>1. m \in Nat /\ m <= Len(rows)
  BY LeastIs
<1> HIDE DEF m
<1>2. 0 \in S
  BY <1>1 DEF Fits
<1>3. \E n \in S : \A k \in S : k <= n
  <2> HIDE DEF S
  <2>1. S \in SUBSET (0..m)
    BY DEF S
  <2> QED
    BY <1>1, <1>2, <2>1, Greatest
<1>4. \E n \in 0..m : Fits(rows, n, b) /\ \A k \in 0..m : Fits(rows, k, b) => k <= n
  BY <1>3
<1>5. Delivered(rows, r, b) \in 0..m
  <2>1. Delivered(rows, r, b) =
          CHOOSE n \in 0..m : Fits(rows, n, b) /\ \A k \in 0..m : Fits(rows, k, b) => k <= n
    BY DEF Delivered, m
  <2> QED
    BY <1>4, <2>1
<1> QED
  BY <1>1, <1>5

(* The rows of n that are saved.                                           *)
Whole(n) == IF artifacts THEN n ELSE 0

(* A page goes on from the offset; there is more after it exactly when it  *)
(* does not reach the end, and then all rows are saved.                    *)
GoesOn(page, rows, offset) ==
  \E n \in Nat :
    /\ page.shown = [i \in 1..n |-> offset + i]
    /\ page.total = Len(rows)
    /\ offset <= Len(rows) =>
         /\ offset + n <= Len(rows)
         /\ page.more <=> offset + n < Len(rows)
         /\ page.more => page.saved = Whole(Len(rows))

(* What a page shows, from a response and an offset in it: the next rows,  *)
(* and whether more are there.                                             *)
LEMMA PageIs ==
  ASSUME NEW rows \in Seq(Nat), NEW flagged, NEW offset \in Nat, NEW limit \in Nat
  PROVE  GoesOn(Page(rows, flagged, offset, limit), rows, offset)
<1> DEFINE end   == Least(offset + limit, Len(rows))
           paged == SubSeq(rows, offset + 1, end)
           r == IF flagged THEN Least(MaxRows, FlaggedRows) ELSE MaxRows
           b == IF flagged THEN Least(MaxBytes, FlaggedBytes) ELSE MaxBytes
           n == Delivered(Clamped(paged), r, b)
           more == More(rows, offset, limit, n, n < Len(paged))
<1>1. /\ Len(rows) \in Nat /\ end \in Nat /\ end <= Len(rows)
      /\ end = offset + limit \/ end = Len(rows)
      /\ end <= offset + limit /\ (offset <= Len(rows) => offset <= end)
  BY DEF Least
<1>2. r \in Nat
  BY PathAssumption DEF Least
<1> HIDE DEF end, r, b
<1>3. paged \in Seq(Nat) /\ Len(paged) = IF offset <= end THEN end - offset ELSE 0
  BY <1>1
<1> HIDE DEF paged
<1>4. Len(Clamped(paged)) = Len(paged)
  BY <1>3, PathAssumption DEF Clamped
<1>5. n \in Nat /\ n <= Len(paged)
  <2>1. Len(Clamped(paged)) \in Nat
    BY <1>1, <1>3, <1>4
  <2> QED
    BY <1>2, <1>4, <2>1, DeliveredIsPart DEF n
<1> HIDE DEF n
<1>6. offset <= Len(rows) => offset + n <= Len(rows) /\ (more <=> offset + n < Len(rows))
  BY <1>1, <1>3, <1>5 DEF More
<1> HIDE DEF more
<1>7. Page(rows, flagged, offset, limit) =
        [shown |-> [i \in 1..n |-> offset + i], total |-> Len(rows), more |-> more,
         saved |-> IF more THEN Saved(rows, paged) ELSE 0]
  BY DEF Page, end, paged, r, b, n, more
<1> QED
  BY <1>5, <1>6, <1>7 DEF Saved, GoesOn, Whole

(* The first n rows, in order.                                             *)
FirstRows(n) == [i \in 1..n |-> i]

(* The response that the agent pages over, while nothing is redefined.     *)
Response ==
  IF reading.kind = "fetch" THEN job.rows
  ELSE Limited(Rows[catalog], reading.own, reading.limit)

(* Types, as far as pages need them.                                       *)
PageTypes ==
  /\ Shaped /\ {"own", "limit"} \subseteq DOMAIN reading /\ {"rows", "flagged"} \subseteq DOMAIN job
  /\ catalog \in Definitions \cup {Missing} /\ job.rows \in Seq(Nat)
  /\ reading.limit \in Nat /\ reading.own \in Nat \cup {None}
  /\ reading.seen \in Seq(Nat) /\ reading.total \in Nat

(* Only what shows rows has shown any; a fetch is of a finished job.       *)
KindsInPlace ==
  /\ reading.kind \in {"submit", "profile"} => reading.total = 0 /\ reading.seen = <<>>
  /\ call.at = "fetch" => reading.kind = "fetch"

(* The rows that were shown are the first ones of the response.            *)
ShownInOrder ==
  reading.steady =>
    /\ reading.seen = FirstRows(Len(reading.seen))
    /\ Len(reading.seen) <= reading.total
    /\ reading.total # 0 =>
         /\ reading.kind = "fetch" \/ catalog # Missing
         /\ reading.total = Len(Response)
    /\ Len(reading.seen) < reading.total => reading.saved = Whole(reading.total)
    /\ reading.at = "over" => Len(reading.seen) = reading.total

PageInv == PageTypes /\ KindsInPlace /\ ShownInOrder

(* What the pages are proved to be is more than the properties say.        *)
LEMMA PageInvSuffices == PageInv => PagesAreExact /\ OverflowIsSaved
  BY DEF PageInv, ShownInOrder, FirstRows, PagesAreExact, OverflowIsSaved, Whole

(* A response that a LIMIT cuts is a sequence of rows.                     *)
LEMMA LimitedIsRows ==
  ASSUME NEW rows \in Seq(Nat), NEW own \in Nat \cup {None}, NEW default \in Nat
  PROVE  Limited(rows, own, default) \in Seq(Nat)
<1> DEFINE n == IF own # None THEN (IF own < Len(rows) THEN own ELSE Len(rows))
                ELSE (IF default < Len(rows) THEN default ELSE Len(rows))
<1>1. n \in 0..Len(rows)
  OBVIOUS
<1> HIDE DEF n
<1>2. SubSeq(rows, 1, n) \in Seq(Nat)
  BY <1>1
<1> QED
  BY <1>2 DEF Limited, n

(* A reply that goes on from what was shown keeps the order, and leaves    *)
(* nothing unsaid.                                                         *)
LEMMA ShowKeeps ==
  ASSUME PageInv, NEW rows \in Seq(Nat), NEW flagged,
         Show(Page(rows, flagged, Offset, reading.limit)), UNCHANGED <<artifacts, catalog>>,
         rows = Response,
         reading.kind = "fetch" \/ (reading.kind = "execute" /\ catalog # Missing),
         UNCHANGED job
  PROVE  PageInv'
<1> DEFINE page == Page(rows, flagged, Offset, reading.limit)
<1>1. /\ reading' = [reading EXCEPT !.at = IF page.more THEN "more" ELSE "over",
                       !.seen = @ \o page.shown, !.total = page.total, !.saved = page.saved]
      /\ call' = NoCall
  BY DEF Show
<1>2. {"at", "by", "dv", "seen", "total", "saved", "steady", "kind", "own", "limit"} \subseteq DOMAIN reading
  BY DEF PageInv, PageTypes, Shaped
<1> HIDE DEF page
<1> DEFINE at == IF page.more THEN "more" ELSE "over"
<1>3. /\ reading'.at = at /\ reading'.seen = reading.seen \o page.shown
      /\ reading'.total = page.total /\ reading'.saved = page.saved
      /\ reading'.steady = reading.steady /\ reading'.kind = reading.kind
      /\ reading'.own = reading.own /\ reading'.limit = reading.limit
      /\ DOMAIN reading' = DOMAIN reading
  BY <1>1, <1>2
<1>4. PICK n \in Nat :
        /\ page.shown = [i \in 1..n |-> Offset + i]
        /\ page.total = Len(rows)
        /\ Offset <= Len(rows) =>
             /\ Offset + n <= Len(rows)
             /\ page.more <=> Offset + n < Len(rows)
             /\ page.more => page.saved = Whole(Len(rows))
  <2>1. Offset \in Nat /\ reading.limit \in Nat
    BY DEF PageInv, PageTypes, Offset
  <2>2. \A offset \in Nat, limit \in Nat : GoesOn(Page(rows, flagged, offset, limit), rows, offset)
    BY PageIs
  <2> QED
    BY <2>1, <2>2 DEF page, GoesOn
<1> DEFINE k == Len(reading.seen)
<1>5. k \in Nat /\ Offset = k /\ Len(rows) \in Nat /\ page.shown \in Seq(Nat) /\ Len(page.shown) = n
  <2>1. k \in Nat /\ Offset = k /\ Len(rows) \in Nat
    BY DEF PageInv, PageTypes, Offset
  <2> DEFINE shown == [i \in 1..n |-> k + i]
  <2>2. shown \in Seq(Nat) /\ Len(shown) = n
    BY <2>1
  <2> QED
    BY <1>4, <2>1, <2>2
<1>6. Len(reading'.seen) = k + n /\ reading'.seen \in Seq(Nat)
  <2>1. ASSUME NEW s \in Seq(Nat), NEW t \in Seq(Nat)
        PROVE  s \o t \in Seq(Nat) /\ Len(s \o t) = Len(s) + Len(t)
    OBVIOUS
  <2>2. reading.seen \in Seq(Nat) /\ reading'.seen = reading.seen \o page.shown
    BY <1>3 DEF PageInv, PageTypes
  <2> QED
    BY <1>5, <2>1, <2>2
<1>7. Response' = rows
  BY <1>3 DEF Response
<1>8. PageTypes'
  <2>1. Shaped'
    BY <1>1, <1>2, <1>3 DEF PageInv, PageTypes, Shaped, NoCall
  <2>2. page.total \in Nat
    BY <1>4, <1>5
  <2>3. reading'.seen \in Seq(Nat) /\ reading'.total \in Nat
    BY <1>3, <1>6, <2>2
  <2>4. {"own", "limit"} \subseteq DOMAIN reading' /\ reading'.limit \in Nat /\ reading'.own \in Nat \cup {None}
    BY <1>3 DEF PageInv, PageTypes
  <2> QED
    BY <2>1, <2>3, <2>4 DEF PageInv, PageTypes
<1>9. KindsInPlace'
  BY <1>1, <1>3 DEF KindsInPlace, NoCall
<1>10. ShownInOrder'
  <2> SUFFICES ASSUME reading.steady
               PROVE  /\ reading'.seen = FirstRows(k + n)
                      /\ k + n <= Len(rows)
                      /\ k + n < Len(rows) => page.saved = Whole(Len(rows))
                      /\ at = "over" => k + n = Len(rows)
    BY <1>3, <1>4, <1>6, <1>7 DEF ShownInOrder, Whole
  <2>1. reading.seen = FirstRows(k) /\ k <= Len(rows)
    BY <1>5 DEF PageInv, PageTypes, ShownInOrder
  <2>2. FirstRows(k) \o [i \in 1..n |-> k + i] = FirstRows(k + n)
    <3>1. PICK m \in Nat : m = k
      BY <1>5
    <3>2. PICK a \in Seq(Nat), b \in Seq(Nat) :
            a = [i \in 1..m |-> i] /\ b = [i \in 1..n |-> m + i] /\ Len(a) = m /\ Len(b) = n
      <4> DEFINE a == [i \in 1..m |-> i]
                 b == [i \in 1..n |-> m + i]
      <4>1. a \in Seq(Nat) /\ Len(a) = m
        OBVIOUS
      <4>2. b \in Seq(Nat) /\ Len(b) = n
        OBVIOUS
      <4> QED
        BY <4>1, <4>2
    <3>3. a \o b = [i \in 1..(m + n) |-> IF i <= Len(a) THEN a[i] ELSE b[i - Len(a)]]
      BY <3>2
    <3>4. \A i \in 1..(m + n) : (IF i <= Len(a) THEN a[i] ELSE b[i - Len(a)]) = i
      BY <3>2
    <3>5. a \o b = [i \in 1..(m + n) |-> i]
      BY <3>3, <3>4
    <3> QED
      BY <3>1, <3>2, <3>5 DEF FirstRows
  <2>3. reading'.seen = FirstRows(k + n)
    <3>1. reading'.seen = reading.seen \o page.shown
      BY <1>3
    <3>2. page.shown = [i \in 1..n |-> k + i]
      BY <1>4, <1>5
    <3> QED
      BY <2>1, <2>2, <3>1, <3>2, Zenon
  <2>4. /\ k + n <= Len(rows)
        /\ page.more <=> k + n < Len(rows)
        /\ page.more => page.saved = Whole(Len(rows))
    BY <1>4, <1>5, <2>1
  <2> QED
    BY <1>5, <2>3, <2>4
<1> QED
  BY <1>8, <1>9, <1>10 DEF PageInv

(* Nothing has been shown.                                                 *)
LEMMA InitPage == Init => PageInv
<1> SUFFICES ASSUME Init PROVE PageInv
  OBVIOUS
<1>1. reading = NotReading /\ call = NoCall /\ catalog \in Definitions \cup {Missing}
  BY DEF Init
<1>2. job.rows = <<>> /\ <<>> \in Seq(Nat) /\ {"rows", "flagged"} \subseteq DOMAIN job
  BY DEF Init
<1>3. Len(<<>>) = 0 /\ <<>> = FirstRows(0)
  BY DEF FirstRows
<1>4. PageTypes
  BY <1>1, <1>2 DEF PageTypes, Shaped, NotReading, NoCall
<1> QED
  BY <1>1, <1>3, <1>4 DEF PageInv, KindsInPlace, ShownInOrder, NotReading, NoCall

(* The agent begins to read.                                               *)
LEMMA OpenPage ==
  ASSUME PageInv, NEW p, NEW dv, NEW own \in OwnLimits, NEW limit \in Limits,
         NEW kind \in {"execute", "submit", "profile"}, Open(p, dv, own, limit, kind)
  PROVE  PageInv'
<1>1. /\ UNCHANGED <<artifacts, catalog, job>> /\ call' = [NoCall EXCEPT !.at = FirstRequest(kind)]
      /\ reading' = [NotReading EXCEPT !.at = "asking", !.by = p, !.dv = dv, !.own = own,
                                       !.limit = limit, !.kind = kind]
  BY DEF Open, settings
<1>2. /\ reading'.at = "asking" /\ reading'.own = own /\ reading'.limit = limit /\ reading'.kind = kind
      /\ reading'.seen = <<>> /\ reading'.total = 0
      /\ {"at", "by", "dv", "seen", "total", "saved", "steady", "kind", "own", "limit"}
           \subseteq DOMAIN reading'
  BY <1>1 DEF NotReading
<1>3. call'.at # "fetch" /\ {"at", "plan", "sources", "todo", "columnar", "judged"} \subseteq DOMAIN call'
  BY <1>1 DEF FirstRequest, NoCall
<1>4. Len(<<>>) = 0 /\ <<>> = FirstRows(0) /\ <<>> \in Seq(Nat)
  BY DEF FirstRows
<1>5. own \in Nat \cup {None} /\ limit \in Nat
  BY PathAssumption
<1>6. PageTypes'
  <2>1. Shaped' /\ {"own", "limit"} \subseteq DOMAIN reading'
    BY <1>2, <1>3 DEF Shaped
  <2>2. /\ reading'.limit \in Nat /\ reading'.own \in Nat \cup {None}
        /\ reading'.seen \in Seq(Nat) /\ reading'.total \in Nat
    BY <1>2, <1>4, <1>5
  <2>3. /\ {"rows", "flagged"} \subseteq DOMAIN job' /\ job'.rows \in Seq(Nat)
        /\ catalog' \in Definitions \cup {Missing}
    BY <1>1 DEF PageInv, PageTypes
  <2> QED
    BY <2>1, <2>2, <2>3 DEF PageTypes
<1> QED
  BY <1>2, <1>3, <1>4, <1>6 DEF PageInv, KindsInPlace, ShownInOrder

(* Steps that show nothing: only the position of the agent changes.        *)
LEMMA QuietPage ==
  ASSUME PageInv, UNCHANGED <<artifacts, catalog, job>>,
         \/ reading' = reading
         \/ \E x \in {"asking", "more", "refused"} : reading' = [reading EXCEPT !.at = x]
         \/ reading' = [reading EXCEPT !.at = "over"] /\ reading.kind = "profile",
         {"at", "plan", "sources", "todo", "columnar", "judged"} \subseteq DOMAIN call',
         call'.at = "fetch" => reading.kind = "fetch"
  PROVE  PageInv'
<1>1. /\ DOMAIN reading' = DOMAIN reading
      /\ reading'.seen = reading.seen /\ reading'.total = reading.total /\ reading'.saved = reading.saved
      /\ reading'.steady = reading.steady /\ reading'.kind = reading.kind
      /\ reading'.own = reading.own /\ reading'.limit = reading.limit
      /\ reading'.at = "over" => reading.at = "over" \/ reading.kind = "profile"
  BY DEF PageInv, PageTypes, Shaped
<1>2. Response' = Response
  BY <1>1 DEF Response
<1>3. PageTypes'
  BY <1>1 DEF PageInv, PageTypes, Shaped
<1>4. KindsInPlace'
  BY <1>1 DEF PageInv, KindsInPlace
<1>5. ShownInOrder'
  <2>1. reading.kind = "profile" => Len(reading.seen) = reading.total
    BY DEF PageInv, KindsInPlace
  <2> QED
    BY <1>1, <1>2, <2>1 DEF PageInv, ShownInOrder, Whole
<1> QED
  BY <1>3, <1>4, <1>5 DEF PageInv

(* The submission ends in a job; reading goes on from its first row.       *)
LEMMA SubmitPage ==
  ASSUME PageInv, catalog # Missing, reading.kind = "submit", NEW flagged,
         job' = [rows |-> Limited(Rows[catalog], reading.own, SubmitLimit), flagged |-> flagged],
         reading' = [reading EXCEPT !.kind = "fetch", !.at = "more", !.steady = TRUE],
         call' = NoCall, UNCHANGED <<artifacts, catalog>>
  PROVE  PageInv'
<1>1. /\ DOMAIN reading' = DOMAIN reading
      /\ reading'.seen = reading.seen /\ reading'.total = reading.total
      /\ reading'.kind = "fetch" /\ reading'.at = "more"
      /\ reading'.own = reading.own /\ reading'.limit = reading.limit
  BY DEF PageInv, PageTypes, Shaped
<1>2. job'.rows \in Seq(Nat) /\ {"rows", "flagged"} \subseteq DOMAIN job'
  <2>1. Rows[catalog] \in Seq(Nat) /\ reading.own \in Nat \cup {None} /\ SubmitLimit \in Nat
    BY PathAssumption DEF PageInv, PageTypes
  <2> QED
    BY <2>1, LimitedIsRows
<1>3. reading.seen = <<>> /\ reading.total = 0 /\ Len(<<>>) = 0 /\ <<>> = FirstRows(0)
  BY DEF PageInv, KindsInPlace, FirstRows
<1>4. PageTypes'
  BY <1>1, <1>2 DEF PageInv, PageTypes, Shaped, NoCall
<1> QED
  BY <1>1, <1>3, <1>4 DEF PageInv, KindsInPlace, ShownInOrder, NoCall

(* The run of a statement shows the rows that follow those shown.          *)
LEMMA RunPage ==
  ASSUME PageInv, Run
  PROVE  PageInv'
<1>1. catalog # Missing /\ catalog \in Definitions /\ UNCHANGED <<artifacts, catalog>>
  BY DEF Run, PageInv, PageTypes, settings
<1>2. CASE reading.kind = "execute"
  <2> DEFINE rows == Limited(Rows[catalog], reading.own, reading.limit)
  <2>1. rows \in Seq(Nat)
    BY <1>1, PathAssumption, LimitedIsRows DEF PageInv, PageTypes
  <2>2. rows = Response
    BY <1>2 DEF Response
  <2>3. Show(Page(rows, Flagged, Offset, reading.limit)) /\ UNCHANGED job
    BY <1>2 DEF Run, settings
  <2> HIDE DEF rows
  <2> QED
    BY <1>1, <1>2, <2>1, <2>2, <2>3, ShowKeeps
<1>3. CASE reading.kind = "submit"
  BY <1>1, <1>3, SubmitPage DEF Run, settings
<1>4. CASE reading.kind = "profile"
  <2>1. Answer("over") /\ UNCHANGED job
    BY <1>4 DEF Run, settings
  <2> QED
    BY <1>1, <1>4, <2>1, QuietPage DEF Answer, NoCall
<1> QED
  BY <1>2, <1>3, <1>4 DEF Run, settings

(* A fetch shows the rows that follow those shown.                         *)
LEMMA FetchPage ==
  ASSUME PageInv, Fetch
  PROVE  PageInv'
<1>1. reading.kind = "fetch" /\ UNCHANGED <<artifacts, catalog, job>>
  BY DEF Fetch, PageInv, KindsInPlace, settings
<1>2. job.rows \in Seq(Nat) /\ job.rows = Response
  BY <1>1 DEF PageInv, PageTypes, Response
<1>3. Show(Page(job.rows, job.flagged, Offset, reading.limit))
  BY DEF Fetch, settings
<1> QED
  BY <1>1, <1>2, <1>3, ShowKeeps

(* A name that is redefined ends the claim about its rows.                 *)
LEMMA RedefinePage ==
  ASSUME PageInv, NEW d \in Definitions \cup {Missing}, Redefine(d)
  PROVE  PageInv'
<1>1. /\ DOMAIN reading' = DOMAIN reading
      /\ reading'.seen = reading.seen /\ reading'.total = reading.total /\ reading'.saved = reading.saved
      /\ reading'.steady <=> reading.steady /\ reading.kind = "fetch"
      /\ reading'.kind = reading.kind /\ reading'.at = reading.at
      /\ reading'.own = reading.own /\ reading'.limit = reading.limit
  BY DEF PageInv, PageTypes, Shaped, Redefine, settings
<1>2. /\ catalog' \in Definitions \cup {Missing} /\ UNCHANGED <<artifacts, job>>
      /\ call' = [call EXCEPT !.judged = FALSE]
  BY DEF Redefine, settings
<1>3. PageTypes'
  BY <1>1, <1>2 DEF PageInv, PageTypes, Shaped
<1>4. KindsInPlace'
  BY <1>1, <1>2 DEF PageInv, PageTypes, Shaped, KindsInPlace
<1>5. ShownInOrder'
  BY <1>1, <1>2 DEF PageInv, ShownInOrder, Response, Whole
<1> QED
  BY <1>3, <1>4, <1>5 DEF PageInv

(* Where a call is after the compile request.                              *)
LEMMA CompiledAt ==
  ASSUME NEW c, "at" \in DOMAIN c, NEW a, NEW p \in BOOLEAN, NEW so, NEW sa \in BOOLEAN, NEW td
  PROVE  [c EXCEPT !.at = a, !.plan = p, !.sources = so, !.judged = sa, !.todo = td].at = a
OBVIOUS

(* Every step keeps the pages in place.                                    *)
LEMMA StepPage == PageInv /\ [Next]_vars => PageInv'
<1> SUFFICES ASSUME PageInv, [Next]_vars PROVE PageInv'
  OBVIOUS
<1>0. Shaped /\ Shaped'
  BY StepShaped DEF PageInv, PageTypes
<1> DEFINE CallShaped == {"at", "plan", "sources", "todo", "columnar", "judged"} \subseteq DOMAIN call'
<1>1. CallShaped
  BY <1>0 DEF Shaped
<1> HIDE DEF CallShaped
<1>2. CASE UNCHANGED vars
  BY <1>1, <1>2, QuietPage DEF vars, PageInv, KindsInPlace, CallShaped, settings
<1>3. ASSUME NEW p, NEW dv, NEW own \in OwnLimits, NEW limit \in Limits, NEW kind \in Kinds,
             Open(p, dv, own, limit, kind)
      PROVE  PageInv'
  BY <1>3, OpenPage DEF Kinds
<1>4. CASE NextPage
  <2>1. call'.at = FirstRequest(reading.kind)
    BY <1>4 DEF NextPage, NoCall, settings
  <2>2. call'.at = "fetch" => reading.kind = "fetch"
    BY <2>1 DEF FirstRequest
  <2> QED
    BY <1>1, <1>4, <2>2, QuietPage DEF NextPage, CallShaped, settings
<1>5. ASSUME NEW errors \in BOOLEAN, NEW plan, Compile(errors, plan) PROVE PageInv'
  <2>1. call'.at # "fetch"
    <3> DEFINE to      == IF reading.kind = "profile" THEN "run" ELSE "lookup"
               parsed  == plan /\ ~errors
               sources == IF errors \/ ~plan THEN {} ELSE catalog
               todo    == sources \ Unresolved(sources, reading.dv)
               judged  == ~errors
    <3>1. to # "fetch"
      OBVIOUS
    <3>2. \/ call' = NoCall
          \/ call' = [call EXCEPT !.at = to, !.plan = parsed, !.sources = sources, !.judged = judged,
                                  !.todo = todo]
      BY <1>5 DEF Compile, Answer, settings
    <3>3. parsed \in BOOLEAN /\ judged \in BOOLEAN /\ "at" \in DOMAIN call
      BY <1>0 DEF Shaped
    <3> HIDE DEF to, parsed, sources, todo, judged
    <3>4. [call EXCEPT !.at = to, !.plan = parsed, !.sources = sources, !.judged = judged,
                       !.todo = todo].at = to
      BY <3>3, CompiledAt, Zenon
    <3>5. call'.at = to \/ call' = NoCall
      BY <3>2, <3>4, Zenon
    <3> QED
      BY <3>1, <3>5 DEF NoCall
  <2>2. \/ reading' = reading
        \/ \E x \in {"asking", "more", "refused"} : reading' = [reading EXCEPT !.at = x]
    BY <1>5 DEF Compile, Answer, settings
  <2>3. UNCHANGED <<artifacts, catalog, job>>
    BY <1>5 DEF Compile, settings
  <2> QED
    BY <1>1, <2>1, <2>2, <2>3, QuietPage DEF CallShaped
<1>6. ASSUME NEW s, LookUp(s) PROVE PageInv'
  <2>1. call'.at = "lookup" /\ UNCHANGED <<reading, artifacts, catalog, job>>
    BY <1>0, <1>6 DEF LookUp, Shaped, settings
  <2> QED
    BY <1>1, <2>1, QuietPage DEF CallShaped
<1>7. CASE LookedUp
  <2>1. call'.at = "run" /\ UNCHANGED <<reading, artifacts, catalog, job>>
    BY <1>0, <1>7 DEF LookedUp, Shaped, settings
  <2> QED
    BY <1>1, <2>1, QuietPage DEF CallShaped
<1>8. CASE RunErrs \/ Fails
  BY <1>1, <1>8, QuietPage DEF RunErrs, Fails, Answer, NoCall, CallShaped, settings
<1> QED
  BY <1>2, <1>3, <1>4, <1>5, <1>6, <1>7, <1>8, RunPage, FetchPage, RedefinePage DEF Next, Step

-----------------------------------------------------------------------------
(* Theorems.                                                               *)

(* Whichever tool runs a statement, and whatever its name turns out to     *)
(* stand for, what is read is of dataverses that the tenant is allowed     *)
(* (tenant_policy.check_compiled_plan), for any tenants, dataverses,       *)
(* definitions and allowlist, if the compile request returned no errors    *)
(* and the name was not redefined between it and the run.                  *)
THEOREM ReadsStayInTheAllowlist == Spec => []ReadsAreAuthorized
<1>1. AuthInv => ReadsAreAuthorized
  BY DEF AuthInv
<1> QED
  BY <1>1, InitAuth, StepAuth, PTL DEF Spec

(* An agent that pages until it is told that there is no more has seen     *)
(* every row of the response once and in order (egress.truncate_for_llm    *)
(* with the pages of execute_query.py and async_query.py), for any rows,   *)
(* page sizes, caps and failures, if the name stays as it is.              *)
THEOREM PagesStayExact == Spec => []PagesAreExact
<1> QED
  BY PageInvSuffices, InitPage, StepPage, PTL DEF Spec

(* What a page leaves out is in a file that the reply names, where         *)
(* artifacts are enabled, and where they are not the reply names none      *)
(* (artifacts.write_overflow_artifact, as the tools call it), for any rows *)
(* and caps.                                                               *)
THEOREM OverflowStaysSaved == Spec => []OverflowIsSaved
<1> QED
  BY PageInvSuffices, InitPage, StepPage, PTL DEF Spec
=============================================================================
