--------------------------- MODULE MaintenanceProofs ---------------------------
(***************************************************************************)
(* Maintenance.  The lock of the pass at the start, for any number of      *)
(* gateways.  Then okf_refresh, for any catalog, store, tenants, faults    *)
(* and order of steps: types, what a refresh holds of the store, and that  *)
(* it costs neither another tenant a row nor its own a claim.              *)
(***************************************************************************)
EXTENDS MaintenanceLock, Refresh, FiniteSetTheorems, TLAPS

-----------------------------------------------------------------------------
(* The lock.                                                               *)

LockInv == TypeOK /\ RunnersHoldTheFile

(* The steps in disjunctive form.                                          *)
LEMMA LockCases ==
  ASSUME [LockNext]_lockVars
  PROVE  \/ GrowOld
         \/ \E p \in Processes :
              \/ Create(p) \/ CreateFails(p) \/ Judge(p) \/ Break(p) \/ BreakFails(p)
              \/ CreateAgain(p) \/ CreateAgainFails(p)
              \/ Release(p) \/ ReleaseFails(p) \/ Crash(p) \/ Launch(p)
         \/ UNCHANGED lockVars
BY DEF LockNext, Acquire, Ends

(* A gateway that gets in by an exclusive create holds the file, and no    *)
(* other unrobbed one was running.                                         *)
LEMMA InByCreate ==
  ASSUME LockInv, NEW p \in Processes, NEW s,
         Goes(p, s, "running"), Created(p)
  PROVE  LockInv'
<1>1. at' = [at EXCEPT ![p] = "running"] /\ owner = Nobody /\ owner' = p /\ old' = FALSE
      /\ robbed' = robbed \ {p}
  BY DEF Goes, Created
<1>2. TypeOK'
  BY <1>1 DEF LockInv, TypeOK
<1>3. ASSUME NEW q \in Processes, at'[q] = "running" PROVE q \in robbed' \/ owner' = q
  <2>1. CASE q = p
    BY <2>1, <1>1
  <2>2. CASE q # p
    <3>1. at[q] = "running"
      BY <1>3, <2>2, <1>1 DEF LockInv, TypeOK
    <3>2. q \in robbed
      BY <3>1, <1>1, NobodyIsNoProcess DEF LockInv, RunnersHoldTheFile, Running
    <3> QED
      BY <3>2, <2>2, <1>1
  <2> QED
    BY <2>1, <2>2
<1> QED
  BY <1>2, <1>3 DEF LockInv, RunnersHoldTheFile, Running

(* Whoever removes a file leaves its owner robbed, or goes out himself.    *)
LEMMA OutByRemoval ==
  ASSUME LockInv, NEW p \in Processes, NEW s, NEW t \in {"again", "done"},
         Goes(p, s, t), Removed(p)
  PROVE  LockInv'
<1>1. at' = [at EXCEPT ![p] = t] /\ owner' = Nobody /\ old' = FALSE
      /\ robbed' = robbed \cup ({owner} \ {p, Nobody})
  BY DEF Goes, Removed
<1>2. TypeOK'
  BY <1>1 DEF LockInv, TypeOK
<1>3. ASSUME NEW q \in Processes, at'[q] = "running" PROVE q \in robbed'
  <2>1. q # p /\ at[q] = "running"
    BY <1>3, <1>1 DEF LockInv, TypeOK
  <2>2. q \in robbed \/ owner = q
    BY <2>1 DEF LockInv, RunnersHoldTheFile, Running
  <2> QED
    BY <2>1, <2>2, <1>1, NobodyIsNoProcess
<1> QED
  BY <1>2, <1>3 DEF LockInv, RunnersHoldTheFile, Running

(* A step that lets nobody in and touches no file.                         *)
LEMMA Elsewhere ==
  ASSUME LockInv, NEW p \in Processes, NEW t \in {"start", "found", "breaking", "again", "done", "crashed"},
         at' = [at EXCEPT ![p] = t], SameFile
  PROVE  LockInv'
<1>1. owner' = owner /\ old' = old /\ robbed' = robbed
  BY DEF SameFile
<1>2. TypeOK'
  BY <1>1 DEF LockInv, TypeOK
<1>3. ASSUME NEW q \in Processes, at'[q] = "running" PROVE at[q] = "running"
  BY <1>3 DEF LockInv, TypeOK
<1> QED
  BY <1>1, <1>2, <1>3 DEF LockInv, RunnersHoldTheFile, Running

(* Every step preserves the invariant.                                     *)
LEMMA LockInvStep == LockInv /\ [LockNext]_lockVars => LockInv'
<1> SUFFICES ASSUME LockInv, [LockNext]_lockVars PROVE LockInv'
  OBVIOUS
<1>1. CASE GrowOld
  BY <1>1, NobodyIsNoProcess DEF GrowOld, LockInv, TypeOK, RunnersHoldTheFile, Running
<1>2. CASE UNCHANGED lockVars
  BY <1>2 DEF lockVars, LockInv, TypeOK, RunnersHoldTheFile, Running
<1>3. ASSUME NEW p \in Processes, Create(p) \/ CreateAgain(p) PROVE LockInv'
  BY <1>3, InByCreate DEF Create, CreateAgain
<1>4. ASSUME NEW p \in Processes, Break(p) \/ Release(p) PROVE LockInv'
  BY <1>4, OutByRemoval DEF Break, Release
<1>5. ASSUME NEW p \in Processes,
             \/ CreateFails(p) \/ Judge(p) \/ BreakFails(p) \/ CreateAgainFails(p)
             \/ ReleaseFails(p) \/ Crash(p) \/ Launch(p)
      PROVE  LockInv'
  <2>1. /\ SameFile
        /\ \E t \in {"start", "found", "breaking", "again", "done", "crashed"} : at' = [at EXCEPT ![p] = t]
    BY <1>5 DEF CreateFails, Judge, BreakFails, CreateAgainFails, ReleaseFails, Crash, Launch, Goes
  <2> QED
    BY <2>1, Elsewhere
<1> QED
  BY LockCases, <1>1, <1>2, <1>3, <1>4, <1>5

(* It holds before any gateway has started.                                *)
LEMMA LockInvInit == LockInit => LockInv
BY DEF LockInit, LockInv, TypeOK, RunnersHoldTheFile, Running

(* Types, and: in any order of crashes, stale locks and relaunches, a      *)
(* gateway in its pass has its lock file on disk or was robbed of it.      *)
THEOREM LocksHold == LockSpec => [](TypeOK /\ RunnersHoldTheFile)
<1>1. LockSpec => []LockInv
  BY LockInvInit, LockInvStep, PTL DEF LockSpec
<1> QED
  BY <1>1, PTL DEF LockInv

(* So the gateways that nobody robbed run one at a time.                   *)
THEOREM UnrobbedAreAlone == LockSpec => []OneUnrobbed
<1>1. RunnersHoldTheFile => OneUnrobbed
  <2> SUFFICES ASSUME RunnersHoldTheFile PROVE OneUnrobbed
    OBVIOUS
  <2>1. \A p \in Running \ robbed : p = owner
    BY DEF RunnersHoldTheFile
  <2>2. Running \ robbed \subseteq {owner}
    BY <2>1
  <2>3. IsFiniteSet({owner}) /\ Cardinality({owner}) = 1
    BY FS_Singleton
  <2>4. IsFiniteSet(Running \ robbed) /\ Cardinality(Running \ robbed) <= Cardinality({owner})
    BY <2>2, <2>3, FS_Subset
  <2> QED
    BY <2>3, <2>4 DEF OneUnrobbed
<1> QED
  BY LocksHold, <1>1, PTL

-----------------------------------------------------------------------------
(* Types.                                                                  *)

Ids   == Subjects \X Nat
Cores == [has : SUBSET Elements, count : Nat \cup {None}]

(* Copies of rows under their ids, and of rows to be closed.               *)
RowCopies == [id : Ids, row : Rows]
Copies    == [id : Ids, row : Rows \cup {None}]

Run == [at : {"off", "ground", "adopt", "own", "fetch", "revalidate", "stamp", "close", "insert"},
        bundle : UNION {[S -> Cores] : S \in SUBSET Concepts},
        copies : SUBSET RowCopies, upsert : SUBSET Copies, insert : SUBSET Rows]

StoreOK ==
  /\ catalog \in [Concepts -> {None} \cup SUBSET Elements] /\ data \in [Subjects -> {0, 1}]
  /\ rows \in [DOMAIN rows -> Rows] /\ DOMAIN rows \subseteq Ids /\ IsFiniteSet(DOMAIN rows)
  /\ \A id \in DOMAIN rows :
       rows[id].subject = id[1] /\ (rows[id].owner = None => rows[id].ownerless)

(* What a refresh holds: copies while it revalidates, what it is to write, *)
(* a row of each subject to insert.                                        *)
RunOK(p, r) ==
  /\ r \in Run /\ DOMAIN r.bundle \subseteq Scopes[Mode[p].scope]
  /\ IsFiniteSet(r.copies) /\ IsFiniteSet(r.upsert) /\ IsFiniteSet(r.insert)
  /\ r.at \notin {"revalidate", "stamp"} => r.copies = {}
  /\ r.at \notin {"own", "stamp", "close"} => r.upsert = {}
  /\ r.at \notin {"close", "insert"} => r.insert = {}
  /\ \A k \in r.copies \cup r.upsert : k.row # None => k.row.subject = k.id[1] /\ k.row.owner = p
  /\ r.at = "own" => \A k \in r.upsert : k.row # None /\ k.row.ownerless
  /\ r.at = "close" => \A k \in r.upsert : k.row = None
  /\ \A n \in r.insert : n.owner = p /\ n.subject \in Concepts /\ n.walk /\ ~n.ownerless
  /\ \A m, n \in r.insert : m.subject = n.subject => m = n
  /\ \A j, k \in r.copies : j.row.subject = k.row.subject => j = k

Typed == StoreOK /\ run \in [Tenants -> Run] /\ \A p \in Tenants : RunOK(p, run[p])

-----------------------------------------------------------------------------
(* Tenants.                                                                *)

Held(p) == run[p].copies \cup run[p].upsert

(* Two copies of a row say the same.                                       *)
SameText(r, s) ==
  /\ r.walk = s.walk /\ r.core = s.core /\ r.overlay = s.overlay /\ r.query = s.query
  /\ r.ownerless = s.ownerless

(* A row that p may write over: its own, or one that began without owner.  *)
MayWrite(p, r) == r.owner = p \/ r.ownerless

(* A refresh as p holds copies of rows that are its own or began without   *)
(* an owner, whatever became of them since; and all copies of a row say    *)
(* the same.                                                               *)
HeldAreOwn ==
  \A p \in Tenants : \A k \in Held(p) :
    /\ k.id \in DOMAIN rows =>
         MayWrite(p, rows[k.id]) /\ (k.row # None => SameText(k.row, rows[k.id]))
    /\ \A q \in Tenants : \A h \in Held(q) :
         h.id = k.id /\ h.row # None =>
           MayWrite(p, h.row) /\ (k.row # None => SameText(k.row, h.row))

-----------------------------------------------------------------------------
(* What was learned.                                                       *)

(* What the query of the row returned, if it was run, it returns still.    *)
Fresh(r, s) == r.digest \in {None, Digest(r.query, s)}

(* The row says what o was learned, and nothing has refuted it.            *)
Bears(r, o) ==
  /\ Says(r, o) /\ ~r.ownerless
  /\ o[2] \notin Concepts => ~r.walk /\ Fresh(r, o[2])
  /\ o[2] \in Concepts => r.walk /\ catalog[o[2]] # None /\ Survives(o[3], r.core.has, catalog[o[2]])

(* The bundle of the refresh does not refute it, nor what was lost since.  *)
Passes(r, o) ==
  LET bundle == run[o[1]].bundle IN
  /\ o[2] \in DOMAIN bundle
  /\ Survives(o[3], r.core.has, bundle[o[2]].has)
  /\ Survives(o[3], bundle[o[2]].has, catalog[o[2]])

(* A row that bears o, and outlives what the refresh is about to do.       *)
Safe(id, o) ==
  LET p == o[1] IN
  /\ id \in DOMAIN rows /\ Bears(rows[id], o)
  /\ o[2] \in Concepts /\ Ahead(p, o[2]) => Passes(rows[id], o)
  /\ \A k \in run[p].copies : k.id = id =>
       /\ o[2] \in Concepts /\ o[2] \in Scopes[Mode[p].scope] => Passes(rows[id], o)
       /\ o[2] \notin Concepts => Fresh(k.row, o[2])
  /\ \A k \in run[p].upsert : k.id = id =>
       /\ run[p].at = "close" => \E r \in run[p].insert : Bears(r, o)
       /\ run[p].at # "close" => k.row # None /\ (o[2] \notin Concepts => Fresh(k.row, o[2]))

OwedOK == owed \subseteq Tenants \X Subjects \X Claims

Inserting(o) == run[o[1]].at = "insert" /\ \E r \in run[o[1]].insert : Bears(r, o)

LearnedInv == OwedOK /\ \A o \in owed : Inserting(o) \/ \E id \in DOMAIN rows : Safe(id, o)

-----------------------------------------------------------------------------
(* Identifiers of rows.                                                    *)

(* A copy knows one identifier, so finitely many copies do.                *)
LEMMA IdsOfCopies ==
  ASSUME NEW K, IsFiniteSet(K)
  PROVE  IsFiniteSet({k.id : k \in K})
<1> DEFINE T == {k.id : k \in K}
           f == [k \in K |-> k.id]
<1>1. f \in Surjection(K, T)
  BY DEF Surjection, Range
<1> QED
  BY <1>1, FS_Surjection

(* What is known of identifiers is finite,                                 *)
LEMMA KnownFinite ==
  ASSUME Typed
  PROVE  IsFiniteSet(Known)
<1> DEFINE of(p) == {k.id : k \in run[p].copies \cup run[p].upsert}
           All == {of(p) : p \in Tenants}
           f == [p \in Tenants |-> of(p)]
<1>1. ASSUME NEW p \in Tenants PROVE IsFiniteSet(of(p))
  <2>1. IsFiniteSet(run[p].copies \cup run[p].upsert)
    BY FS_Union DEF Typed, RunOK
  <2> QED
    BY <2>1, IdsOfCopies
<1>2. IsFiniteSet(All)
  <2>1. f \in Surjection(Tenants, All)
    BY DEF Surjection, Range
  <2>2. IsFiniteSet(Tenants)
    BY RefreshAssumption
  <2> QED
    BY <2>1, <2>2, FS_Surjection
<1>3. IsFiniteSet(UNION All)
  <2>1. \A T \in All : IsFiniteSet(T)
    BY <1>1
  <2> HIDE DEF All
  <2> QED
    BY <1>2, <2>1, FS_UNION
<1>4. IsFiniteSet(DOMAIN rows)
  BY DEF Typed, StoreOK
<1>5. Known = DOMAIN rows \cup UNION All
  BY DEF Known
<1> HIDE DEF All
<1> QED
  BY <1>3, <1>4, <1>5, FS_Union

(* so that there is a new one of any subject.                              *)
LEMMA NewIsNew ==
  ASSUME Typed, NEW s \in Subjects
  PROVE  /\ NewId(s) \in Ids /\ NewId(s)[1] = s
         /\ NewId(s) \notin DOMAIN rows
         /\ \A p \in Tenants : \A k \in Held(p) : k.id # NewId(s)
<1> DEFINE N == 1..(Cardinality(Known) + 1)
<1>1. Cardinality(Known) \in Nat /\ IsFiniteSet(Known)
  BY KnownFinite, FS_CardinalityType
<1>2. \E n \in N : <<s, n>> \notin Known
  <2>1. SUFFICES ASSUME \A n \in N : <<s, n>> \in Known PROVE FALSE
    OBVIOUS
  <2>2. IsFiniteSet(N) /\ Cardinality(N) = Cardinality(Known) + 1
    BY <1>1, FS_Interval
  <2> DEFINE f == [n \in N |-> <<s, n>>]
  <2>3. f \in [N -> Known]
    BY <2>1
  <2>4. Cardinality(Known) < Cardinality(N)
    BY <2>2, <1>1
  <2> HIDE DEF f, N
  <2>5. \E x, y \in N : x # y /\ f[x] = f[y]
    BY <2>2, <2>3, <2>4, <1>1, FS_PigeonHole
  <2> QED
    BY <2>5 DEF f
<1> DEFINE n == CHOOSE m \in N : <<s, m>> \notin Known
<1>3. n \in N /\ <<s, n>> \notin Known
  BY <1>2
<1>4. NewId(s) = <<s, n>>
  BY DEF NewId
<1>5. n \in Nat
  BY <1>1, <1>3
<1> HIDE DEF n, N
<1>6. NewId(s) \notin Known
  BY <1>3, <1>4
<1> QED
  BY <1>4, <1>5, <1>6 DEF Ids, Known, Held

-----------------------------------------------------------------------------
(* What an UPSERT and an INSERT make of the rows.                          *)

(* Rows that are not written stay, others are as they were written.        *)
LEMMA UpsertedRows ==
  ASSUME Typed, NEW K \in SUBSET Copies
  PROVE  /\ Upserted(K) \in [DOMAIN Upserted(K) -> Rows]
         /\ DOMAIN Upserted(K) \subseteq DOMAIN rows \cup {k.id : k \in K}
         /\ \A id \in DOMAIN Upserted(K) :
              \/ \E k \in K : k.id = id /\ k.row # None /\ Upserted(K)[id] = k.row
              \/ id \in DOMAIN rows /\ Upserted(K)[id] = rows[id] /\ \A k \in K : k.id # id
         /\ \A id \in DOMAIN rows : (\A k \in K : k.id = id => k.row # None) => id \in DOMAIN Upserted(K)
<1> DEFINE open == {k \in K : k.row # None}
           D == (DOMAIN rows \ {k.id : k \in K}) \cup {k.id : k \in open}
           of(id) == CHOOSE k \in open : k.id = id
           U == [id \in D |-> IF \E k \in open : k.id = id THEN of(id).row ELSE rows[id]]
<1>1. Upserted(K) = U
  BY DEF Upserted
<1>2. ASSUME NEW id \in D, \E k \in open : k.id = id
      PROVE  of(id) \in K /\ of(id).id = id /\ of(id).row # None /\ U[id] = of(id).row /\ of(id).row \in Rows
  <2>1. of(id) \in open /\ of(id).id = id
    BY <1>2
  <2>2. of(id) \in K /\ of(id).row # None
    BY <2>1
  <2>3. of(id).row \in Rows
    BY <2>2 DEF Copies
  <2> QED
    BY <1>2, <2>1, <2>2, <2>3
<1>3. ASSUME NEW id \in D, ~ \E k \in open : k.id = id
      PROVE  id \in DOMAIN rows /\ (\A k \in K : k.id # id) /\ U[id] = rows[id]
  BY <1>3
<1>4. \A id \in D : U[id] \in Rows
  <2> TAKE id \in D
  <2>1. id \in DOMAIN rows => rows[id] \in Rows
    BY DEF Typed, StoreOK
  <2>2. CASE \E k \in open : k.id = id
    BY <2>2, <1>2
  <2>3. CASE ~ \E k \in open : k.id = id
    BY <2>1, <2>3, <1>3
  <2> QED
    BY <2>2, <2>3
<1>5. \A id \in D :
         \/ \E k \in K : k.id = id /\ k.row # None /\ U[id] = k.row
         \/ id \in DOMAIN rows /\ U[id] = rows[id] /\ \A k \in K : k.id # id
  <2> TAKE id \in D
  <2>2. CASE \E k \in open : k.id = id
    BY <2>2, <1>2
  <2>3. CASE ~ \E k \in open : k.id = id
    BY <2>3, <1>3
  <2> QED
    BY <2>2, <2>3
<1>6. DOMAIN U = D
  OBVIOUS
<1>7. D \subseteq DOMAIN rows \cup {k.id : k \in K}
  OBVIOUS
<1>8. \A id \in DOMAIN rows : (\A k \in K : k.id = id => k.row # None) => id \in D
  OBVIOUS
<1>9. U \in [D -> Rows]
  BY <1>4
<1> HIDE DEF U, D, of
<1> QED
  BY <1>1, <1>5, <1>6, <1>7, <1>8, <1>9

(* Without the row under an identifier.                                    *)
LEMMA ClosedRow ==
  ASSUME Typed, NEW id \in DOMAIN rows
  PROVE  /\ DOMAIN Upserted({Closed(Copy(id))}) = DOMAIN rows \ {id}
         /\ \A i \in DOMAIN rows \ {id} : Upserted({Closed(Copy(id))})[i] = rows[i]
<1>1. Closed(Copy(id)) = [id |-> id, row |-> None]
  BY DEF Closed, Copy
<1> QED
  BY <1>1 DEF Upserted

(* Old rows stay, and each new one is under a new identifier.              *)
LEMMA InsertedRows ==
  ASSUME Typed, NEW kept, DOMAIN kept \subseteq DOMAIN rows, NEW new \in SUBSET Rows,
         \A m, n \in new : m.subject = n.subject => m = n
  PROVE  /\ DOMAIN Inserted(kept, new) = DOMAIN kept \cup {NewId(r.subject) : r \in new}
         /\ \A id \in DOMAIN kept : Inserted(kept, new)[id] = kept[id]
         /\ \A r \in new : Inserted(kept, new)[NewId(r.subject)] = r
<1> DEFINE D == DOMAIN kept \cup {NewId(r.subject) : r \in new}
<1>1. Inserted(kept, new) = [id \in D |-> IF id \in DOMAIN kept THEN kept[id]
                                         ELSE CHOOSE r \in new : r.subject = id[1]]
  BY DEF Inserted
<1>2. ASSUME NEW r \in new
      PROVE  /\ NewId(r.subject) \in D \ DOMAIN kept
             /\ (CHOOSE s \in new : s.subject = NewId(r.subject)[1]) = r
  <2>1. r.subject \in Subjects
    BY DEF Rows
  <2>2. NewId(r.subject)[1] = r.subject /\ NewId(r.subject) \notin DOMAIN rows
    BY <2>1, NewIsNew
  <2>3. \A s \in new : s.subject = r.subject => s = r
    OBVIOUS
  <2> QED
    BY <2>2, <2>3
<1> HIDE DEF D
<1>3. \A id \in DOMAIN kept : id \in D
  BY DEF D
<1>4. \A r \in new : Inserted(kept, new)[NewId(r.subject)] = r
  BY <1>1, <1>2
<1> QED
  BY <1>1, <1>3, <1>4 DEF D

(* A function of a finite set has finitely many values.                    *)
LEMMA NewIdsFinite ==
  ASSUME NEW new, IsFiniteSet(new)
  PROVE  IsFiniteSet({NewId(r.subject) : r \in new})
<1> DEFINE f == [r \in new |-> NewId(r.subject)]
           T == {NewId(r.subject) : r \in new}
<1>1. f \in Surjection(new, T)
  BY DEF Surjection, Range
<1> QED
  BY <1>1, FS_Surjection

(* An UPSERT keeps the types of the store,                                 *)
LEMMA UpsertTypes ==
  ASSUME Typed, NEW K \in SUBSET Copies, IsFiniteSet(K),
         \A k \in K : k.row # None => k.row.subject = k.id[1] /\ k.row.owner \in Tenants,
         rows' = Upserted(K), UNCHANGED <<catalog, data>>
  PROVE  StoreOK'
<1>1. /\ rows' \in [DOMAIN rows' -> Rows]
      /\ DOMAIN rows' \subseteq DOMAIN rows \cup {k.id : k \in K}
      /\ \A id \in DOMAIN rows' :
              \/ \E k \in K : k.id = id /\ k.row # None /\ rows'[id] = k.row
              \/ id \in DOMAIN rows /\ rows'[id] = rows[id]
  BY UpsertedRows
<1>2. {k.id : k \in K} \subseteq Ids
  BY DEF Copies
<1>3. DOMAIN rows \subseteq Ids
  BY DEF Typed, StoreOK
<1>4. IsFiniteSet(DOMAIN rows')
  <2>1. IsFiniteSet({k.id : k \in K}) /\ IsFiniteSet(DOMAIN rows)
    BY IdsOfCopies DEF Typed, StoreOK
  <2>2. IsFiniteSet(DOMAIN rows \cup {k.id : k \in K})
    BY <2>1, FS_Union
  <2> QED
    BY <1>1, <2>2, FS_Subset
<1>5. \A id \in DOMAIN rows' : rows'[id].subject = id[1] /\ (rows'[id].owner = None => rows'[id].ownerless)
  BY <1>1, RefreshAssumption DEF Typed, StoreOK
<1>6. catalog' \in [Concepts -> {None} \cup SUBSET Elements] /\ data' \in [Subjects -> {0, 1}]
  BY DEF Typed, StoreOK
<1> QED
  BY <1>1, <1>2, <1>3, <1>4, <1>5, <1>6 DEF StoreOK

(* and so does an INSERT, after one row was closed or without that.        *)
LEMMA InsertTypes ==
  ASSUME Typed, NEW kept, DOMAIN kept \subseteq DOMAIN rows, \A id \in DOMAIN kept : kept[id] = rows[id],
         NEW new \in SUBSET Rows, IsFiniteSet(new),
         \A m, n \in new : m.subject = n.subject => m = n,
         \A n \in new : n.owner \in Tenants,
         rows' = Inserted(kept, new), UNCHANGED <<catalog, data>>
  PROVE  StoreOK'
<1>1. /\ DOMAIN rows' = DOMAIN kept \cup {NewId(r.subject) : r \in new}
      /\ \A id \in DOMAIN kept : rows'[id] = rows[id]
      /\ \A r \in new : rows'[NewId(r.subject)] = r
  <2> DEFINE I == Inserted(kept, new)
  <2>1. /\ DOMAIN I = DOMAIN kept \cup {NewId(r.subject) : r \in new}
        /\ \A id \in DOMAIN kept : I[id] = kept[id]
        /\ \A r \in new : I[NewId(r.subject)] = r
    BY InsertedRows
  <2> HIDE DEF I
  <2>2. rows' = I
    BY DEF I
  <2> QED
    BY <2>1, <2>2
<1>2. \A r \in new : r.subject \in Subjects /\ NewId(r.subject) \in Ids /\ NewId(r.subject)[1] = r.subject
  BY NewIsNew DEF Rows
<1>3. /\ rows \in [DOMAIN rows -> Rows] /\ DOMAIN rows \subseteq Ids /\ IsFiniteSet(DOMAIN rows)
      /\ \A id \in DOMAIN rows : rows[id].subject = id[1] /\ (rows[id].owner = None => rows[id].ownerless)
  BY DEF Typed, StoreOK
<1>4. rows' = [id \in DOMAIN rows' |-> rows'[id]]
  BY DEF Inserted
<1>5. \A id \in DOMAIN rows' : rows'[id] \in Rows
  BY <1>1, <1>3
<1>6. rows' \in [DOMAIN rows' -> Rows]
  BY <1>4, <1>5
<1>7. DOMAIN rows' \subseteq Ids
  BY <1>1, <1>2, <1>3
<1>8. IsFiniteSet(DOMAIN rows')
  <2>1. IsFiniteSet(DOMAIN kept)
    BY <1>3, FS_Subset
  <2>2. IsFiniteSet({NewId(r.subject) : r \in new})
    BY NewIdsFinite
  <2>3. IsFiniteSet(DOMAIN kept \cup {NewId(r.subject) : r \in new})
    BY <2>1, <2>2, FS_Union
  <2> QED
    BY <1>1, <2>3
<1>9. \A id \in DOMAIN rows' : rows'[id].subject = id[1] /\ (rows'[id].owner = None => rows'[id].ownerless)
  BY <1>1, <1>2, <1>3, RefreshAssumption
<1>10. catalog' \in [Concepts -> {None} \cup SUBSET Elements] /\ data' \in [Subjects -> {0, 1}]
  BY DEF Typed, StoreOK
<1> QED
  BY <1>6, <1>7, <1>8, <1>9, <1>10 DEF StoreOK

-----------------------------------------------------------------------------
(* Types of what a refresh holds.                                          *)

(* Nothing.                                                                *)
LEMMA NoRunOK ==
  ASSUME NEW p \in Tenants
  PROVE  RunOK(p, NoRun) /\ NoRun \in Run
<1>1. EmptyMap \in [{} -> Cores] /\ DOMAIN EmptyMap = {}
  BY DEF EmptyMap
<1>2. NoRun \in Run
  BY <1>1 DEF NoRun, Run
<1>3. IsFiniteSet({})
  BY FS_EmptySet
<1> QED
  BY <1>1, <1>2, <1>3 DEF RunOK, NoRun

(* A refresh that takes its next step.                                     *)
LEMMA RunsSet ==
  ASSUME Typed, NEW p \in Tenants, NEW r, RunOK(p, r), run' = [run EXCEPT ![p] = r]
  PROVE  run' \in [Tenants -> Run] /\ \A q \in Tenants : RunOK(q, run'[q])
<1>1. r \in Run
  BY DEF RunOK
<1> QED
  BY <1>1 DEF Typed

(* The bundle of the catalog.                                              *)
LEMMA FetchBundleOK ==
  ASSUME Typed, NEW p \in Tenants, FetchBundle(p)
  PROVE  run' \in [Tenants -> Run] /\ \A q \in Tenants : RunOK(q, run'[q])
<1> DEFINE S == {y \in Scopes[Mode[p].scope] : catalog[y] # None}
           B == [x \in S |-> [has |-> catalog[x], count |-> None]]
           r == [NoRun EXCEPT !.at = IF Mode[p].ground THEN "ground" ELSE "adopt", !.bundle = B]
<1>1. run' = [run EXCEPT ![p] = r]
  BY DEF FetchBundle
<1>2. S \in SUBSET Concepts
  BY RefreshAssumption
<1>3. B \in [S -> Cores]
  BY <1>2 DEF Typed, StoreOK, Cores
<1>4. RunOK(p, r)
  <2>1. r \in Run
    BY <1>2, <1>3 DEF Run, NoRun
  <2>2. DOMAIN r.bundle \subseteq Scopes[Mode[p].scope]
    BY DEF NoRun
  <2>3. r.copies = {} /\ r.upsert = {} /\ r.insert = {} /\ r.at \in {"ground", "adopt"}
    BY DEF NoRun
  <2>4. IsFiniteSet({})
    BY FS_EmptySet
  <2> HIDE DEF r
  <2> QED
    BY <2>1, <2>2, <2>3, <2>4 DEF RunOK
<1> HIDE DEF r
<1> QED
  BY <1>1, <1>4, RunsSet

(* Grounding counts, and leaves the elements as they are.                  *)
LEMMA GroundOK ==
  ASSUME Typed, NEW p \in Tenants, Ground(p)
  PROVE  /\ run' \in [Tenants -> Run] /\ \A q \in Tenants : RunOK(q, run'[q])
         /\ run'[p].at = "adopt" /\ DOMAIN run'[p].bundle = DOMAIN run[p].bundle
         /\ \A x \in DOMAIN run[p].bundle : run'[p].bundle[x].has = run[p].bundle[x].has
         /\ run'[p].copies = {} /\ run'[p].upsert = {}
<1>1. PICK failed \in SUBSET DOMAIN run[p].bundle :
        run' = [run EXCEPT ![p].at = "adopt",
            ![p].bundle = [x \in DOMAIN @ |-> IF x \in failed THEN @[x] ELSE [@[x] EXCEPT !.count = data[x]]]]
  BY DEF Ground
<1>2. run[p] \in Run /\ run \in [Tenants -> Run] /\ RunOK(p, run[p])
  BY DEF Typed
<1> DEFINE b == run[p].bundle
           B == [x \in DOMAIN b |-> IF x \in failed THEN b[x] ELSE [b[x] EXCEPT !.count = data[x]]]
           r == [run[p] EXCEPT !.at = "adopt", !.bundle = B]
<1>3. run' = [run EXCEPT ![p] = r]
  BY <1>1, <1>2
<1>4. PICK S \in SUBSET Concepts : b \in [S -> Cores]
  BY <1>2 DEF Run
<1>5. B \in [S -> Cores] /\ \A x \in S : B[x].has = b[x].has
  <2>1. \A x \in S : b[x] \in Cores /\ data[x] \in Nat
    <3>1. S \subseteq Subjects
      BY RefreshAssumption
    <3> QED
      BY <1>4, <3>1 DEF Typed, StoreOK
  <2> QED
    BY <2>1, <1>4, SMTT(30) DEF Cores
<1>6. r \in Run /\ r.bundle = B /\ r.at = "adopt" /\ r.copies = {} /\ r.upsert = {} /\ r.insert = {}
  <2>1. run[p].copies = {} /\ run[p].upsert = {} /\ run[p].insert = {}
    BY <1>2 DEF RunOK, Ground
  <2> HIDE DEF B
  <2> QED
    BY <1>2, <1>5, <2>1 DEF Run
<1>7. DOMAIN B = DOMAIN b /\ DOMAIN b \subseteq Scopes[Mode[p].scope] /\ DOMAIN b = S
  BY <1>2, <1>4 DEF RunOK
<1>8. IsFiniteSet({})
  BY FS_EmptySet
<1> HIDE DEF r, B
<1>9. RunOK(p, r)
  BY <1>6, <1>7, <1>8 DEF RunOK
<1>10. run'[p] = r
  BY <1>2, <1>3
<1> QED
  BY <1>3, <1>5, <1>6, <1>7, <1>9, <1>10, RunsSet

(* A copy of a row.                                                        *)
LEMMA CopyOf ==
  ASSUME Typed, NEW id \in DOMAIN rows
  PROVE  /\ Copy(id) \in RowCopies /\ Copy(id).id = id /\ Copy(id).row = rows[id]
         /\ rows[id].subject = id[1]
BY DEF Copy, RowCopies, Typed, StoreOK

(* Copies of finitely many rows are finitely many.                         *)
LEMMA CopiesFinite ==
  ASSUME NEW I, IsFiniteSet(I), NEW f, DOMAIN f = I
  PROVE  IsFiniteSet({f[id] : id \in I})
<1> DEFINE g == [id \in I |-> f[id]]
           T == {f[id] : id \in I}
<1>1. g \in Surjection(I, T)
  BY DEF Surjection, Range
<1> QED
  BY <1>1, FS_Surjection

(* The rows without an owner, as they are to be written.                   *)
LEMMA ReadUnownedOK ==
  ASSUME Typed, NEW p \in Tenants, ReadUnowned(p)
  PROVE  /\ run' \in [Tenants -> Run] /\ \A q \in Tenants : RunOK(q, run'[q])
         /\ run'[p].at \in {"own", "fetch"} /\ run'[p].bundle = run[p].bundle
         /\ run'[p].copies = {} /\ run'[p].insert = {}
         /\ \A k \in run'[p].upsert :
              /\ k.id \in DOMAIN rows /\ rows[k.id].owner = None
              /\ k.row = [rows[k.id] EXCEPT !.owner = p]
<1> DEFINE unowned == {id \in DOMAIN rows : rows[id].owner = None}
           f == [id \in unowned |-> [Copy(id) EXCEPT !.row.owner = p]]
           U == {f[id] : id \in unowned}
           a == IF unowned = {} THEN "fetch" ELSE "own"
           r == [run[p] EXCEPT !.at = a, !.upsert = U]
<1>1. run[p] \in Run /\ run \in [Tenants -> Run] /\ RunOK(p, run[p])
  BY DEF Typed
<1>2. U = {[Copy(id) EXCEPT !.row.owner = p] : id \in unowned}
  OBVIOUS
<1>3. run' = [run EXCEPT ![p] = r]
  <2>1. run' = [run EXCEPT ![p].at = a, ![p].upsert = U]
    BY <1>2 DEF ReadUnowned
  <2> HIDE DEF U, a
  <2> QED
    BY <2>1, <1>1
<1>4. \A id \in unowned : f[id] = [id |-> id, row |-> [rows[id] EXCEPT !.owner = p]]
  BY DEF Copy
<1>5. ASSUME NEW id \in unowned
      PROVE  /\ f[id] \in Copies /\ f[id].id = id /\ f[id].row = [rows[id] EXCEPT !.owner = p]
             /\ f[id].row # None /\ f[id].row.ownerless /\ f[id].row.owner = p /\ f[id].row.subject = id[1]
  <2>1. rows[id] \in Rows /\ id \in Ids /\ rows[id].ownerless /\ rows[id].subject = id[1]
    BY DEF Typed, StoreOK
  <2>2. [rows[id] EXCEPT !.owner = p] \in Rows
    BY <2>1 DEF Rows
  <2>3. /\ [rows[id] EXCEPT !.owner = p].ownerless /\ [rows[id] EXCEPT !.owner = p].owner = p
        /\ [rows[id] EXCEPT !.owner = p].subject = id[1]
    BY <2>1 DEF Rows
  <2>4. [rows[id] EXCEPT !.owner = p] # None
    BY <2>2, RefreshAssumption
  <2>5. f[id] = [id |-> id, row |-> [rows[id] EXCEPT !.owner = p]]
    BY <1>4
  <2>6. PICK e : e = [rows[id] EXCEPT !.owner = p]
    OBVIOUS
  <2>7. e \in Rows /\ e # None /\ e.ownerless /\ e.owner = p /\ e.subject = id[1]
    BY <2>2, <2>3, <2>4, <2>6
  <2> HIDE DEF f, unowned
  <2>8. f[id] = [id |-> id, row |-> e]
    BY <2>5, <2>6
  <2>9. f[id] \in Copies
    BY <2>1, <2>7, <2>8 DEF Copies
  <2>10. f[id].id = id /\ f[id].row = e
    BY <2>8
  <2> QED
    BY <2>6, <2>7, <2>9, <2>10
<1>6. IsFiniteSet(U)
  <2>1. IsFiniteSet(unowned)
    BY FS_Subset DEF Typed, StoreOK
  <2>2. DOMAIN f = unowned
    OBVIOUS
  <2> HIDE DEF f, unowned
  <2> QED
    BY <2>1, <2>2, CopiesFinite
<1>7. \A k \in U : \E id \in unowned : k = f[id]
  OBVIOUS
<1>8. a \in {"own", "fetch"} /\ (a = "fetch" => U = {})
  OBVIOUS
<1>9. run[p].at = "adopt"
  BY DEF ReadUnowned
<1>10. run[p].copies = {} /\ run[p].insert = {}
  BY <1>1, <1>9 DEF RunOK
<1> HIDE DEF f, a, U
<1>11. U \subseteq Copies
  BY <1>5, <1>7
<1>12. /\ r \in Run /\ r.at = a /\ r.copies = {} /\ r.insert = {} /\ r.upsert = U
       /\ r.bundle = run[p].bundle
  BY <1>1, <1>8, <1>10, <1>11 DEF Run
<1>13. \A k \in U : k.row # None /\ k.row.ownerless /\ k.row.owner = p /\ k.row.subject = k.id[1]
  <2> TAKE k \in U
  <2>1. PICK id \in unowned : k = f[id]
    BY <1>7
  <2> QED
    BY <1>5, <2>1
<1>14. IsFiniteSet({})
  BY FS_EmptySet
<1> HIDE DEF r
<1>15. RunOK(p, r)
  BY <1>1, <1>6, <1>8, <1>12, <1>13, <1>14 DEF RunOK
<1>16. run'[p] = r
  BY <1>1, <1>3
<1>17. \A k \in U : /\ k.id \in DOMAIN rows /\ rows[k.id].owner = None
                    /\ k.row = [rows[k.id] EXCEPT !.owner = p]
  <2> TAKE k \in U
  <2>1. PICK id \in unowned : k = f[id]
    BY <1>7
  <2> QED
    BY <1>5, <2>1
<1> QED
  BY <1>3, <1>8, <1>12, <1>15, <1>16, <1>17, RunsSet

(* The concept of a tenant with a core and an overlay.                     *)
LEMMA ConceptRow ==
  ASSUME NEW p \in Tenants, NEW x \in Concepts, NEW core \in Cores, NEW overlay \in SUBSET Claims
  PROVE  LET c == Concept(x, p, core, overlay) IN
         /\ c \in Rows /\ c.subject = x /\ c.owner = p /\ c.walk /\ ~c.ownerless
         /\ c.core = core /\ c.overlay = overlay
<1>1. p # None /\ x \in Subjects
  BY RefreshAssumption
<1>2. PICK c : c = Concept(x, p, core, overlay)
  OBVIOUS
<1>3. c = [subject |-> x, owner |-> p, walk |-> TRUE, core |-> core, overlay |-> overlay,
           query |-> None, digest |-> None, ownerless |-> FALSE]
  BY <1>1, <1>2 DEF Concept
<1>4. c \in Rows
  BY <1>1, <1>3 DEF Rows, Cores
<1> QED
  BY <1>2, <1>3, <1>4

(* What a copy of a concept gives way to.                                  *)
LEMMA SuccessorRow ==
  ASSUME Typed, NEW p \in Tenants, NEW x \in DOMAIN run[p].bundle, NEW k \in RowCopies
  PROVE  LET s == Successor(p, x, k) IN
         /\ x \in Concepts /\ run[p].bundle[x] \in Cores
         /\ s \in Rows /\ s.subject = x /\ s.owner = p /\ s.walk /\ ~s.ownerless
         /\ s.core = run[p].bundle[x]
         /\ k.row.walk => s.overlay = Regrounded(k.row.overlay, k.row.core.has, run[p].bundle[x].has)
<1>1. PICK S \in SUBSET Concepts : run[p].bundle \in [S -> Cores]
  <2>1. run[p] \in Run
    BY DEF Typed
  <2>2. run[p].bundle \in UNION {[S -> Cores] : S \in SUBSET Concepts}
    BY <2>1 DEF Run
  <2> QED
    BY <2>2
<1>2. x \in Concepts /\ run[p].bundle[x] \in Cores
  BY <1>1
<1> DEFINE o == IF k.row.walk THEN Regrounded(k.row.overlay, k.row.core.has, run[p].bundle[x].has) ELSE {}
<1>3. o \in SUBSET Claims
  BY DEF Regrounded, RowCopies, Rows
<1>4. Successor(p, x, k) = Concept(x, p, run[p].bundle[x], o)
  BY DEF Successor
<1>5. k.row.walk => o = Regrounded(k.row.overlay, k.row.core.has, run[p].bundle[x].has)
  OBVIOUS
<1> HIDE DEF o
<1>6. LET c == Concept(x, p, run[p].bundle[x], o) IN
         /\ c \in Rows /\ c.subject = x /\ c.owner = p /\ c.walk /\ ~c.ownerless
         /\ c.core = run[p].bundle[x] /\ c.overlay = o
  BY <1>2, <1>3, ConceptRow
<1> QED
  BY <1>2, <1>4, <1>5, <1>6

(* Copies of rows of a tenant, of each subject one.                        *)
CopiesOf(p, S) ==
  /\ S \subseteq RowCopies /\ IsFiniteSet(S)
  /\ \A k \in S : k.row.subject = k.id[1] /\ k.row.owner = p
  /\ \A j, k \in S : j.row.subject = k.row.subject => j = k

(* What reconcile is to insert: a successor of each changed copy, and the  *)
(* new concepts, no two of one subject.                                    *)
Successors(p, S) == {Successor(p, k.row.subject, k) : k \in Changed(p, S)}
Arrivals(p, S)   == {Concept(x, p, run[p].bundle[x], {}) : x \in New(p, S)}

(* They are rows of the tenant.                                            *)
LEMMA InsertRows ==
  ASSUME Typed, NEW p \in Tenants, NEW S, CopiesOf(p, S)
  PROVE  \A n \in Successors(p, S) \cup Arrivals(p, S) :
           n \in Rows /\ n.owner = p /\ n.subject \in Concepts /\ n.walk /\ ~n.ownerless
<1>1. ASSUME NEW k \in Changed(p, S)
      PROVE  LET n == Successor(p, k.row.subject, k) IN
             n \in Rows /\ n.owner = p /\ n.subject \in Concepts /\ n.walk /\ ~n.ownerless
  <2>1. k \in RowCopies /\ k.row.subject \in DOMAIN run[p].bundle
    BY DEF Changed, CopiesOf
  <2> QED
    BY <2>1, SuccessorRow
<1>2. ASSUME NEW x \in New(p, S)
      PROVE  LET n == Concept(x, p, run[p].bundle[x], {}) IN
             n \in Rows /\ n.owner = p /\ n.subject \in Concepts /\ n.walk /\ ~n.ownerless
  <2>1. PICK D \in SUBSET Concepts : run[p].bundle \in [D -> Cores]
    BY DEF Typed, Run
  <2>2. x \in Concepts /\ run[p].bundle[x] \in Cores
    BY <2>1 DEF New
  <2> QED
    BY <2>2, ConceptRow
<1> QED
  BY <1>1, <1>2 DEF Successors, Arrivals

(* No two are of one subject.                                              *)
LEMMA InsertOnePerSubject ==
  ASSUME Typed, NEW p \in Tenants, NEW S, CopiesOf(p, S),
         NEW m \in Successors(p, S) \cup Arrivals(p, S), NEW n \in Successors(p, S) \cup Arrivals(p, S),
         m.subject = n.subject
  PROVE  m = n
<1>1. ASSUME NEW r \in Successors(p, S)
      PROVE  \E k \in Changed(p, S) : k \in S /\ r = Successor(p, k.row.subject, k) /\ r.subject = k.row.subject
  <2>1. PICK k \in Changed(p, S) : r = Successor(p, k.row.subject, k)
    BY DEF Successors
  <2>2. k \in S /\ k \in RowCopies /\ k.row.subject \in DOMAIN run[p].bundle
    BY DEF Changed, CopiesOf
  <2>3. Successor(p, k.row.subject, k).subject = k.row.subject
    BY <2>2, SuccessorRow
  <2> QED
    BY <2>1, <2>2, <2>3
<1>2. ASSUME NEW r \in Arrivals(p, S)
      PROVE  r = Concept(r.subject, p, run[p].bundle[r.subject], {}) /\ r.subject \in New(p, S)
  BY DEF Arrivals, Concept
<1>3. \A x \in New(p, S) : \A k \in S : k.row.subject # x
  BY DEF New
<1>4. CASE m \in Successors(p, S)
  <2>1. PICK j \in Changed(p, S) : j \in S /\ m = Successor(p, j.row.subject, j) /\ m.subject = j.row.subject
    BY <1>1, <1>4
  <2>2. n \in Successors(p, S)
    BY <2>1, <1>2, <1>3
  <2>3. PICK k \in Changed(p, S) : k \in S /\ n = Successor(p, k.row.subject, k) /\ n.subject = k.row.subject
    BY <1>1, <2>2
  <2>4. j = k
    BY <2>1, <2>3 DEF CopiesOf
  <2> QED
    BY <2>1, <2>3, <2>4
<1>5. CASE m \in Arrivals(p, S)
  <2>1. m.subject \in New(p, S)
    BY <1>2, <1>5
  <2>2. n \in Arrivals(p, S)
    BY <2>1, <1>1, <1>3
  <2> QED
    BY <1>2, <1>5, <2>2
<1> QED
  BY <1>4, <1>5

(* And they are finitely many.                                             *)
LEMMA InsertFinite ==
  ASSUME Typed, NEW p \in Tenants, NEW S, CopiesOf(p, S)
  PROVE  IsFiniteSet(Successors(p, S) \cup Arrivals(p, S))
<1> DEFINE f == [k \in Changed(p, S) |-> Successor(p, k.row.subject, k)]
           g == [x \in New(p, S) |-> Concept(x, p, run[p].bundle[x], {})]
<1>1. IsFiniteSet(Changed(p, S))
  <2>1. Changed(p, S) \subseteq S
    BY DEF Changed
  <2> QED
    BY <2>1, FS_Subset DEF CopiesOf
<1>2. IsFiniteSet(New(p, S))
  <2>1. New(p, S) \subseteq Subjects
    BY RefreshAssumption DEF New, Typed, RunOK
  <2>2. IsFiniteSet(Subjects)
    BY RefreshAssumption
  <2> QED
    BY <2>1, <2>2, FS_Subset
<1>3. f \in Surjection(Changed(p, S), Successors(p, S))
  BY DEF Surjection, Range, Successors
<1>4. g \in Surjection(New(p, S), Arrivals(p, S))
  BY DEF Surjection, Range, Arrivals
<1>5. IsFiniteSet(Successors(p, S)) /\ IsFiniteSet(Arrivals(p, S))
  BY <1>1, <1>2, <1>3, <1>4, FS_Surjection
<1> QED
  BY <1>5, FS_Union

(* So what comes of reconcile is well typed: copies to close that changed  *)
(* or vanished, successors to insert.                                      *)
LEMMA ReconciledOK ==
  ASSUME Typed, NEW p \in Tenants, NEW S, CopiesOf(p, S)
  PROVE  LET r == Reconciled(p, S) IN
         /\ RunOK(p, r) /\ r.at \in {"off", "close", "insert"} /\ r.copies = {}
         /\ \A k \in r.upsert : k.row = None /\ \E j \in Changed(p, S) \cup Vanished(p, S) : k.id = j.id
         /\ \A k \in Changed(p, S) : Successor(p, k.row.subject, k) \in r.insert
         /\ r.upsert # {} => r.at = "close"
<1> DEFINE U == {Closed(k) : k \in Changed(p, S) \cup Vanished(p, S)}
           I == Successors(p, S) \cup Arrivals(p, S)
           a == IF U = {} THEN "insert" ELSE "close"
           e == [NoRun EXCEPT !.at = a, !.upsert = U, !.insert = I]
<1>1. Reconciled(p, S) = IF U \cup I = {} THEN NoRun ELSE e
  BY DEF Reconciled, Successors, Arrivals
<1>2. \A k \in Changed(p, S) \cup Vanished(p, S) : k \in S /\ k \in RowCopies
  BY DEF Changed, Vanished, CopiesOf
<1>3. ASSUME NEW k \in Changed(p, S) \cup Vanished(p, S)
      PROVE  Closed(k) \in Copies /\ Closed(k).id = k.id /\ Closed(k).row = None
  <2>1. k \in RowCopies
    BY <1>2
  <2>2. Closed(k) = [id |-> k.id, row |-> None] /\ k.id \in Ids
    BY <2>1 DEF Closed, RowCopies
  <2> QED
    BY <2>2 DEF Copies
<1>4. \A k \in U : k \in Copies /\ k.row = None /\ \E j \in Changed(p, S) \cup Vanished(p, S) : k.id = j.id
  BY <1>3
<1>5. IsFiniteSet(U)
  <2> DEFINE J == Changed(p, S) \cup Vanished(p, S)
             f == [k \in J |-> Closed(k)]
  <2>1. IsFiniteSet(J)
    BY <1>2, FS_Subset DEF CopiesOf
  <2>2. f \in Surjection(J, U)
    BY DEF Surjection, Range
  <2> QED
    BY <2>1, <2>2, FS_Surjection
<1>6. /\ I \subseteq Rows /\ IsFiniteSet(I)
      /\ \A n \in I : n.owner = p /\ n.subject \in Concepts /\ n.walk /\ ~n.ownerless
      /\ \A m, n \in I : m.subject = n.subject => m = n
  BY InsertRows, InsertOnePerSubject, InsertFinite
<1>7. \A k \in Changed(p, S) : Successor(p, k.row.subject, k) \in I
  BY DEF Successors
<1>8. a \in {"insert", "close"} /\ (U # {} => a = "close") /\ (U = {} => a # "close")
  OBVIOUS
<1>9. U \subseteq Copies /\ \A k \in U : k.row = None
  BY <1>4
<1> HIDE DEF U, I, a
<1>10. /\ e \in Run /\ e.at = a /\ e.upsert = U /\ e.insert = I /\ e.copies = {} /\ DOMAIN e.bundle = {}
  <2>1. NoRun \in Run /\ NoRun.copies = {} /\ DOMAIN NoRun.bundle = {}
    BY NoRunOK DEF NoRun, EmptyMap
  <2> QED
    BY <2>1, <1>6, <1>8, <1>9 DEF Run
<1> HIDE DEF e
<1>11. IsFiniteSet({})
  BY FS_EmptySet
<1>12. RunOK(p, e)
  BY <1>5, <1>6, <1>8, <1>9, <1>10, <1>11 DEF RunOK
<1>13. CASE U \cup I = {}
  <2>1. Reconciled(p, S) = NoRun /\ U = {} /\ I = {}
    BY <1>1, <1>13
  <2>2. Changed(p, S) = {}
    BY <1>7, <2>1
  <2>3. NoRun.at = "off" /\ NoRun.copies = {} /\ NoRun.upsert = {}
    BY DEF NoRun
  <2> QED
    BY <2>1, <2>2, <2>3, NoRunOK
<1>14. CASE U \cup I # {}
  <2>1. Reconciled(p, S) = e
    BY <1>1, <1>14
  <2> QED
    BY <2>1, <1>4, <1>7, <1>8, <1>10, <1>12
<1> QED
  BY <1>13, <1>14

(* What is kept while a refresh revalidates.                               *)
LEMMA HeldCopies ==
  ASSUME Typed, NEW p \in Tenants, NEW S \in SUBSET run[p].copies
  PROVE  CopiesOf(p, S)
<1>1. RunOK(p, run[p]) /\ run[p] \in Run
  BY DEF Typed
<1>2. run[p].copies \subseteq RowCopies
  BY <1>1 DEF Run
<1>3. \A k \in run[p].copies : k.row \in Rows /\ k.row # None
  BY <1>2, RefreshAssumption DEF RowCopies
<1>4. IsFiniteSet(S)
  BY <1>1, FS_Subset DEF RunOK
<1> QED
  BY <1>1, <1>2, <1>3, <1>4 DEF CopiesOf, RunOK

(* The read of the rows: one of each subject, of the tenant.               *)
LEMMA FetchCurrentIs ==
  ASSUME Typed, NEW p \in Tenants, FetchCurrent(p)
  PROVE  \E S \in SUBSET RowCopies :
           /\ CopiesOf(p, S)
           /\ \A k \in S : k.id \in DOMAIN rows /\ rows[k.id].owner = p /\ k.row = rows[k.id]
           /\ run' = [run EXCEPT ![p] = IF Mode[p].revalidate
                                        THEN [run[p] EXCEPT !.at = "revalidate", !.copies = S]
                                        ELSE Reconciled(p, S)]
<1> DEFINE M == {i \in DOMAIN rows : Mine(p, rows[i])}
<1>1. PICK ids \in OnePerSubject(M) :
        run' = [run EXCEPT ![p] =
          IF Mode[p].revalidate THEN [@ EXCEPT !.at = "revalidate", !.copies = {Copy(id) : id \in ids}]
          ELSE Reconciled(p, {Copy(id) : id \in ids})]
  BY DEF FetchCurrent
<1> DEFINE S == {Copy(id) : id \in ids}
<1>2. /\ ids \subseteq DOMAIN rows /\ \A id \in ids : rows[id].owner = p
      /\ \A i, j \in ids : i[1] = j[1] => i = j
  BY DEF OnePerSubject, Mine
<1>3. ASSUME NEW id \in ids
      PROVE  /\ Copy(id) \in RowCopies /\ Copy(id).id = id /\ Copy(id).row = rows[id]
             /\ rows[id].subject = id[1]
  BY <1>2, CopyOf
<1>4. IsFiniteSet(S)
  <2> DEFINE f == [id \in ids |-> Copy(id)]
  <2>1. IsFiniteSet(ids)
    BY <1>2, FS_Subset DEF Typed, StoreOK
  <2>2. f \in Surjection(ids, S)
    BY DEF Surjection, Range
  <2> QED
    BY <2>1, <2>2, FS_Surjection
<1>5. \A k \in S : \E id \in ids : k = Copy(id)
  OBVIOUS
<1>6. run \in [Tenants -> Run]
  BY DEF Typed
<1>7. run' = [run EXCEPT ![p] = IF Mode[p].revalidate
                               THEN [run[p] EXCEPT !.at = "revalidate", !.copies = S]
                               ELSE Reconciled(p, S)]
  BY <1>1, <1>6
<1> HIDE DEF S
<1>8. S \subseteq RowCopies
  BY <1>3, <1>5
<1>9. \A k \in S : k.id \in DOMAIN rows /\ rows[k.id].owner = p /\ k.row = rows[k.id] /\ k.row.subject = k.id[1]
  <2> TAKE k \in S
  <2>1. PICK id \in ids : k = Copy(id)
    BY <1>5
  <2> QED
    BY <1>2, <1>3, <2>1
<1>10. \A j, k \in S : j.row.subject = k.row.subject => j = k
  <2> TAKE j, k \in S
  <2>1. PICK i \in ids : j = Copy(i)
    BY <1>5
  <2>2. PICK id \in ids : k = Copy(id)
    BY <1>5
  <2> QED
    BY <1>2, <1>3, <2>1, <2>2
<1>11. CopiesOf(p, S)
  BY <1>4, <1>8, <1>9, <1>10 DEF CopiesOf
<1> QED
  BY <1>7, <1>8, <1>9, <1>11

(* It is well typed.                                                       *)
LEMMA FetchCurrentOK ==
  ASSUME Typed, NEW p \in Tenants, FetchCurrent(p)
  PROVE  run' \in [Tenants -> Run] /\ \A q \in Tenants : RunOK(q, run'[q])
<1>1. PICK S \in SUBSET RowCopies :
           /\ CopiesOf(p, S)
           /\ run' = [run EXCEPT ![p] = IF Mode[p].revalidate
                                        THEN [run[p] EXCEPT !.at = "revalidate", !.copies = S]
                                        ELSE Reconciled(p, S)]
  BY FetchCurrentIs
<1>2. RunOK(p, Reconciled(p, S))
  BY <1>1, ReconciledOK
<1>3. run[p] \in Run /\ RunOK(p, run[p]) /\ run[p].at = "fetch"
  BY DEF Typed, FetchCurrent
<1> DEFINE r == [run[p] EXCEPT !.at = "revalidate", !.copies = S]
<1>4. RunOK(p, r)
  <2>1. /\ r \in Run /\ r.at = "revalidate" /\ r.copies = S /\ r.upsert = {} /\ r.insert = {}
        /\ r.bundle = run[p].bundle
    BY <1>3 DEF Run, RunOK
  <2>2. IsFiniteSet({})
    BY FS_EmptySet
  <2> HIDE DEF r
  <2> QED
    BY <1>1, <1>3, <2>1, <2>2 DEF RunOK, CopiesOf
<1>5. PICK e : e = IF Mode[p].revalidate THEN r ELSE Reconciled(p, S)
  OBVIOUS
<1>6. RunOK(p, e) /\ run' = [run EXCEPT ![p] = e]
  BY <1>1, <1>2, <1>4, <1>5
<1> QED
  BY <1>6, RunsSet

(* Revalidation closes copies that drifted, T, and stamps others.          *)
Revalidated(p, T, U) ==
  /\ IsFiniteSet(U)
  /\ \A k \in T : k.row.digest # None /\ k.row.digest # Digest(k.row.query, k.row.subject) /\ k.row.query # None
  /\ \A k \in U :
       \/ k.row = None /\ \E j \in T : k.id = j.id
       \/ \E j \in run[p].copies : /\ k.id = j.id /\ k.row = [j.row EXCEPT !.digest = Digest(j.row.query, j.row.subject)]
                                   /\ j.row.digest = None /\ j.row.query # None
  /\ run' = [run EXCEPT ![p] =
       IF U = {} THEN Reconciled(p, run[p].copies)
       ELSE [run[p] EXCEPT !.at = "stamp", !.copies = run[p].copies \ T, !.upsert = U]]

(* It does so.                                                             *)
LEMMA RevalidateIs ==
  ASSUME Typed, NEW p \in Tenants, Revalidate(p)
  PROVE  \E T \in SUBSET run[p].copies, U \in SUBSET Copies : Revalidated(p, T, U)
<1> DEFINE notes == {k \in run[p].copies : k.row.query # None /\ k.row.subject \notin DOMAIN run[p].bundle}
<1>1. PICK failed \in SUBSET {k.row.subject : k \in notes} :
          LET stale  == {k \in notes : Drifted(k, failed)}
              new    == {k \in notes : k.row.digest = None /\ k.row.subject \notin failed}
              upsert == {Closed(k) : k \in stale}
                          \cup {[k EXCEPT !.row.digest = Digest(k.row.query, k.row.subject)] : k \in new}
          IN run' = [run EXCEPT ![p] =
                  IF upsert = {} THEN Reconciled(p, run[p].copies)
                  ELSE [run[p] EXCEPT !.at = "stamp", !.copies = run[p].copies \ stale, !.upsert = upsert]]
  BY DEF Revalidate
<1> DEFINE T == {k \in notes : Drifted(k, failed)}
           N == {k \in notes : k.row.digest = None /\ k.row.subject \notin failed}
           C == {Closed(k) : k \in T}
           V == {[k EXCEPT !.row.digest = Digest(k.row.query, k.row.subject)] : k \in N}
           U == C \cup V
<1>2. run \in [Tenants -> Run] /\ run[p] \in Run /\ CopiesOf(p, run[p].copies)
  BY HeldCopies DEF Typed
<1>3. T \in SUBSET run[p].copies /\ N \in SUBSET run[p].copies
  OBVIOUS
<1>4. \A k \in run[p].copies : k \in RowCopies
  BY <1>2 DEF CopiesOf
<1>5. \A k \in T : k.row.digest # None /\ k.row.digest # Digest(k.row.query, k.row.subject) /\ k.row.query # None
  BY DEF Drifted
<1>6. \A k \in C : k \in Copies /\ k.row = None /\ \E j \in T : k.id = j.id
  <2> TAKE k \in C
  <2>1. PICK j \in T : k = Closed(j)
    OBVIOUS
  <2>2. j \in RowCopies
    BY <1>4
  <2>3. k = [id |-> j.id, row |-> None] /\ j.id \in Ids
    BY <2>1, <2>2 DEF Closed, RowCopies
  <2>4. k \in Copies /\ k.row = None /\ k.id = j.id
    BY <2>3 DEF Copies
  <2> QED
    BY <2>4
<1>7. \A k \in V : k \in Copies /\ \E j \in run[p].copies :
         k.id = j.id /\ k.row = [j.row EXCEPT !.digest = Digest(j.row.query, j.row.subject)] /\ j.row.digest = None /\ j.row.query # None
  <2> TAKE k \in V
  <2>1. PICK j \in N : k = [j EXCEPT !.row.digest = Digest(j.row.query, j.row.subject)]
    OBVIOUS
  <2>2. j \in RowCopies /\ j \in run[p].copies /\ j.row.digest = None /\ j.row.query # None
    BY <1>4
  <2>3. j.row \in Rows /\ j.id \in Ids /\ Digest(j.row.query, j.row.subject) \in Queries \X Nat
    BY <2>2 DEF RowCopies, Rows, Typed, StoreOK, Digest
  <2>4. PICK e : e = [j.row EXCEPT !.digest = Digest(j.row.query, j.row.subject)]
    OBVIOUS
  <2>5. e \in Rows
    BY <2>3, <2>4 DEF Rows
  <2>6. k = [id |-> j.id, row |-> e]
    BY <2>1, <2>2, <2>4 DEF RowCopies
  <2>7. k.id = j.id /\ k.row = e /\ k \in Copies
    BY <2>3, <2>5, <2>6 DEF Copies
  <2> QED
    BY <2>2, <2>4, <2>7
<1>8. IsFiniteSet(C) /\ IsFiniteSet(V)
  <2> DEFINE f == [k \in T |-> Closed(k)]
             g == [k \in N |-> [k EXCEPT !.row.digest = Digest(k.row.query, k.row.subject)]]
  <2>1. IsFiniteSet(T) /\ IsFiniteSet(N)
    BY <1>2, <1>3, FS_Subset DEF CopiesOf
  <2>2. f \in Surjection(T, C) /\ g \in Surjection(N, V)
    BY DEF Surjection, Range
  <2> HIDE DEF f, g, T, N, C, V
  <2> QED
    BY <2>1, <2>2, FS_Surjection
<1>9. run' = [run EXCEPT ![p] =
                IF U = {} THEN Reconciled(p, run[p].copies)
                ELSE [run[p] EXCEPT !.at = "stamp", !.copies = run[p].copies \ T, !.upsert = U]]
  BY <1>1, Zenon
<1> HIDE DEF T, N, C, V
<1>10. IsFiniteSet(U) /\ U \in SUBSET Copies
  BY <1>6, <1>7, <1>8, FS_Union
<1>11. \A k \in U :
                \/ k.row = None /\ \E j \in T : k.id = j.id
                \/ \E j \in run[p].copies : /\ k.id = j.id /\ k.row = [j.row EXCEPT !.digest = Digest(j.row.query, j.row.subject)]
                                            /\ j.row.digest = None /\ j.row.query # None
  BY <1>6, <1>7
<1> HIDE DEF U
<1> QED
  BY <1>3, <1>5, <1>9, <1>10, <1>11 DEF Revalidated

(* A stamped copy is a copy of a row of the tenant, and not to be closed.  *)
LEMMA Stamped ==
  ASSUME Typed, NEW p \in Tenants, NEW j \in run[p].copies, j.row.query # None
  PROVE  LET e == [j.row EXCEPT !.digest = Digest(j.row.query, j.row.subject)] IN
         /\ e \in Rows /\ e # None /\ e.subject = j.id[1] /\ e.owner = p /\ SameText(e, j.row)
         /\ e.digest = Digest(j.row.query, j.row.subject) /\ e.query = j.row.query
<1>1. j \in RowCopies /\ j.row.subject = j.id[1] /\ j.row.owner = p
  <2>1. CopiesOf(p, run[p].copies)
    BY HeldCopies
  <2> QED
    BY <2>1 DEF CopiesOf
<1>2. j.row \in Rows /\ Digest(j.row.query, j.row.subject) \in Queries \X Nat
  BY <1>1 DEF RowCopies, Rows, Typed, StoreOK, Digest
<1>3. PICK e : e = [j.row EXCEPT !.digest = Digest(j.row.query, j.row.subject)]
  OBVIOUS
<1>4. /\ e \in Rows /\ e.subject = j.row.subject /\ e.owner = j.row.owner /\ SameText(e, j.row)
      /\ e.digest = Digest(j.row.query, j.row.subject) /\ e.query = j.row.query
  BY <1>2, <1>3 DEF Rows, SameText
<1>5. e # None
  BY <1>4, RefreshAssumption
<1> QED
  BY <1>1, <1>3, <1>4, <1>5

(* It is well typed.                                                       *)
LEMMA RevalidateOK ==
  ASSUME Typed, NEW p \in Tenants, Revalidate(p)
  PROVE  run' \in [Tenants -> Run] /\ \A q \in Tenants : RunOK(q, run'[q])
<1>1. PICK T \in SUBSET run[p].copies, U \in SUBSET Copies : Revalidated(p, T, U)
  BY RevalidateIs
<1>2. RunOK(p, Reconciled(p, run[p].copies))
  BY HeldCopies, ReconciledOK
<1>3. run[p] \in Run /\ RunOK(p, run[p]) /\ run[p].at = "revalidate"
  BY DEF Typed, Revalidate
<1> DEFINE r == [run[p] EXCEPT !.at = "stamp", !.copies = run[p].copies \ T, !.upsert = U]
<1>4. CopiesOf(p, run[p].copies \ T)
  BY HeldCopies
<1>5. ASSUME NEW k \in U, k.row # None PROVE k.row.subject = k.id[1] /\ k.row.owner = p
  <2>1. PICK j \in run[p].copies : j.row.query # None /\ k.id = j.id /\ k.row = [j.row EXCEPT !.digest = Digest(j.row.query, j.row.subject)]
    BY <1>1, <1>5 DEF Revalidated
  <2> QED
    BY <2>1, Stamped
<1>6. RunOK(p, r)
  <2>1. /\ r \in Run /\ r.at = "stamp" /\ r.copies = run[p].copies \ T /\ r.upsert = U /\ r.insert = {}
        /\ r.bundle = run[p].bundle
    BY <1>3 DEF Run, RunOK
  <2>2. IsFiniteSet({})
    BY FS_EmptySet
  <2> HIDE DEF r
  <2> QED
    BY <1>1, <1>3, <1>4, <1>5, <2>1, <2>2 DEF RunOK, CopiesOf, Revalidated
<1>7. PICK e : e = IF U = {} THEN Reconciled(p, run[p].copies) ELSE r
  OBVIOUS
<1>8. RunOK(p, e) /\ run' = [run EXCEPT ![p] = e]
  BY <1>1, <1>2, <1>6, <1>7 DEF Revalidated
<1> QED
  BY <1>8, RunsSet

(* The writes of a refresh, and its end.                                   *)
LEMMA WritesOK ==
  ASSUME Typed, NEW p \in Tenants,
         AdoptUnowned(p) \/ Stamp(p) \/ Close(p) \/ Insert(p) \/ Stops(p)
  PROVE  run' \in [Tenants -> Run] /\ \A q \in Tenants : RunOK(q, run'[q])
<1>1. run \in [Tenants -> Run] /\ run[p] \in Run /\ RunOK(p, run[p])
  BY DEF Typed
<1>2. IsFiniteSet({})
  BY FS_EmptySet
<1>3. CASE AdoptUnowned(p)
  <2> DEFINE r == [run[p] EXCEPT !.at = "fetch", !.upsert = {}]
  <2>1. run' = [run EXCEPT ![p] = r]
    BY <1>1, <1>3 DEF AdoptUnowned
  <2>2. /\ r \in Run /\ r.at = "fetch" /\ r.copies = run[p].copies /\ r.upsert = {} /\ r.insert = run[p].insert
        /\ r.bundle = run[p].bundle
    BY <1>1 DEF Run
  <2>3. run[p].at = "own" /\ run[p].copies = {} /\ run[p].insert = {}
    BY <1>1, <1>3 DEF AdoptUnowned, RunOK
  <2> HIDE DEF r
  <2>4. RunOK(p, r)
    BY <1>1, <1>2, <2>2, <2>3 DEF RunOK
  <2> QED
    BY <2>1, <2>4, RunsSet
<1>4. CASE Stamp(p)
  <2>1. run' = [run EXCEPT ![p] = Reconciled(p, run[p].copies)]
    BY <1>4 DEF Stamp
  <2>2. RunOK(p, Reconciled(p, run[p].copies))
    BY HeldCopies, ReconciledOK
  <2> QED
    BY <2>1, <2>2, RunsSet
<1>5. CASE Close(p)
  <2> DEFINE r == [run[p] EXCEPT !.at = "insert", !.upsert = {}]
  <2>1. run' = [run EXCEPT ![p] = IF run[p].insert = {} THEN NoRun ELSE r]
    BY <1>5 DEF Close
  <2>2. /\ r \in Run /\ r.at = "insert" /\ r.copies = run[p].copies /\ r.upsert = {} /\ r.insert = run[p].insert
        /\ r.bundle = run[p].bundle
    BY <1>1 DEF Run
  <2>3. run[p].at = "close" /\ run[p].copies = {}
    BY <1>1, <1>5 DEF Close, RunOK
  <2> HIDE DEF r
  <2>4. RunOK(p, r)
    BY <1>1, <1>2, <2>2, <2>3 DEF RunOK
  <2>5. PICK e : e = IF run[p].insert = {} THEN NoRun ELSE r
    OBVIOUS
  <2>6. RunOK(p, e) /\ run' = [run EXCEPT ![p] = e]
    BY <2>1, <2>4, <2>5, NoRunOK
  <2> QED
    BY <2>6, RunsSet
<1>6. CASE Insert(p) \/ Stops(p)
  <2>1. run' = [run EXCEPT ![p] = NoRun]
    BY <1>6 DEF Insert, Stops
  <2> QED
    BY <2>1, NoRunOK, RunsSet
<1> QED
  BY <1>3, <1>4, <1>5, <1>6

(* A session writes the row r for p on s: it takes the place of a row of   *)
(* the subject, p's or of the shared tier, and of what that said as a note;*)
(* or it is new.                                                           *)
Wrote(p, s, kept, r) ==
  /\ DOMAIN kept \subseteq DOMAIN rows /\ \A id \in DOMAIN kept : kept[id] = rows[id]
  /\ rows' = Inserted(kept, {r})
  /\ r \in Rows /\ r.subject = s /\ r.owner = p /\ ~r.ownerless
  /\ \A id \in DOMAIN rows \ DOMAIN kept :
       /\ rows[id].owner \in {p, Shared} /\ rows[id].subject = s
       /\ r.walk = rows[id].walk /\ r.core = rows[id].core /\ (r.walk => rows[id].overlay \subseteq r.overlay)
       /\ owed' \subseteq (owed \ Replaced(p, rows[id])) \cup Learned(p, r)
  /\ owed' \subseteq owed \cup Learned(p, r)

(* What is learned of a row is in it, and nothing refutes it.              *)
LEMMA LearnedIs ==
  ASSUME NEW p \in Tenants, NEW r \in Rows, NEW o \in Learned(p, r)
  PROVE  /\ o \in Tenants \X Subjects \X Claims /\ o[1] = p /\ o[2] = r.subject /\ o[3] \in r.overlay
         /\ o[2] \in Concepts => r.walk /\ Stands(p, r, o[3])
         /\ o[2] \notin Concepts => ~r.walk /\ Fresh(r, o[2])
<1>1. PICK d \in r.overlay :
         /\ o = <<p, r.subject, d>>
         /\ IF r.subject \in Concepts THEN r.walk /\ Stands(p, r, d)
            ELSE ~r.walk /\ r.digest \in {None, Digest(r.query, r.subject)}
  BY DEF Learned
<1>2. r.subject \in Subjects /\ d \in Claims
  BY DEF Rows
<1>3. o[1] = p /\ o[2] = r.subject /\ o[3] = d
  BY <1>1
<1> QED
  BY <1>1, <1>2, <1>3 DEF Fresh

(* So it does.                                                             *)
LEMMA WriteNoteIs ==
  ASSUME Typed, NEW p \in Tenants, NEW s \in Subjects, NEW c \in Claims, NEW q \in Queries \cup {None},
         WriteNote(p, s, c, q)
  PROVE  \E kept, r : Wrote(p, s, kept, r)
<1> DEFINE seen == {id \in DOMAIN rows : id[1] = s /\ rows[id].owner \in {p, Shared}}
<1>1. CASE \E id \in seen :
             LET n == Rewritten(p, rows[id], c, q) IN
             /\ ~AddsNothing(rows[id], c, q)
             /\ rows' = Inserted(Upserted({Closed(Copy(id))}), {n})
             /\ owed' = (owed \ Replaced(p, rows[id])) \cup Learned(p, n)
  <2>1. PICK id \in seen :
             LET n == Rewritten(p, rows[id], c, q) IN
             /\ rows' = Inserted(Upserted({Closed(Copy(id))}), {n})
             /\ owed' = (owed \ Replaced(p, rows[id])) \cup Learned(p, n)
    BY <1>1, Zenon
  <2>2. PICK r : r = Rewritten(p, rows[id], c, q)
    OBVIOUS
  <2>3. PICK kept : kept = Upserted({Closed(Copy(id))})
    OBVIOUS
  <2>4. rows[id] \in Rows /\ rows[id].subject = s
    BY DEF Typed, StoreOK
  <2>5. /\ r \in Rows /\ r.subject = s /\ r.owner = p /\ ~r.ownerless /\ r.walk = rows[id].walk
        /\ r.core = rows[id].core /\ (r.walk => r.overlay = rows[id].overlay \cup {c})
    <3>1. PICK w : w = IF rows[id].walk THEN rows[id].overlay \cup {c} ELSE {c}
      OBVIOUS
    <3>2. PICK u : u = IF rows[id].walk \/ q = None THEN rows[id].query ELSE q
      OBVIOUS
    <3>3. r = [rows[id] EXCEPT !.owner = p, !.ownerless = FALSE, !.overlay = w, !.query = u]
      BY <2>2, <2>4, <3>1, <3>2 DEF Rewritten, Rows
    <3>4. w \in SUBSET Claims /\ u \in Queries \cup {None}
      BY <2>4, <3>1, <3>2 DEF Rows
    <3>5. (rows[id].walk => u = None) /\ (u = None => rows[id].digest = None)
      BY <2>4, <3>2 DEF Rows
    <3> QED
      BY <2>4, <3>1, <3>3, <3>4, <3>5 DEF Rows
  <2>6. DOMAIN kept = DOMAIN rows \ {id} /\ \A i \in DOMAIN kept : kept[i] = rows[i]
    BY <2>3, ClosedRow
  <2>7. rows' = Inserted(kept, {r}) /\ owed' = (owed \ Replaced(p, rows[id])) \cup Learned(p, r)
    BY <2>1, <2>2, <2>3
  <2>8. \A i \in DOMAIN rows \ DOMAIN kept : i = id
    BY <2>6
  <2>9. Wrote(p, s, kept, r)
    BY <2>4, <2>5, <2>6, <2>7, <2>8 DEF Wrote
  <2> QED
    BY <2>9
<1>2. CASE LET n == Note(s, p, c, q) IN
           seen = {} /\ rows' = Inserted(rows, {n}) /\ owed' = owed \cup Learned(p, n)
  <2>1. PICK r : r = Note(s, p, c, q)
    OBVIOUS
  <2>2. r \in Rows /\ r.subject = s /\ r.owner = p /\ ~r.ownerless
    <3>1. p # None
      BY RefreshAssumption
    <3> QED
      BY <2>1, <3>1 DEF Note, Concept, Rows
  <2>3. Wrote(p, s, rows, r)
    BY <1>2, <2>1, <2>2 DEF Wrote
  <2> QED
    BY <2>3
<1> QED
  BY <1>1, <1>2 DEF WriteNote

(* What it leaves of the rows.                                             *)
LEMMA WroteRows ==
  ASSUME Typed, NEW p \in Tenants, NEW s \in Subjects, NEW kept, NEW r, Wrote(p, s, kept, r)
  PROVE  /\ DOMAIN rows' = DOMAIN kept \cup {NewId(s)} /\ rows'[NewId(s)] = r
         /\ \A id \in DOMAIN kept : id \in DOMAIN rows /\ rows'[id] = rows[id]
         /\ NewId(s) \notin DOMAIN rows /\ \A q \in Tenants : \A k \in Held(q) : k.id # NewId(s)
<1> DEFINE I == Inserted(kept, {r})
<1>1. /\ DOMAIN I = DOMAIN kept \cup {NewId(n.subject) : n \in {r}}
      /\ \A id \in DOMAIN kept : I[id] = kept[id]
      /\ \A n \in {r} : I[NewId(n.subject)] = n
  <2>1. DOMAIN kept \subseteq DOMAIN rows /\ {r} \in SUBSET Rows
    BY DEF Wrote
  <2>2. \A m, n \in {r} : m.subject = n.subject => m = n
    OBVIOUS
  <2> QED
    BY <2>1, <2>2, InsertedRows
<1>2. r.subject = s /\ rows' = I /\ DOMAIN kept \subseteq DOMAIN rows /\ (\A id \in DOMAIN kept : kept[id] = rows[id])
  BY DEF Wrote
<1>3. {NewId(n.subject) : n \in {r}} = {NewId(s)}
  BY <1>2
<1> HIDE DEF I
<1> QED
  BY <1>1, <1>2, <1>3, NewIsNew

(* The store stays well typed.                                             *)
LEMMA WriteNoteOK ==
  ASSUME Typed, NEW p \in Tenants, NEW s \in Subjects, NEW c \in Claims, NEW q \in Queries \cup {None},
         WriteNote(p, s, c, q)
  PROVE  StoreOK'
<1>1. PICK kept, r : Wrote(p, s, kept, r)
  BY WriteNoteIs
<1>2. IsFiniteSet({r})
  BY FS_Singleton, Zenon
<1>3. {r} \in SUBSET Rows /\ (\A m, n \in {r} : m.subject = n.subject => m = n) /\ (\A n \in {r} : n.owner \in Tenants)
  BY <1>1 DEF Wrote
<1>4. UNCHANGED <<catalog, data>>
  BY DEF WriteNote
<1>5. DOMAIN kept \subseteq DOMAIN rows /\ (\A id \in DOMAIN kept : kept[id] = rows[id]) /\ rows' = Inserted(kept, {r})
  BY <1>1 DEF Wrote
<1> QED
  BY <1>2, <1>3, <1>4, <1>5, InsertTypes

(* The types of the store in a step of a refresh.                          *)
LEMMA StepStoreOK ==
  ASSUME Typed, NEW p \in Tenants, RefreshStep(p)
  PROVE  StoreOK'
<1>1. /\ run[p] \in Run /\ RunOK(p, run[p]) /\ run[p].upsert \in SUBSET Copies /\ run[p].insert \in SUBSET Rows
  BY DEF Typed, Run
<1>2. CASE AdoptUnowned(p) \/ Stamp(p) \/ Close(p)
  <2>1. rows' = Upserted(run[p].upsert) /\ UNCHANGED <<catalog, data>>
    BY <1>2 DEF AdoptUnowned, Stamp, Close
  <2>2. IsFiniteSet(run[p].upsert) /\ \A k \in run[p].upsert :
          k.row # None => k.row.subject = k.id[1] /\ k.row.owner \in Tenants
    BY <1>1 DEF RunOK
  <2> QED
    BY <1>1, <2>1, <2>2, UpsertTypes
<1>3. CASE Insert(p)
  <2>1. rows' = Inserted(rows, run[p].insert) /\ UNCHANGED <<catalog, data>>
    BY <1>3 DEF Insert
  <2>2. /\ IsFiniteSet(run[p].insert) /\ (\A m, n \in run[p].insert : m.subject = n.subject => m = n)
        /\ \A n \in run[p].insert : n.owner \in Tenants
    BY <1>1 DEF RunOK
  <2> QED
    BY <1>1, <2>1, <2>2, InsertTypes
<1>4. CASE UNCHANGED <<catalog, data, rows>>
  BY <1>4 DEF Typed, StoreOK
<1> QED
  BY <1>2, <1>3, <1>4 DEF RefreshStep, FetchBundle, Ground, ReadUnowned, FetchCurrent, Revalidate, Stops

(* Everybody else's steps, in disjunctive form.                            *)
LEMMA NextCases ==
  ASSUME [Next]_vars
  PROVE  \/ \E p \in Tenants : RefreshStep(p)
         \/ \E p \in Tenants, s \in Subjects, c \in Claims, q \in Queries \cup {None} : WriteNote(p, s, c, q)
         \/ \E x \in Concepts, new \in {None} \cup SUBSET Elements : ChangeCatalog(x, new)
         \/ \E s \in Subjects : ChangeData(s)
         \/ UNCHANGED vars
BY DEF Next

(* A step of a refresh keeps the types,                                    *)
LEMMA RefreshTypes ==
  ASSUME Typed, NEW p \in Tenants, RefreshStep(p)
  PROVE  Typed'
<1>1. run' \in [Tenants -> Run] /\ \A q \in Tenants : RunOK(q, run'[q])
  BY FetchBundleOK, GroundOK, ReadUnownedOK, FetchCurrentOK, RevalidateOK, WritesOK DEF RefreshStep
<1>2. StoreOK'
  BY StepStoreOK
<1> QED
  BY <1>1, <1>2 DEF Typed, RunOK

(* and so does every other.                                                *)
LEMMA TypedStep == Typed /\ [Next]_vars => Typed'
<1> SUFFICES ASSUME Typed, [Next]_vars PROVE Typed'
  OBVIOUS
<1>1. ASSUME NEW p \in Tenants, NEW s \in Subjects, NEW c \in Claims, NEW q \in Queries \cup {None},
             WriteNote(p, s, c, q)
      PROVE  Typed'
  <2>1. StoreOK' /\ run' = run
    BY <1>1, WriteNoteOK DEF WriteNote
  <2> QED
    BY <2>1 DEF Typed, RunOK
<1>2. ASSUME NEW x \in Concepts, NEW new \in {None} \cup SUBSET Elements, ChangeCatalog(x, new) PROVE Typed'
  <2>1. StoreOK' /\ run' = run
    BY <1>2 DEF ChangeCatalog, Typed, StoreOK
  <2> QED
    BY <2>1 DEF Typed, RunOK
<1>3. ASSUME NEW s \in Subjects, ChangeData(s) PROVE Typed'
  <2>1. data[s] \in {0, 1} /\ 1 - data[s] \in {0, 1}
    BY DEF Typed, StoreOK
  <2>2. StoreOK' /\ run' = run
    BY <1>3, <2>1 DEF ChangeData, Typed, StoreOK
  <2> QED
    BY <2>2 DEF Typed, RunOK
<1>4. CASE UNCHANGED vars
  BY <1>4 DEF vars, Typed, StoreOK, RunOK
<1> QED
  BY <1>1, <1>2, <1>3, <1>4, NextCases, RefreshTypes

(* They hold at first.                                                     *)
LEMMA TypedInit == Init => Typed
<1> SUFFICES ASSUME Init PROVE Typed
  OBVIOUS
<1>1. StoreOK
  <2>1. catalog \in [Concepts -> {None} \cup SUBSET Elements] /\ data \in [Subjects -> {0, 1}]
    BY RefreshAssumption DEF Init
  <2>2. rows = OldRows
    BY DEF Init
  <2>3. /\ OldRows \in [DOMAIN OldRows -> Rows] /\ DOMAIN OldRows \subseteq Ids /\ IsFiniteSet(DOMAIN OldRows)
        /\ \A id \in DOMAIN OldRows :
             OldRows[id].subject = id[1] /\ (OldRows[id].owner = None => OldRows[id].ownerless)
    BY RefreshAssumption DEF Ids
  <2> QED
    BY <2>1, <2>2, <2>3 DEF StoreOK
<1>2. \A p \in Tenants : run[p] = NoRun
  BY DEF Init
<1>3. run \in [Tenants -> Run]
  BY NoRunOK DEF Init
<1> QED
  BY <1>1, <1>2, <1>3, NoRunOK DEF Typed

-----------------------------------------------------------------------------
(* Tenants.                                                                *)

(* Rows that stay, that a refresh wrote from a copy, or that nobody knows; *)
(* and copies that come from copies: they are as they should be.           *)
LEMMA HeldOn ==
  ASSUME HeldAreOwn,
         \A id \in DOMAIN rows' :
           \/ id \in DOMAIN rows /\ rows'[id] = rows[id]
           \/ \E p \in Tenants : \E k \in Held(p) : k.id = id /\ k.row # None /\ rows'[id] = k.row
           \/ \A q \in Tenants : \A k \in Held(q) : k.id # id,
         \A q \in Tenants : \A k \in Held(q)' : \E j \in Held(q) :
           j.id = k.id /\ (k.row # None => j.row # None /\ SameText(k.row, j.row) /\ k.row.owner = j.row.owner)
  PROVE  HeldAreOwn'
<1>1. ASSUME NEW p \in Tenants, NEW k \in Held(p)', k.id \in DOMAIN rows'
      PROVE  MayWrite(p, rows'[k.id]) /\ (k.row # None => SameText(k.row, rows'[k.id]))
  <2>1. PICK j \in Held(p) :
           j.id = k.id /\ (k.row # None => j.row # None /\ SameText(k.row, j.row) /\ k.row.owner = j.row.owner)
    OBVIOUS
  <2>2. CASE k.id \in DOMAIN rows /\ rows'[k.id] = rows[k.id]
    <3>1. MayWrite(p, rows[k.id]) /\ (j.row # None => SameText(j.row, rows[k.id]))
      BY <2>1, <2>2 DEF HeldAreOwn
    <3> QED
      BY <2>1, <2>2, <3>1 DEF SameText
  <2>3. CASE \E q \in Tenants : \E h \in Held(q) : h.id = k.id /\ h.row # None /\ rows'[k.id] = h.row
    <3>1. PICK q \in Tenants : \E h \in Held(q) : h.id = k.id /\ h.row # None /\ rows'[k.id] = h.row
      BY <2>3
    <3>2. PICK h \in Held(q) : h.id = k.id /\ h.row # None /\ rows'[k.id] = h.row
      BY <3>1
    <3>3. MayWrite(p, h.row) /\ (j.row # None => SameText(j.row, h.row))
      BY <2>1, <3>2 DEF HeldAreOwn
    <3> QED
      BY <2>1, <3>2, <3>3 DEF SameText
  <2> QED
    BY <1>1, <2>1, <2>2, <2>3
<1>2. ASSUME NEW p \in Tenants, NEW k \in Held(p)', NEW q \in Tenants, NEW h \in Held(q)',
             h.id = k.id, h.row # None
      PROVE  MayWrite(p, h.row) /\ (k.row # None => SameText(k.row, h.row))
  <2>1. PICK j \in Held(p) :
           j.id = k.id /\ (k.row # None => j.row # None /\ SameText(k.row, j.row) /\ k.row.owner = j.row.owner)
    OBVIOUS
  <2>2. PICK g \in Held(q) :
           g.id = h.id /\ (h.row # None => g.row # None /\ SameText(h.row, g.row) /\ h.row.owner = g.row.owner)
    OBVIOUS
  <2>3. MayWrite(p, g.row) /\ (j.row # None => SameText(j.row, g.row))
    BY <1>2, <2>1, <2>2 DEF HeldAreOwn
  <2> QED
    BY <1>2, <2>1, <2>2, <2>3 DEF SameText, MayWrite
<1> QED
  BY <1>1, <1>2 DEF HeldAreOwn

(* Copies of rows that the tenant may write, as they are in the store.     *)
LEMMA HeldRead ==
  ASSUME Typed, HeldAreOwn, NEW p \in Tenants, rows' = rows,
         \A q \in Tenants \ {p} : Held(q)' = Held(q),
         \A k \in Held(p)' :
           /\ k.id \in DOMAIN rows /\ MayWrite(p, rows[k.id])
           /\ k.row # None => k.row.owner = p /\ SameText(k.row, rows[k.id])
  PROVE  HeldAreOwn'
<1>1. ASSUME NEW q \in Tenants, NEW k \in Held(q), k.row # None PROVE k.row.owner = q
  BY <1>1 DEF Typed, RunOK, Held
<1>2. ASSUME NEW q \in Tenants, NEW k \in Held(q)'
      PROVE  /\ k.row # None => k.row.owner = q
             /\ k.id \in DOMAIN rows => MayWrite(q, rows[k.id]) /\ (k.row # None => SameText(k.row, rows[k.id]))
             /\ q = p => k.id \in DOMAIN rows
             /\ q # p => k \in Held(q)
  <2>1. CASE q = p
    BY <1>2, <2>1
  <2>2. CASE q # p
    <3>1. k \in Held(q)
      BY <1>2, <2>2
    <3> QED
      BY <1>1, <2>2, <3>1 DEF HeldAreOwn
  <2> QED
    BY <2>1, <2>2
<1>3. ASSUME NEW q \in Tenants, NEW k \in Held(q)', NEW t \in Tenants, NEW h \in Held(t)',
             h.id = k.id, h.row # None
      PROVE  MayWrite(q, h.row) /\ (k.row # None => SameText(k.row, h.row))
  <2>1. CASE k.id \in DOMAIN rows
    <3>1. MayWrite(q, rows[k.id]) /\ (k.row # None => SameText(k.row, rows[k.id]))
      BY <1>2, <2>1
    <3>2. MayWrite(t, rows[k.id]) /\ SameText(h.row, rows[k.id]) /\ h.row.owner = t
      BY <1>2, <1>3, <2>1
    <3> QED
      BY <3>1, <3>2 DEF MayWrite, SameText
  <2>2. CASE k.id \notin DOMAIN rows
    <3>1. k \in Held(q) /\ h \in Held(t)
      BY <1>2, <1>3, <2>2
    <3> QED
      BY <1>3, <3>1 DEF HeldAreOwn
  <2> QED
    BY <2>1, <2>2
<1> QED
  BY <1>2, <1>3 DEF HeldAreOwn

(* A refresh holds nothing of another's.                                   *)
LEMMA HeldElsewhere ==
  ASSUME Typed, NEW p \in Tenants, NEW r, run' = [run EXCEPT ![p] = r]
  PROVE  /\ \A q \in Tenants \ {p} : Held(q)' = Held(q)
         /\ Held(p)' = r.copies \cup r.upsert
BY DEF Typed, Held

(* The reads.                                                              *)
LEMMA ReadsHold ==
  ASSUME Typed, HeldAreOwn, NEW p \in Tenants, ReadUnowned(p) \/ FetchCurrent(p)
  PROVE  HeldAreOwn'
<1>1. CASE ReadUnowned(p)
  <2>1. PICK r : run' = [run EXCEPT ![p] = r]
    <3>1. run' = [run EXCEPT ![p] = run'[p]]
      BY <1>1 DEF ReadUnowned, Typed
    <3> QED
      BY <3>1
  <2>2. run'[p] = r
    BY <2>1 DEF Typed
  <2>3. r.copies = {} /\ \A k \in r.upsert :
          /\ k.id \in DOMAIN rows /\ rows[k.id].owner = None
          /\ k.row = [rows[k.id] EXCEPT !.owner = p]
    BY <1>1, <2>2, ReadUnownedOK
  <2>4. ASSUME NEW k \in r.upsert
        PROVE  /\ k.id \in DOMAIN rows /\ MayWrite(p, rows[k.id])
               /\ k.row.owner = p /\ SameText(k.row, rows[k.id])
    <3>1. k.id \in DOMAIN rows /\ rows[k.id].owner = None
      BY <2>3
    <3>2. rows[k.id] \in Rows /\ rows[k.id].ownerless
      BY <3>1 DEF Typed, StoreOK
    <3>3. PICK e : e = [rows[k.id] EXCEPT !.owner = p]
      OBVIOUS
    <3>4. e.owner = p /\ SameText(e, rows[k.id])
      BY <3>2, <3>3 DEF Rows, SameText
    <3>5. k.row = e
      BY <2>3, <3>3
    <3> QED
      BY <3>1, <3>2, <3>4, <3>5 DEF MayWrite
  <2>5. rows' = rows
    BY <1>1 DEF ReadUnowned
  <2>6. /\ \A q \in Tenants \ {p} : Held(q)' = Held(q)
        /\ Held(p)' = r.copies \cup r.upsert
    BY <2>1, HeldElsewhere
  <2> QED
    BY <2>3, <2>4, <2>5, <2>6, HeldRead
<1>2. CASE FetchCurrent(p)
  <2>1. PICK S \in SUBSET RowCopies :
           /\ CopiesOf(p, S)
           /\ \A k \in S : k.id \in DOMAIN rows /\ rows[k.id].owner = p /\ k.row = rows[k.id]
           /\ run' = [run EXCEPT ![p] = IF Mode[p].revalidate
                                        THEN [run[p] EXCEPT !.at = "revalidate", !.copies = S]
                                        ELSE Reconciled(p, S)]
    BY <1>2, FetchCurrentIs
  <2>2. rows' = rows /\ run[p].at = "fetch" /\ run[p] \in Run /\ RunOK(p, run[p])
    BY <1>2 DEF FetchCurrent, Typed
  <2>3. PICK r : r = IF Mode[p].revalidate THEN [run[p] EXCEPT !.at = "revalidate", !.copies = S]
                     ELSE Reconciled(p, S)
    OBVIOUS
  <2>4. ASSUME NEW k \in r.copies \cup r.upsert
        PROVE  /\ k.id \in DOMAIN rows /\ MayWrite(p, rows[k.id])
               /\ k.row # None => k.row.owner = p /\ SameText(k.row, rows[k.id])
    <3>1. CASE Mode[p].revalidate
      <4>1. r.copies = S /\ r.upsert = {}
        BY <2>2, <2>3, <3>1 DEF Run, RunOK
      <4> QED
        BY <2>1, <4>1 DEF MayWrite, SameText
    <3>2. CASE ~Mode[p].revalidate
      <4>1. r = Reconciled(p, S)
        BY <2>3, <3>2
      <4>2. /\ r.copies = {}
            /\ \A i \in r.upsert : i.row = None /\ \E j \in Changed(p, S) \cup Vanished(p, S) : i.id = j.id
        BY <2>1, <4>1, ReconciledOK
      <4>3. k.row = None /\ \E j \in S : k.id = j.id
        BY <4>2 DEF Changed, Vanished
      <4> QED
        BY <2>1, <4>3 DEF MayWrite
    <3> QED
      BY <3>1, <3>2
  <2>5. run' = [run EXCEPT ![p] = r]
    BY <2>1, <2>3
  <2>6. /\ \A q \in Tenants \ {p} : Held(q)' = Held(q)
        /\ Held(p)' = r.copies \cup r.upsert
    BY <2>5, HeldElsewhere
  <2> QED
    BY <2>2, <2>4, <2>6, HeldRead
<1> QED
  BY <1>1, <1>2

(* A refresh leaves the others alone,                                      *)
LEMMA OthersRun ==
  ASSUME Typed, NEW p \in Tenants, RefreshStep(p), NEW q \in Tenants, q # p
  PROVE  run'[q] = run[q]
BY DEF Typed, RefreshStep, FetchBundle, Ground, ReadUnowned, AdoptUnowned, FetchCurrent, Revalidate, Stamp,
       Close, Insert, Stops

(* inserts its rows under new identifiers,                                 *)
LEMMA InsertIs ==
  ASSUME Typed, NEW p \in Tenants, Insert(p)
  PROVE  /\ DOMAIN rows' = DOMAIN rows \cup {NewId(r.subject) : r \in run[p].insert}
         /\ \A i \in DOMAIN rows : rows'[i] = rows[i]
         /\ \A r \in run[p].insert : rows'[NewId(r.subject)] = r /\ r.subject \in Subjects
<1>1. PICK kept, new : kept = rows /\ new = run[p].insert
  OBVIOUS
<1>2. new \in SUBSET Rows /\ \A m, n \in new : m.subject = n.subject => m = n
  BY <1>1 DEF Typed, Run, RunOK
<1>3. DOMAIN kept \subseteq DOMAIN rows
  BY <1>1
<1> DEFINE I == Inserted(kept, new)
<1>4. /\ DOMAIN I = DOMAIN kept \cup {NewId(r.subject) : r \in new}
      /\ \A i \in DOMAIN kept : I[i] = kept[i]
      /\ \A r \in new : I[NewId(r.subject)] = r
  BY <1>2, <1>3, InsertedRows
<1>5. \A r \in new : r.subject \in Subjects
  BY <1>2 DEF Rows
<1>6. rows' = I
  BY <1>1 DEF Insert
<1> HIDE DEF I
<1> QED
  BY <1>1, <1>4, <1>5, <1>6

(* writes rows from its copies, or under new identifiers,                  *)
LEMMA RowsWritten ==
  ASSUME Typed, NEW p \in Tenants, RefreshStep(p), NEW id \in DOMAIN rows'
  PROVE  \/ id \in DOMAIN rows /\ rows'[id] = rows[id]
         \/ \E k \in run[p].upsert : k.id = id /\ k.row # None /\ rows'[id] = k.row
         \/ /\ id \notin DOMAIN rows /\ run[p].at = "insert" /\ rows'[id] \in run[p].insert
            /\ \A q \in Tenants : \A k \in Held(q) : k.id # id
<1>1. run[p].upsert \in SUBSET Copies /\ run[p].insert \in SUBSET Rows /\ RunOK(p, run[p])
  BY DEF Typed, Run
<1>2. CASE AdoptUnowned(p) \/ Stamp(p) \/ Close(p)
  <2>1. rows' = Upserted(run[p].upsert)
    BY <1>2 DEF AdoptUnowned, Stamp, Close
  <2> QED
    BY <1>1, <2>1, UpsertedRows
<1>3. CASE Insert(p)
  <2>1. run[p].at = "insert"
    BY <1>3 DEF Insert
  <2>3. /\ DOMAIN rows' = DOMAIN rows \cup {NewId(r.subject) : r \in run[p].insert}
        /\ \A i \in DOMAIN rows : rows'[i] = rows[i]
        /\ \A r \in run[p].insert : rows'[NewId(r.subject)] = r /\ r.subject \in Subjects
    BY <1>3, InsertIs
  <2>4. CASE id \in DOMAIN rows
    BY <2>3, <2>4
  <2>5. CASE id \notin DOMAIN rows
    <3>1. PICK r \in run[p].insert : id = NewId(r.subject)
      BY <2>3, <2>5
    <3>2. \A q \in Tenants : \A k \in Held(q) : k.id # id
      BY <2>3, <3>1, NewIsNew
    <3> QED
      BY <2>1, <2>3, <2>5, <3>1, <3>2
  <2> QED
    BY <2>4, <2>5
<1>4. CASE rows' = rows
  BY <1>4
<1> QED
  BY <1>2, <1>3, <1>4 DEF RefreshStep, FetchBundle, Ground, ReadUnowned, FetchCurrent, Revalidate, Stops

(* and but for the reads, what it holds then comes of what it held.        *)
LEMMA HeldFrom ==
  ASSUME Typed, NEW p \in Tenants, RefreshStep(p), ~ReadUnowned(p), ~FetchCurrent(p), NEW k \in Held(p)'
  PROVE  \E j \in Held(p) :
           j.id = k.id /\ (k.row # None => j.row # None /\ SameText(k.row, j.row) /\ k.row.owner = j.row.owner)
<1>1. run \in [Tenants -> Run] /\ run[p] \in Run /\ RunOK(p, run[p])
  BY DEF Typed
<1>2. k \in run'[p].copies \cup run'[p].upsert
  BY DEF Held
<1>3. \A j \in run[p].copies : j.row # None /\ j.row.owner = p
  <2>1. CopiesOf(p, run[p].copies)
    BY HeldCopies
  <2> QED
    BY <2>1, RefreshAssumption DEF CopiesOf, RowCopies
<1>4. NoRun.copies = {} /\ NoRun.upsert = {}
  BY DEF NoRun
<1>5. ASSUME k \in Reconciled(p, run[p].copies).copies \cup Reconciled(p, run[p].copies).upsert
      PROVE  k.row = None /\ \E j \in run[p].copies : k.id = j.id
  <2>1. CopiesOf(p, run[p].copies)
    BY HeldCopies
  <2>2. \E j \in Changed(p, run[p].copies) \cup Vanished(p, run[p].copies) : k.row = None /\ k.id = j.id
    BY <1>5, <2>1, ReconciledOK
  <2> QED
    BY <2>2 DEF Changed, Vanished
<1>6. CASE FetchBundle(p)
  <2>1. run'[p].copies = {} /\ run'[p].upsert = {}
    BY <1>1, <1>6 DEF FetchBundle, NoRun
  <2> QED
    BY <1>2, <2>1
<1>7. CASE Ground(p)
  BY <1>2, <1>7, GroundOK
<1>8. CASE AdoptUnowned(p)
  <2>1. run'[p].copies = run[p].copies /\ run'[p].upsert = {}
    BY <1>1, <1>8 DEF AdoptUnowned, Run
  <2>2. SameText(k.row, k.row)
    BY DEF SameText
  <2> QED
    BY <1>2, <1>3, <2>1, <2>2 DEF Held
<1>9. CASE Revalidate(p)
  <2>1. PICK T \in SUBSET run[p].copies, U \in SUBSET Copies : Revalidated(p, T, U)
    BY <1>9, RevalidateIs
  <2>2. CASE U = {}
    <3>1. run'[p] = Reconciled(p, run[p].copies)
      BY <1>1, <2>1, <2>2 DEF Revalidated
    <3> QED
      BY <1>2, <1>5, <3>1 DEF Held
  <2>3. CASE U # {}
    <3>1. run'[p].copies = run[p].copies \ T /\ run'[p].upsert = U
      BY <1>1, <2>1, <2>3 DEF Revalidated, Run
    <3>2. CASE k \in run[p].copies
      <4>1. SameText(k.row, k.row)
        BY DEF SameText
      <4> QED
        BY <1>3, <3>2, <4>1 DEF Held
    <3>3. CASE k \in U
      <4>1. CASE k.row = None /\ \E j \in T : k.id = j.id
        BY <2>1, <4>1 DEF Held
      <4>2. CASE \E j \in run[p].copies : j.row.query # None /\ k.id = j.id /\ k.row = [j.row EXCEPT !.digest = Digest(j.row.query, j.row.subject)]
        <5>1. PICK j \in run[p].copies : j.row.query # None /\ k.id = j.id /\ k.row = [j.row EXCEPT !.digest = Digest(j.row.query, j.row.subject)]
          BY <4>2
        <5>2. SameText(k.row, j.row) /\ k.row.owner = p
          BY <5>1, Stamped
        <5> QED
          BY <1>3, <5>1, <5>2 DEF Held
      <4> QED
        BY <2>1, <3>3, <4>1, <4>2 DEF Revalidated
    <3> QED
      BY <1>2, <3>1, <3>2, <3>3
  <2> QED
    BY <2>2, <2>3
<1>10. CASE Stamp(p)
  <2>1. run'[p] = Reconciled(p, run[p].copies)
    BY <1>1, <1>10 DEF Stamp
  <2> QED
    BY <1>2, <1>5, <2>1 DEF Held
<1>11. CASE Close(p)
  <2>1. run'[p].upsert = {} /\ (run'[p].copies = {} \/ run'[p].copies = run[p].copies)
    BY <1>1, <1>4, <1>11 DEF Close, Run
  <2>2. SameText(k.row, k.row)
    BY DEF SameText
  <2> QED
    BY <1>2, <1>3, <2>1, <2>2 DEF Held
<1>12. CASE Insert(p) \/ Stops(p)
  <2>1. run'[p] = NoRun
    BY <1>1, <1>12 DEF Insert, Stops
  <2> QED
    BY <1>2, <1>4, <2>1
<1> QED
  BY <1>6, <1>7, <1>8, <1>9, <1>10, <1>11, <1>12 DEF RefreshStep

(* Every step keeps it so.                                                 *)
LEMMA HeldStep == Typed /\ HeldAreOwn /\ [Next]_vars => HeldAreOwn'
<1> SUFFICES ASSUME Typed, HeldAreOwn, [Next]_vars PROVE HeldAreOwn'
  OBVIOUS
<1>1. ASSUME NEW p \in Tenants, RefreshStep(p) PROVE HeldAreOwn'
  <2>1. CASE ReadUnowned(p) \/ FetchCurrent(p)
    BY <2>1, ReadsHold
  <2>2. CASE ~ReadUnowned(p) /\ ~FetchCurrent(p)
    <3>1. ASSUME NEW id \in DOMAIN rows'
          PROVE  \/ id \in DOMAIN rows /\ rows'[id] = rows[id]
                 \/ \E q \in Tenants : \E k \in Held(q) : k.id = id /\ k.row # None /\ rows'[id] = k.row
                 \/ \A q \in Tenants : \A k \in Held(q) : k.id # id
      <4>1. run[p].upsert \subseteq Held(p)
        BY DEF Held
      <4> QED
        BY <1>1, <4>1, RowsWritten
    <3>2. ASSUME NEW q \in Tenants, NEW k \in Held(q)'
          PROVE  \E j \in Held(q) :
            j.id = k.id /\ (k.row # None => j.row # None /\ SameText(k.row, j.row) /\ k.row.owner = j.row.owner)
      <4>1. CASE q = p
        BY <1>1, <2>2, <3>2, <4>1, HeldFrom
      <4>2. CASE q # p
        <5>1. Held(q)' = Held(q)
          BY <1>1, <4>2, OthersRun DEF Held
        <5>2. SameText(k.row, k.row)
          BY DEF SameText
        <5> QED
          BY <3>2, <5>1, <5>2
      <4> QED
        BY <4>1, <4>2
    <3> QED
      BY <3>1, <3>2, HeldOn
  <2> QED
    BY <2>1, <2>2
<1>2. ASSUME NEW p \in Tenants, NEW s \in Subjects, NEW c \in Claims, NEW q \in Queries \cup {None},
             WriteNote(p, s, c, q)
      PROVE  HeldAreOwn'
  <2>1. PICK kept, r : Wrote(p, s, kept, r)
    BY <1>2, WriteNoteIs
  <2>2. /\ DOMAIN rows' = DOMAIN kept \cup {NewId(s)}
        /\ \A id \in DOMAIN kept : id \in DOMAIN rows /\ rows'[id] = rows[id]
        /\ \A t \in Tenants : \A k \in Held(t) : k.id # NewId(s)
    BY <2>1, WroteRows
  <2>3. \A t \in Tenants : Held(t)' = Held(t)
    BY <1>2 DEF WriteNote, Held
  <2>4. \A k : SameText(k.row, k.row)
    BY DEF SameText
  <2>5. \A id \in DOMAIN rows' :
           \/ id \in DOMAIN rows /\ rows'[id] = rows[id]
           \/ \A t \in Tenants : \A k \in Held(t) : k.id # id
    BY <2>2
  <2> QED
    BY <2>3, <2>4, <2>5, HeldOn
<1>3. CASE UNCHANGED <<rows, run>>
  BY <1>3 DEF HeldAreOwn, Held
<1>4. CASE (\E x \in Concepts, new \in {None} \cup SUBSET Elements : ChangeCatalog(x, new))
           \/ (\E s \in Subjects : ChangeData(s)) \/ UNCHANGED vars
  BY <1>3, <1>4 DEF ChangeCatalog, ChangeData, vars
<1> QED
  BY <1>1, <1>2, <1>4, NextCases

LEMMA HeldInit == Init => HeldAreOwn
BY DEF Init, HeldAreOwn, Held, NoRun

(* A refresh has no business with the rows of others.                      *)
LEMMA OthersRowStays ==
  ASSUME Typed, HeldAreOwn, NEW p \in Tenants, RefreshStep(p), NEW id \in DOMAIN rows,
         rows[id].owner # p, ~rows[id].ownerless
  PROVE  id \in DOMAIN rows' /\ rows'[id] = rows[id]
<1>1. ~MayWrite(p, rows[id])
  BY DEF MayWrite
<1>2. \A k \in run[p].upsert : k.id # id
  BY <1>1 DEF HeldAreOwn, Held
<1>4. run[p].upsert \in SUBSET Copies /\ run[p].insert \in SUBSET Rows /\ RunOK(p, run[p])
  BY DEF Typed, Run
<1>5. CASE AdoptUnowned(p) \/ Stamp(p) \/ Close(p)
  <2>1. rows' = Upserted(run[p].upsert)
    BY <1>5 DEF AdoptUnowned, Stamp, Close
  <2>2. id \in DOMAIN Upserted(run[p].upsert)
    BY <1>2, <1>4, UpsertedRows
  <2>3. Upserted(run[p].upsert)[id] = rows[id]
    BY <1>2, <1>4, <2>2, UpsertedRows
  <2> QED
    BY <2>1, <2>2, <2>3
<1>6. CASE Insert(p)
  BY <1>6, InsertIs
<1>7. CASE rows' = rows
  BY <1>7
<1> QED
  BY <1>5, <1>6, <1>7 DEF RefreshStep, FetchBundle, Ground, ReadUnowned, FetchCurrent, Revalidate, Stops

(* The state of a refresh changes in its own steps only.                   *)
LEMMA OthersRowsStep ==
  ASSUME Typed, HeldAreOwn, [Next]_vars, NEW p \in Tenants, NEW id \in DOMAIN rows,
         run'[p] # run[p], rows[id].owner # p, ~rows[id].ownerless
  PROVE  id \in DOMAIN rows' /\ rows'[id] = rows[id]
<1>1. RefreshStep(p)
  <2>1. ASSUME NEW q \in Tenants, RefreshStep(q) PROVE q = p
    BY <2>1, OthersRun
  <2>2. CASE run' = run
    BY <2>2
  <2> QED
    BY <2>1, <2>2, NextCases DEF WriteNote, ChangeCatalog, ChangeData, vars
<1> QED
  BY <1>1, OthersRowStays

(* okf_refresh keeps its types: of the store, and of what each refresh     *)
(* reads, is to close and is to insert.                                    *)
THEOREM RefreshIsTyped == Spec => []Typed
BY TypedInit, TypedStep, PTL DEF Spec

(* HeldAreOwn: the copies that a refresh holds, old as they may be, are of *)
(* rows that it may write, and differ from the store in no text.           *)
THEOREM CopiesAreOwn == Spec => []HeldAreOwn
BY TypedInit, TypedStep, HeldInit, HeldStep, PTL DEF Spec

(* OthersRowsKept: a refresh changes no row of another tenant or of the    *)
(* shared tier, however old the copies it writes.                          *)
THEOREM OthersAreLeft == Spec => OthersRowsKept
<1> DEFINE Kept == \A p \in Tenants, id \in DOMAIN rows :
                     run'[p] # run[p] /\ rows[id].owner # p /\ ~rows[id].ownerless =>
                       id \in DOMAIN rows' /\ rows'[id] = rows[id]
<1>1. Typed /\ HeldAreOwn /\ [Next]_vars => [Kept]_vars
  BY OthersRowsStep
<1> QED
  BY <1>1, TypedInit, TypedStep, HeldInit, HeldStep, PTL DEF Spec, OthersRowsKept

-----------------------------------------------------------------------------
(* What was learned.                                                       *)

(* A row that stays, in a step that its tenant's refresh does not take.    *)
LEMMA SafeOn ==
  ASSUME NEW o, NEW id, Safe(id, o), id \in DOMAIN rows', rows'[id] = rows[id],
         UNCHANGED <<catalog, data>>, run'[o[1]] = run[o[1]]
  PROVE  Safe(id, o)'
BY DEF Safe, Bears, Says, Passes, Ahead, Fresh, Digest

(* A row, in a step after which the refresh holds nothing.                 *)
LEMMA SafeIdle ==
  ASSUME NEW o, NEW id, id \in DOMAIN rows', NEW b, rows'[id] = b, Bears(b, o), UNCHANGED <<catalog, data>>,
         run'[o[1]].at \in {"off", "insert"}, run'[o[1]].copies = {}, run'[o[1]].upsert = {}
  PROVE  Safe(id, o)'
<1>1. Bears(b, o)'
  BY DEF Bears, Says, Fresh, Digest
<1>2. ~Ahead(o[1], o[2])'
  BY DEF Ahead
<1> QED
  BY <1>1, <1>2 DEF Safe

(* A copy is closed for a row that bears the same.                         *)
LEMMA Succeeded ==
  ASSUME Typed, NEW p \in Tenants, NEW S, CopiesOf(p, S), NEW o, o[1] = p, o[2] \in Concepts, NEW j \in Changed(p, S),
         NEW r, Bears(r, o), SameText(j.row, r), j.row.subject = o[2], Passes(r, o)
  PROVE  Bears(Successor(p, o[2], j), o)
<1>1. j \in RowCopies
  BY DEF Changed, CopiesOf
<1>2. o[2] \in DOMAIN run[p].bundle /\ run[o[1]] = run[p]
  BY DEF Passes
<1>3. PICK n : n = Successor(p, o[2], j)
  OBVIOUS
<1>4. /\ n.subject = o[2] /\ n.owner = p /\ n.walk /\ ~n.ownerless
      /\ n.core = run[p].bundle[o[2]]
      /\ j.row.walk => n.overlay = Regrounded(j.row.overlay, j.row.core.has, run[p].bundle[o[2]].has)
  BY <1>1, <1>2, <1>3, SuccessorRow
<1>5. r.walk /\ o[3] \in r.overlay /\ catalog[o[2]] # None
  BY DEF Bears, Says, Fresh, Digest
<1>6. Survives(o[3], r.core.has, run[p].bundle[o[2]].has) /\ Survives(o[3], run[p].bundle[o[2]].has, catalog[o[2]])
  BY <1>2 DEF Passes
<1>7. o[3] \in n.overlay
  BY <1>4, <1>5, <1>6 DEF SameText, Regrounded
<1>8. Bears(n, o)
  BY <1>4, <1>5, <1>6, <1>7 DEF Bears, Says
<1> QED
  BY <1>3, <1>8

(* A refresh goes on to close and insert.                                  *)
LEMMA SafeReconciled ==
  ASSUME Typed, NEW p \in Tenants, NEW S, CopiesOf(p, S), NEW o, o[1] = p,
         NEW id, id \in DOMAIN rows, id \in DOMAIN rows',
         NEW b, rows'[id] = b, Bears(rows[id], o), Bears(b, o), UNCHANGED <<catalog, data>>,
         \A k \in S : k.id = id => SameText(k.row, rows[id])
                                   /\ (o[2] \in Concepts /\ o[2] \in Scopes[Mode[p].scope] => Passes(rows[id], o)),
         run'[p] = Reconciled(p, S)
  PROVE  Safe(id, o)'
<1>1. PICK r : r = Reconciled(p, S)
  OBVIOUS
<1>2. /\ RunOK(p, r) /\ r.at \in {"off", "close", "insert"} /\ r.copies = {}
      /\ \A k \in r.upsert : k.row = None /\ \E j \in Changed(p, S) \cup Vanished(p, S) : k.id = j.id
      /\ \A k \in Changed(p, S) : Successor(p, k.row.subject, k) \in r.insert
      /\ r.upsert # {} => r.at = "close"
  BY <1>1, ReconciledOK
<1>3. ASSUME NEW k \in r.upsert, k.id = id PROVE r.at = "close" /\ \E n \in r.insert : Bears(n, o)
  <2>1. PICK j \in Changed(p, S) \cup Vanished(p, S) : j.id = id
    BY <1>2, <1>3
  <2>2. j \in S /\ j.row.subject = id[1] /\ SameText(j.row, rows[id])
    BY <2>1 DEF Changed, Vanished, CopiesOf
  <2>3. j.row.subject = o[2]
    BY <2>2 DEF Typed, StoreOK, Bears, Says
  <2>4. DOMAIN run[p].bundle \subseteq Scopes[Mode[p].scope] /\ Scopes[Mode[p].scope] \subseteq Concepts
    BY RefreshAssumption DEF Typed, RunOK
  <2>5. o[2] \in Scopes[Mode[p].scope] /\ o[2] \in Concepts
    BY <2>3, <2>4 DEF Changed, Vanished
  <2>6. Passes(rows[id], o)
    BY <2>1, <2>2, <2>5
  <2>7. j \in Changed(p, S)
    BY <2>3, <2>6 DEF Passes, Vanished
  <2>8. Bears(Successor(p, o[2], j), o)
    BY <2>2, <2>3, <2>5, <2>6, <2>7, Succeeded
  <2>9. Successor(p, o[2], j) \in r.insert
    BY <1>2, <2>3, <2>7
  <2> QED
    BY <1>2, <1>3, <2>8, <2>9
<1>4. Bears(b, o)' /\ \A n : Bears(n, o) => Bears(n, o)'
  BY DEF Bears, Says, Fresh, Digest
<1>5. run'[o[1]] = r
  BY <1>1
<1>6. ~Ahead(o[1], o[2])'
  BY <1>2, <1>5 DEF Ahead
<1>7. \A k \in run'[o[1]].upsert : k.id = id =>
        run'[o[1]].at = "close" /\ \E n \in run'[o[1]].insert : Bears(n, o)'
  BY <1>3, <1>4, <1>5
<1> QED
  BY <1>2, <1>4, <1>5, <1>6, <1>7 DEF Safe

(* What a row bears is what the store and the catalog say of it.           *)
LEMMA BearsOn ==
  ASSUME UNCHANGED <<catalog, data>>, NEW o, NEW r, Bears(r, o)
  PROVE  Bears(r, o)'
BY DEF Bears, Says, Fresh, Digest

(* Before the rows are read: the row outlives what the bundle tells.       *)
LEMMA SafeAhead ==
  ASSUME Typed, HeldAreOwn, NEW p \in Tenants, FetchBundle(p) \/ Ground(p) \/ ReadUnowned(p) \/ AdoptUnowned(p),
         NEW o, o[1] = p, NEW id, Safe(id, o)
  PROVE  Safe(id, o)'
<1>1. /\ run \in [Tenants -> Run] /\ run[p] \in Run /\ RunOK(p, run[p])
      /\ run[p].at \notin {"revalidate", "stamp"} /\ run[p].copies = {}
  BY DEF Typed, RunOK, FetchBundle, Ground, ReadUnowned, AdoptUnowned
<1>2. PICK b : b = rows[id]
  OBVIOUS
<1>3. /\ id \in DOMAIN rows /\ Bears(b, o) /\ b.owner = p /\ b.subject = o[2] /\ ~b.ownerless
      /\ o[2] \in Concepts /\ Ahead(p, o[2]) => Passes(b, o)
  BY <1>2 DEF Safe, Bears, Says
<1>4. ASSUME UNCHANGED <<catalog, data>>, id \in DOMAIN rows', rows'[id] = b,
             run'[p].copies = {}, \A k \in run'[p].upsert : k.id # id,
             o[2] \in Concepts /\ Ahead(p, o[2])' => Passes(b, o)'
      PROVE  Safe(id, o)'
  <2>1. Bears(b, o)'
    BY <1>3, <1>4, BearsOn
  <2> QED
    BY <1>3, <1>4, <2>1 DEF Safe
<1>5. CASE FetchBundle(p)
  <2>1. /\ run'[p].copies = {} /\ run'[p].upsert = {}
        /\ run'[p].bundle = [x \in {y \in Scopes[Mode[p].scope] : catalog[y] # None} |->
                               [has |-> catalog[x], count |-> None]]
    BY <1>1, <1>5 DEF FetchBundle, NoRun
  <2>2. UNCHANGED <<catalog, data, rows>>
    BY <1>5 DEF FetchBundle
  <2>3. ASSUME o[2] \in Concepts, Ahead(p, o[2])' PROVE Passes(b, o)'
    <3>1. o[2] \in Scopes[Mode[p].scope]
      BY <2>3 DEF Ahead
    <3>2. catalog[o[2]] # None /\ Survives(o[3], b.core.has, catalog[o[2]])
      BY <1>3, <2>3 DEF Bears
    <3>3. o[2] \in DOMAIN run'[p].bundle /\ run'[p].bundle[o[2]].has = catalog[o[2]]
      BY <2>1, <3>1, <3>2
    <3>4. Survives(o[3], catalog[o[2]], catalog[o[2]])
      BY DEF Survives
    <3> QED
      BY <2>2, <3>2, <3>3, <3>4 DEF Passes
  <2> QED
    BY <1>2, <1>3, <1>4, <2>1, <2>2, <2>3
<1>6. CASE Ground(p)
  <2>1. /\ DOMAIN run'[p].bundle = DOMAIN run[p].bundle
        /\ \A x \in DOMAIN run[p].bundle : run'[p].bundle[x].has = run[p].bundle[x].has
        /\ run'[p].copies = {} /\ run'[p].upsert = {}
    BY <1>6, GroundOK
  <2>2. UNCHANGED <<catalog, data, rows>> /\ run[p].at = "ground"
    BY <1>6 DEF Ground
  <2>3. ASSUME o[2] \in Concepts, Ahead(p, o[2])' PROVE Passes(b, o)'
    <3>1. Ahead(p, o[2])
      BY <2>2, <2>3 DEF Ahead
    <3>2. Passes(b, o)
      BY <1>3, <2>3, <3>1
    <3> QED
      BY <2>1, <2>2, <3>2 DEF Passes
  <2> QED
    BY <1>2, <1>3, <1>4, <2>1, <2>2, <2>3
<1>7. CASE ReadUnowned(p)
  <2>1. /\ run'[p].bundle = run[p].bundle /\ run'[p].copies = {}
        /\ \A k \in run'[p].upsert : k.id \in DOMAIN rows /\ rows[k.id].owner = None
    BY <1>7, ReadUnownedOK
  <2>2. UNCHANGED <<catalog, data, rows>> /\ run[p].at = "adopt"
    BY <1>7 DEF ReadUnowned
  <2>3. ASSUME o[2] \in Concepts, Ahead(p, o[2])' PROVE Passes(b, o)'
    <3>1. Ahead(p, o[2])
      BY <2>2, <2>3 DEF Ahead
    <3>2. Passes(b, o)
      BY <1>3, <2>3, <3>1
    <3> QED
      BY <2>1, <2>2, <3>2 DEF Passes
  <2>4. p # None
    BY RefreshAssumption
  <2> QED
    BY <1>2, <1>3, <1>4, <2>1, <2>2, <2>3, <2>4
<1>8. CASE AdoptUnowned(p)
  <2>1. /\ run'[p].bundle = run[p].bundle /\ run'[p].copies = {} /\ run'[p].upsert = {}
        /\ rows' = Upserted(run[p].upsert) /\ run[p].at = "own" /\ UNCHANGED <<catalog, data>>
    BY <1>1, <1>8 DEF AdoptUnowned, Run
  <2>2. \A k \in run[p].upsert : k.id # id
    <3>1. \A k \in run[p].upsert : k \in Held(p) /\ k.row # None /\ k.row.ownerless
      BY <1>1, <2>1 DEF RunOK, Held
    <3>2. \A k \in run[p].upsert : k.id = id => SameText(k.row, rows[id])
      BY <1>3, <3>1 DEF HeldAreOwn
    <3> QED
      BY <1>2, <1>3, <3>1, <3>2 DEF SameText
  <2>3. id \in DOMAIN rows' /\ rows'[id] = b
    <3>1. run[p].upsert \in SUBSET Copies
      BY <1>1 DEF Run
    <3>2. id \in DOMAIN Upserted(run[p].upsert)
      BY <1>3, <2>2, <3>1, UpsertedRows
    <3>3. Upserted(run[p].upsert)[id] = rows[id]
      BY <2>2, <3>1, <3>2, UpsertedRows
    <3> QED
      BY <1>2, <2>1, <3>2, <3>3
  <2>4. ASSUME o[2] \in Concepts, Ahead(p, o[2])' PROVE Passes(b, o)'
    <3>1. Ahead(p, o[2])
      BY <2>1, <2>4 DEF Ahead
    <3>2. Passes(b, o)
      BY <1>3, <2>4, <3>1
    <3> QED
      BY <2>1, <3>2 DEF Passes
  <2> QED
    BY <1>4, <2>1, <2>3, <2>4
<1> QED
  BY <1>5, <1>6, <1>7, <1>8

(* The rows are read: the copy is of the row.                              *)
LEMMA SafeFetched ==
  ASSUME Typed, NEW p \in Tenants, FetchCurrent(p), NEW o, o[1] = p,
         NEW id, Safe(id, o)
  PROVE  Safe(id, o)'
<1>1. PICK S \in SUBSET RowCopies :
         /\ CopiesOf(p, S)
         /\ \A k \in S : k.id \in DOMAIN rows /\ rows[k.id].owner = p /\ k.row = rows[k.id]
         /\ run' = [run EXCEPT ![p] = IF Mode[p].revalidate
                                      THEN [run[p] EXCEPT !.at = "revalidate", !.copies = S]
                                      ELSE Reconciled(p, S)]
  BY FetchCurrentIs
<1>2. /\ run \in [Tenants -> Run] /\ run[p] \in Run /\ run[p].at = "fetch" /\ run[p].upsert = {}
      /\ UNCHANGED <<catalog, data, rows>>
  BY DEF Typed, RunOK, FetchCurrent
<1>3. PICK b : b = rows[id]
  OBVIOUS
<1>4. /\ id \in DOMAIN rows /\ Bears(b, o)
      /\ o[2] \in Concepts /\ o[2] \in Scopes[Mode[p].scope] => Passes(b, o)
  BY <1>2, <1>3 DEF Safe, Ahead
<1>5. CASE Mode[p].revalidate
  <2>1. /\ run'[p].at = "revalidate" /\ run'[p].copies = S /\ run'[p].upsert = {}
        /\ run'[p].bundle = run[p].bundle
    BY <1>1, <1>2, <1>5 DEF Run
  <2>2. Bears(b, o)' /\ ~Ahead(p, o[2])'
    BY <1>2, <1>4, <2>1, BearsOn DEF Ahead
  <2>3. o[2] \in Concepts /\ o[2] \in Scopes[Mode[p].scope] => Passes(b, o)'
    BY <1>2, <1>4, <2>1 DEF Passes
  <2>4. \A k \in S : k.id = id => k.row = b
    BY <1>1, <1>3
  <2>5. o[2] \notin Concepts => Fresh(b, o[2])'
    BY <1>2, <1>4 DEF Bears, Fresh, Digest
  <2> QED
    BY <1>2, <1>3, <1>4, <2>1, <2>2, <2>3, <2>4, <2>5 DEF Safe
<1>6. CASE ~Mode[p].revalidate
  <2>1. run'[p] = Reconciled(p, S)
    BY <1>1, <1>2, <1>6
  <2>2. \A k \in S : k.id = id => SameText(k.row, rows[id])
    BY <1>1 DEF SameText
  <2> QED
    BY <1>1, <1>2, <1>3, <1>4, <2>1, <2>2, SafeReconciled
<1> QED
  BY <1>5, <1>6

(* The notes are checked: what is closed has drifted.                      *)
LEMMA SafeRevalidated ==
  ASSUME Typed, HeldAreOwn, NEW p \in Tenants, Revalidate(p), NEW o, o[1] = p,
         NEW id, Safe(id, o)
  PROVE  Safe(id, o)'
<1>1. PICK T \in SUBSET run[p].copies, U \in SUBSET Copies : Revalidated(p, T, U)
  BY RevalidateIs
<1>2. /\ run \in [Tenants -> Run] /\ run[p] \in Run /\ run[p].at = "revalidate"
      /\ UNCHANGED <<catalog, data, rows>>
  BY DEF Typed, Revalidate
<1>3. PICK b : b = rows[id]
  OBVIOUS
<1>4. /\ id \in DOMAIN rows /\ Bears(b, o) /\ b.subject = o[2] /\ b.subject = id[1]
      /\ \A k \in run[p].copies : k.id = id =>
           /\ o[2] \in Concepts /\ o[2] \in Scopes[Mode[p].scope] => Passes(b, o)
           /\ o[2] \notin Concepts => Fresh(k.row, o[2])
  BY <1>2, <1>3 DEF Safe, Bears, Says, Typed, StoreOK
<1>5. CopiesOf(p, run[p].copies)
  BY HeldCopies
<1>6. \A k \in run[p].copies :
         k.row \in Rows /\ k.row # None /\ k.row.subject = k.id[1] /\ (k.id = id => SameText(k.row, b))
  BY <1>3, <1>4, <1>5, RefreshAssumption DEF CopiesOf, RowCopies, HeldAreOwn, Held
<1>7. CASE U = {}
  <2>1. run'[p] = Reconciled(p, run[p].copies)
    BY <1>1, <1>2, <1>7 DEF Revalidated
  <2>2. id \in DOMAIN rows' /\ rows'[id] = b /\ Bears(rows[id], o)
    BY <1>2, <1>3, <1>4
  <2>3. PICK S : S = run[p].copies
    OBVIOUS
  <2>4. \A k \in S : k.id = id =>
          SameText(k.row, rows[id]) /\ (o[2] \in Concepts /\ o[2] \in Scopes[Mode[p].scope] => Passes(rows[id], o))
    BY <1>3, <1>4, <1>6, <2>3
  <2>5. CopiesOf(p, S) /\ run'[p] = Reconciled(p, S)
    BY <1>5, <2>1, <2>3
  <2>6. UNCHANGED <<catalog, data>>
    BY <1>2
  <2>7. id \in DOMAIN rows /\ Bears(b, o)
    BY <1>4
  <2> QED
    BY <2>2, <2>4, <2>5, <2>6, <2>7, SafeReconciled
<1>8. CASE U # {}
  <2>1. /\ run'[p].at = "stamp" /\ run'[p].copies = run[p].copies \ T /\ run'[p].upsert = U
        /\ run'[p].bundle = run[p].bundle
    BY <1>1, <1>2, <1>8 DEF Revalidated, Run
  <2>2. Bears(b, o)' /\ ~Ahead(p, o[2])'
    BY <1>2, <1>4, <2>1, BearsOn DEF Ahead
  <2>3. Passes(b, o) => Passes(b, o)'
    BY <1>2, <2>1 DEF Passes
  <2>4. ASSUME NEW k \in U, k.id = id PROVE k.row # None /\ (o[2] \notin Concepts => Fresh(k.row, o[2]))
    <3>1. CASE k.row = None /\ \E j \in T : k.id = j.id
      <4>1. PICK j \in T : j.id = id
        BY <2>4, <3>1
      <4>2. ~Fresh(j.row, o[2]) /\ ~j.row.walk /\ SameText(j.row, b)
        BY <1>1, <1>4, <1>6, <4>1 DEF Revalidated, Rows, Fresh
      <4>3. o[2] \notin Concepts
        BY <1>4, <4>2 DEF SameText, Bears
      <4> QED
        BY <1>4, <4>1, <4>2, <4>3
    <3>2. CASE \E j \in run[p].copies : j.row.query # None /\ k.id = j.id /\ k.row = [j.row EXCEPT !.digest = Digest(j.row.query, j.row.subject)]
      <4>1. PICK j \in run[p].copies : /\ j.row.query # None /\ j.id = id
                                       /\ k.row = [j.row EXCEPT !.digest = Digest(j.row.query, j.row.subject)]
        BY <2>4, <3>2
      <4>2. k.row # None /\ Fresh(k.row, j.row.subject)
        BY <4>1, Stamped DEF Fresh
      <4> QED
        BY <1>4, <1>6, <4>1, <4>2
    <3> QED
      BY <1>1, <2>4, <3>1, <3>2 DEF Revalidated
  <2>5. \A k : Fresh(k.row, o[2]) => Fresh(k.row, o[2])'
    BY <1>2 DEF Fresh, Digest
  <2> QED
    BY <1>2, <1>3, <1>4, <2>1, <2>2, <2>3, <2>4, <2>5 DEF Safe
<1> QED
  BY <1>7, <1>8

(* The list of the notes is written.                                       *)
LEMMA SafeStamped ==
  ASSUME Typed, HeldAreOwn, NEW p \in Tenants, Stamp(p), NEW o, o[1] = p,
         NEW id, Safe(id, o)
  PROVE  Safe(id, o)'
<1>1. /\ run \in [Tenants -> Run] /\ run[p] \in Run /\ RunOK(p, run[p]) /\ run[p].at = "stamp"
      /\ rows' = Upserted(run[p].upsert) /\ UNCHANGED <<catalog, data>>
      /\ run'[p] = Reconciled(p, run[p].copies) /\ run[p].upsert \in SUBSET Copies
  BY DEF Typed, Stamp, Run
<1>2. PICK b : b = rows[id]
  OBVIOUS
<1>3. /\ id \in DOMAIN rows /\ Bears(b, o) /\ b.owner = p /\ b.subject = o[2] /\ b.subject = id[1]
      /\ \A k \in run[p].copies : k.id = id =>
           (o[2] \in Concepts /\ o[2] \in Scopes[Mode[p].scope] => Passes(b, o))
      /\ \A k \in run[p].upsert : k.id = id =>
           k.row # None /\ (o[2] \notin Concepts => Fresh(k.row, o[2]))
  BY <1>1, <1>2 DEF Safe, Bears, Says, Typed, StoreOK
<1>4. CopiesOf(p, run[p].copies)
  BY HeldCopies
<1>5. \A k \in run[p].copies : k.id = id => SameText(k.row, b)
  <2>1. \A k \in run[p].copies : k.row # None
    BY <1>4, RefreshAssumption DEF CopiesOf, RowCopies
  <2> QED
    BY <1>2, <1>3, <2>1 DEF HeldAreOwn, Held
<1>6. id \in DOMAIN Upserted(run[p].upsert)
  BY <1>1, <1>3, UpsertedRows
<1>7. PICK c : c = rows'[id]
  OBVIOUS
<1>8. Bears(c, o)
  <2>1. CASE \E k \in run[p].upsert : k.id = id /\ k.row # None /\ c = k.row
    <3>1. PICK k \in run[p].upsert : k.id = id /\ k.row # None /\ c = k.row
      BY <2>1
    <3>2. k.row.subject = id[1] /\ k.row.owner = p
      BY <1>1, <3>1 DEF RunOK
    <3>3. SameText(k.row, b)
      BY <1>2, <1>3, <3>1 DEF HeldAreOwn, Held
    <3>4. o[2] \notin Concepts => Fresh(k.row, o[2])
      BY <1>3, <3>1
    <3> QED
      BY <1>3, <3>1, <3>2, <3>3, <3>4 DEF Bears, Says, SameText
  <2>2. CASE c = b
    BY <1>3, <2>2
  <2> QED
    BY <1>1, <1>2, <1>6, <1>7, <2>1, <2>2, UpsertedRows
<1> QED
  BY <1>1, <1>2, <1>3, <1>4, <1>5, <1>6, <1>7, <1>8, SafeReconciled

(* What was closed is inserted next.                                       *)
LEMMA SafeClosed ==
  ASSUME Typed, NEW p \in Tenants, Close(p), NEW o, o[1] = p, NEW id, Safe(id, o)
  PROVE  Safe(id, o)' \/ Inserting(o)'
<1>1. /\ run \in [Tenants -> Run] /\ run[p] \in Run /\ run[p].copies = {} /\ run[p].at = "close"
      /\ rows' = Upserted(run[p].upsert) /\ UNCHANGED <<catalog, data>> /\ run[p].upsert \in SUBSET Copies
      /\ run'[p] = IF run[p].insert = {} THEN NoRun ELSE [run[p] EXCEPT !.at = "insert", !.upsert = {}]
  BY DEF Typed, RunOK, Close, Run
<1>2. PICK b : b = rows[id]
  OBVIOUS
<1>3. /\ id \in DOMAIN rows /\ Bears(b, o)
      /\ \A k \in run[p].upsert : k.id = id => \E r \in run[p].insert : Bears(r, o)
  BY <1>1, <1>2 DEF Safe
<1>4. CASE \E k \in run[p].upsert : k.id = id
  <2>1. PICK r \in run[p].insert : Bears(r, o)
    BY <1>3, <1>4
  <2>2. run'[p].at = "insert" /\ run'[p].insert = run[p].insert
    BY <1>1, <2>1 DEF Run
  <2>3. Bears(r, o)'
    BY <1>1, <2>1, BearsOn
  <2> QED
    BY <2>1, <2>2, <2>3 DEF Inserting
<1>5. CASE \A k \in run[p].upsert : k.id # id
  <2>1. id \in DOMAIN Upserted(run[p].upsert)
    BY <1>1, <1>3, <1>5, UpsertedRows
  <2>2. Upserted(run[p].upsert)[id] = b
    BY <1>1, <1>2, <1>5, <2>1, UpsertedRows
  <2>3. run'[p].at \in {"off", "insert"} /\ run'[p].copies = {} /\ run'[p].upsert = {}
    BY <1>1 DEF NoRun, Run
  <2> QED
    BY <1>1, <1>3, <2>1, <2>2, <2>3, SafeIdle
<1> QED
  BY <1>4, <1>5

(* The run ends: with what it inserts, or with an error.                   *)
LEMMA SafeEnded ==
  ASSUME Typed, NEW p \in Tenants, Insert(p) \/ Stops(p), NEW o, o[1] = p, NEW id, Safe(id, o)
  PROVE  Safe(id, o)'
<1>1. run'[p].at = "off" /\ run'[p].copies = {} /\ run'[p].upsert = {} /\ UNCHANGED <<catalog, data>>
  BY DEF Typed, Insert, Stops, NoRun
<1>2. PICK b : b = rows[id]
  OBVIOUS
<1>3. id \in DOMAIN rows /\ Bears(b, o)
  BY <1>2 DEF Safe
<1>4. id \in DOMAIN rows' /\ rows'[id] = b
  BY <1>2, <1>3, InsertIs DEF Stops
<1> QED
  BY <1>1, <1>3, <1>4, SafeIdle

(* A step of its tenant's refresh.                                         *)
LEMMA SafeStep ==
  ASSUME Typed, HeldAreOwn, NEW p \in Tenants, RefreshStep(p), NEW o, o[1] = p,
         NEW id, Safe(id, o)
  PROVE  Safe(id, o)' \/ Inserting(o)'
BY SafeAhead, SafeFetched, SafeRevalidated, SafeStamped, SafeClosed, SafeEnded DEF RefreshStep

(* What is to be inserted comes into the store, or the script stops and it *)
(* is lost and no longer owed.                                             *)
LEMMA InsertingStep ==
  ASSUME Typed, NEW p \in Tenants, RefreshStep(p), NEW o \in Tenants \X Subjects \X Claims, o[1] = p,
         Inserting(o), o \in owed'
  PROVE  \E id \in DOMAIN rows' : Safe(id, o)'
<1>1. PICK r \in run[p].insert : Bears(r, o)
  BY DEF Inserting
<1>2. run[p].at = "insert"
  BY DEF Inserting
<1>3. CASE Insert(p)
  <2>1. /\ run'[p].at = "off" /\ run'[p].copies = {} /\ run'[p].upsert = {} /\ UNCHANGED <<catalog, data>>
    <3>1. run'[p] = NoRun /\ UNCHANGED <<catalog, data>>
      BY <1>3 DEF Typed, Insert
    <3>2. NoRun.at = "off" /\ NoRun.copies = {} /\ NoRun.upsert = {}
      BY DEF NoRun
    <3> QED
      BY <3>1, <3>2
  <2>2. NewId(r.subject) \in DOMAIN rows' /\ rows'[NewId(r.subject)] = r
    <3>1. DOMAIN rows' = DOMAIN rows \cup {NewId(n.subject) : n \in run[p].insert}
      BY <1>3, InsertIs
    <3>2. \A n \in run[p].insert : rows'[NewId(n.subject)] = n
      BY <1>3, InsertIs
    <3> QED
      BY <1>1, <3>1, <3>2
  <2>3. PICK id : id = NewId(r.subject)
    OBVIOUS
  <2>4. id \in DOMAIN rows' /\ rows'[id] = r
    BY <2>2, <2>3
  <2>5. Safe(id, o)'
    BY <1>1, <2>1, <2>4, SafeIdle
  <2> QED
    BY <2>4, <2>5
<1>4. CASE Stops(p)
  <2>1. owed' = owed \ UNION {Told(p, n) : n \in run[p].insert}
    BY <1>2, <1>4 DEF Stops
  <2>2. o = <<o[1], o[2], o[3]>>
    OBVIOUS
  <2>3. r.walk
    BY <1>1 DEF Typed, RunOK
  <2>4. o[2] = r.subject /\ o[3] \in r.overlay
    BY <1>1, <2>3 DEF Bears, Says
  <2>5. o \in Told(p, r)
    BY <2>2, <2>4 DEF Told
  <2> QED
    BY <1>1, <2>1, <2>5
<1> QED
  BY <1>2, <1>3, <1>4 DEF RefreshStep, FetchBundle, Ground, ReadUnowned, AdoptUnowned, FetchCurrent, Revalidate,
     Stamp, Close

(* What a session learned by writing is in the row it wrote.               *)
LEMMA LearnedSafe ==
  ASSUME Typed, NEW q \in Tenants, NEW s \in Subjects, NEW c \in Claims, NEW m \in Queries \cup {None},
         WriteNote(q, s, c, m), NEW kept, NEW r, Wrote(q, s, kept, r), NEW o \in Learned(q, r)
  PROVE  \E i \in DOMAIN rows' : Safe(i, o)'
<1>1. UNCHANGED <<catalog, data, run>>
  BY DEF WriteNote
<1>2. PICK i : i = NewId(s)
  OBVIOUS
<1>3. i \in DOMAIN rows' /\ rows'[i] = r /\ \A k \in Held(q) : k.id # i
  BY <1>2, WroteRows
<1>4. r \in Rows /\ r.subject = s /\ r.owner = q /\ ~r.ownerless
  BY DEF Wrote
<1>5. /\ o[1] = q /\ o[2] = s /\ o[3] \in r.overlay
      /\ o[2] \in Concepts => r.walk /\ Stands(q, r, o[3])
      /\ o[2] \notin Concepts => ~r.walk /\ Fresh(r, o[2])
  BY <1>4, LearnedIs
<1>6. Bears(r, o)
  BY <1>4, <1>5 DEF Bears, Says, Stands
<1>7. o[2] \in Concepts /\ Ahead(o[1], o[2]) => Passes(r, o)
  BY <1>4, <1>5 DEF Stands, Passes
<1>8. Bears(r, o)' /\ (o[2] \in Concepts /\ Ahead(o[1], o[2])' => Passes(r, o)')
  BY <1>1, <1>6, <1>7 DEF Bears, Says, Passes, Ahead, Fresh, Digest
<1>9. Safe(i, o)'
  BY <1>1, <1>3, <1>5, <1>8 DEF Safe, Held
<1> QED
  BY <1>3, <1>9

(* A session writes on a row.                                              *)
LEMMA SafeWritten ==
  ASSUME Typed, NEW q \in Tenants, NEW s \in Subjects, NEW c \in Claims, NEW m \in Queries \cup {None},
         WriteNote(q, s, c, m), NEW o \in owed', o[1] \in Tenants, o = <<o[1], o[2], o[3]>>, NEW id, Safe(id, o)
  PROVE  \E i \in DOMAIN rows' : Safe(i, o)'
<1>1. PICK kept, r : Wrote(q, s, kept, r)
  BY WriteNoteIs
<1>2. UNCHANGED <<catalog, data, run>>
  BY DEF WriteNote
<1>3. /\ DOMAIN rows' = DOMAIN kept \cup {NewId(s)} /\ rows'[NewId(s)] = r
      /\ \A i \in DOMAIN kept : i \in DOMAIN rows /\ rows'[i] = rows[i]
      /\ \A t \in Tenants : \A k \in Held(t) : k.id # NewId(s)
  BY <1>1, WroteRows
<1>4. CASE id \in DOMAIN kept
  BY <1>2, <1>3, <1>4, SafeOn
<1>5. CASE id \notin DOMAIN kept
  <2>1. PICK b : b = rows[id]
    OBVIOUS
  <2>2. id \in DOMAIN rows /\ Bears(b, o) /\ (o[2] \in Concepts /\ Ahead(o[1], o[2]) => Passes(b, o))
    BY <2>1 DEF Safe
  <2>3. /\ b.owner \in {q, Shared} /\ b.subject = s /\ r.walk = b.walk /\ r.core = b.core
        /\ r.walk => b.overlay \subseteq r.overlay
        /\ r.subject = s /\ r.owner = q /\ ~r.ownerless
        /\ owed' \subseteq (owed \ Replaced(q, b)) \cup Learned(q, r)
    BY <1>1, <1>5, <2>1, <2>2 DEF Wrote
  <2>4. o[1] = q /\ o[2] = s
    BY <2>2, <2>3, RefreshAssumption DEF Bears, Says
  <2>5. CASE o \in Learned(q, r)
    BY <1>1, <2>5, LearnedSafe
  <2>6. CASE o \notin Learned(q, r)
    <3>1. o[2] \in Concepts
      <4>1. o = <<q, s, o[3]>> /\ o[3] \in b.overlay
        BY <2>2, <2>4 DEF Bears, Says
      <4>2. o \in Told(q, b)
        BY <2>3, <4>1 DEF Told
      <4> QED
        BY <2>3, <2>4, <2>6, <4>2 DEF Replaced
    <3>2. b.walk /\ o[3] \in r.overlay
      BY <2>2, <2>3, <3>1 DEF Bears, Says
    <3>3. Bears(r, o) /\ (Ahead(o[1], o[2]) => Passes(r, o))
      BY <2>2, <2>3, <2>4, <3>1, <3>2 DEF Bears, Says, Passes
    <3>4. PICK i : i = NewId(s)
      OBVIOUS
    <3>5. i \in DOMAIN rows' /\ rows'[i] = r /\ \A k \in Held(o[1]) : k.id # i
      BY <1>3, <3>4
    <3>6. Bears(r, o)' /\ (Ahead(o[1], o[2])' => Passes(r, o)')
      BY <1>2, <3>1, <3>3 DEF Bears, Says, Passes, Ahead
    <3>7. Safe(i, o)'
      BY <1>2, <3>1, <3>5, <3>6 DEF Safe, Held
    <3> QED
      BY <3>5, <3>7
  <2> QED
    BY <2>5, <2>6
<1> QED
  BY <1>4, <1>5

(* The catalog changes: what it refutes is no longer owed.                 *)
LEMMA BearsChanged ==
  ASSUME Typed, NEW x \in Concepts, NEW new \in {None} \cup SUBSET Elements, ChangeCatalog(x, new),
         NEW o \in owed', o[2] \in Subjects, NEW r
  PROVE  /\ Bears(r, o) => Bears(r, o)'
         /\ Bears(r, o) /\ o[2] \in Concepts /\ Passes(r, o) => Passes(r, o)'
<1>1. /\ catalog' = [catalog EXCEPT ![x] = new] /\ UNCHANGED <<data, rows, run>>
      /\ o[2] = x => new # None /\ Survives(o[3], catalog[x], new)
  BY DEF ChangeCatalog
<1>2. CASE o[2] = x
  <2>1. catalog'[x] = new /\ new # None
    BY <1>1, <1>2 DEF Typed, StoreOK
  <2>2. \A e : Survives(o[3], e, catalog[x]) => Survives(o[3], e, new)
    BY <1>1, <1>2 DEF Survives
  <2>3. Bears(r, o) => Bears(r, o)'
    BY <1>1, <1>2, <2>1, <2>2 DEF Bears, Says
  <2>4. Passes(r, o) => Passes(r, o)'
    BY <1>1, <1>2, <2>1, <2>2 DEF Passes
  <2> QED
    BY <2>3, <2>4
<1>3. CASE o[2] # x
  <2>1. o[2] \in Concepts => catalog'[o[2]] = catalog[o[2]]
    BY <1>1, <1>3 DEF Typed, StoreOK
  <2>2. CASE o[2] \notin Concepts
    BY <1>1, <2>2 DEF Bears, Says, Fresh, Digest
  <2>3. CASE o[2] \in Concepts
    BY <1>1, <2>1, <2>3 DEF Bears, Says, Passes
  <2> QED
    BY <2>2, <2>3
<1> QED
  BY <1>2, <1>3

(* Where what bears it does so still, what was safe is.                    *)
LEMMA SafeChanged ==
  ASSUME Typed, UNCHANGED <<rows, run>>, NEW o, o[1] \in Tenants, NEW id, Safe(id, o),
         \A r : Bears(r, o) => Bears(r, o)',
         \A r : Bears(r, o) /\ o[2] \in Concepts /\ Passes(r, o) => Passes(r, o)',
         o[2] \notin Concepts => data'[o[2]] = data[o[2]]
  PROVE  Safe(id, o)'
<1>1. PICK b : b = rows[id]
  OBVIOUS
<1>2. Bears(b, o)' /\ (o[2] \in Concepts /\ Passes(b, o) => Passes(b, o)')
  BY <1>1 DEF Safe
<1>3. Ahead(o[1], o[2])' <=> Ahead(o[1], o[2])
  BY DEF Ahead
<1>4. \A k : o[2] \notin Concepts /\ Fresh(k.row, o[2]) => Fresh(k.row, o[2])'
  BY DEF Fresh, Digest
<1> QED
  BY <1>1, <1>2, <1>3, <1>4 DEF Safe

(* The data changes: what does not read it is as it was.                   *)
LEMMA SafeElsewhere ==
  ASSUME Typed, NEW s \in Subjects, ChangeData(s), NEW o, o[1] \in Tenants, o[2] \in Subjects,
         o[2] \in Concepts \/ o[2] # s, NEW id, Safe(id, o)
  PROVE  Safe(id, o)'
<1>1. data' = [data EXCEPT ![s] = 1 - data[s]] /\ UNCHANGED <<catalog, rows, run>>
  BY DEF ChangeData
<1>2. o[2] \notin Concepts => data'[o[2]] = data[o[2]]
  BY <1>1 DEF Typed, StoreOK
<1>3. \A r : Bears(r, o) => Bears(r, o)'
  BY <1>1, <1>2 DEF Bears, Says, Fresh, Digest
<1>4. \A r : Passes(r, o) => Passes(r, o)'
  BY <1>1 DEF Passes
<1> QED
  BY <1>1, <1>2, <1>3, <1>4, SafeChanged

(* A note on what changes is owed if no query proves it, and then it was   *)
(* never stamped with what one returned.                                   *)
LEMMA SafeUnproved ==
  ASSUME Typed, HeldAreOwn, NEW s \in Subjects, ChangeData(s), NEW o \in owed', o[1] \in Tenants,
         o[2] = s, s \notin Concepts, NEW id, Safe(id, o)
  PROVE  Safe(id, o)'
<1>1. UNCHANGED <<catalog, rows, run>> /\ \A i \in DOMAIN rows : Says(rows[i], o) => rows[i].query = None
  BY DEF ChangeData
<1>2. PICK b : b = rows[id]
  OBVIOUS
<1>3. id \in DOMAIN rows /\ b \in Rows /\ Bears(b, o) /\ b.query = None
  BY <1>1, <1>2 DEF Safe, Bears, Typed, StoreOK
<1>4. \A r \in Rows : r.query = None => Fresh(r, s)'
  BY DEF Fresh, Rows
<1>5. Bears(b, o)'
  BY <1>1, <1>3, <1>4 DEF Bears, Says
<1>6. run[o[1]] \in Run /\ RunOK(o[1], run[o[1]])
  BY DEF Typed
<1>7. ASSUME NEW k \in Held(o[1]), k.id = id, k.row # None PROVE Fresh(k.row, s)'
  <2>1. SameText(k.row, b)
    BY <1>2, <1>3, <1>7 DEF HeldAreOwn
  <2>2. k.row \in Rows
    BY <1>6, <1>7 DEF Held, Run, RowCopies, Copies
  <2> QED
    BY <1>3, <1>4, <2>1, <2>2 DEF SameText
<1>8. \A k \in run[o[1]].copies : k.row # None
  BY <1>6, RefreshAssumption DEF Run, RowCopies
<1>9. \A r \in run[o[1]].insert : ~Bears(r, o)
  BY <1>6 DEF RunOK, Bears
<1>10. \A k \in run[o[1]].upsert : k.id = id => run[o[1]].at # "close" /\ k.row # None
  BY <1>9 DEF Safe
<1> QED
  BY <1>1, <1>2, <1>3, <1>5, <1>7, <1>8, <1>10 DEF Safe, Held

(* Nothing that was learned is lost, but by a script that stops.           *)
LEMMA LearnedStep == Typed /\ HeldAreOwn /\ LearnedInv /\ [Next]_vars => LearnedInv'
<1> SUFFICES ASSUME Typed, HeldAreOwn, LearnedInv, [Next]_vars PROVE LearnedInv'
  OBVIOUS
<1>1. \A o \in owed : /\ o \in Tenants \X Subjects \X Claims
                      /\ o[1] \in Tenants /\ o[2] \in Subjects
                      /\ Inserting(o) \/ \E id \in DOMAIN rows : Safe(id, o)
  BY DEF LearnedInv, OwedOK
<1>2. \A o, id : Safe(id, o) => id \in DOMAIN rows
  BY DEF Safe
<1>3. ASSUME NEW p \in Tenants, RefreshStep(p) PROVE LearnedInv'
  <2>1. owed' \subseteq owed /\ UNCHANGED <<catalog, data>>
    BY <1>3 DEF RefreshStep, FetchBundle, Ground, ReadUnowned, AdoptUnowned, FetchCurrent, Revalidate, Stamp,
       Close, Insert, Stops
  <2>2. ASSUME NEW o \in owed' PROVE Inserting(o)' \/ \E id \in DOMAIN rows' : Safe(id, o)'
    <3>1. CASE o[1] = p
      <4>1. CASE Inserting(o)
        BY <1>1, <1>3, <2>1, <3>1, <4>1, InsertingStep
      <4>2. ASSUME NEW id \in DOMAIN rows, Safe(id, o) PROVE Inserting(o)' \/ \E i \in DOMAIN rows' : Safe(i, o)'
        <5>1. Safe(id, o)' \/ Inserting(o)'
          BY <1>1, <1>3, <2>1, <3>1, <4>2, SafeStep
        <5>2. Safe(id, o)' => id \in DOMAIN rows'
          BY DEF Safe
        <5> QED
          BY <5>1, <5>2
      <4> QED
        BY <1>1, <2>1, <4>1, <4>2
    <3>2. CASE o[1] # p
      <4>1. run'[o[1]] = run[o[1]]
        BY <1>1, <1>3, <2>1, <3>2, OthersRun
      <4>2. CASE Inserting(o)
        <5>1. PICK r \in run[o[1]].insert : Bears(r, o)
          BY <4>2 DEF Inserting
        <5>2. Bears(r, o)'
          BY <2>1, <5>1, BearsOn
        <5> QED
          BY <4>1, <4>2, <5>1, <5>2 DEF Inserting
      <4>3. ASSUME NEW id \in DOMAIN rows, Safe(id, o) PROVE Inserting(o)' \/ \E i \in DOMAIN rows' : Safe(i, o)'
        <5>1. rows[id].owner # p /\ ~rows[id].ownerless
          BY <3>2, <4>3 DEF Safe, Bears, Says
        <5>2. id \in DOMAIN rows' /\ rows'[id] = rows[id]
          BY <1>3, <5>1, OthersRowStays
        <5>3. Safe(id, o)'
          BY <2>1, <4>1, <4>3, <5>2, SafeOn
        <5> QED
          BY <5>2, <5>3
      <4> QED
        BY <1>1, <2>1, <4>2, <4>3
    <3> QED
      BY <3>1, <3>2
  <2> QED
    BY <1>1, <2>1, <2>2 DEF LearnedInv, OwedOK
<1>4. ASSUME NEW q \in Tenants, NEW s \in Subjects, NEW c \in Claims, NEW m \in Queries \cup {None},
             WriteNote(q, s, c, m)
      PROVE  LearnedInv'
  <2>1. UNCHANGED <<catalog, data, run>>
    BY <1>4 DEF WriteNote
  <2>2. PICK kept, r : Wrote(q, s, kept, r)
    BY <1>4, WriteNoteIs
  <2>3. r \in Rows /\ owed' \subseteq owed \cup Learned(q, r)
    BY <2>2 DEF Wrote
  <2>4. ASSUME NEW o \in owed', o \in owed
        PROVE  Inserting(o)' \/ \E i \in DOMAIN rows' : Safe(i, o)'
    <3>1. CASE Inserting(o)
      BY <2>1, <3>1 DEF Inserting, Bears, Says, Fresh, Digest
    <3>2. ASSUME NEW id, Safe(id, o) PROVE \E i \in DOMAIN rows' : Safe(i, o)'
      <4>1. o \in Tenants \X Subjects \X Claims
        BY <1>1, <2>4
      <4>2. o[1] \in Tenants /\ o = <<o[1], o[2], o[3]>>
        BY <4>1
      <4> QED
        BY <1>4, <2>4, <3>2, <4>2, SafeWritten
    <3> QED
      BY <1>1, <2>4, <3>1, <3>2
  <2>5. ASSUME NEW o \in Learned(q, r)
        PROVE  o \in Tenants \X Subjects \X Claims /\ \E i \in DOMAIN rows' : Safe(i, o)'
    BY <1>4, <2>2, <2>3, <2>5, LearnedIs, LearnedSafe
  <2>6. OwedOK'
    BY <1>1, <2>3, <2>5 DEF OwedOK
  <2> QED
    BY <2>3, <2>4, <2>5, <2>6 DEF LearnedInv
<1>5. ASSUME UNCHANGED <<rows, run>>, owed' \subseteq owed,
             \A o \in owed' : Inserting(o) => Inserting(o)',
             \A o \in owed' : \A id : Safe(id, o) => Safe(id, o)'
      PROVE  LearnedInv'
  <2>1. OwedOK'
    BY <1>1, <1>5 DEF OwedOK
  <2> QED
    BY <1>1, <1>5, <2>1 DEF LearnedInv
<1>6. ASSUME NEW x \in Concepts, NEW new \in {None} \cup SUBSET Elements, ChangeCatalog(x, new) PROVE LearnedInv'
  <2>1. UNCHANGED <<rows, run, data>> /\ owed' \subseteq owed
    BY <1>6 DEF ChangeCatalog
  <2>2. \A o \in owed' : \A r : /\ Bears(r, o) => Bears(r, o)'
                                /\ Bears(r, o) /\ o[2] \in Concepts /\ Passes(r, o) => Passes(r, o)'
    BY <1>1, <1>6, <2>1, BearsChanged
  <2>3. \A o \in owed' : \A id : Safe(id, o) => Safe(id, o)'
    BY <1>1, <2>1, <2>2, SafeChanged
  <2>4. \A o \in owed' : Inserting(o) => Inserting(o)'
    BY <2>1, <2>2 DEF Inserting
  <2> QED
    BY <1>5, <2>1, <2>3, <2>4
<1>7. ASSUME NEW s \in Subjects, ChangeData(s) PROVE LearnedInv'
  <2>1. UNCHANGED <<catalog, rows, run>> /\ owed' \subseteq owed
    BY <1>7 DEF ChangeData
  <2>2. ASSUME NEW o \in owed', NEW id, Safe(id, o) PROVE Safe(id, o)'
    <3>1. CASE o[2] \in Concepts \/ o[2] # s
      BY <1>1, <1>7, <2>1, <2>2, <3>1, SafeElsewhere
    <3>2. CASE o[2] = s /\ s \notin Concepts
      BY <1>1, <1>7, <2>1, <2>2, <3>2, SafeUnproved
    <3> QED
      BY <3>1, <3>2
  <2>3. ASSUME NEW o \in owed', Inserting(o) PROVE Inserting(o)'
    <3>1. PICK r \in run[o[1]].insert : Bears(r, o)
      BY <2>3 DEF Inserting
    <3>2. r.subject \in Concepts /\ o[2] = r.subject
      BY <1>1, <2>1, <3>1 DEF Typed, RunOK, Bears, Says
    <3>3. Bears(r, o)'
      BY <2>1, <3>1, <3>2 DEF Bears, Says
    <3> QED
      BY <2>1, <2>3, <3>1, <3>3 DEF Inserting
  <2> QED
    BY <1>5, <2>1, <2>2, <2>3
<1>8. CASE UNCHANGED vars
  BY <1>8 DEF vars, LearnedInv, OwedOK, Inserting, Safe, Bears, Says, Passes, Ahead, Fresh, Digest
<1> QED
  BY <1>3, <1>4, <1>6, <1>7, <1>8, NextCases

LEMMA LearnedInit == Init => LearnedInv
BY DEF Init, LearnedInv, OwedOK

(* LearnedKept: what was learned about a concept is in a row of it, or in  *)
(* one that is to be inserted, until the catalog refutes it; and a note    *)
(* until its query does or it is written over; whatever runs at once and   *)
(* whatever failed.                                                        *)
THEOREM OverlaysSurvive == Spec => []LearnedKept
<1>1. LearnedInv => LearnedKept
  BY DEF LearnedInv, LearnedKept, Inserting, Safe, Bears
<1> QED
  BY <1>1, TypedInit, TypedStep, HeldInit, HeldStep, LearnedInit, LearnedStep, PTL DEF Spec
===============================================================================
