-------------------------------- MODULE Refresh --------------------------------
(***************************************************************************)
(* scripts/okf_refresh.py: an operator's script that brings the concepts   *)
(* of one tenant in the memory store up to the catalog, and checks its     *)
(* notes.  It takes no lock: tenants refresh at once, sessions write notes *)
(* meanwhile, the catalog and the data change, and the script stops at the *)
(* first error that it does not expect.  (The walk of the gateway, and the *)
(* writing of a note request by request, are in MemoryStore.)              *)
(***************************************************************************)
EXTENDS Naturals, FiniteSets

CONSTANTS
  Subjects,     \* concepts the catalog may have, and names only notes are on
  Concepts,     \* the former
  Scopes,       \* Scopes[d]: the concepts of a --dataverse argument
  Elements,     \* what the core of a concept tells: columns, indexes
  Claims, Refs, \* what a note claims; Refs[c]: the elements it names in backticks
  Queries,      \* queries that prove a note
  Lessons,      \* what sessions write: subject, claim, and query or None
  Tenants, Shared,
  Mode,         \* Mode[p]: the options p refreshes with: scope, ground, revalidate
  OldCatalogs,  \* catalogs there may be at first
  OldRows,      \* the rows at first, of the shared tier and of no owner; a row's
                \*   id is its subject and a number
  MaxChanges,   \* bounds of the model: changes of the catalog and of the data,
  MaxNotes,     \*   notes written,
  MaxFaults,    \*   errors
  None

(* A row: of the walk, with a core and an overlay of claims, or a note of  *)
(* one claim, with a query that proves it and the digest of what that      *)
(* returned.  For the properties, whether it began with no owner.          *)
Rows == {r \in [subject : Subjects, owner : Tenants \cup {Shared, None}, walk : BOOLEAN,
                core : [has : SUBSET Elements, count : Nat \cup {None}] \cup {None},
                overlay : SUBSET Claims, query : Queries \cup {None},
                digest : (Queries \X Nat) \cup {None}, ownerless : BOOLEAN] :
           (r.walk => r.query = None) /\ (r.query = None => r.digest = None)}

ASSUME RefreshAssumption ==
  /\ Concepts \subseteq Subjects /\ Refs \in [Claims -> SUBSET Elements]
  /\ Lessons \subseteq Subjects \X Claims \X (Queries \cup {None})
  /\ IsFiniteSet(Subjects) /\ IsFiniteSet(Tenants)
  /\ \A p \in Tenants : /\ Mode[p].scope \in DOMAIN Scopes /\ Scopes[Mode[p].scope] \subseteq Concepts
                        /\ {Mode[p].ground, Mode[p].revalidate} \subseteq BOOLEAN
  /\ OldCatalogs \subseteq [Concepts -> {None} \cup SUBSET Elements]
  /\ Shared \notin Tenants /\ None \notin Tenants \cup Claims \cup Queries \cup Nat \cup {Shared}
  /\ None \notin Queries \X Nat
  /\ None \notin Rows
  /\ IsFiniteSet(DOMAIN OldRows) /\ DOMAIN OldRows \subseteq Subjects \X Nat
  /\ OldRows \in [DOMAIN OldRows -> Rows]
  /\ \A id \in DOMAIN OldRows :
       /\ OldRows[id].subject = id[1] /\ OldRows[id].owner \in {Shared, None}
       /\ OldRows[id].ownerless <=> OldRows[id].owner = None

VARIABLES
  catalog,   \* catalog[x]: the elements of x, or None
  data,      \* data[s]: the state of what queries on s read
  rows,      \* rows[id]: a current row of the store (nothing reads the closed ones)
  run,       \* run[p]: p's okf_refresh
  changes, written, faults,
  owed       \* history: <<p, s, c>>, what was learned and nothing has refuted

vars == <<catalog, data, rows, run, changes, written, faults, owed>>

EmptyMap == [s \in {} |-> None]

NoRun == [at |-> "off", bundle |-> EmptyMap, copies |-> {}, upsert |-> {}, insert |-> {}]

Concept(s, p, core, overlay) ==
  [subject |-> s, owner |-> p, walk |-> TRUE, core |-> core, overlay |-> overlay,
   query |-> None, digest |-> None, ownerless |-> p = None]
Note(s, p, c, q) == [Concept(s, p, None, {c}) EXCEPT !.walk = FALSE, !.query = q]

Init ==
  /\ catalog \in OldCatalogs /\ data = [s \in Subjects |-> 0]
  /\ rows = OldRows
  /\ run = [p \in Tenants |-> NoRun]
  /\ changes = 0 /\ written = 0 /\ faults = 0 /\ owed = {}

Fault == faults < MaxFaults /\ faults' = faults + 1

-----------------------------------------------------------------------------
(* The store.  A copy is a row as it was read, under its id; of one to be  *)
(* closed, the id is all that matters.                                     *)

Copy(id) == [id |-> id, row |-> rows[id]]
Closed(copy) == [copy EXCEPT !.row = None]

(* The ids that a row has, or had when somebody read it.                   *)
Known == DOMAIN rows \cup UNION {{k.id : k \in run[p].copies \cup run[p].upsert} : p \in Tenants}

(* subject@now: a new one.                                                 *)
NewId(s) == <<s, CHOOSE n \in 1..(Cardinality(Known) + 1) : <<s, n>> \notin Known>>

(* UPSERT of a list of copies, INSERT of rows of one subject each.         *)
Upserted(copies) ==
  LET open == {k \in copies : k.row # None} IN
  [id \in (DOMAIN rows \ {k.id : k \in copies}) \cup {k.id : k \in open} |->
     IF \E k \in open : k.id = id THEN (CHOOSE k \in open : k.id = id).row ELSE rows[id]]

Inserted(old, new) ==
  [id \in DOMAIN old \cup {NewId(r.subject) : r \in new} |->
     IF id \in DOMAIN old THEN old[id] ELSE CHOOSE r \in new : r.subject = id[1]]

-----------------------------------------------------------------------------
(* okf_refresh, as p.                                                      *)

(* okf_catalog: the concepts in scope.                                     *)
FetchBundle(p) ==
  /\ run[p].at = "off"
  /\ run' = [run EXCEPT ![p] = [NoRun EXCEPT
       !.at = IF Mode[p].ground THEN "ground" ELSE "adopt",
       !.bundle = [x \in {y \in Scopes[Mode[p].scope] : catalog[y] # None} |->
                     [has |-> catalog[x], count |-> None]]]]
  /\ UNCHANGED <<catalog, data, rows, changes, written, faults, owed>>

(* The count of each dataset goes into its core, and stays out of it where *)
(* the query fails.                                                        *)
Ground(p) ==
  /\ run[p].at = "ground"
  /\ \E failed \in SUBSET DOMAIN run[p].bundle :
       /\ IF failed = {} THEN UNCHANGED faults ELSE Fault
       /\ run' = [run EXCEPT ![p].at = "adopt",
            ![p].bundle = [x \in DOMAIN @ |-> IF x \in failed THEN @[x] ELSE [@[x] EXCEPT !.count = data[x]]]]
  /\ UNCHANGED <<catalog, data, rows, changes, written, owed>>

(* adopt_unowned reads the rows without an owner,                          *)
ReadUnowned(p) ==
  /\ run[p].at = "adopt"
  /\ LET unowned == {id \in DOMAIN rows : rows[id].owner = None}
     IN run' = [run EXCEPT ![p].at = IF unowned = {} THEN "fetch" ELSE "own",
                           ![p].upsert = {[Copy(id) EXCEPT !.row.owner = p] : id \in unowned}]
  /\ UNCHANGED <<catalog, data, rows, changes, written, faults, owed>>

(* and writes them with p for their owner.                                 *)
AdoptUnowned(p) ==
  /\ run[p].at = "own"
  /\ rows' = Upserted(run[p].upsert)
  /\ run' = [run EXCEPT ![p].at = "fetch", ![p].upsert = {}]
  /\ UNCHANGED <<catalog, data, changes, written, faults, owed>>

(* Mutant of Mine: what the predicate of the store lets through.           *)
MineOrShared(p, r) == r.owner \in {p, Shared}

(* The shared tier comes with p's own rows, and is dropped.                *)
Mine(p, r) == r.owner = p

(* One row of each subject, whichever comes last.                          *)
OnePerSubject(ids) ==
  {S \in SUBSET ids : /\ \A i, j \in S : i[1] = j[1] => i = j
                      /\ {i[1] : i \in S} = {i[1] : i \in ids}}

(* reground_overlay: a claim about an element that was in the old core and *)
(* is not in the new one is dropped.                                       *)
Survives(c, old, new) == Refs[c] \cap (old \ new) = {}

Regrounded(overlay, old, new) == {c \in overlay : Survives(c, old, new)}

(* Mutant of Unchanged: the document is compared, overlay and all.         *)
UnchangedText(row, doc) == row.walk /\ row.core = doc /\ row.overlay = {}

(* The core is the same (and then the overlay is).                         *)
Unchanged(row, doc) == row.walk /\ row.core = doc

(* What comes of a concept and the row there is: a note has no overlay to  *)
(* carry on, and its text is no core that names an element.                *)
Successor(p, x, k) ==
  LET doc == run[p].bundle[x]
  IN Concept(x, p, doc, IF k.row.walk THEN Regrounded(k.row.overlay, k.row.core.has, doc.has) ELSE {})

(* reconcile: a changed concept is closed and inserted anew, a vanished    *)
(* one of the walk is closed if it is in scope.                            *)
Changed(p, copies) ==
  {k \in copies : /\ k.row.subject \in DOMAIN run[p].bundle
                  /\ ~Unchanged(k.row, run[p].bundle[k.row.subject])}
Vanished(p, copies) ==
  {k \in copies : k.row.subject \in Scopes[Mode[p].scope] \ DOMAIN run[p].bundle /\ k.row.walk}
New(p, copies) == {x \in DOMAIN run[p].bundle : \A k \in copies : k.row.subject # x}

(* Then apply: an UPSERT, then an INSERT, unless there is nothing in them. *)
Reconciled(p, copies) ==
  LET upsert == {Closed(k) : k \in Changed(p, copies) \cup Vanished(p, copies)}
      insert == {Successor(p, k.row.subject, k) : k \in Changed(p, copies)}
                  \cup {Concept(x, p, run[p].bundle[x], {}) : x \in New(p, copies)}
  IN IF upsert \cup insert = {} THEN NoRun
     ELSE [NoRun EXCEPT !.at = IF upsert = {} THEN "insert" ELSE "close",
                        !.upsert = upsert, !.insert = insert]

FetchCurrent(p) ==
  /\ run[p].at = "fetch"
  /\ \E ids \in OnePerSubject({i \in DOMAIN rows : Mine(p, rows[i])}) :
       LET copies == {Copy(id) : id \in ids} IN
       run' = [run EXCEPT ![p] =
         IF Mode[p].revalidate THEN [@ EXCEPT !.at = "revalidate", !.copies = copies]
         ELSE Reconciled(p, copies)]
  /\ UNCHANGED <<catalog, data, rows, changes, written, faults, owed>>

(* The fingerprint of what a query returns: that of another is another.    *)
Digest(q, s) == <<q, data[s]>>

(* Mutant of Drifted: a query that failed counts for a changed result.     *)
DriftedOrFailed(k, failed) ==
  /\ k.row.digest # None
  /\ k.row.subject \in failed \/ k.row.digest # Digest(k.row.query, k.row.subject)

(* The result is not what was stored; one that failed proves nothing.      *)
Drifted(k, failed) ==
  /\ k.row.digest # None /\ k.row.subject \notin failed
  /\ k.row.digest # Digest(k.row.query, k.row.subject)

(* revalidate: the queries of the notes the bundle does not have are run.  *)
(* A drifted note is closed, one that had no digest gets one in place; the *)
(* list is written, if it is not empty.                                    *)
Revalidate(p) ==
  /\ run[p].at = "revalidate"
  /\ LET notes == {k \in run[p].copies : k.row.query # None /\ k.row.subject \notin DOMAIN run[p].bundle}
     IN \E failed \in SUBSET {k.row.subject : k \in notes} :
          LET stale  == {k \in notes : Drifted(k, failed)}
              new    == {k \in notes : k.row.digest = None /\ k.row.subject \notin failed}
              upsert == {Closed(k) : k \in stale}
                          \cup {[k EXCEPT !.row.digest = Digest(k.row.query, k.row.subject)] : k \in new}
          IN /\ IF failed = {} THEN UNCHANGED faults ELSE Fault
             /\ run' = [run EXCEPT ![p] =
                  IF upsert = {} THEN Reconciled(p, run[p].copies)
                  ELSE [run[p] EXCEPT !.at = "stamp", !.copies = run[p].copies \ stale,
                                      !.upsert = upsert]]
  /\ UNCHANGED <<catalog, data, rows, changes, written, owed>>

Stamp(p) ==
  /\ run[p].at = "stamp"
  /\ rows' = Upserted(run[p].upsert)
  /\ run' = [run EXCEPT ![p] = Reconciled(p, @.copies)]
  /\ UNCHANGED <<catalog, data, changes, written, faults, owed>>

Close(p) ==
  /\ run[p].at = "close"
  /\ rows' = Upserted(run[p].upsert)
  /\ run' = [run EXCEPT ![p] = IF @.insert = {} THEN NoRun ELSE [@ EXCEPT !.at = "insert", !.upsert = {}]]
  /\ UNCHANGED <<catalog, data, changes, written, faults, owed>>

Insert(p) ==
  /\ run[p].at = "insert"
  /\ rows' = Inserted(rows, run[p].insert)
  /\ run' = [run EXCEPT ![p] = NoRun]
  /\ UNCHANGED <<catalog, data, changes, written, faults, owed>>

Told(p, r) == {<<p, r.subject, c>> : c \in r.overlay}

(* A request fails (in the passes that expect that, the cluster cannot be  *)
(* reached) and the script ends; what it was to insert is lost.            *)
Stops(p) ==
  /\ run[p].at # "off"
  /\ Fault /\ run' = [run EXCEPT ![p] = NoRun]
  /\ owed' = IF run[p].at = "insert" THEN owed \ UNION {Told(p, r) : r \in run[p].insert} ELSE owed
  /\ UNCHANGED <<catalog, data, rows, changes, written>>

-----------------------------------------------------------------------------
(* Everybody else.                                                         *)

(* p's refresh has read the catalog and has yet to read the rows.          *)
Ahead(p, s) == run[p].at \in {"ground", "adopt", "own", "fetch"} /\ s \in Scopes[Mode[p].scope]

(* Nothing refutes a claim that p's session makes of row r: not the catalog*)
(* as it is, nor as p's refresh has read it before it reads r, nor what    *)
(* the catalog has lost since then.                                        *)
Stands(p, r, c) ==
  /\ r.subject \in Concepts /\ catalog[r.subject] # None
  /\ Survives(c, r.core.has, catalog[r.subject])
  /\ Ahead(p, r.subject) =>
       /\ r.subject \in DOMAIN run[p].bundle
       /\ Survives(c, r.core.has, run[p].bundle[r.subject].has)
       /\ Survives(c, run[p].bundle[r.subject].has, catalog[r.subject])

(* What p's session makes of a row r with a claim and a query: one of the  *)
(* walk has one block more, a note has the claim for its text.  What the   *)
(* note does not bring, it keeps: its query, and the digest it was given.  *)
Rewritten(p, r, c, q) ==
  [r EXCEPT !.owner = p, !.ownerless = FALSE,
            !.overlay = IF r.walk THEN @ \cup {c} ELSE {c},
            !.query = IF r.walk \/ q = None THEN @ ELSE q]

(* What the row says already, and is not proved anew.                      *)
AddsNothing(r, c, q) == c \in r.overlay /\ (q = None \/ (~r.walk /\ r.query # None))

(* The claims of row n that nothing refutes.  Of a note: neither the query *)
(* it has now, nor the digest that an earlier query left it.               *)
Learned(p, n) ==
  {<<p, n.subject, d>> : d \in {b \in n.overlay :
     IF n.subject \in Concepts THEN n.walk /\ Stands(p, n, b)
     ELSE ~n.walk /\ n.digest \in {None, Digest(n.query, n.subject)}}}

(* A note that is written over is no longer owed.                          *)
Replaced(p, r) == IF r.subject \in Concepts THEN {} ELSE Told(p, r)

(* memory_write by a session of p: a row of the subject that p can read is *)
(* closed and inserted as rewritten; a subject that has none gets a note.  *)
(* A row of the shared tier becomes p's.  (How blocks are marked, proved   *)
(* and retired is in MemoryStore.)                                         *)
WriteNote(p, s, c, q) ==
  /\ <<s, c, q>> \in Lessons
  /\ written < MaxNotes /\ written' = written + 1
  /\ LET seen == {id \in DOMAIN rows : id[1] = s /\ rows[id].owner \in {p, Shared}}
     IN \/ \E id \in seen :
             LET n == Rewritten(p, rows[id], c, q) IN
             /\ ~AddsNothing(rows[id], c, q)
             /\ rows' = Inserted(Upserted({Closed(Copy(id))}), {n})
             /\ owed' = (owed \ Replaced(p, rows[id])) \cup Learned(p, n)
        \/ LET n == Note(s, p, c, q) IN
           seen = {} /\ rows' = Inserted(rows, {n}) /\ owed' = owed \cup Learned(p, n)
  /\ UNCHANGED <<catalog, data, run, changes, faults>>

(* A concept is made, altered or dropped: claims about what it loses are   *)
(* refuted.                                                                *)
ChangeCatalog(x, new) ==
  /\ changes < MaxChanges /\ changes' = changes + 1
  /\ new # catalog[x] /\ catalog' = [catalog EXCEPT ![x] = new]
  /\ owed' = {o \in owed : o[2] = x => new # None /\ Survives(o[3], catalog[x], new)}
  /\ UNCHANGED <<data, rows, run, written, faults>>

(* The row, or one that is to be inserted, says what o was learned.        *)
Says(r, o) == r.owner = o[1] /\ r.subject = o[2] /\ o[3] \in r.overlay

(* The data changes: a note that a query proves is refuted.                *)
ChangeData(s) ==
  /\ changes < MaxChanges /\ changes' = changes + 1
  /\ data' = [data EXCEPT ![s] = 1 - @]
  /\ owed' = {o \in owed : o[2] = s /\ s \notin Concepts =>
                 \A id \in DOMAIN rows : Says(rows[id], o) => rows[id].query = None}
  /\ UNCHANGED <<catalog, rows, run, written, faults>>

-----------------------------------------------------------------------------

RefreshStep(p) ==
  \/ FetchBundle(p) \/ Ground(p) \/ ReadUnowned(p) \/ AdoptUnowned(p)
  \/ FetchCurrent(p) \/ Revalidate(p) \/ Stamp(p) \/ Close(p) \/ Insert(p)
  \/ Stops(p)

Next ==
  \/ \E p \in Tenants : RefreshStep(p)
  \/ \E p \in Tenants, s \in Subjects, c \in Claims, q \in Queries \cup {None} : WriteNote(p, s, c, q)
  \/ \E x \in Concepts, new \in {None} \cup SUBSET Elements : ChangeCatalog(x, new)
  \/ \E s \in Subjects : ChangeData(s)

Spec == Init /\ [][Next]_vars

(* Each tenant's refresh is scheduled again and again, and a script goes   *)
(* on or stops (a step of RefreshStep(p) is always enabled, and changes    *)
(* run[p]).                                                                *)
FairSpec == Spec /\ \A p \in Tenants : []<><<run'[p] # run[p]>>_vars

-----------------------------------------------------------------------------

(* Tenancy: a refresh as p, however old the copies it writes, changes no   *)
(* row of another tenant or of the shared tier.  (Rows that began with no  *)
(* owner can be adopted twice, by two that read them at once.)             *)
OthersRowsKept ==
  [][\A p \in Tenants, id \in DOMAIN rows :
       run'[p] # run[p] /\ rows[id].owner # p /\ ~rows[id].ownerless =>
         id \in DOMAIN rows' /\ rows'[id] = rows[id]]_vars

(* "Overlays survive every re-walk": what was learned about a concept is   *)
(* in a current row of it until the catalog refutes it, and a note until   *)
(* its query does or a session writes over it; whatever runs at once and   *)
(* whatever failed, unless a script stopped after it had closed the row    *)
(* and before it inserted.  (A note that is written over one that has been *)
(* revalidated, with a query of its own, keeps the digest of the other,    *)
(* and is closed for it: nothing is owed of such a note.)                  *)
LearnedKept ==
  \A o \in owed :
    \/ \E id \in DOMAIN rows : Says(rows[id], o)
    \/ \E r \in run[o[1]].insert : Says(r, o)

Core(p, x) == [has |-> catalog[x], count |-> IF Mode[p].ground THEN data[x] ELSE None]

(* The store of p is level with the catalog in the scope that p refreshes: *)
(* a concept there is has its core in a row of the walk, one that is gone  *)
(* has no such row; and no refresh of p has anything to write.  (Of two    *)
(* rows with one subject a run sees one.  A second row that is as good, or *)
(* that no run happens to see, may stay; and a note can hide a vanished    *)
(* concept from every run.)                                                *)
Level(p) ==
  /\ \A x \in Scopes[Mode[p].scope] :
       LET mine  == {id \in DOMAIN rows : id[1] = x /\ rows[id].owner = p}
           walks == {id \in mine : rows[id].walk}
       IN IF catalog[x] = None THEN walks = {} \/ walks # mine
          ELSE \E id \in walks : rows[id].core = Core(p, x)
  /\ run[p].at \notin {"own", "stamp", "close", "insert"}

(* A catalog that stays as it is leaves every tenant's store level with it *)
(* for good, and in the end no refresh writes: the copies that were stale  *)
(* and the rows that were doubled do not feed one another.                 *)
StoreSettles == <>[](\A p \in Tenants : Level(p))
=============================================================================
