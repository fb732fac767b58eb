----------------------------- MODULE MemoryStore -----------------------------
(***************************************************************************)
(* The concept store AgentMemory.Memory and everything that writes it: the *)
(* memory_write tool (and, through it, capture and distillation), the      *)
(* delivery of notes with a query's or a sample's result, the decay and    *)
(* revalidation passes and the catalog walk.  All of them read the current *)
(* rows, decide, and then write whole rows back, one request at a time;    *)
(* between the read and each write the others go on, and a request or its  *)
(* reply may be lost.                                                      *)
(***************************************************************************)
EXTENDS Naturals, FiniteSets

CONSTANTS
  Actors,       \* sessions and maintenance passes, each doing one thing at a time
  Subjects,     \* concept identities
  Lines,        \* lines of text
  Notes,        \* what agents write
  Paragraphs,   \* Paragraphs[n]: the paragraphs of note n, each a set of lines
  Lead,         \* Lead[n]: the first line of n, in its first paragraph only
  Within,       \* pairs <<n, t>>: the text of n occurs in a paragraph of the lines t
  Begins,       \* those pairs where it is the beginning
  Paraphrases,  \* pairs <<n, t>>: a paragraph t has most of n's words and all its numbers
  Elements,     \* schema elements a core describes and a line may mention
  Refs,         \* Refs[l]: the elements line l mentions in backticks
  Refutable,    \* lines that rows at hand may contradict
  Fragments,    \* the texts a correction may name, each as the lines it occurs in
  Ops,          \* what the actors of this instance do
  MaxRows,      \* bound of the model: time stamps taken
  MaxFaults,    \* bound of the model: requests lost, retried or given up, and restarts
  None

ASSUME StoreAssumption ==
  /\ Paragraphs \in [Notes -> SUBSET ((SUBSET Lines) \ {{}})]
  /\ Lead \in [Notes -> Lines]
  /\ Within \subseteq Notes \X SUBSET Lines /\ Begins \subseteq Within
  /\ Paraphrases \subseteq Notes \X SUBSET Lines
  /\ Refs \in [Lines -> SUBSET Elements]
  /\ Refutable \subseteq Lines /\ Fragments \subseteq SUBSET Lines
  /\ Ops \subseteq {"write", "query", "sample", "decay", "revalidate", "walk"}
  /\ MaxRows \in Nat /\ MaxFaults \in Nat

(* A row's key is its subject and the time it was written.                 *)
RowIds == Subjects \X (1..MaxRows)

(* A stored text is a set of blocks, what blank lines part; a line may be  *)
(* prefixed with the marker "(unverified)".                                *)
Line  == [text : Lines, marked : BOOLEAN]
Block == (SUBSET Line) \ {{}}

(* What of a row decides anything.  owned: a concept of the catalog walk,  *)
(* with a core; otherwise a standalone Note.  notes: the overlay's blocks, *)
(* or the text of the note; sourced: it has a source_query; closed:        *)
(* valid_to is set; recalled: the count is positive; suspect: marked       *)
(* stale; archived: by the decay pass.  Evidence is where its kind has it: *)
(* an overlay's in the markers, a note's in the source_query.              *)
Row == {r \in [owned : BOOLEAN, core : SUBSET Elements, notes : SUBSET Block, sourced : BOOLEAN,
               closed : BOOLEAN, recalled : BOOLEAN, suspect : BOOLEAN, archived : BOOLEAN] :
          IF r.owned THEN ~r.sourced
                     ELSE r.core = {} /\ \A b \in r.notes : \A x \in b : ~x.marked}

(* A write still to be sent; those of a lower stage go first.              *)
Write == [op : {"upsert", "insert"}, id : RowIds, row : Row, stage : {1, 2}]

Copy == [id : RowIds, row : Row]

ASSUME NoneIsApart == None \notin Row /\ None \notin Write /\ None \notin Copy

VARIABLES
  store,     \* store[id]: the row, or None
  clock,     \* the next time stamp
  actor,     \* actor[a]: the writes a has left, what a failure drops, the one it retries
  faults,    \* faults so far
  session,   \* session[a]: RecallState: subjects delivered, copies of the rows delivered
  evidence,  \* history: the notes written with a proof: <<s, n>>
  owed,      \* history: the lines stored and not told to go: <<s, l, in an overlay>>
  broken     \* history: subjects of which an insert was given up

history == <<evidence, owed, broken>>
vars == <<store, clock, actor, faults, session, history>>

Idle == [work |-> {}, drops |-> "all", again |-> None]
NewSession == [delivered |-> {}, kept |-> {}]

Init ==
  /\ store = [id \in RowIds |-> None]
  /\ clock = 1 /\ faults = 0
  /\ actor = [a \in Actors |-> Idle]
  /\ session = [a \in Actors |-> NewSession]
  /\ evidence = {} /\ owed = {} /\ broken = {}

-----------------------------------------------------------------------------
(* Reading the store, and rows made from rows.                             *)

IsFree(a) == actor[a].work = {}
CurrentIds == {id \in RowIds : store[id] # None /\ ~store[id].closed}
Current == {[id |-> id, row |-> store[id]] : id \in CurrentIds}
CurrentOf(s) == {p \in Current : p.id[1] = s}

Upsert(p, stage) == [op |-> "upsert", id |-> p.id, row |-> p.row, stage |-> stage]
Insert(id, r)    == [op |-> "insert", id |-> id, row |-> r, stage |-> 2]

Closed(p) == [p EXCEPT !.row.closed = TRUE]
Bumped(p) == [p EXCEPT !.row.recalled = TRUE]

(* The actor starts on a list of writes; drops says what one failure takes *)
(* with it: everything left, the rest of its stage, or nothing more.       *)
Doing(writes, drops) ==
  IF writes = {} THEN Idle ELSE [work |-> writes, drops |-> drops, again |-> None]
Start(a, writes, drops) == actor' = [actor EXCEPT ![a] = Doing(writes, drops)]

-----------------------------------------------------------------------------
(* memory_write.                                                           *)

Texts(b) == {x.text : x \in b}
Said(r)  == UNION {Texts(b) : b \in r.notes}
Unmarked(b) == {[x EXCEPT !.marked = FALSE] : x \in b}
IsMarked(b) == \E x \in b : x.marked

(* A note as it is appended: the marker is put before the whole text, so   *)
(* that of several paragraphs the first alone has it.                      *)
Blocks(n, proof) ==
  {{[text |-> l, marked |-> ~proof /\ l = Lead[n]] : l \in t} : t \in Paragraphs[n]}

NewNote(n, proof) ==
  [owned |-> FALSE, core |-> {}, notes |-> Blocks(n, TRUE), sourced |-> proof,
   closed |-> FALSE, recalled |-> FALSE, suspect |-> FALSE, archived |-> FALSE]

(* A note is found in a block; it is found there as an unverified one.     *)
Found(n, b)      == <<n, Texts(b)>> \in Within
Unverified(n, b) == <<n, Texts(b)>> \in Begins /\ IsMarked(b)

(* _retire_overlay_blocks: those in which the fragment occurs go.          *)
Retires(fragment, b) == fragment # None /\ Texts(b) \cap fragment # {}
Kept(r, fragment)    == {b \in r.notes : ~Retires(fragment, b)}

(* Blocks whose evidence a proven note brings lose their marker, also when *)
(* the block goes on after the note.                                       *)
Regrounded(blocks, n, proof) ==
  {IF proof /\ Unverified(n, b) THEN Unmarked(b) ELSE b : b \in blocks}

(* Mutant of Annotated: proof of the note is taken for the overlay's.      *)
AnnotatedProved(r, n, proof, fragment) ==
  LET kept == {IF proof THEN Unmarked(b) ELSE b : b \in Kept(r, fragment)} IN
  [r EXCEPT !.notes = IF \E b \in kept : Found(n, b) THEN kept ELSE kept \cup Blocks(n, proof)]

(* Mutant of Annotated: the note's source_query is stored with the row.    *)
AnnotatedSourced(r, n, proof, fragment) ==
  LET kept == Regrounded(Kept(r, fragment), n, proof) IN
  [r EXCEPT !.notes = IF \E b \in kept : Found(n, b) THEN kept ELSE kept \cup Blocks(n, proof),
            !.sourced = proof]

(* A catalog concept: the blocks that replaces names are retired, and the  *)
(* note gets its evidence, or is appended if no block has it.              *)
Annotated(r, n, proof, fragment) ==
  LET kept == Regrounded(Kept(r, fragment), n, proof) IN
  [r EXCEPT !.notes = IF \E b \in kept : Found(n, b) THEN kept ELSE kept \cup Blocks(n, proof)]

(* A standalone note: the text is replaced; the rest of the row, its       *)
(* source_query and its suspect marker included, is carried over.          *)
Replaced(r, n, proof) == [r EXCEPT !.notes = Blocks(n, TRUE), !.sourced = @ \/ proof]

(* The text is already there, and no evidence comes with it that the       *)
(* stored copy lacks.  A note of several paragraphs is in no one block:    *)
(* whether an overlay that has them all has them side by side, and nothing *)
(* is done, depends on their order, which is left open.                    *)
NothingToWrite(r, n, proof, fragment) ==
  IF r.owned
    THEN /\ \E b \in r.notes : Found(n, b)
         /\ \A b \in r.notes : ~Retires(fragment, b) /\ ~(proof /\ Unverified(n, b))
    ELSE r.notes = Blocks(n, TRUE) /\ ~(proof /\ ~r.sourced)

(* The stored blocks n paraphrases, and whether such a block turns n away: *)
(* it does unless n brings evidence the block lacks.                       *)
Repeated(r, n) == {b \in r.notes : <<n, Texts(b)>> \in Paraphrases /\ \A d \in r.notes : ~Found(n, d)}
TurnsAway(r, b, proof) == ~proof \/ (IF r.owned THEN ~IsMarked(b) ELSE r.sourced)

(* What is appended or replaces, given the row that was read.              *)
Successor(r, n, proof, fragment) ==
  IF r.owned THEN Annotated(r, n, proof, fragment) ELSE Replaced(r, n, proof)

(* The lines that a correction, or another text, tells to go.              *)
Retracted(r, fragment) ==
  IF r.owned THEN UNION {Texts(b) : b \in {d \in r.notes : Retires(fragment, d)}} ELSE Said(r)

(* Mutant of Supersession: the new row goes first.                         *)
SupersessionInsertFirst(p, id, r) ==
  {[Insert(id, r) EXCEPT !.stage = 1], [Upsert(Closed(p), 1) EXCEPT !.stage = 2]}

(* Mutant of Supersession: the row is rewritten where it is.               *)
SupersessionInPlace(p, id, r) == {Upsert([p EXCEPT !.row = r], 1)}

(* The stored row is closed first; then its successor is inserted.         *)
Supersession(p, id, r) == {Upsert(Closed(p), 1), Insert(id, r)}

(* The first note on a subject.                                            *)
WriteFirst(a, s, n, proof) ==
  /\ CurrentOf(s) = {}
  /\ Start(a, {Insert(<<s, clock>>, NewNote(n, proof))}, "all")
  /\ UNCHANGED owed

(* A paraphrase is not written, but counts as a use of the row it repeats. *)
WriteDuplicate(a, s, n, proof, replaces) ==
  /\ replaces = None
  /\ \E p \in CurrentOf(s) : \E b \in Repeated(p.row, n) :
       TurnsAway(p.row, b, proof) /\ Start(a, {Upsert(Bumped(p), 1)}, "stage")
  /\ UNCHANGED owed

(* Any of the subject's current rows is the one the query returned first.  *)
WriteOver(a, s, n, proof, replaces) ==
  \E p \in CurrentOf(s) :
    /\ \/ replaces # None
       \/ Repeated(p.row, n) = {}
       \/ \E b \in Repeated(p.row, n) : ~TurnsAway(p.row, b, proof)
    /\ ~NothingToWrite(p.row, n, proof, replaces)
    /\ Start(a, Supersession(p, <<s, clock>>, Successor(p.row, n, proof, replaces)), "all")
    /\ owed' = owed \ {<<s, l, p.row.owned>> : l \in Retracted(p.row, replaces)}

MemoryWrite(a, s, n, proof, replaces) ==
  /\ "write" \in Ops /\ IsFree(a) /\ clock <= MaxRows
  /\ \/ WriteFirst(a, s, n, proof)
     \/ WriteDuplicate(a, s, n, proof, replaces)
     \/ WriteOver(a, s, n, proof, replaces)
  /\ clock' = clock + 1
  /\ evidence' = IF proof THEN evidence \cup {<<s, n>>} ELSE evidence
  /\ UNCHANGED <<store, faults, session, broken>>

-----------------------------------------------------------------------------
(* Delivery of notes: deliver_notes, reinforce_notes, _recheck_carried.    *)

(* check_rows: the copies whose notes the result at hand refutes are       *)
(* marked.                                                                 *)
Refuted(p, refuted) == Said(p.row) \cap refuted # {}
Checked(p, refuted) == [p EXCEPT !.row.suspect = @ \/ Refuted(p, refuted)]

(* remember: one copy per row, the first.                                  *)
Remember(kept, copies) == kept \cup {p \in copies : \A q \in kept : q.id # p.id}

(* A sample delivers whatever the subject has.                             *)
Sample(a, s, refuted) ==
  LET found == {Checked(p, refuted) : p \in {q \in CurrentOf(s) : q.row.notes # {}}} IN
  /\ "sample" \in Ops /\ IsFree(a)
  /\ Start(a, {Upsert(Bumped(p), 1) : p \in found}, "stage")
  /\ session' = [session EXCEPT ![a] = [
       delivered |-> IF found = {} THEN @.delivered ELSE @.delivered \cup {s},
       kept |-> Remember(@.kept, found)]]
  /\ UNCHANGED <<store, clock, faults, history>>

(* A query delivers a subject's notes once in a session; then its result   *)
(* is held against the copies delivered so far, and if it refutes any of   *)
(* them they are all written, as they were when they were delivered.       *)
Query(a, s, refuted) ==
  LET first   == s \notin session[a].delivered
      found   == IF first THEN {Checked(p, refuted) : p \in {q \in CurrentOf(s) : q.row.notes # {}}} ELSE {}
      kept    == Remember(session[a].kept, found)
      carried == IF first /\ found = {} THEN {} ELSE {p \in kept : p.id[1] = s}
      again   == IF \E p \in carried : Refuted(p, refuted)
                   THEN {Checked(p, refuted) : p \in carried} ELSE {}
  IN
  /\ "query" \in Ops /\ IsFree(a)
  /\ Start(a, {Upsert(Bumped(p), 1) : p \in found} \cup {Upsert(Bumped(p), 2) : p \in again}, "stage")
  /\ session' = [session EXCEPT ![a] = [
       delivered |-> IF found = {} THEN @.delivered ELSE @.delivered \cup {s},
       kept |-> kept]]
  /\ UNCHANGED <<store, clock, faults, history>>

-----------------------------------------------------------------------------
(* The passes of startup maintenance.                                      *)

(* The lines that go with standalone notes.                                *)
Retired(rows) == {<<p.id[1], l, FALSE>> : p \in rows, l \in Lines}

(* run_decay: unproved notes nobody was shown, of those the old ones.      *)
Decay(a) ==
  /\ "decay" \in Ops /\ IsFree(a)
  /\ \E old \in SUBSET {p \in Current : ~p.row.owned /\ ~p.row.sourced /\ ~p.row.recalled} :
       /\ Start(a, {Upsert([Closed(p) EXCEPT !.row.archived = TRUE], 1) : p \in old}, "all")
       /\ owed' = owed \ Retired(old)
  /\ UNCHANGED <<store, clock, faults, session, evidence, broken>>

(* run_revalidation: a proof that no longer runs marks its note, one that  *)
(* refutes it retires it.                                                  *)
Revalidate(a) ==
  LET candidates == {p \in Current : ~p.row.owned /\ p.row.sourced} IN
  /\ "revalidate" \in Ops /\ IsFree(a)
  /\ \E unprovable, refuted \in SUBSET candidates :
       /\ unprovable \cap refuted = {}
       /\ Start(a, {Upsert([p EXCEPT !.row.suspect = TRUE], 1) : p \in unprovable}
                     \cup {Upsert(Closed(p), 1) : p \in refuted}, "one")
       /\ owed' = owed \ Retired(refuted)
  /\ UNCHANGED <<store, clock, faults, session, evidence, broken>>

(* reground_overlay: a line that mentions an element the core has lost     *)
(* does not survive it, and its marker goes with it; what is left of its   *)
(* block stays.                                                            *)
Survives(l, old, new) == Refs[l] \cap (old \ new) = {}
Surviving(notes, old, new) == {{x \in b : Survives(x.text, old, new)} : b \in notes} \ {{}}

Concept(core, notes) ==
  [owned |-> TRUE, core |-> core, notes |-> notes, sourced |-> FALSE,
   closed |-> FALSE, recalled |-> FALSE, suspect |-> FALSE, archived |-> FALSE]

(* Mutant of Walked: an overlay does not survive a change of the core.     *)
WalkedBare(core, r) ==
  Concept(core, IF r = None \/ ~r.owned \/ r.core # core THEN {} ELSE r.notes)

(* The concept as the catalog now has it, with the overlay of the row it   *)
(* replaces (None if there is none).  A standalone note has no overlay.    *)
Walked(core, r) ==
  Concept(core, IF r = None \/ ~r.owned THEN {} ELSE Surviving(r.notes, r.core, core))

Same(r, w) == r.owned /\ r.core = w.core /\ r.notes = w.notes

(* run_walk: catalog[s] is the core of a concept it found; current[s]      *)
(* the row kept of those the subject has.  All changed and vanished rows   *)
(* are closed, then all new ones inserted.                                 *)
Walk(a, catalog, current) ==
  LET new(s)     == Walked(catalog[s], IF current[s] = None THEN None ELSE current[s].row)
      changed    == {s \in DOMAIN catalog :
                      current[s] # None => ~Same(current[s].row, new(s))}
      superseded == {s \in changed : current[s] # None}
      vanished   == {s \in Subjects \ DOMAIN catalog : current[s] # None /\ current[s].row.owned}
  IN
  /\ "walk" \in Ops /\ IsFree(a) /\ clock <= MaxRows
  /\ \A s \in Subjects : IF CurrentOf(s) = {} THEN current[s] = None ELSE current[s] \in CurrentOf(s)
  /\ Start(a, {Upsert(Closed(current[s]), 1) : s \in superseded \cup vanished}
                \cup {Insert(<<s, clock>>, new(s)) : s \in changed}, "all")
  /\ clock' = clock + 1
  /\ owed' = owed \ ({<<s, l, TRUE>> : s \in vanished, l \in Lines}
                     \cup {o \in owed : /\ o[1] \in superseded /\ o[3]
                                       /\ ~Survives(o[2], current[o[1]].row.core, catalog[o[1]])})
  /\ UNCHANGED <<store, faults, session, evidence, broken>>

-----------------------------------------------------------------------------
(* Sending a write: _post_query and the store's answer.                    *)

(* The writes that may go next: the one being retried, or any of the       *)
(* lowest stage.                                                           *)
Due(a) == IF actor[a].again # None
            THEN {actor[a].again}
            ELSE {w \in actor[a].work : \A v \in actor[a].work : w.stage <= v.stage}

(* An INSERT whose key exists is an error and changes nothing.             *)
Collides(w) == w.op = "insert" /\ store[w.id] # None

(* Mutant of Effect: closing a row closes the subject's other rows.        *)
EffectOnSubject(w) ==
  IF Collides(w) THEN store
  ELSE [id \in RowIds |->
          IF id = w.id THEN w.row
          ELSE IF w.op = "upsert" /\ w.row.closed /\ id[1] = w.id[1] /\ store[id] # None
            THEN [store[id] EXCEPT !.closed = TRUE]
            ELSE store[id]]

Effect(w) == IF Collides(w) THEN store ELSE [store EXCEPT ![w.id] = w.row]

Applied(w) ==
  /\ store' = Effect(w)
  /\ owed' = IF w.op = "insert" /\ ~Collides(w)
               THEN owed \cup {<<w.id[1], l, w.row.owned>> : l \in Said(w.row)} ELSE owed

AppliedOrLost(w) == Applied(w) \/ UNCHANGED <<store, owed>>

WriteLands(a) ==
  /\ \E w \in Due(a) :
       /\ ~Collides(w) /\ Applied(w)
       /\ actor' = [actor EXCEPT ![a] = Doing(@.work \ {w}, @.drops)]
  /\ UNCHANGED <<clock, faults, session, evidence, broken>>

(* What is left of a's work when w fails, and the subjects whose insert is *)
(* among what is dropped.                                                  *)
Left(a, w) ==
  LET work == actor[a].work IN
  CASE actor[a].drops = "all"   -> {}
    [] actor[a].drops = "stage" -> {v \in work : v.stage > w.stage}
    [] actor[a].drops = "one"   -> work \ {w}

Fault == faults < MaxFaults /\ faults' = faults + 1

GivenUp(writes) == {w.id[1] : w \in {v \in writes : v.op = "insert"}}

(* The key exists; or the request is refused, times out, or is reset for   *)
(* the second time, with or without having been applied.                   *)
WriteFails(a) ==
  /\ \E w \in Due(a) :
       /\ IF Collides(w) THEN UNCHANGED faults ELSE Fault
       /\ AppliedOrLost(w)
       /\ actor' = [actor EXCEPT ![a] = Doing(Left(a, w), @.drops)]
       /\ broken' = broken \cup GivenUp(actor[a].work \ Left(a, w))
  /\ UNCHANGED <<clock, session, evidence>>

(* The connection is reset, before or after the store applied the write,   *)
(* and the same statement is posted again.                                 *)
WriteRetried(a) ==
  /\ Fault /\ actor[a].again = None
  /\ \E w \in Due(a) :
       /\ AppliedOrLost(w)
       /\ actor' = [actor EXCEPT ![a].again = w]
  /\ UNCHANGED <<clock, session, evidence, broken>>

(* The gateway process of a session or a pass ends; so does a pass that    *)
(* exceeds its time.                                                       *)
Restart(a) ==
  /\ Fault
  /\ actor[a].work # {} \/ session[a] # NewSession
  /\ actor' = [actor EXCEPT ![a] = Idle]
  /\ session' = [session EXCEPT ![a] = NewSession]
  /\ broken' = broken \cup GivenUp(actor[a].work)
  /\ UNCHANGED <<store, clock, evidence, owed>>

Catalogs == UNION {[found -> SUBSET Elements] : found \in SUBSET Subjects}

Operation(a) ==
  \/ \E s \in Subjects, n \in Notes, proof \in BOOLEAN, r \in {None} \cup Fragments :
       MemoryWrite(a, s, n, proof, r)
  \/ \E s \in Subjects, refuted \in SUBSET Refutable : Sample(a, s, refuted) \/ Query(a, s, refuted)
  \/ Decay(a) \/ Revalidate(a)
  \/ \E catalog \in Catalogs, current \in [Subjects -> Current \cup {None}] : Walk(a, catalog, current)

Next == \E a \in Actors :
  Operation(a) \/ WriteLands(a) \/ WriteFails(a) \/ WriteRetried(a) \/ Restart(a)

Spec == Init /\ [][Next]_vars

-----------------------------------------------------------------------------

(* Types: in every copy and every write, whatever it was made from, the    *)
(* evidence is where the row's kind has it, so that revalidation and decay *)
(* never take an overlay for a note; and a retry is of a write of its      *)
(* actor's.                                                                *)
TypeOK ==
  /\ store \in [RowIds -> Row \cup {None}]
  /\ clock \in 1..(MaxRows + 1) /\ faults \in 0..MaxFaults
  /\ actor \in [Actors -> [work : SUBSET Write, drops : {"all", "stage", "one"}, again : Write \cup {None}]]
  /\ \A a \in Actors : actor[a].again # None => actor[a].again \in actor[a].work
  /\ session \in [Actors -> [delivered : SUBSET Subjects, kept : SUBSET Copy]]
  /\ evidence \subseteq Subjects \X Notes /\ owed \subseteq Subjects \X Lines \X BOOLEAN
  /\ broken \subseteq Subjects

Content(r) == <<r.owned, r.core, r.notes, r.sourced>>

(* Nothing is ever deleted or rewritten: whatever the readers' copies and  *)
(* however stale, a row once stored keeps its place and what it says; only *)
(* its life and its bookkeeping change.                                    *)
HistoryKept ==
  [][\A id \in RowIds : store[id] # None =>
        store'[id] # None /\ Content(store'[id]) = Content(store[id])]_vars

Waiting(s, l) == \E a \in Actors : \E w \in actor[a].work :
                   w.op = "insert" /\ w.id[1] = s /\ l \in Said(w.row)

(* No lost update among annotations: with any number of concurrent writers *)
(* and walks, each working from its own stale copy, a line that reached an *)
(* overlay stays in a current row of its subject (or is about to be        *)
(* inserted in one) until a correction of its block, a change of what it   *)
(* mentions or the concept's end retires it; unless an insert was given up *)
(* half way.                                                               *)
AnnotationsKept ==
  \A o \in owed : (o[3] /\ o[1] \notin broken) =>
    Waiting(o[1], o[2]) \/ \E p \in CurrentOf(o[1]) : o[2] \in Said(p.row)

(* The lines that only ever begin a note, and so are written marked if     *)
(* nothing proves it.                                                      *)
Leading == {l \in Lines : \A n \in Notes : l \in UNION Paragraphs[n] => l = Lead[n]}

(* Note n, proven, proves line l: it says it, or begins a block that does. *)
Proves(n, l) ==
  \/ l \in UNION Paragraphs[n]
  \/ \E t \in SUBSET Lines : l \in t /\ <<n, t>> \in Begins

(* The marker of a note that nobody proved is not lost: a leading line of  *)
(* an overlay without "(unverified)" was written by, or stands in a block  *)
(* begun by, a note that came with a proof, however often the row was      *)
(* rebuilt since by corrections, other notes and walks.                    *)
OverlayHasEvidence ==
  \A id \in RowIds : store[id] # None /\ store[id].owned =>
    \A b \in store[id].notes : \A x \in b :
      ~x.marked /\ x.text \in Leading => \E n \in Notes : <<id[1], n>> \in evidence /\ Proves(n, x.text)

(* Supersession keeps one current row per subject: the close goes before   *)
(* the insert, so a failure between them leaves none, never two.           *)
AtMostOneCurrent == \A s \in Subjects : Cardinality(CurrentOf(s)) <= 1
=============================================================================
