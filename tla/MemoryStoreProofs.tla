-------------------------- MODULE MemoryStoreProofs --------------------------
(***************************************************************************)
(* The concept store, for any number of writers, subjects and notes: what  *)
(* a row says is never rewritten, what it says it has evidence for has     *)
(* some, and annotations stay until they are told to go, however stale the *)
(* copies are that the writers work from; and one writer alone never       *)
(* leaves a subject with two current rows.                                 *)
(***************************************************************************)
EXTENDS MemoryStore, FiniteSetTheorems, TLAPS

(* The row at id is there and says what r says.                            *)
Says(id, r) == store[id] # None /\ Content(store[id]) = Content(r)

(* The leading lines that blocks of a row of s have unmarked are proven by *)
(* notes of E.                                                             *)
Proven(s, blocks, E) ==
  \A b \in blocks : \A x \in b :
    ~x.marked /\ x.text \in Leading => \E n \in Notes : <<s, n>> \in E /\ Proves(n, x.text)

(* What the overlay r of s says with evidence has evidence in E.           *)
Backed(s, r, E) == r.owned => Proven(s, r.notes, E)

(* Every copy, however old, and every write that rewrites a row says what  *)
(* the row says; and a row to be inserted has the evidence it claims.      *)
FaithfulWrite(w, E) ==
  /\ w.op = "upsert" => Says(w.id, w.row)
  /\ w.op = "insert" => Backed(w.id[1], w.row, E)

Faithful ==
  /\ \A a \in Actors : \A w \in actor[a].work : FaithfulWrite(w, evidence)
  /\ \A a \in Actors : \A p \in session[a].kept : Says(p.id, p.row)

Inv == TypeOK /\ Faithful /\ OverlayHasEvidence

-----------------------------------------------------------------------------
(* Copies and the rows made of them.                                       *)

Fields == [owned : BOOLEAN, core : SUBSET Elements, notes : SUBSET Block, sourced : BOOLEAN,
           closed : BOOLEAN, recalled : BOOLEAN, suspect : BOOLEAN, archived : BOOLEAN]

(* The evidence is where the row's kind has it.                            *)
Proper(r) == IF r.owned THEN ~r.sourced
                        ELSE r.core = {} /\ \A b \in r.notes : \A x \in b : ~x.marked

(* A row is a record of its fields with one condition.                     *)
LEMMA RowFields == Row = {r \in Fields : Proper(r)}
BY DEF Row, Fields, Proper

(* The rows that differ from r in one mark of its bookkeeping.             *)
Marked(r, b) == {[r EXCEPT !.closed = b], [r EXCEPT !.recalled = b],
                 [r EXCEPT !.suspect = b], [r EXCEPT !.archived = b]}

(* A row with a mark of its bookkeeping set.                               *)
LEMMA MarkedRow ==
  ASSUME NEW r \in Row, NEW b \in BOOLEAN, NEW t \in Marked(r, b)
  PROVE  t \in Row /\ Content(t) = Content(r)
<1>1. r \in Fields /\ Proper(r)
  BY RowFields
<1>2. t \in Fields
  BY <1>1 DEF Fields, Marked
<1>3. t.owned = r.owned /\ t.core = r.core /\ t.notes = r.notes /\ t.sourced = r.sourced
  BY <1>1 DEF Fields, Marked
<1> QED
  BY <1>1, <1>2, <1>3, RowFields DEF Content, Proper

(* q is p with another bookkeeping.                                        *)
Marks(q, p) == q \in Copy /\ q.id = p.id /\ Content(q.row) = Content(p.row)

(* A copy with a row that says the same in the place of its own.           *)
LEMMA CopyWith ==
  ASSUME NEW p \in Copy, NEW t \in Row, Content(t) = Content(p.row)
  PROVE  Marks([id |-> p.id, row |-> t], p)
BY DEF Copy, Marks

(* A copy holds a row.                                                     *)
LEMMA CopyRow == ASSUME NEW p \in Copy PROVE p.row \in Row
BY DEF Copy

(* A copy with a mark of its row set.                                      *)
LEMMA MarkIn ==
  ASSUME NEW p \in Copy, NEW b \in BOOLEAN
  PROVE  /\ Marks([p EXCEPT !.row.closed = b], p) /\ Marks([p EXCEPT !.row.recalled = b], p)
         /\ Marks([p EXCEPT !.row.suspect = b], p) /\ Marks([p EXCEPT !.row.archived = b], p)
<1>1. /\ [p EXCEPT !.row.closed = b] = [id |-> p.id, row |-> [p.row EXCEPT !.closed = b]]
      /\ [p EXCEPT !.row.recalled = b] = [id |-> p.id, row |-> [p.row EXCEPT !.recalled = b]]
      /\ [p EXCEPT !.row.suspect = b] = [id |-> p.id, row |-> [p.row EXCEPT !.suspect = b]]
      /\ [p EXCEPT !.row.archived = b] = [id |-> p.id, row |-> [p.row EXCEPT !.archived = b]]
  BY DEF Copy
<1>0. ASSUME NEW t \in Marked(p.row, b)
      PROVE  Marks([id |-> p.id, row |-> t], p)
  <2>1. p.row \in Row
    BY CopyRow
  <2>2. t \in Row /\ Content(t) = Content(p.row)
    BY <2>1, MarkedRow
  <2> QED
    BY <2>2, CopyWith
<1>2. /\ Marks([id |-> p.id, row |-> [p.row EXCEPT !.closed = b]], p)
      /\ Marks([id |-> p.id, row |-> [p.row EXCEPT !.recalled = b]], p)
      /\ Marks([id |-> p.id, row |-> [p.row EXCEPT !.suspect = b]], p)
      /\ Marks([id |-> p.id, row |-> [p.row EXCEPT !.archived = b]], p)
  BY <1>0 DEF Marked
<1> QED
  BY <1>1, <1>2

(* What the writers do to a copy without a new text is bookkeeping.        *)
LEMMA ClosedMarks == ASSUME NEW p \in Copy PROVE Marks(Closed(p), p)
BY MarkIn, Zenon DEF Closed

(* A usage bump.                                                           *)
LEMMA BumpedMarks == ASSUME NEW p \in Copy PROVE Marks(Bumped(p), p)
BY MarkIn, Zenon DEF Bumped

(* The archive stamp of the decay pass.                                    *)
LEMMA ArchivedMarks ==
  ASSUME NEW p \in Copy PROVE Marks([p EXCEPT !.row.archived = TRUE], p)
BY MarkIn, Zenon

(* The suspect marker of a contradiction.                                  *)
LEMMA CheckedMarks == ASSUME NEW p \in Copy, NEW refuted PROVE Marks(Checked(p, refuted), p)
<1> DEFINE b == p.row.suspect \/ Refuted(p, refuted)
<1>1. Checked(p, refuted) = [p EXCEPT !.row.suspect = b]
  BY DEF Copy, Checked
<1>2. b \in BOOLEAN
  BY DEF Refuted
<1> HIDE DEF b
<1> QED
  BY <1>1, <1>2, MarkIn

(* A current row as it is read.                                            *)
LEMMA CurrentCopies ==
  ASSUME TypeOK
  PROVE  /\ \A p \in Current : p \in Copy /\ p.row = store[p.id] /\ Says(p.id, p.row)
         /\ \A s : CurrentOf(s) \subseteq Current
         /\ \A s : \A p \in CurrentOf(s) : p.id[1] = s
<1>1. \A id \in CurrentIds : id \in RowIds /\ store[id] # None /\ store[id] \in Row
  BY DEF CurrentIds, TypeOK
<1> QED
  BY <1>1 DEF Current, CurrentOf, Copy, Says

(* Bookkeeping leaves a faithful copy faithful.                            *)
LEMMA MarkedSays ==
  ASSUME NEW p, NEW q, Marks(q, p), Says(p.id, p.row)
  PROVE  q \in Copy /\ q.id = p.id /\ Says(q.id, q.row)
BY DEF Marks, Says

(* An upsert of a faithful copy is faithful.                               *)
LEMMA UpsertFaithful ==
  ASSUME NEW q \in Copy, Says(q.id, q.row), NEW stage \in {1, 2}, NEW E
  PROVE  Upsert(q, stage) \in Write /\ FaithfulWrite(Upsert(q, stage), E)
BY DEF Upsert, Write, Copy, FaithfulWrite

(* An insert of a backed row is faithful.                                  *)
LEMMA InsertFaithful ==
  ASSUME NEW id \in RowIds, NEW r \in Row, NEW E, Backed(id[1], r, E)
  PROVE  Insert(id, r) \in Write /\ FaithfulWrite(Insert(id, r), E)
BY DEF Insert, Write, FaithfulWrite

-----------------------------------------------------------------------------
(* Rows that memory_write and the walk make.                               *)

(* The blocks a note is written as; proven, they bear no marker, and not   *)
(* proven, all their leading lines do.                                     *)
LEMMA BlocksAre ==
  ASSUME NEW n \in Notes, NEW proof \in BOOLEAN
  PROVE  /\ Blocks(n, proof) \in SUBSET Block
         /\ \A b \in Blocks(n, proof) : \A x \in b :
              x.text \in UNION Paragraphs[n] /\ x.marked = (~proof /\ x.text = Lead[n])
<1> DEFINE X(l) == [text |-> l, marked |-> ~proof /\ l = Lead[n]]
<1>0. ASSUME NEW l \in Lines
      PROVE  X(l) \in Line /\ X(l).text = l /\ X(l).marked = (~proof /\ l = Lead[n])
  <2> DEFINE m == ~proof /\ l = Lead[n]
             x == [text |-> l, marked |-> m]
  <2>1. m \in BOOLEAN
    OBVIOUS
  <2> HIDE DEF m
  <2>2. x \in Line /\ x.text = l /\ x.marked = m
    BY <2>1 DEF Line
  <2> HIDE DEF x
  <2> QED
    BY <2>2, Zenon DEF x, m
<1>1. ASSUME NEW t \in Paragraphs[n]
      PROVE  /\ {X(l) : l \in t} \in Block
             /\ \A x \in {X(l) : l \in t} :
                  x.text \in UNION Paragraphs[n] /\ x.marked = (~proof /\ x.text = Lead[n])
  <2>1. t \in SUBSET Lines /\ t # {} /\ t \subseteq UNION Paragraphs[n]
    BY StoreAssumption
  <2> HIDE DEF X
  <2>2. ASSUME NEW l \in t
        PROVE  X(l) \in Line /\ X(l).text \in UNION Paragraphs[n] /\ X(l).marked = (~proof /\ X(l).text = Lead[n])
    <3>1. l \in Lines /\ l \in UNION Paragraphs[n]
      BY <2>1
    <3>2. X(l) \in Line /\ X(l).text = l /\ X(l).marked = (~proof /\ l = Lead[n])
      BY <1>0, <3>1
    <3> QED
      BY <3>1, <3>2, Zenon
  <2>3. {X(l) : l \in t} \subseteq Line /\ {X(l) : l \in t} # {}
    BY <2>1, <2>2
  <2>4. \A x \in {X(l) : l \in t} :
          x.text \in UNION Paragraphs[n] /\ x.marked = (~proof /\ x.text = Lead[n])
    BY <2>2, Zenon
  <2> QED
    BY <2>3, <2>4 DEF Block
<1> QED
  BY <1>1 DEF Blocks

(* A proven note proves its lines; an unproven one leaves no leading line  *)
(* unmarked.                                                               *)
LEMMA BlocksProven ==
  ASSUME NEW n \in Notes, NEW proof \in BOOLEAN, NEW s, NEW E, proof => <<s, n>> \in E
  PROVE  Proven(s, Blocks(n, proof), E)
BY BlocksAre DEF Proven, Proves, Leading

(* The first note on a subject is no overlay.                              *)
LEMMA NewNoteRow ==
  ASSUME NEW n \in Notes, NEW proof \in BOOLEAN, NEW s, NEW E
  PROVE  NewNote(n, proof) \in Row /\ Backed(s, NewNote(n, proof), E)
<1>1. Blocks(n, TRUE) \in SUBSET Block /\ \A b \in Blocks(n, TRUE) : \A x \in b : ~x.marked
  BY BlocksAre
<1> QED
  BY <1>1 DEF NewNote, Row, Backed

(* A row says lines.                                                       *)
LEMMA SaidLines == ASSUME NEW r \in Row PROVE Said(r) \subseteq Lines
<1>1. r.notes \in SUBSET Block
  BY DEF Row
<1> QED
  BY <1>1 DEF Said, Texts, Block, Line

(* A block without its markers says the same.                              *)
LEMMA UnmarkedBlock ==
  ASSUME NEW b \in Block
  PROVE  /\ Unmarked(b) \in Block /\ Texts(Unmarked(b)) = Texts(b)
         /\ \A x \in Unmarked(b) : ~x.marked
<1>1. \A x \in b : /\ [x EXCEPT !.marked = FALSE] \in Line /\ [x EXCEPT !.marked = FALSE].text = x.text
                   /\ [x EXCEPT !.marked = FALSE].marked = FALSE
  BY DEF Block, Line
<1>2. Unmarked(b) # {} /\ Unmarked(b) \subseteq Line
  BY <1>1 DEF Unmarked, Block
<1>3. \A x \in Unmarked(b) : ~x.marked
  BY <1>1 DEF Unmarked
<1>4. Texts(Unmarked(b)) = Texts(b)
  BY <1>1 DEF Unmarked, Texts
<1> QED
  BY <1>2, <1>3, <1>4 DEF Block

(* What the kept blocks of an overlay become.                              *)
LEMMA RegroundedBlocks ==
  ASSUME NEW blocks \in SUBSET Block, NEW n \in Notes, NEW proof \in BOOLEAN
  PROVE  /\ Regrounded(blocks, n, proof) \in SUBSET Block
         /\ \A b \in blocks : \E d \in Regrounded(blocks, n, proof) : Texts(d) = Texts(b)
<1>1. ASSUME NEW b \in blocks
      PROVE  LET d == IF proof /\ Unverified(n, b) THEN Unmarked(b) ELSE b IN
               d \in Block /\ Texts(d) = Texts(b)
  BY UnmarkedBlock
<1> QED
  BY <1>1 DEF Regrounded

(* A line loses its marker to a proven note that begins its block.         *)
LEMMA RegroundedProven ==
  ASSUME NEW blocks \in SUBSET Block, NEW n \in Notes, NEW proof \in BOOLEAN, NEW s, NEW E,
         Proven(s, blocks, E), proof => <<s, n>> \in E
  PROVE  Proven(s, Regrounded(blocks, n, proof), E)
<1> SUFFICES ASSUME NEW b \in blocks,
                    NEW x \in IF proof /\ Unverified(n, b) THEN Unmarked(b) ELSE b,
                    ~x.marked, x.text \in Leading
             PROVE  \E m \in Notes : <<s, m>> \in E /\ Proves(m, x.text)
  BY DEF Proven, Regrounded
<1>1. CASE proof /\ Unverified(n, b)
  <2>1. x.text \in Texts(b)
    BY <1>1, UnmarkedBlock DEF Texts
  <2>2. <<n, Texts(b)>> \in Begins /\ Texts(b) \in SUBSET Lines
    BY <1>1 DEF Unverified, Texts, Block, Line
  <2> QED
    BY <1>1, <2>1, <2>2 DEF Proves
<1>2. CASE ~(proof /\ Unverified(n, b))
  BY <1>2 DEF Proven
<1> QED
  BY <1>1, <1>2

(* The overlay that an annotation leaves.                                  *)
Overlay(r, n, proof, fragment) ==
  LET kept == Regrounded(Kept(r, fragment), n, proof) IN
  IF \E b \in kept : Found(n, b) THEN kept ELSE kept \cup Blocks(n, proof)

(* It has the blocks that are kept, and evidence for what it does not mark.*)
LEMMA OverlayIs ==
  ASSUME NEW r \in Row, NEW n \in Notes, NEW proof \in BOOLEAN, NEW fragment
  PROVE  /\ Overlay(r, n, proof, fragment) \in SUBSET Block
         /\ \A b \in Kept(r, fragment) : \E d \in Overlay(r, n, proof, fragment) : Texts(d) = Texts(b)
         /\ \A s, E : Proven(s, r.notes, E) /\ (proof => <<s, n>> \in E) =>
              Proven(s, Overlay(r, n, proof, fragment), E)
<1> DEFINE kept == Regrounded(Kept(r, fragment), n, proof)
<1>1. Kept(r, fragment) \in SUBSET Block /\ Kept(r, fragment) \subseteq r.notes
  BY DEF Kept, Row
<1>2. kept \in SUBSET Block /\ \A b \in Kept(r, fragment) : \E d \in kept : Texts(d) = Texts(b)
  BY <1>1, RegroundedBlocks
<1>3. ASSUME NEW s, NEW E, Proven(s, r.notes, E), proof => <<s, n>> \in E
      PROVE  Proven(s, kept, E) /\ Proven(s, Blocks(n, proof), E)
  <2>1. Proven(s, Kept(r, fragment), E)
    BY <1>1, <1>3 DEF Proven
  <2> QED
    BY <1>1, <1>3, <2>1, RegroundedProven, BlocksProven
<1> HIDE DEF kept
<1>4. Overlay(r, n, proof, fragment) \in {kept, kept \cup Blocks(n, proof)}
  BY DEF Overlay, kept
<1>5. Blocks(n, proof) \in SUBSET Block
  BY BlocksAre
<1> DEFINE o == Overlay(r, n, proof, fragment)
<1> HIDE DEF o
<1>6. o \in {kept, kept \cup Blocks(n, proof)}
  BY <1>4 DEF o
<1>7. o \in SUBSET Block /\ \A b \in Kept(r, fragment) : \E d \in o : Texts(d) = Texts(b)
  BY <1>2, <1>5, <1>6
<1>8. ASSUME NEW s, NEW E, Proven(s, r.notes, E), proof => <<s, n>> \in E
      PROVE  Proven(s, o, E)
  <2>1. Proven(s, kept, E) /\ Proven(s, Blocks(n, proof), E)
    BY <1>3, <1>8
  <2> QED
    BY <1>6, <2>1 DEF Proven
<1> QED
  BY <1>7, <1>8 DEF o

(* An annotation changes nothing but the overlay.                          *)
LEMMA AnnotatedRow ==
  ASSUME NEW r \in Row, r.owned, NEW n \in Notes, NEW proof \in BOOLEAN, NEW fragment
  PROVE  LET t == Annotated(r, n, proof, fragment) IN
           t \in Row /\ t.owned /\ t.closed = r.closed /\ t.notes = Overlay(r, n, proof, fragment)
<1> DEFINE N == Overlay(r, n, proof, fragment)
           t == [r EXCEPT !.notes = N]
<1>1. r \in Fields /\ Proper(r)
  BY RowFields
<1>2. Annotated(r, n, proof, fragment) = t
  BY DEF Annotated, Overlay
<1>3. N \in SUBSET Block
  BY OverlayIs
<1> HIDE DEF N
<1>4. t \in Fields /\ t.notes = N /\ t.owned = r.owned /\ t.closed = r.closed /\ t.sourced = r.sourced
  BY <1>1, <1>3 DEF Fields
<1> HIDE DEF t
<1>5. Proper(t)
  BY <1>1, <1>4 DEF Proper
<1> QED
  BY <1>2, <1>4, <1>5, RowFields DEF N

(* A replaced text stays a standalone note's.                              *)
LEMMA ReplacedRow ==
  ASSUME NEW r \in Row, ~r.owned, NEW n \in Notes, NEW proof \in BOOLEAN
  PROVE  LET t == Replaced(r, n, proof) IN t \in Row /\ ~t.owned /\ t.closed = r.closed
<1> DEFINE N == Blocks(n, TRUE)
           P == r.sourced \/ proof
           t == [r EXCEPT !.notes = N, !.sourced = P]
<1>1. r \in Fields /\ Proper(r)
  BY RowFields
<1>2. Replaced(r, n, proof) = t
  BY <1>1 DEF Replaced, Fields
<1>3. N \in SUBSET Block /\ P \in BOOLEAN /\ \A b \in N : \A x \in b : ~x.marked
  BY <1>1, BlocksAre DEF Fields
<1> HIDE DEF N, P
<1>4. t \in Fields /\ t.notes = N /\ t.owned = r.owned /\ t.closed = r.closed /\ t.core = r.core
  BY <1>1, <1>3 DEF Fields
<1> HIDE DEF t
<1>5. Proper(t)
  BY <1>1, <1>3, <1>4 DEF Proper
<1> QED
  BY <1>2, <1>4, <1>5, RowFields

(* What memory_write inserts is backed if what it read was.                *)
LEMMA SuccessorRow ==
  ASSUME NEW r \in Row, NEW n \in Notes, NEW proof \in BOOLEAN, NEW fragment, NEW s, NEW E,
         Backed(s, r, E), proof => <<s, n>> \in E
  PROVE  LET t == Successor(r, n, proof, fragment) IN t \in Row /\ Backed(s, t, E)
<1>1. CASE r.owned
  <2> DEFINE t == Annotated(r, n, proof, fragment)
  <2>1. t \in Row /\ t.notes = Overlay(r, n, proof, fragment)
    BY <1>1, AnnotatedRow
  <2>2. Proven(s, Overlay(r, n, proof, fragment), E)
    BY <1>1, OverlayIs DEF Backed
  <2> HIDE DEF t
  <2>3. Backed(s, t, E)
    BY <2>1, <2>2 DEF Backed
  <2> QED
    BY <1>1, <2>1, <2>3 DEF Successor, t
<1>2. CASE ~r.owned
  <2>1. Replaced(r, n, proof) \in Row /\ ~Replaced(r, n, proof).owned
    BY <1>2, ReplacedRow
  <2> QED
    BY <1>2, <2>1 DEF Successor, Backed
<1> QED
  BY <1>1, <1>2

(* With a proof or without one, what it inserts is a row.                  *)
LEMMA SuccessorIsRow ==
  ASSUME NEW r \in Row, NEW n \in Notes, NEW proof \in BOOLEAN, NEW fragment
  PROVE  Successor(r, n, proof, fragment) \in Row
<1>1. CASE r.owned
  BY <1>1, AnnotatedRow DEF Successor
<1>2. CASE ~r.owned
  BY <1>2, ReplacedRow DEF Successor
<1> QED
  BY <1>1, <1>2

(* The lines that survive a change of the core keep their markers.         *)
LEMMA SurvivingBlocks ==
  ASSUME NEW blocks \in SUBSET Block, NEW old, NEW new
  PROVE  /\ Surviving(blocks, old, new) \in SUBSET Block
         /\ \A d \in Surviving(blocks, old, new) : \E b \in blocks : d \subseteq b
         /\ \A b \in blocks : \A x \in b :
              Survives(x.text, old, new) => \E d \in Surviving(blocks, old, new) : x \in d
<1> DEFINE Rest(b) == {x \in b : Survives(x.text, old, new)}
           R == {Rest(b) : b \in blocks} \ {{}}
<1>1. Surviving(blocks, old, new) = R
  BY DEF Surviving
<1>2. \A b \in blocks : Rest(b) \subseteq b /\ b \subseteq Line
  BY DEF Block
<1>3. \A b \in blocks : \A x \in b : Survives(x.text, old, new) => Rest(b) \in R /\ x \in Rest(b)
  OBVIOUS
<1>4. R \in SUBSET Block
  BY <1>2 DEF Block
<1>5. \A d \in R : \E b \in blocks : d \subseteq b
  BY <1>2
<1> HIDE DEF R
<1> QED
  BY <1>1, <1>3, <1>4, <1>5

(* What the walk inserts carries over no evidence but its lines'.          *)
LEMMA WalkedRow ==
  ASSUME NEW core \in SUBSET Elements, NEW r, r # None => r \in Row
  PROVE  /\ Walked(core, r) \in Row
         /\ \A s, E : (r # None => Backed(s, r, E)) => Backed(s, Walked(core, r), E)
<1> DEFINE notes == IF r = None \/ ~r.owned THEN {} ELSE Surviving(r.notes, r.core, core)
<1>1. Walked(core, r) = Concept(core, notes)
  BY DEF Walked
<1>2. notes \in SUBSET Block /\ \A d \in notes : r # None /\ r.owned /\ \E b \in r.notes : d \subseteq b
  <2>1. CASE r = None \/ ~r.owned
    BY <2>1
  <2>2. CASE ~(r = None \/ ~r.owned)
    <3>1. r.notes \in SUBSET Block /\ notes = Surviving(r.notes, r.core, core)
      BY <2>2 DEF Row
    <3> HIDE DEF notes
    <3> QED
      BY <2>2, <3>1, SurvivingBlocks
  <2> QED
    BY <2>1, <2>2
<1> HIDE DEF notes
<1>3. Concept(core, notes) \in Row /\ Concept(core, notes).notes = notes
  BY <1>2 DEF Concept, Row
<1>4. ASSUME NEW s, NEW E, r # None => Backed(s, r, E) PROVE Proven(s, notes, E)
  BY <1>2, <1>4 DEF Backed, Proven
<1> QED
  BY <1>1, <1>3, <1>4 DEF Backed

-----------------------------------------------------------------------------
(* Starting on a list of faithful writes, from faithful copies.            *)

Actions == [Actors -> [work : SUBSET Write, drops : {"all", "stage", "one"}, again : Write \cup {None}]]

(* A list of writes to send.                                               *)
LEMMA DoingTypes ==
  ASSUME NEW W \in SUBSET Write, NEW d \in {"all", "stage", "one"}
  PROVE  /\ Doing(W, d) \in [work : SUBSET Write, drops : {"all", "stage", "one"}, again : Write \cup {None}]
         /\ Doing(W, d).work = W /\ Doing(W, d).again = None
BY DEF Doing, Idle

(* An operation that reads, decides and queues faithful writes.            *)
LEMMA StartKeeps ==
  ASSUME Inv, NEW a \in Actors, NEW W, NEW d \in {"all", "stage", "one"}, Start(a, W, d),
         UNCHANGED <<store, broken>>, evidence \subseteq evidence', evidence' \subseteq Subjects \X Notes,
         \A w \in W : w \in Write /\ FaithfulWrite(w, evidence'),
         session' \in [Actors -> [delivered : SUBSET Subjects, kept : SUBSET Copy]],
         \A b \in Actors : \A p \in session'[b].kept : Says(p.id, p.row),
         clock' \in 1..(MaxRows + 1), faults' \in 0..MaxFaults, owed' \subseteq owed
  PROVE  Inv'
<1>1. /\ actor' \in Actions /\ actor'[a].work = W /\ actor'[a].again = None
      /\ \A b \in Actors \ {a} : actor'[b] = actor[b]
  BY DoingTypes DEF Start, Actions, Inv, TypeOK
<1>2. TypeOK'
  BY <1>1 DEF Inv, TypeOK, Actions
<1>3. \A w : FaithfulWrite(w, evidence) => FaithfulWrite(w, evidence')
  BY DEF FaithfulWrite, Backed, Proven
<1>4. \A b \in Actors : \A w \in actor'[b].work : FaithfulWrite(w, evidence')
  BY <1>1, <1>3 DEF Inv, Faithful
<1>5. \A id, r : Says(id, r)' <=> Says(id, r)
  BY DEF Says
<1>6. Faithful'
  BY <1>4, <1>5 DEF Faithful, FaithfulWrite
<1>7. OverlayHasEvidence'
  BY DEF Inv, OverlayHasEvidence
<1> QED
  BY <1>2, <1>6, <1>7 DEF Inv

(* The rows a row stands for are backed.                                   *)
LEMMA CurrentBacked ==
  ASSUME Inv, NEW p \in Current, NEW E, evidence \subseteq E
  PROVE  p.row \in Row /\ Backed(p.id[1], p.row, E)
<1>1. p \in Copy /\ p.row = store[p.id] /\ store[p.id] # None
  BY CurrentCopies DEF Inv, Says
<1>2. p.id \in RowIds /\ p.row \in Row
  BY <1>1 DEF Copy
<1> QED
  BY <1>1, <1>2 DEF Inv, OverlayHasEvidence, Backed, Proven

(* memory_write, on each of its exits.                                     *)
LEMMA MemoryWriteKeeps ==
  ASSUME Inv, NEW a \in Actors, NEW s \in Subjects, NEW n \in Notes, NEW proof \in BOOLEAN,
         NEW replaces, MemoryWrite(a, s, n, proof, replaces)
  PROVE  Inv'
<1> DEFINE new == <<s, clock>>
<1>1. /\ clock \in 1..MaxRows /\ clock' = clock + 1 /\ new \in RowIds /\ new[1] = s
      /\ UNCHANGED <<store, faults, session, broken>>
  BY StoreAssumption DEF MemoryWrite, Inv, TypeOK, RowIds
<1>2. /\ evidence \subseteq evidence' /\ evidence' \subseteq Subjects \X Notes
      /\ proof => <<s, n>> \in evidence'
  BY DEF MemoryWrite, Inv, TypeOK
<1>3. ASSUME NEW W, NEW d \in {"all", "stage", "one"}, Start(a, W, d), owed' \subseteq owed,
             \A w \in W : w \in Write /\ FaithfulWrite(w, evidence')
      PROVE  Inv'
  <2>1. clock' \in 1..(MaxRows + 1)
    BY <1>1, StoreAssumption
  <2> QED
    BY <1>1, <1>2, <1>3, <2>1, StartKeeps DEF Inv, TypeOK, Faithful
<1> HIDE DEF new
<1>4. CASE WriteFirst(a, s, n, proof)
  <2>1. Start(a, {Insert(new, NewNote(n, proof))}, "all") /\ owed' = owed
    BY <1>4 DEF WriteFirst, new
  <2>2. /\ Insert(new, NewNote(n, proof)) \in Write
        /\ FaithfulWrite(Insert(new, NewNote(n, proof)), evidence')
    BY <1>1, NewNoteRow, InsertFaithful
  <2> QED
    BY <2>1, <2>2, <1>3
<1>5. CASE WriteDuplicate(a, s, n, proof, replaces)
  <2>1. PICK p \in CurrentOf(s) : Start(a, {Upsert(Bumped(p), 1)}, "stage")
    BY <1>5 DEF WriteDuplicate
  <2>2. p \in Copy /\ Says(p.id, p.row)
    BY CurrentCopies DEF Inv
  <2>3. Bumped(p) \in Copy /\ Says(Bumped(p).id, Bumped(p).row)
    BY <2>2, BumpedMarks, MarkedSays
  <2>4. Upsert(Bumped(p), 1) \in Write /\ FaithfulWrite(Upsert(Bumped(p), 1), evidence')
    BY <2>3, UpsertFaithful
  <2>5. owed' = owed
    BY <1>5 DEF WriteDuplicate
  <2> QED
    BY <2>1, <2>4, <2>5, <1>3
<1>6. CASE WriteOver(a, s, n, proof, replaces)
  <2>1. PICK p \in CurrentOf(s) :
          Start(a, Supersession(p, <<s, clock>>, Successor(p.row, n, proof, replaces)), "all")
    BY <1>6 DEF WriteOver
  <2>2. p \in Current /\ p \in Copy /\ Says(p.id, p.row) /\ p.id[1] = s
    BY CurrentCopies DEF Inv
  <2>3. p.row \in Row /\ Backed(s, p.row, evidence')
    BY <2>2, <1>2, CurrentBacked
  <2> DEFINE t == Successor(p.row, n, proof, replaces)
  <2>4. t \in Row /\ Backed(s, t, evidence')
    BY <2>3, <1>2, SuccessorRow
  <2> HIDE DEF t
  <2>5. Insert(new, t) \in Write /\ FaithfulWrite(Insert(new, t), evidence')
    BY <2>4, <1>1, InsertFaithful
  <2>6. Closed(p) \in Copy /\ Says(Closed(p).id, Closed(p).row)
    BY <2>2, ClosedMarks, MarkedSays
  <2>7. Upsert(Closed(p), 1) \in Write /\ FaithfulWrite(Upsert(Closed(p), 1), evidence')
    BY <2>6, UpsertFaithful
  <2>8. owed' \subseteq owed
    BY <1>6 DEF WriteOver
  <2>9. Start(a, {Upsert(Closed(p), 1), Insert(new, t)}, "all")
    BY <2>1 DEF Supersession, new, t
  <2> QED
    BY <2>5, <2>7, <2>8, <2>9, <1>3
<1> QED
  BY <1>4, <1>5, <1>6 DEF MemoryWrite

-----------------------------------------------------------------------------
(* Delivery.                                                               *)

(* A set of copies that say what their rows say.                           *)
Copies(P) == \A p \in P : p \in Copy /\ Says(p.id, p.row)

(* Marking copies leaves them faithful.                                    *)
LEMMA CheckedCopies ==
  ASSUME NEW P, Copies(P), NEW refuted
  PROVE  Copies({Checked(p, refuted) : p \in P})
BY CheckedMarks, MarkedSays DEF Copies

(* Usage bumps of faithful copies are faithful writes.                     *)
LEMMA BumpsFaithful ==
  ASSUME NEW P, Copies(P), NEW stage \in {1, 2}, NEW E
  PROVE  \A w \in {Upsert(Bumped(p), stage) : p \in P} : w \in Write /\ FaithfulWrite(w, E)
<1> SUFFICES ASSUME NEW p \in P
             PROVE  Upsert(Bumped(p), stage) \in Write /\ FaithfulWrite(Upsert(Bumped(p), stage), E)
  OBVIOUS
<1>1. Bumped(p) \in Copy /\ Says(Bumped(p).id, Bumped(p).row)
  BY BumpedMarks, MarkedSays DEF Copies
<1> QED
  BY <1>1, UpsertFaithful

(* What a delivery finds, and what a session then keeps.                   *)
LEMMA FoundCopies ==
  ASSUME Inv, NEW s, NEW refuted
  PROVE  Copies({Checked(p, refuted) : p \in {q \in CurrentOf(s) : q.row.notes # {}}})
<1>1. Copies({q \in CurrentOf(s) : q.row.notes # {}})
  BY CurrentCopies DEF Inv, Copies
<1> QED
  BY <1>1, CheckedCopies

(* A session keeps copies that were faithful when it took them.            *)
LEMMA KeptCopies ==
  ASSUME Inv, NEW a \in Actors, NEW found, Copies(found)
  PROVE  Copies(Remember(session[a].kept, found))
BY DEF Inv, Faithful, TypeOK, Copies, Remember

(* Any delivery that writes and keeps faithful copies.                     *)
LEMMA DeliveryKeeps ==
  ASSUME Inv, NEW a \in Actors, NEW s \in Subjects, NEW W, NEW found, NEW kept,
         Start(a, W, "stage"), \A w \in W : w \in Write /\ FaithfulWrite(w, evidence),
         Copies(kept),
         session' = [session EXCEPT ![a] = [
            delivered |-> IF found = {} THEN @.delivered ELSE @.delivered \cup {s}, kept |-> kept]],
         UNCHANGED <<store, clock, faults, history>>
  PROVE  Inv'
<1>1. session' \in [Actors -> [delivered : SUBSET Subjects, kept : SUBSET Copy]]
  BY DEF Inv, TypeOK, Copies
<1>2. \A b \in Actors : \A p \in session'[b].kept : Says(p.id, p.row)
  BY DEF Inv, TypeOK, Faithful, Copies
<1> QED
  BY <1>1, <1>2, StartKeeps DEF history, Inv, TypeOK

(* A sample's delivery.                                                    *)
LEMMA SampleKeeps ==
  ASSUME Inv, NEW a \in Actors, NEW s \in Subjects, NEW refuted, Sample(a, s, refuted) PROVE Inv'
<1> DEFINE found == {Checked(p, refuted) : p \in {q \in CurrentOf(s) : q.row.notes # {}}}
<1>1. Copies(found)
  BY FoundCopies
<1>2. /\ Start(a, {Upsert(Bumped(p), 1) : p \in found}, "stage")
      /\ session' = [session EXCEPT ![a] = [
            delivered |-> IF found = {} THEN @.delivered ELSE @.delivered \cup {s},
            kept |-> Remember(@.kept, found)]]
      /\ UNCHANGED <<store, clock, faults, history>>
  BY DEF Sample
<1> HIDE DEF found
<1>3. session' = [session EXCEPT ![a] = [
            delivered |-> IF found = {} THEN @.delivered ELSE @.delivered \cup {s},
            kept |-> Remember(session[a].kept, found)]]
  BY <1>2 DEF Inv, TypeOK
<1>4. Copies(Remember(session[a].kept, found))
  BY <1>1, KeptCopies
<1>5. \A w \in {Upsert(Bumped(p), 1) : p \in found} : w \in Write /\ FaithfulWrite(w, evidence)
  BY <1>1, BumpsFaithful
<1> QED
  BY <1>2, <1>3, <1>4, <1>5, DeliveryKeeps

(* A query's delivery, and its check of the copies kept so far.            *)
LEMMA QueryKeeps ==
  ASSUME Inv, NEW a \in Actors, NEW s \in Subjects, NEW refuted, Query(a, s, refuted) PROVE Inv'
<1> DEFINE first   == s \notin session[a].delivered
           found   == IF first THEN {Checked(p, refuted) : p \in {q \in CurrentOf(s) : q.row.notes # {}}}
                               ELSE {}
           kept    == Remember(session[a].kept, found)
           carried == IF first /\ found = {} THEN {} ELSE {p \in kept : p.id[1] = s}
           again   == IF \E p \in carried : Refuted(p, refuted)
                        THEN {Checked(p, refuted) : p \in carried} ELSE {}
           W       == {Upsert(Bumped(p), 1) : p \in found} \cup {Upsert(Bumped(p), 2) : p \in again}
<1>1. /\ Start(a, W, "stage")
      /\ session' = [session EXCEPT ![a] = [
            delivered |-> IF found = {} THEN @.delivered ELSE @.delivered \cup {s},
            kept |-> kept]]
      /\ UNCHANGED <<store, clock, faults, history>>
  BY DEF Query
<1>2. Copies(found)
  BY FoundCopies DEF Copies
<1> HIDE DEF found
<1>3. Copies(kept)
  BY <1>2, KeptCopies
<1> HIDE DEF kept
<1>4. Copies(carried)
  BY <1>3 DEF Copies
<1> HIDE DEF carried
<1>5. Copies(again)
  <2>1. Copies({Checked(p, refuted) : p \in carried})
    BY <1>4, CheckedCopies
  <2> QED
    BY <2>1 DEF Copies
<1> HIDE DEF again
<1>6. \A w \in W : w \in Write /\ FaithfulWrite(w, evidence)
  <2>1. \A w \in {Upsert(Bumped(p), 1) : p \in found} : w \in Write /\ FaithfulWrite(w, evidence)
    BY <1>2, BumpsFaithful
  <2>2. \A w \in {Upsert(Bumped(p), 2) : p \in again} : w \in Write /\ FaithfulWrite(w, evidence)
    BY <1>5, BumpsFaithful
  <2> QED
    BY <2>1, <2>2
<1> HIDE DEF W
<1> QED
  BY <1>1, <1>3, <1>6, DeliveryKeeps

-----------------------------------------------------------------------------
(* The passes.                                                             *)

(* A pass that rewrites rows it has just read.                             *)
LEMMA PassKeeps ==
  ASSUME Inv, NEW a \in Actors, NEW W, NEW d \in {"all", "stage", "one"}, Start(a, W, d),
         \A w \in W : w \in Write /\ FaithfulWrite(w, evidence),
         owed' \subseteq owed, clock' \in 1..(MaxRows + 1),
         UNCHANGED <<store, faults, session, evidence, broken>>
  PROVE  Inv'
<1>1. /\ evidence' = evidence /\ evidence \subseteq Subjects \X Notes
      /\ session' \in [Actors -> [delivered : SUBSET Subjects, kept : SUBSET Copy]]
      /\ faults' \in 0..MaxFaults
  BY DEF Inv, TypeOK
<1>2. \A b \in Actors : \A p \in session'[b].kept : Says(p.id, p.row)
  BY DEF Inv, Faithful
<1>3. \A w \in W : w \in Write /\ FaithfulWrite(w, evidence')
  BY <1>1
<1> QED
  BY <1>1, <1>2, <1>3, StartKeeps

(* An upsert of another bookkeeping of a current row.                      *)
LEMMA RewriteFaithful ==
  ASSUME Inv, NEW p \in Current, NEW q, Marks(q, p), NEW stage \in {1, 2}
  PROVE  Upsert(q, stage) \in Write /\ FaithfulWrite(Upsert(q, stage), evidence)
BY CurrentCopies, MarkedSays, UpsertFaithful DEF Inv

(* The decay pass archives what it has read.                               *)
LEMMA DecayKeeps == ASSUME Inv, NEW a \in Actors, Decay(a) PROVE Inv'
<1> DEFINE candidates == {p \in Current : ~p.row.owned /\ ~p.row.sourced /\ ~p.row.recalled}
           W(old) == {Upsert([Closed(p) EXCEPT !.row.archived = TRUE], 1) : p \in old}
<1>0. /\ \E old \in SUBSET candidates : Start(a, W(old), "all") /\ owed' = owed \ Retired(old)
      /\ UNCHANGED <<store, clock, faults, session, evidence, broken>>
  BY DEF Decay
<1>1. PICK old \in SUBSET Current : Start(a, W(old), "all") /\ owed' \subseteq owed
  BY <1>0
<1>2. \A p \in old : Marks([Closed(p) EXCEPT !.row.archived = TRUE], p)
  <2> SUFFICES ASSUME NEW p \in old PROVE Marks([Closed(p) EXCEPT !.row.archived = TRUE], p)
    OBVIOUS
  <2>1. p \in Copy
    BY CurrentCopies DEF Inv
  <2>2. Marks(Closed(p), p)
    BY <2>1, ClosedMarks
  <2>3. Closed(p) \in Copy
    BY <2>2 DEF Marks
  <2>4. Marks([Closed(p) EXCEPT !.row.archived = TRUE], Closed(p))
    BY <2>3, ArchivedMarks
  <2> QED
    BY <2>2, <2>4 DEF Marks
<1>3. \A w \in {Upsert([Closed(p) EXCEPT !.row.archived = TRUE], 1) : p \in old} :
        w \in Write /\ FaithfulWrite(w, evidence)
  BY <1>2, RewriteFaithful
<1> QED
  BY <1>0, <1>1, <1>3, PassKeeps DEF Inv, TypeOK

(* The revalidation pass marks or closes what it has read.                 *)
LEMMA RevalidateKeeps == ASSUME Inv, NEW a \in Actors, Revalidate(a) PROVE Inv'
<1> DEFINE candidates == {p \in Current : ~p.row.owned /\ p.row.sourced}
           writes(unprovable, refuted) == {Upsert([p EXCEPT !.row.suspect = TRUE], 1) : p \in unprovable}
                                            \cup {Upsert(Closed(p), 1) : p \in refuted}
<1>0. /\ \E unprovable, refuted \in SUBSET candidates :
            unprovable \cap refuted = {} /\ Start(a, writes(unprovable, refuted), "one")
            /\ owed' = owed \ Retired(refuted)
      /\ UNCHANGED <<store, clock, faults, session, evidence, broken>>
  BY DEF Revalidate
<1>1. PICK unprovable \in SUBSET Current, refuted \in SUBSET Current :
        Start(a, writes(unprovable, refuted), "one") /\ owed' \subseteq owed
  BY <1>0
<1>2. \A p \in unprovable : Upsert([p EXCEPT !.row.suspect = TRUE], 1) \in Write
         /\ FaithfulWrite(Upsert([p EXCEPT !.row.suspect = TRUE], 1), evidence)
  <2>1. \A p \in unprovable : Marks([p EXCEPT !.row.suspect = TRUE], p)
    BY CurrentCopies, MarkIn, Zenon DEF Inv
  <2> QED
    BY <2>1, RewriteFaithful
<1>3. \A p \in refuted : Upsert(Closed(p), 1) \in Write
         /\ FaithfulWrite(Upsert(Closed(p), 1), evidence)
  <2>1. \A p \in refuted : Marks(Closed(p), p)
    BY CurrentCopies, ClosedMarks DEF Inv
  <2> QED
    BY <2>1, RewriteFaithful
<1> DEFINE W == writes(unprovable, refuted)
<1>4. \A w \in W : w \in Write /\ FaithfulWrite(w, evidence)
  BY <1>2, <1>3
<1>5. Start(a, W, "one")
  BY <1>1
<1> HIDE DEF W
<1> QED
  BY <1>0, <1>1, <1>4, <1>5, PassKeeps DEF Inv, TypeOK

(* The walk closes the rows it has read and inserts their successors.      *)
LEMMA WalkKeeps ==
  ASSUME Inv, NEW a \in Actors, NEW catalog \in Catalogs, NEW current \in [Subjects -> Current \cup {None}],
         Walk(a, catalog, current)
  PROVE  Inv'
<1> DEFINE new(s)     == Walked(catalog[s], IF current[s] = None THEN None ELSE current[s].row)
           changed    == {s \in DOMAIN catalog : current[s] # None => ~Same(current[s].row, new(s))}
           superseded == {s \in changed : current[s] # None}
           vanished   == {s \in Subjects \ DOMAIN catalog : current[s] # None /\ current[s].row.owned}
           closes     == {Upsert(Closed(current[s]), 1) : s \in superseded \cup vanished}
           inserts    == {Insert(<<s, clock>>, new(s)) : s \in changed}
           gone == {<<s, n, TRUE>> : s \in vanished, n \in Lines}
                     \cup {o \in owed : /\ o[1] \in superseded /\ o[3]
                                       /\ ~Survives(o[2], current[o[1]].row.core, catalog[o[1]])}
<1>0. /\ Start(a, closes \cup inserts, "all") /\ clock <= MaxRows /\ clock' = clock + 1
      /\ owed' = owed \ gone /\ UNCHANGED <<store, faults, session, evidence, broken>>
      /\ \A s \in Subjects : IF CurrentOf(s) = {} THEN current[s] = None ELSE current[s] \in CurrentOf(s)
  BY DEF Walk
<1> HIDE DEF gone
<1>1. owed' \subseteq owed /\ \A s \in Subjects : current[s] = None \/ current[s] \in CurrentOf(s)
  BY <1>0
<1>2. clock \in 1..MaxRows /\ clock' \in 1..(MaxRows + 1)
  BY <1>0, StoreAssumption DEF Inv, TypeOK
<1>3. DOMAIN catalog \in SUBSET Subjects /\ \A s \in DOMAIN catalog : catalog[s] \in SUBSET Elements
  BY DEF Catalogs
<1>4. \A s \in superseded \cup vanished : current[s] \in Current
  BY <1>3
<1>5. \A w \in closes : w \in Write /\ FaithfulWrite(w, evidence)
  <2> SUFFICES ASSUME NEW s \in superseded \cup vanished
               PROVE  /\ Upsert(Closed(current[s]), 1) \in Write
                      /\ FaithfulWrite(Upsert(Closed(current[s]), 1), evidence)
    OBVIOUS
  <2>1. current[s] \in Current
    BY <1>4
  <2>2. Marks(Closed(current[s]), current[s])
    BY <2>1, CurrentCopies, ClosedMarks DEF Inv
  <2> QED
    BY <2>1, <2>2, RewriteFaithful
<1>6. \A w \in inserts : w \in Write /\ FaithfulWrite(w, evidence)
  <2> SUFFICES ASSUME NEW s \in changed
               PROVE  /\ Insert(<<s, clock>>, new(s)) \in Write
                      /\ FaithfulWrite(Insert(<<s, clock>>, new(s)), evidence)
    OBVIOUS
  <2> DEFINE r == IF current[s] = None THEN None ELSE current[s].row
  <2>1. s \in Subjects /\ catalog[s] \in SUBSET Elements
    BY <1>3
  <2>2. r # None => r \in Row /\ Backed(s, r, evidence)
    <3> SUFFICES ASSUME current[s] # None PROVE current[s].row \in Row /\ Backed(s, current[s].row, evidence)
      OBVIOUS
    <3>1. current[s] \in Current /\ current[s].id[1] = s
      BY <1>1, <2>1, CurrentCopies DEF Inv
    <3> QED
      BY <3>1, CurrentBacked
  <2> HIDE DEF r
  <2>3. Walked(catalog[s], r) \in Row /\ Backed(s, Walked(catalog[s], r), evidence)
    BY <2>1, <2>2, WalkedRow
  <2>4. new(s) = Walked(catalog[s], r)
    BY DEF r
  <2>5. <<s, clock>> \in RowIds /\ <<s, clock>>[1] = s
    BY <1>2, <2>1 DEF RowIds
  <2> HIDE DEF new
  <2> QED
    BY <2>3, <2>4, <2>5, InsertFaithful
<1> HIDE DEF closes, inserts
<1>7. \A w \in closes \cup inserts : w \in Write /\ FaithfulWrite(w, evidence)
  BY <1>5, <1>6
<1> QED
  BY <1>0, <1>1, <1>2, <1>7, PassKeeps

-----------------------------------------------------------------------------
(* Sending.                                                                *)

(* Rows stay, and go on saying what they said.                             *)
Grows == \A id \in RowIds : store[id] # None =>
           store'[id] # None /\ Content(store'[id]) = Content(store[id])

(* A faithful write, applied or lost, rewrites nothing of what rows say.   *)
LEMMA EffectGrows ==
  ASSUME Inv, NEW w \in Write, FaithfulWrite(w, evidence), store' \in {store, Effect(w)},
         evidence' = evidence
  PROVE  /\ store' \in [RowIds -> Row \cup {None}] /\ Grows /\ OverlayHasEvidence'
<1>1. CASE store' = store
  BY <1>1 DEF Inv, TypeOK, Grows, OverlayHasEvidence
<1>2. CASE store' # store
  <2>1. store' = [store EXCEPT ![w.id] = w.row] /\ ~Collides(w)
    BY <1>2 DEF Effect
  <2>2. w.id \in RowIds /\ w.row \in Row /\ w.op \in {"upsert", "insert"} /\ w.row # None
    BY NoneIsApart DEF Write
  <2>3. /\ store' \in [RowIds -> Row \cup {None}] /\ store'[w.id] = w.row
        /\ \A id \in RowIds \ {w.id} : store'[id] = store[id]
    BY <2>1, <2>2 DEF Inv, TypeOK
  <2>4. Grows
    BY <2>1, <2>2, <2>3 DEF Grows, Collides, FaithfulWrite, Says
  <2>5. Backed(w.id[1], w.row, evidence)
    <3>1. CASE w.op = "insert"
      BY <3>1 DEF FaithfulWrite
    <3>2. CASE w.op = "upsert"
      <4>1. store[w.id] # None /\ Content(store[w.id]) = Content(w.row)
        BY <3>2 DEF FaithfulWrite, Says
      <4>2. store[w.id].owned = w.row.owned /\ store[w.id].notes = w.row.notes
        BY <4>1 DEF Content
      <4> QED
        BY <2>2, <4>1, <4>2 DEF Inv, OverlayHasEvidence, Backed, Proven
    <3> QED
      BY <2>2, <3>1, <3>2
  <2>6. OverlayHasEvidence'
    BY <2>2, <2>3, <2>5 DEF Inv, OverlayHasEvidence, Backed, Proven
  <2> QED
    BY <2>3, <2>4, <2>6
<1> QED
  BY <1>1, <1>2

(* What an actor may send it still has.                                    *)
LEMMA DueIsWork ==
  ASSUME Inv, NEW a \in Actors, NEW w \in Due(a)
  PROVE  w \in actor[a].work /\ w \in Write /\ FaithfulWrite(w, evidence)
<1>1. w \in actor[a].work
  BY DEF Due, Inv, TypeOK
<1> QED
  BY <1>1 DEF Inv, TypeOK, Faithful

(* A step that sends a write, and keeps some of the writes and copies.     *)
LEMMA SendKeeps ==
  ASSUME Inv, Grows, store' \in [RowIds -> Row \cup {None}], OverlayHasEvidence',
         actor' \in Actions,
         \A b \in Actors : /\ actor'[b].work \subseteq actor[b].work
                           /\ actor'[b].again # None => actor'[b].again \in actor'[b].work,
         session' \in [Actors -> [delivered : SUBSET Subjects, kept : SUBSET Copy]],
         \A b \in Actors : session'[b].kept \subseteq session[b].kept,
         owed' \subseteq Subjects \X Lines \X BOOLEAN, broken' \subseteq Subjects,
         faults' \in 0..MaxFaults, UNCHANGED <<clock, evidence>>
  PROVE  Inv'
<1>1. TypeOK'
  BY DEF Inv, TypeOK, Actions
<1>2. \A id \in RowIds : \A r : Says(id, r) => Says(id, r)'
  BY DEF Says, Grows
<1>3. \A w \in Write : FaithfulWrite(w, evidence) => FaithfulWrite(w, evidence)'
  <2> SUFFICES ASSUME NEW w \in Write, FaithfulWrite(w, evidence) PROVE FaithfulWrite(w, evidence)'
    OBVIOUS
  <2>1. w.id \in RowIds
    BY DEF Write
  <2> QED
    BY <1>2, <2>1 DEF FaithfulWrite
<1>4. \A b \in Actors : \A w \in actor'[b].work : FaithfulWrite(w, evidence)'
  BY <1>3 DEF Inv, TypeOK, Faithful
<1>5. \A b \in Actors : \A p \in session'[b].kept : Says(p.id, p.row)'
  <2> SUFFICES ASSUME NEW b \in Actors, NEW p \in session'[b].kept PROVE Says(p.id, p.row)'
    OBVIOUS
  <2>1. p \in session[b].kept /\ p.id \in RowIds
    BY DEF Inv, TypeOK, Copy
  <2> QED
    BY <1>2, <2>1 DEF Inv, Faithful
<1> QED
  BY <1>1, <1>4, <1>5 DEF Inv, Faithful

(* What sending a write does to the store and to what is owed.             *)
LEMMA AppliedTypes ==
  ASSUME Inv, NEW w \in Write, AppliedOrLost(w)
  PROVE  store' \in {store, Effect(w)} /\ owed' \subseteq Subjects \X Lines \X BOOLEAN
<1>1. w.id[1] \in Subjects /\ Said(w.row) \subseteq Lines /\ w.row.owned \in BOOLEAN
  <2>1. w.id \in RowIds /\ w.row \in Row
    BY DEF Write
  <2> QED
    BY <2>1, SaidLines DEF RowIds, Row
<1> QED
  BY <1>1 DEF AppliedOrLost, Applied, Inv, TypeOK

(* An actor that goes on with some of its writes.                          *)
LEMMA GoesOn ==
  ASSUME Inv, NEW a \in Actors, NEW W \in SUBSET actor[a].work,
         actor' = [actor EXCEPT ![a] = Doing(W, @.drops)]
  PROVE  /\ actor' \in Actions
         /\ \A b \in Actors : /\ actor'[b].work \subseteq actor[b].work
                              /\ actor'[b].again # None => actor'[b].again \in actor'[b].work
<1>1. W \in SUBSET Write /\ actor[a].drops \in {"all", "stage", "one"}
  BY DEF Inv, TypeOK
<1>2. /\ actor' \in Actions /\ actor'[a].work = W /\ actor'[a].again = None
      /\ \A b \in Actors \ {a} : actor'[b] = actor[b]
  BY <1>1, DoingTypes DEF Inv, TypeOK, Actions
<1> QED
  BY <1>2 DEF Inv, TypeOK

(* Given-up inserts are of subjects.                                       *)
LEMMA GivenUpSubjects == ASSUME NEW W \in SUBSET Write PROVE GivenUp(W) \subseteq Subjects
BY DEF GivenUp, Write, RowIds

(* Sending a write keeps the invariant, and every row.                     *)
LEMMA SendingKeeps ==
  ASSUME Inv, NEW a \in Actors, WriteLands(a) \/ WriteFails(a) \/ WriteRetried(a)
  PROVE  Inv' /\ Grows
<1>1. session' = session /\ evidence' = evidence /\ clock' = clock
  BY DEF WriteLands, WriteFails, WriteRetried
<1>2. CASE WriteLands(a)
  <2>1. PICK w \in Due(a) : Applied(w) /\ actor' = [actor EXCEPT ![a] = Doing(@.work \ {w}, @.drops)]
    BY <1>2 DEF WriteLands
  <2>2. actor' = [actor EXCEPT ![a] = Doing(actor[a].work \ {w}, @.drops)]
    BY <2>1 DEF Inv, TypeOK
  <2>3. w \in Write /\ FaithfulWrite(w, evidence)
    BY DueIsWork
  <2>4. store' \in {store, Effect(w)} /\ owed' \subseteq Subjects \X Lines \X BOOLEAN
    BY <2>1, <2>3, AppliedTypes DEF AppliedOrLost
  <2>5. broken' \subseteq Subjects /\ faults' \in 0..MaxFaults
    BY <1>2 DEF WriteLands, Inv, TypeOK
  <2>6. /\ actor' \in Actions
        /\ \A b \in Actors : /\ actor'[b].work \subseteq actor[b].work
                             /\ actor'[b].again # None => actor'[b].again \in actor'[b].work
    <3> DEFINE W == actor[a].work \ {w}
    <3>1. W \in SUBSET actor[a].work /\ actor' = [actor EXCEPT ![a] = Doing(W, @.drops)]
      BY <2>2
    <3> HIDE DEF W
    <3> QED
      BY <3>1, GoesOn
  <2> QED
    BY <1>1, <2>3, <2>4, <2>5, <2>6, EffectGrows, SendKeeps DEF Inv, TypeOK
<1>3. CASE WriteFails(a)
  <2>1. PICK w \in Due(a) :
          /\ IF Collides(w) THEN UNCHANGED faults ELSE Fault
          /\ AppliedOrLost(w)
          /\ actor' = [actor EXCEPT ![a] = Doing(Left(a, w), @.drops)]
          /\ broken' = broken \cup GivenUp(actor[a].work \ Left(a, w))
    BY <1>3 DEF WriteFails
  <2>2. w \in Write /\ FaithfulWrite(w, evidence)
    BY DueIsWork
  <2>3. store' \in {store, Effect(w)} /\ owed' \subseteq Subjects \X Lines \X BOOLEAN
    BY <2>1, <2>2, AppliedTypes
  <2>4. Left(a, w) \in SUBSET actor[a].work
    <3>1. actor[a].drops \in {"all", "stage", "one"}
      BY DEF Inv, TypeOK
    <3> QED
      BY <3>1 DEF Left
  <2>5. broken' \subseteq Subjects
    <3>1. actor[a].work \ Left(a, w) \in SUBSET Write
      BY DEF Inv, TypeOK
    <3> QED
      BY <2>1, <3>1, GivenUpSubjects DEF Inv, TypeOK
  <2>6. faults' \in 0..MaxFaults
    BY <2>1, StoreAssumption DEF Fault, Inv, TypeOK
  <2>7. /\ actor' \in Actions
        /\ \A b \in Actors : /\ actor'[b].work \subseteq actor[b].work
                             /\ actor'[b].again # None => actor'[b].again \in actor'[b].work
    BY <2>1, <2>4, GoesOn
  <2> QED
    BY <1>1, <2>2, <2>3, <2>5, <2>6, <2>7, EffectGrows, SendKeeps DEF Inv, TypeOK
<1>4. CASE WriteRetried(a)
  <2>1. PICK w \in Due(a) : AppliedOrLost(w) /\ actor' = [actor EXCEPT ![a].again = w]
    BY <1>4 DEF WriteRetried
  <2>2. w \in actor[a].work /\ w \in Write /\ FaithfulWrite(w, evidence)
    BY DueIsWork
  <2>3. store' \in {store, Effect(w)} /\ owed' \subseteq Subjects \X Lines \X BOOLEAN
    BY <2>1, <2>2, AppliedTypes
  <2>4. broken' \subseteq Subjects /\ faults' \in 0..MaxFaults
    BY <1>4, StoreAssumption DEF WriteRetried, Fault, Inv, TypeOK
  <2>5. /\ actor' \in Actions
        /\ \A b \in Actors : /\ actor'[b].work \subseteq actor[b].work
                             /\ actor'[b].again # None => actor'[b].again \in actor'[b].work
    BY <2>1, <2>2 DEF Inv, TypeOK, Actions
  <2> QED
    BY <1>1, <2>2, <2>3, <2>4, <2>5, EffectGrows, SendKeeps DEF Inv, TypeOK
<1> QED
  BY <1>2, <1>3, <1>4

(* A restart only forgets writes and copies.                               *)
LEMMA RestartKeeps == ASSUME Inv, NEW a \in Actors, Restart(a) PROVE Inv'
<1>1. /\ actor' \in Actions
      /\ \A b \in Actors : /\ actor'[b].work \subseteq actor[b].work
                           /\ actor'[b].again # None => actor'[b].again \in actor'[b].work
  BY DEF Restart, Idle, Inv, TypeOK, Actions
<1>2. /\ session' \in [Actors -> [delivered : SUBSET Subjects, kept : SUBSET Copy]]
      /\ \A b \in Actors : session'[b].kept \subseteq session[b].kept
  BY DEF Restart, NewSession, Inv, TypeOK
<1>3. GivenUp(actor[a].work) \subseteq Subjects
  BY GivenUpSubjects DEF Inv, TypeOK
<1>4. broken' \subseteq Subjects /\ faults' \in 0..MaxFaults
      /\ UNCHANGED <<store, clock, evidence, owed>>
  BY <1>3, StoreAssumption DEF Restart, Fault, Inv, TypeOK
<1>5. Grows /\ OverlayHasEvidence'
  BY <1>4 DEF Grows, Inv, OverlayHasEvidence
<1> QED
  BY <1>1, <1>2, <1>4, <1>5, SendKeeps DEF Inv, TypeOK

-----------------------------------------------------------------------------
(* All steps.                                                              *)

(* Every operation: it queues writes and stores nothing itself.            *)
LEMMA OperationKeeps == ASSUME Inv, NEW a \in Actors, Operation(a) PROVE Inv' /\ Grows
<1>1. Inv'
  BY MemoryWriteKeeps, SampleKeeps, QueryKeeps, DecayKeeps, RevalidateKeeps, WalkKeeps DEF Operation
<1>2. store' = store
  <2>1. \A s, n, proof, r : MemoryWrite(a, s, n, proof, r) => store' = store
    BY DEF MemoryWrite
  <2>2. \A s, refuted : Sample(a, s, refuted) => store' = store
    BY DEF Sample
  <2>3. \A s, refuted : Query(a, s, refuted) => store' = store
    BY DEF Query
  <2>4. Decay(a) \/ Revalidate(a) => store' = store
    BY DEF Decay, Revalidate
  <2>5. \A catalog, current : Walk(a, catalog, current) => store' = store
    BY DEF Walk
  <2> QED
    BY <2>1, <2>2, <2>3, <2>4, <2>5 DEF Operation
<1> QED
  BY <1>1, <1>2 DEF Grows

(* Every step.                                                             *)
LEMMA StepKeeps == ASSUME Inv, [Next]_vars PROVE Inv' /\ Grows
<1>1. ASSUME NEW a \in Actors, Restart(a) PROVE Inv' /\ Grows
  BY <1>1, RestartKeeps DEF Restart, Grows
<1>2. CASE UNCHANGED vars
  <2>1. UNCHANGED <<store, clock, actor, faults, session, evidence, owed, broken>>
    BY <1>2 DEF vars, history
  <2>2. TypeOK' /\ OverlayHasEvidence' /\ Grows
    BY <2>1 DEF Inv, TypeOK, OverlayHasEvidence, Grows
  <2>3. Faithful'
    BY <2>1 DEF Inv, Faithful, FaithfulWrite, Says
  <2> QED
    BY <2>2, <2>3 DEF Inv
<1> QED
  BY <1>1, <1>2, OperationKeeps, SendingKeeps DEF Next

(* It holds of the empty store.                                            *)
LEMMA InvInit == Init => Inv
<1> SUFFICES ASSUME Init PROVE Inv
  OBVIOUS
<1>1. \A id \in RowIds : store[id] = None
  BY DEF Init
<1>2. TypeOK
  BY StoreAssumption DEF Init, TypeOK, Idle, NewSession
<1>3. Faithful
  BY DEF Init, Faithful, Idle, NewSession
<1> QED
  BY <1>1, <1>2, <1>3 DEF Inv, OverlayHasEvidence

(* The invariant holds.                                                    *)
LEMMA InvHolds == Spec => []Inv
<1>1. Inv /\ [Next]_vars => Inv'
  BY StepKeeps
<1> QED
  BY InvInit, <1>1, PTL DEF Spec

(* Types; in particular what a row has evidence for is what it says.       *)
THEOREM TypesHold == Spec => []TypeOK
BY InvHolds, PTL DEF Inv

(* History is kept: whatever stale copies sessions and passes write back,  *)
(* with whatever faults, a stored row keeps what it says.                  *)
THEOREM HistoryIsKept == Spec => HistoryKept
<1>1. Inv /\ [Next]_vars => [\A id \in RowIds : store[id] # None =>
        store'[id] # None /\ Content(store'[id]) = Content(store[id])]_vars
  BY StepKeeps DEF Grows
<1> QED
  BY InvHolds, <1>1, PTL DEF Spec, HistoryKept

(* No overlay block loses its "(unverified)" marker but by evidence.       *)
THEOREM EvidenceIsReal == Spec => []OverlayHasEvidence
BY InvHolds, PTL DEF Inv

-----------------------------------------------------------------------------
(* Annotations.                                                            *)

(* A row with n in its overlay is about to be inserted for s.              *)
Queued(s, n) ==
  \E a \in Actors : \E w \in actor[a].work :
    w.op = "insert" /\ w.id[1] = s /\ w.row.owned /\ n \in Said(w.row)

(* Somebody is about to close the row at id.                               *)
Closing(id) ==
  \E a \in Actors : \E w \in actor[a].work : w.op = "upsert" /\ w.id = id /\ w.row.closed

(* The row at id has n in its overlay, and nobody is about to close it.    *)
HeldAt(id, s, n) ==
  /\ store[id] # None /\ ~store[id].closed
  /\ id[1] = s /\ store[id].owned /\ n \in Said(store[id])
  /\ ~Closing(id)

(* What an overlay owes is held, or queued by whoever closes its row.      *)
Held ==
  \A s \in Subjects, n \in Lines :
    <<s, n, TRUE>> \in owed /\ s \notin broken =>
      Queued(s, n) \/ \E id \in RowIds : HeldAt(id, s, n)

(* Rows to be inserted are current, and so are the copies a session keeps. *)
Open ==
  /\ \A a \in Actors : \A w \in actor[a].work : w.op = "insert" => ~w.row.closed
  /\ \A a \in Actors : \A p \in session[a].kept : ~p.row.closed

AnnotationInv == Inv /\ Open /\ Held

(* The writes that close an overlay insert what it still owes in O.        *)
Succeeded(W, O) ==
  \A w \in W : w.op = "upsert" /\ w.row.closed /\ store[w.id].owned =>
    \A n \in Said(store[w.id]) : <<w.id[1], n, TRUE>> \in O =>
      \E v \in W : v.op = "insert" /\ v.id[1] = w.id[1] /\ v.row.owned /\ n \in Said(v.row)

(* An operation that closes no overlay without its successor.              *)
LEMMA StartHolds ==
  ASSUME AnnotationInv, NEW a \in Actors, IsFree(a), NEW W \in SUBSET Write,
         NEW d \in {"all", "stage", "one"}, Start(a, W, d), UNCHANGED <<store, broken>>, owed' \subseteq owed,
         \A w \in W : w.op = "insert" => ~w.row.closed,
         \A b \in Actors : \A p \in session'[b].kept : ~p.row.closed,
         Succeeded(W, owed')
  PROVE  Open' /\ Held'
<1>1. actor'[a].work = W /\ \A b \in Actors \ {a} : actor'[b] = actor[b]
  BY DoingTypes DEF Start, AnnotationInv, Inv, TypeOK
<1>2. Open'
  BY <1>1 DEF AnnotationInv, Open
<1>3. ASSUME NEW s \in Subjects, NEW n \in Lines, <<s, n, TRUE>> \in owed', s \notin broken'
      PROVE  Queued(s, n)' \/ \E id \in RowIds : HeldAt(id, s, n)'
  <2>1. CASE Queued(s, n)
    <3>1. PICK b \in Actors : \E w \in actor[b].work :
            w.op = "insert" /\ w.id[1] = s /\ w.row.owned /\ n \in Said(w.row)
      BY <2>1 DEF Queued
    <3>2. b # a
      BY <3>1 DEF IsFree
    <3> QED
      BY <1>1, <3>1, <3>2 DEF Queued
  <2>2. ASSUME NEW id \in RowIds, HeldAt(id, s, n)
        PROVE  Queued(s, n)' \/ HeldAt(id, s, n)'
    <3>1. CASE Closing(id)'
      <4>0. PICK b \in Actors : \E w \in actor'[b].work : w.op = "upsert" /\ w.id = id /\ w.row.closed
        BY <3>1 DEF Closing
      <4>1. PICK w \in actor'[b].work : w.op = "upsert" /\ w.id = id /\ w.row.closed
        BY <4>0
      <4>2. b = a /\ w \in W
        BY <1>1, <2>2, <4>1 DEF HeldAt, Closing
      <4>3. PICK v \in W : v.op = "insert" /\ v.id[1] = s /\ v.row.owned /\ n \in Said(v.row)
        BY <1>3, <2>2, <4>1, <4>2 DEF HeldAt, Succeeded
      <4> QED
        BY <1>1, <4>3 DEF Queued
    <3>2. CASE ~Closing(id)'
      BY <2>2, <3>2 DEF HeldAt
    <3> QED
      BY <3>1, <3>2
  <2>3. Queued(s, n) \/ \E id \in RowIds : HeldAt(id, s, n)
    BY <1>3 DEF AnnotationInv, Held
  <2> QED
    BY <2>1, <2>2, <2>3
<1> QED
  BY <1>2, <1>3 DEF Held

(* The sessions keep what they kept.                                       *)
LEMMA KeptOpen ==
  ASSUME AnnotationInv, session' = session
  PROVE  \A b \in Actors : \A p \in session'[b].kept : ~p.row.closed
BY DEF AnnotationInv, Open

-----------------------------------------------------------------------------
(* What the operations write.                                              *)

(* A usage bump and a suspect marker leave a copy open.                    *)
LEMMA MarkLeavesOpen ==
  ASSUME NEW p \in Copy, NEW b \in BOOLEAN
  PROVE  /\ [p EXCEPT !.row.recalled = b].row.closed = p.row.closed
         /\ [p EXCEPT !.row.suspect = b].row.closed = p.row.closed
<1>1. p.row \in Fields
  BY CopyRow, RowFields
<1>2. /\ [p EXCEPT !.row.recalled = b].row = [p.row EXCEPT !.recalled = b]
      /\ [p EXCEPT !.row.suspect = b].row = [p.row EXCEPT !.suspect = b]
  BY DEF Copy
<1>3. /\ [p.row EXCEPT !.recalled = b].closed = p.row.closed
      /\ [p.row EXCEPT !.suspect = b].closed = p.row.closed
  BY <1>1 DEF Fields
<1> QED
  BY <1>2, <1>3

(* A usage bump of an open copy.                                           *)
LEMMA BumpedOpen == ASSUME NEW p \in Copy, ~p.row.closed PROVE ~Bumped(p).row.closed
BY MarkLeavesOpen, Zenon DEF Bumped

(* A check of an open copy.                                                *)
LEMMA CheckedOpen ==
  ASSUME NEW p \in Copy, ~p.row.closed, NEW refuted PROVE ~Checked(p, refuted).row.closed
<1> DEFINE b == p.row.suspect \/ Refuted(p, refuted)
<1>1. Checked(p, refuted) = [p EXCEPT !.row.suspect = b]
  BY DEF Copy, Checked
<1>2. b \in BOOLEAN
  BY DEF Refuted
<1> HIDE DEF b
<1> QED
  BY <1>1, <1>2, MarkLeavesOpen

(* What an upsert writes, and where.                                       *)
LEMMA UpsertFields ==
  ASSUME NEW p \in Copy, NEW stage
  PROVE  Upsert(p, stage).op = "upsert" /\ Upsert(p, stage).id = p.id /\ Upsert(p, stage).row = p.row
BY DEF Upsert

(* A current row is open.                                                  *)
LEMMA CurrentOpen ==
  ASSUME Inv, NEW p \in Current
  PROVE  /\ p \in Copy /\ p.row \in Row /\ p.row = store[p.id] /\ p.id \in RowIds
         /\ store[p.id] # None /\ ~p.row.closed
<1>1. p \in Copy /\ p.row = store[p.id] /\ p.id \in CurrentIds
  BY CurrentCopies DEF Inv, Current
<1> QED
  BY <1>1, CopyRow DEF CurrentIds

(* A successor is open, and an overlay's says all but the retracted lines. *)
LEMMA SuccessorOpen ==
  ASSUME NEW r \in Row, ~r.closed, NEW n \in Notes, NEW proof \in BOOLEAN, NEW fragment
  PROVE  LET t == Successor(r, n, proof, fragment) IN
           ~t.closed /\ (r.owned => t.owned /\ Said(r) \ Retracted(r, fragment) \subseteq Said(t))
<1>1. CASE r.owned
  <2> DEFINE t == Annotated(r, n, proof, fragment)
  <2>1. t.owned /\ ~t.closed /\ t.notes = Overlay(r, n, proof, fragment)
    BY <1>1, AnnotatedRow
  <2> HIDE DEF t
  <2>2. ASSUME NEW l \in Said(r), l \notin Retracted(r, fragment) PROVE l \in Said(t)
    <3>1. PICK b \in r.notes : l \in Texts(b)
      BY DEF Said
    <3>2. b \in Kept(r, fragment)
      BY <1>1, <2>2, <3>1 DEF Kept, Retracted
    <3>3. PICK d \in Overlay(r, n, proof, fragment) : Texts(d) = Texts(b)
      BY <3>2, OverlayIs
    <3> QED
      BY <2>1, <3>1, <3>3 DEF Said
  <2> QED
    BY <1>1, <2>1, <2>2 DEF Successor, t
<1>2. CASE ~r.owned
  BY <1>2, ReplacedRow DEF Successor
<1> QED
  BY <1>1, <1>2

-----------------------------------------------------------------------------
(* Operations.                                                             *)

(* memory_write.                                                           *)
LEMMA MemoryWriteHolds ==
  ASSUME AnnotationInv, NEW a \in Actors, NEW s \in Subjects, NEW n \in Notes, NEW proof \in BOOLEAN,
         NEW replaces, MemoryWrite(a, s, n, proof, replaces)
  PROVE  Open' /\ Held'
<1> DEFINE new == <<s, clock>>
<1>1. /\ IsFree(a) /\ new \in RowIds /\ new[1] = s
      /\ UNCHANGED <<store, broken>> /\ session' = session
  BY StoreAssumption DEF MemoryWrite, AnnotationInv, Inv, TypeOK, RowIds
<1>2. \A b \in Actors : \A p \in session'[b].kept : ~p.row.closed
  BY <1>1, KeptOpen
<1>3. ASSUME NEW W \in SUBSET Write, NEW d \in {"all", "stage", "one"}, Start(a, W, d), owed' \subseteq owed,
             \A w \in W : w.op = "insert" => ~w.row.closed, Succeeded(W, owed')
      PROVE  Open' /\ Held'
  BY <1>1, <1>2, <1>3, StartHolds
<1> HIDE DEF new
<1>4. CASE WriteFirst(a, s, n, proof)
  <2> DEFINE v == Insert(new, NewNote(n, proof))
  <2>1. Start(a, {v}, "all") /\ owed' = owed
    BY <1>4 DEF WriteFirst, new
  <2>2. NewNote(n, proof) \in Row /\ ~NewNote(n, proof).closed
    <3>1. NewNote(n, proof) \in Row
      BY NewNoteRow
    <3> QED
      BY <3>1 DEF NewNote
  <2>3. v \in Write /\ v.op = "insert" /\ ~v.row.closed
    BY <1>1, <2>2 DEF Insert, Write
  <2> HIDE DEF v
  <2> DEFINE W == {v}
  <2>4. W \in SUBSET Write /\ (\A w \in W : w.op = "insert" => ~w.row.closed) /\ Succeeded(W, owed')
    BY <2>3 DEF Succeeded
  <2>5. Start(a, W, "all") /\ owed' \subseteq owed
    BY <2>1
  <2> HIDE DEF W
  <2> QED
    BY <2>4, <2>5, <1>3
<1>5. CASE WriteDuplicate(a, s, n, proof, replaces)
  <2>1. PICK p \in CurrentOf(s) : Start(a, {Upsert(Bumped(p), 1)}, "stage")
    BY <1>5 DEF WriteDuplicate
  <2>2. p \in Copy /\ ~p.row.closed
    BY CurrentCopies, CurrentOpen DEF AnnotationInv, Inv
  <2>3. Bumped(p) \in Copy /\ ~Bumped(p).row.closed
    BY <2>2, BumpedMarks, BumpedOpen DEF Marks
  <2> DEFINE v == Upsert(Bumped(p), 1)
  <2>4. v \in Write /\ v.op = "upsert" /\ ~v.row.closed
    BY <2>3 DEF Upsert, Write, Copy
  <2>5. owed' = owed
    BY <1>5 DEF WriteDuplicate
  <2>6. Start(a, {v}, "stage")
    BY <2>1
  <2> HIDE DEF v
  <2> DEFINE W == {v}
  <2>7. W \in SUBSET Write /\ (\A w \in W : w.op = "insert" => ~w.row.closed) /\ Succeeded(W, owed')
    BY <2>4 DEF Succeeded
  <2>8. Start(a, W, "stage") /\ owed' \subseteq owed
    BY <2>5, <2>6
  <2> HIDE DEF W
  <2> QED
    BY <2>7, <2>8, <1>3
<1>6. CASE WriteOver(a, s, n, proof, replaces)
  <2>1. PICK p \in CurrentOf(s) :
          /\ Start(a, Supersession(p, <<s, clock>>, Successor(p.row, n, proof, replaces)), "all")
          /\ owed' = owed \ {<<s, l, p.row.owned>> : l \in Retracted(p.row, replaces)}
    BY <1>6 DEF WriteOver
  <2>2. p \in Current /\ p \in Copy /\ p.id[1] = s /\ p.row \in Row /\ p.row = store[p.id] /\ ~p.row.closed
    BY CurrentCopies, CurrentOpen DEF AnnotationInv, Inv
  <2> DEFINE t == Successor(p.row, n, proof, replaces)
             close == Upsert(Closed(p), 1)
             v == Insert(new, t)
  <2>3. ~t.closed /\ (p.row.owned => t.owned /\ Said(p.row) \ Retracted(p.row, replaces) \subseteq Said(t))
    BY <2>2, SuccessorOpen
  <2>4. t \in Row
    BY <2>2, SuccessorIsRow
  <2> HIDE DEF t
  <2>5. v \in Write /\ v.op = "insert" /\ v.id[1] = s /\ v.row = t
    BY <1>1, <2>4 DEF Insert, Write
  <2>6. Closed(p) \in Copy /\ Closed(p).id = p.id
    BY <2>2, ClosedMarks DEF Marks
  <2>7. close \in Write /\ close.op = "upsert" /\ close.id = p.id
    BY <2>6 DEF Upsert, Write, Copy
  <2>8. Start(a, {close, v}, "all")
    BY <2>1 DEF Supersession, new, t
  <2>9. \A l \in Said(p.row) : p.row.owned /\ <<s, l, TRUE>> \in owed' => l \notin Retracted(p.row, replaces)
    <3> SUFFICES ASSUME NEW l \in Said(p.row), p.row.owned, l \in Retracted(p.row, replaces)
                 PROVE  <<s, l, TRUE>> \notin owed'
      OBVIOUS
    <3>1. p.row.owned = TRUE
      BY <2>2 DEF Row
    <3> QED
      BY <2>1, <3>1
  <2> HIDE DEF close, v
  <2>10. Succeeded({close, v}, owed')
    BY <2>2, <2>3, <2>5, <2>7, <2>9 DEF Succeeded
  <2>11. {close, v} \in SUBSET Write /\ owed' \subseteq owed /\ \A w \in {close, v} : w.op = "insert" => ~w.row.closed
    BY <2>1, <2>3, <2>5, <2>7
  <2> QED
    BY <2>8, <2>10, <2>11, <1>3
<1> QED
  BY <1>4, <1>5, <1>6 DEF MemoryWrite

(* Copies that are open.                                                   *)
OpenCopies(P) == \A p \in P : p \in Copy /\ ~p.row.closed

(* Bumps of open copies are upserts of open rows.                          *)
LEMMA BumpsOpen ==
  ASSUME NEW P, OpenCopies(P), NEW stage \in {1, 2}
  PROVE  \A w \in {Upsert(Bumped(p), stage) : p \in P} : w \in Write /\ w.op = "upsert" /\ ~w.row.closed
<1> SUFFICES ASSUME NEW p \in P
             PROVE  /\ Upsert(Bumped(p), stage) \in Write /\ Upsert(Bumped(p), stage).op = "upsert"
                    /\ ~Upsert(Bumped(p), stage).row.closed
  OBVIOUS
<1>1. Bumped(p) \in Copy /\ ~Bumped(p).row.closed
  BY BumpedMarks, BumpedOpen DEF OpenCopies, Marks
<1> QED
  BY <1>1 DEF Upsert, Write, Copy

(* What is found is open, and so is what is checked.                       *)
LEMMA CheckedOpenCopies ==
  ASSUME NEW P, OpenCopies(P), NEW refuted PROVE OpenCopies({Checked(p, refuted) : p \in P})
BY CheckedMarks, CheckedOpen DEF OpenCopies, Marks

(* What a delivery finds.                                                  *)
LEMMA FoundOpen ==
  ASSUME Inv, NEW s, NEW refuted
  PROVE  OpenCopies({Checked(p, refuted) : p \in {q \in CurrentOf(s) : q.row.notes # {}}})
<1>1. OpenCopies({q \in CurrentOf(s) : q.row.notes # {}})
  BY CurrentCopies, CurrentOpen DEF Inv, OpenCopies
<1> QED
  BY <1>1, CheckedOpenCopies

(* Any delivery.                                                           *)
LEMMA DeliveryHolds ==
  ASSUME AnnotationInv, NEW a \in Actors, NEW s, NEW W, NEW found, NEW kept, IsFree(a),
         Start(a, W, "stage"), \A w \in W : w \in Write /\ w.op = "upsert" /\ ~w.row.closed,
         OpenCopies(kept),
         session' = [session EXCEPT ![a] = [
            delivered |-> IF found = {} THEN @.delivered ELSE @.delivered \cup {s}, kept |-> kept]],
         UNCHANGED <<store, clock, faults, history>>
  PROVE  Open' /\ Held'
<1>1. \A b \in Actors : \A p \in session'[b].kept : ~p.row.closed
  BY DEF AnnotationInv, Inv, TypeOK, Open, OpenCopies
<1>2. Succeeded(W, owed') /\ owed' = owed /\ UNCHANGED <<store, broken>>
  BY DEF Succeeded, history
<1> QED
  BY <1>1, <1>2, StartHolds

(* What a session keeps is open.                                           *)
LEMMA KeptOpenCopies ==
  ASSUME AnnotationInv, NEW a \in Actors, NEW found, OpenCopies(found)
  PROVE  OpenCopies(Remember(session[a].kept, found))
BY DEF AnnotationInv, Inv, TypeOK, Open, OpenCopies, Remember

(* A sample.                                                               *)
LEMMA SampleHolds ==
  ASSUME AnnotationInv, NEW a \in Actors, NEW s \in Subjects, NEW refuted, Sample(a, s, refuted)
  PROVE  Open' /\ Held'
<1> DEFINE found == {Checked(p, refuted) : p \in {q \in CurrentOf(s) : q.row.notes # {}}}
<1>1. OpenCopies(found)
  BY FoundOpen DEF AnnotationInv
<1>2. /\ Start(a, {Upsert(Bumped(p), 1) : p \in found}, "stage") /\ IsFree(a)
      /\ session' = [session EXCEPT ![a] = [
            delivered |-> IF found = {} THEN @.delivered ELSE @.delivered \cup {s},
            kept |-> Remember(@.kept, found)]]
      /\ UNCHANGED <<store, clock, faults, history>>
  BY DEF Sample
<1> HIDE DEF found
<1>3. session' = [session EXCEPT ![a] = [
            delivered |-> IF found = {} THEN @.delivered ELSE @.delivered \cup {s},
            kept |-> Remember(session[a].kept, found)]]
  BY <1>2 DEF AnnotationInv, Inv, TypeOK
<1>4. OpenCopies(Remember(session[a].kept, found))
  BY <1>1, KeptOpenCopies
<1>5. \A w \in {Upsert(Bumped(p), 1) : p \in found} : w \in Write /\ w.op = "upsert" /\ ~w.row.closed
  BY <1>1, BumpsOpen
<1> QED
  BY <1>2, <1>3, <1>4, <1>5, DeliveryHolds

(* A query.                                                                *)
LEMMA QueryHolds ==
  ASSUME AnnotationInv, NEW a \in Actors, NEW s \in Subjects, NEW refuted, Query(a, s, refuted)
  PROVE  Open' /\ Held'
<1> DEFINE first   == s \notin session[a].delivered
           found   == IF first THEN {Checked(p, refuted) : p \in {q \in CurrentOf(s) : q.row.notes # {}}}
                               ELSE {}
           kept    == Remember(session[a].kept, found)
           carried == IF first /\ found = {} THEN {} ELSE {p \in kept : p.id[1] = s}
           again   == IF \E p \in carried : Refuted(p, refuted)
                        THEN {Checked(p, refuted) : p \in carried} ELSE {}
           W       == {Upsert(Bumped(p), 1) : p \in found} \cup {Upsert(Bumped(p), 2) : p \in again}
<1>1. /\ Start(a, W, "stage") /\ IsFree(a)
      /\ session' = [session EXCEPT ![a] = [
            delivered |-> IF found = {} THEN @.delivered ELSE @.delivered \cup {s},
            kept |-> kept]]
      /\ UNCHANGED <<store, clock, faults, history>>
  BY DEF Query
<1>2. OpenCopies(found)
  BY FoundOpen DEF AnnotationInv, OpenCopies
<1> HIDE DEF found
<1>3. OpenCopies(kept)
  BY <1>2, KeptOpenCopies
<1> HIDE DEF kept
<1>4. OpenCopies(carried)
  BY <1>3 DEF OpenCopies
<1> HIDE DEF carried
<1>5. OpenCopies(again)
  <2>1. OpenCopies({Checked(p, refuted) : p \in carried})
    BY <1>4, CheckedOpenCopies
  <2> QED
    BY <2>1 DEF OpenCopies
<1> HIDE DEF again
<1>6. \A w \in W : w \in Write /\ w.op = "upsert" /\ ~w.row.closed
  <2>1. \A w \in {Upsert(Bumped(p), 1) : p \in found} : w \in Write /\ w.op = "upsert" /\ ~w.row.closed
    BY <1>2, BumpsOpen
  <2>2. \A w \in {Upsert(Bumped(p), 2) : p \in again} : w \in Write /\ w.op = "upsert" /\ ~w.row.closed
    BY <1>5, BumpsOpen
  <2> QED
    BY <2>1, <2>2
<1> HIDE DEF W
<1> QED
  BY <1>1, <1>3, <1>6, DeliveryHolds

(* A pass that closes standalone notes only.                               *)
LEMMA NotePassHolds ==
  ASSUME AnnotationInv, NEW a \in Actors, NEW W \in SUBSET Write, NEW d \in {"all", "stage", "one"},
         Start(a, W, d), IsFree(a), UNCHANGED <<store, session, broken>>, owed' \subseteq owed,
         \A w \in W : w.op = "upsert" /\ ~store[w.id].owned
  PROVE  Open' /\ Held'
<1>1. Succeeded(W, owed')
  BY DEF Succeeded
<1> QED
  BY <1>1, KeptOpen, StartHolds

(* An upsert of another bookkeeping of a current row.                      *)
LEMMA RewriteOf ==
  ASSUME Inv, NEW p \in Current, ~p.row.owned, NEW q, Marks(q, p), NEW stage \in {1, 2}
  PROVE  /\ Upsert(q, stage) \in Write /\ Upsert(q, stage).op = "upsert"
         /\ ~store[Upsert(q, stage).id].owned
<1>1. q \in Copy /\ q.id = p.id /\ p.row = store[p.id]
  BY CurrentCopies DEF Marks, Inv
<1> QED
  BY <1>1 DEF Upsert, Write, Copy

(* The decay pass.                                                         *)
LEMMA DecayHolds == ASSUME AnnotationInv, NEW a \in Actors, Decay(a) PROVE Open' /\ Held'
<1> DEFINE candidates == {p \in Current : ~p.row.owned /\ ~p.row.sourced /\ ~p.row.recalled}
           W(old) == {Upsert([Closed(p) EXCEPT !.row.archived = TRUE], 1) : p \in old}
<1>0. /\ \E old \in SUBSET candidates : Start(a, W(old), "all") /\ owed' = owed \ Retired(old)
      /\ IsFree(a) /\ UNCHANGED <<store, session, broken>>
  BY DEF Decay
<1>1. PICK old \in SUBSET {p \in Current : ~p.row.owned} : Start(a, W(old), "all") /\ owed' \subseteq owed
  BY <1>0
<1>2. \A p \in old : Marks([Closed(p) EXCEPT !.row.archived = TRUE], p)
  <2> SUFFICES ASSUME NEW p \in old PROVE Marks([Closed(p) EXCEPT !.row.archived = TRUE], p)
    OBVIOUS
  <2>1. p \in Copy
    BY CurrentCopies DEF AnnotationInv, Inv
  <2>2. Marks(Closed(p), p)
    BY <2>1, ClosedMarks
  <2>3. Closed(p) \in Copy
    BY <2>2 DEF Marks
  <2>4. Marks([Closed(p) EXCEPT !.row.archived = TRUE], Closed(p))
    BY <2>3, ArchivedMarks
  <2> QED
    BY <2>2, <2>4 DEF Marks
<1> DEFINE X == W(old)
<1>3. \A w \in X : w \in Write /\ w.op = "upsert" /\ ~store[w.id].owned
  <2> SUFFICES ASSUME NEW p \in old
               PROVE  LET w == Upsert([Closed(p) EXCEPT !.row.archived = TRUE], 1) IN
                        w \in Write /\ w.op = "upsert" /\ ~store[w.id].owned
    OBVIOUS
  <2> DEFINE q == [Closed(p) EXCEPT !.row.archived = TRUE]
  <2>1. Marks(q, p) /\ p \in Current /\ ~p.row.owned
    BY <1>2
  <2> HIDE DEF q
  <2>2. Upsert(q, 1) \in Write /\ Upsert(q, 1).op = "upsert" /\ ~store[Upsert(q, 1).id].owned
    BY <2>1, RewriteOf DEF AnnotationInv
  <2> QED
    BY <2>2 DEF q
<1>4. Start(a, X, "all")
  BY <1>1
<1> HIDE DEF X
<1> QED
  BY <1>0, <1>1, <1>3, <1>4, NotePassHolds

(* The revalidation pass.                                                  *)
LEMMA RevalidateHolds == ASSUME AnnotationInv, NEW a \in Actors, Revalidate(a) PROVE Open' /\ Held'
<1> DEFINE candidates == {p \in Current : ~p.row.owned /\ p.row.sourced}
           writes(unprovable, refuted) == {Upsert([p EXCEPT !.row.suspect = TRUE], 1) : p \in unprovable}
                                            \cup {Upsert(Closed(p), 1) : p \in refuted}
<1>0. /\ \E unprovable, refuted \in SUBSET candidates :
            unprovable \cap refuted = {} /\ Start(a, writes(unprovable, refuted), "one")
            /\ owed' = owed \ Retired(refuted)
      /\ IsFree(a) /\ UNCHANGED <<store, session, broken>>
  BY DEF Revalidate
<1>1. PICK unprovable \in SUBSET {p \in Current : ~p.row.owned}, refuted \in SUBSET {p \in Current : ~p.row.owned} :
        Start(a, writes(unprovable, refuted), "one") /\ owed' \subseteq owed
  BY <1>0
<1>2. \A p \in unprovable : Marks([p EXCEPT !.row.suspect = TRUE], p)
  BY CurrentCopies, MarkIn, Zenon DEF AnnotationInv, Inv
<1>3. \A p \in refuted : Marks(Closed(p), p)
  BY CurrentCopies, ClosedMarks DEF AnnotationInv, Inv
<1> DEFINE W == writes(unprovable, refuted)
<1>4. \A w \in W : w \in Write /\ w.op = "upsert" /\ ~store[w.id].owned
  BY <1>2, <1>3, RewriteOf DEF AnnotationInv
<1>5. Start(a, W, "one")
  BY <1>1
<1> HIDE DEF W
<1> QED
  BY <1>0, <1>1, <1>4, <1>5, NotePassHolds

(* The catalog walk: what a closed overlay still owes its successor has.   *)
LEMMA WalkHolds ==
  ASSUME AnnotationInv, NEW a \in Actors, NEW catalog \in Catalogs,
         NEW current \in [Subjects -> Current \cup {None}], Walk(a, catalog, current)
  PROVE  Open' /\ Held'
<1> DEFINE new(s)     == Walked(catalog[s], IF current[s] = None THEN None ELSE current[s].row)
           changed    == {s \in DOMAIN catalog : current[s] # None => ~Same(current[s].row, new(s))}
           superseded == {s \in changed : current[s] # None}
           vanished   == {s \in Subjects \ DOMAIN catalog : current[s] # None /\ current[s].row.owned}
           closes     == {Upsert(Closed(current[s]), 1) : s \in superseded \cup vanished}
           inserts    == {Insert(<<s, clock>>, new(s)) : s \in changed}
           retired == {o \in owed : /\ o[1] \in superseded /\ o[3]
                                    /\ ~Survives(o[2], current[o[1]].row.core, catalog[o[1]])}
           ended   == {<<s, n, TRUE>> : s \in vanished, n \in Lines}
           gone    == ended \cup retired
<1>0. /\ Start(a, closes \cup inserts, "all") /\ IsFree(a) /\ clock <= MaxRows
      /\ owed' = owed \ gone /\ UNCHANGED <<store, session, broken>>
      /\ \A s \in Subjects : IF CurrentOf(s) = {} THEN current[s] = None ELSE current[s] \in CurrentOf(s)
  BY DEF Walk
<1>1. \A s \in vanished, n \in Lines : <<s, n, TRUE>> \notin owed'
  BY <1>0
<1> HIDE DEF retired, ended
<1>2. retired \subseteq gone
  OBVIOUS
<1> HIDE DEF gone
<1>3. owed' \subseteq owed /\ owed' \cap retired = {}
  BY <1>0, <1>2
<1>4. \A s \in superseded, n \in Lines :
        ~Survives(n, current[s].row.core, catalog[s]) => <<s, n, TRUE>> \notin owed'
  <2> SUFFICES ASSUME NEW s \in superseded, NEW n \in Lines,
                      ~Survives(n, current[s].row.core, catalog[s]), <<s, n, TRUE>> \in owed'
               PROVE  FALSE
    OBVIOUS
  <2> DEFINE o == <<s, n, TRUE>>
  <2>1. o[1] = s /\ o[2] = n /\ o[3] = TRUE /\ o \in owed /\ o \in owed'
    BY <1>3
  <2> HIDE DEF o, superseded
  <2>2. o \in retired
    BY <2>1 DEF retired
  <2> QED
    BY <1>3, <2>1, <2>2
<1>5. \A s \in Subjects : current[s] = None \/ current[s] \in CurrentOf(s)
  BY <1>0
<1>6. clock \in 1..MaxRows
  BY <1>0, StoreAssumption DEF AnnotationInv, Inv, TypeOK
<1>7. DOMAIN catalog \in SUBSET Subjects /\ \A s \in DOMAIN catalog : catalog[s] \in SUBSET Elements
  BY DEF Catalogs
<1>8. \A s \in superseded \cup vanished :
        /\ current[s] \in Current /\ current[s] \in Copy /\ current[s].row \in Row
        /\ current[s].id[1] = s /\ current[s].row = store[current[s].id]
  BY <1>5, <1>7, CurrentCopies, CurrentOpen DEF AnnotationInv, Inv
<1>9. \A s \in superseded \cup vanished :
        /\ Upsert(Closed(current[s]), 1) \in Write
        /\ Upsert(Closed(current[s]), 1).op = "upsert" /\ Upsert(Closed(current[s]), 1).id = current[s].id
  <2> SUFFICES ASSUME NEW s \in superseded \cup vanished
               PROVE  /\ Upsert(Closed(current[s]), 1) \in Write
                      /\ Upsert(Closed(current[s]), 1).op = "upsert"
                      /\ Upsert(Closed(current[s]), 1).id = current[s].id
    OBVIOUS
  <2>1. current[s] \in Copy
    BY <1>8
  <2> DEFINE q == Closed(current[s])
  <2>2. q \in Copy /\ q.id = current[s].id
    BY <2>1, ClosedMarks DEF Marks
  <2> HIDE DEF q
  <2>3. Upsert(q, 1) \in Write /\ Upsert(q, 1).op = "upsert" /\ Upsert(q, 1).id = current[s].id
    BY <2>2 DEF Upsert, Write, Copy
  <2> QED
    BY <2>3 DEF q
<1>10. \A s \in changed :
        LET v == Insert(<<s, clock>>, new(s)) IN
          v \in Write /\ v.op = "insert" /\ v.id[1] = s /\ v.row.owned /\ ~v.row.closed /\ v.row = new(s)
  <2> SUFFICES ASSUME NEW s \in changed
               PROVE  LET v == Insert(<<s, clock>>, new(s)) IN
                        /\ v \in Write /\ v.op = "insert" /\ v.id[1] = s
                        /\ v.row.owned /\ ~v.row.closed /\ v.row = new(s)
    OBVIOUS
  <2> DEFINE r == IF current[s] = None THEN None ELSE current[s].row
             t == Walked(catalog[s], r)
  <2>1. s \in Subjects /\ catalog[s] \in SUBSET Elements
    BY <1>7
  <2>2. r # None => r \in Row
    BY <1>8
  <2> HIDE DEF r
  <2>3. t \in Row
    BY <2>1, <2>2, WalkedRow
  <2>4. t.owned /\ ~t.closed
    BY DEF Walked, Concept
  <2>5. new(s) = t
    BY DEF r
  <2>6. <<s, clock>> \in RowIds /\ <<s, clock>>[1] = s
    BY <1>6, <2>1 DEF RowIds
  <2> HIDE DEF new, t
  <2> QED
    BY <2>3, <2>4, <2>5, <2>6 DEF Insert, Write
<1>11. \A s \in superseded : current[s].row.owned =>
         \A n \in Said(current[s].row) : Survives(n, current[s].row.core, catalog[s]) => n \in Said(new(s))
  <2> SUFFICES ASSUME NEW s \in superseded, current[s].row.owned, NEW n \in Said(current[s].row),
                      Survives(n, current[s].row.core, catalog[s])
               PROVE  n \in Said(new(s))
    OBVIOUS
  <2> DEFINE r == current[s].row
  <2>1. r # None /\ new(s) = Walked(catalog[s], r)
    BY <1>8, NoneIsApart
  <2>2. r.owned /\ n \in Said(r) /\ Survives(n, r.core, catalog[s])
    OBVIOUS
  <2> HIDE DEF r, new
  <2>3. r \in Row /\ r.notes \in SUBSET Block
    BY <1>8 DEF r, Row
  <2>4. PICK b \in r.notes : \E x \in b : x.text = n
    BY <2>2 DEF Said, Texts
  <2>5. PICK x \in b : x.text = n
    BY <2>4
  <2>6. PICK d \in Surviving(r.notes, r.core, catalog[s]) : x \in d
    BY <2>2, <2>3, <2>5, SurvivingBlocks
  <2>7. new(s).notes = Surviving(r.notes, r.core, catalog[s])
    BY <2>1, <2>2 DEF Walked, Concept
  <2> QED
    BY <2>5, <2>6, <2>7 DEF Said, Texts
<1> DEFINE W == closes \cup inserts
<1>12. W \in SUBSET Write /\ \A w \in W : w.op = "insert" => ~w.row.closed
  <2>1. \A w \in closes : w \in Write /\ w.op = "upsert"
    BY <1>9
  <2>2. \A w \in inserts : w \in Write /\ ~w.row.closed
    <3> SUFFICES ASSUME NEW s \in changed
                 PROVE  Insert(<<s, clock>>, new(s)) \in Write /\ ~Insert(<<s, clock>>, new(s)).row.closed
      OBVIOUS
    <3> QED
      BY <1>10, Zenon
  <2> HIDE DEF closes, inserts
  <2> QED
    BY <2>1, <2>2
<1>13. Succeeded(W, owed')
  <2> SUFFICES ASSUME NEW w \in W, w.op = "upsert", store[w.id].owned,
                      NEW n \in Said(store[w.id]), <<w.id[1], n, TRUE>> \in owed'
               PROVE  \E v \in W : v.op = "insert" /\ v.id[1] = w.id[1] /\ v.row.owned /\ n \in Said(v.row)
    BY DEF Succeeded
  <2>1. PICK s \in superseded \cup vanished : w = Upsert(Closed(current[s]), 1)
    BY <1>10
  <2>2. w.id = current[s].id /\ w.id[1] = s /\ current[s].row = store[w.id] /\ n \in Lines
    BY <1>8, <1>9, <2>1, SaidLines
  <2>3. s \in superseded /\ Survives(n, current[s].row.core, catalog[s])
    BY <1>1, <1>4, <2>2
  <2>4. n \in Said(new(s))
    BY <1>11, <2>2, <2>3
  <2>5. s \in changed
    BY <2>3
  <2> DEFINE v == Insert(<<s, clock>>, new(s))
  <2>6. v \in W
    BY <2>5
  <2>7. v.op = "insert" /\ v.id[1] = s /\ v.row.owned /\ v.row = new(s)
    BY <1>10, <2>5
  <2> HIDE DEF v, W, new
  <2> QED
    BY <2>2, <2>4, <2>6, <2>7
<1>14. Start(a, W, "all") /\ IsFree(a) /\ UNCHANGED <<store, session, broken>>
  BY <1>0
<1> HIDE DEF W
<1>15. \A b \in Actors : \A p \in session'[b].kept : ~p.row.closed
  BY <1>14, KeptOpen
<1> QED
  BY <1>3, <1>12, <1>13, <1>14, <1>15, StartHolds

(* Every operation.                                                        *)
LEMMA OperationHolds == ASSUME AnnotationInv, NEW a \in Actors, Operation(a) PROVE Open' /\ Held'
<1>1. ASSUME NEW s \in Subjects, NEW refuted, Sample(a, s, refuted) \/ Query(a, s, refuted)
      PROVE  Open' /\ Held'
  BY <1>1, SampleHolds, QueryHolds
<1>2. ASSUME NEW s \in Subjects, NEW n \in Notes, NEW proof \in BOOLEAN, NEW r, MemoryWrite(a, s, n, proof, r)
      PROVE  Open' /\ Held'
  BY <1>2, MemoryWriteHolds
<1>3. ASSUME NEW catalog \in Catalogs, NEW current \in [Subjects -> Current \cup {None}],
             Walk(a, catalog, current)
      PROVE  Open' /\ Held'
  BY <1>3, WalkHolds
<1>4. Decay(a) \/ Revalidate(a) => Open' /\ Held'
  BY DecayHolds, RevalidateHolds
<1> QED
  BY <1>1, <1>2, <1>3, <1>4 DEF Operation

-----------------------------------------------------------------------------
(* Sending, again.                                                         *)

(* An insert that reaches the store holds its blocks: nobody can be about  *)
(* to close a row that was not there.                                      *)
LEMMA InsertedHeld ==
  ASSUME AnnotationInv, NEW a \in Actors, NEW w \in actor[a].work, w.op = "insert", ~Collides(w),
         store' = Effect(w), \A b \in Actors : actor'[b].work \subseteq actor[b].work,
         w.row.owned, NEW n \in Said(w.row)
  PROVE  HeldAt(w.id, w.id[1], n)'
<1>1. w \in Write /\ w.id \in RowIds /\ w.row \in Row /\ ~w.row.closed
  BY DEF AnnotationInv, Inv, TypeOK, Open, Write
<1>2. store'[w.id] = w.row /\ w.row # None /\ store[w.id] = None
  BY <1>1, NoneIsApart DEF Effect, Collides, AnnotationInv, Inv, TypeOK
<1>3. ~Closing(w.id)'
  <2> SUFFICES ASSUME NEW b \in Actors, NEW v \in actor'[b].work, v.op = "upsert", v.id = w.id
               PROVE  FALSE
    BY DEF Closing
  <2>1. v \in actor[b].work
    OBVIOUS
  <2>2. Says(v.id, v.row)
    BY <2>1 DEF AnnotationInv, Inv, Faithful, FaithfulWrite
  <2> QED
    BY <1>2, <2>2 DEF Says
<1> QED
  BY <1>1, <1>2, <1>3 DEF HeldAt

(* What is held stays so: who writes the row writes what it says, open.    *)
LEMMA HeldStays ==
  ASSUME AnnotationInv, NEW a \in Actors, NEW w \in actor[a].work, store' \in {store, Effect(w)},
         \A b \in Actors : actor'[b].work \subseteq actor[b].work,
         NEW id \in RowIds, NEW s, NEW n, HeldAt(id, s, n)
  PROVE  HeldAt(id, s, n)'
<1>1. ~Closing(id)'
  BY DEF HeldAt, Closing
<1>2. CASE store'[id] = store[id]
  BY <1>1, <1>2 DEF HeldAt
<1>3. CASE store'[id] # store[id]
  <2>1. w \in Write
    BY DEF AnnotationInv, Inv, TypeOK
  <2>2. ~Collides(w) /\ id = w.id /\ store'[id] = w.row
    BY <1>3, <2>1 DEF Effect, Write, AnnotationInv, Inv, TypeOK
  <2>3. w.op = "upsert" /\ w.row \in Row /\ w.row # None
    BY <2>1, <2>2, NoneIsApart DEF Collides, HeldAt, Write
  <2>4. Content(store[id]) = Content(w.row)
    BY <2>2, <2>3 DEF AnnotationInv, Inv, Faithful, FaithfulWrite, Says
  <2>5. w.row.owned = store[id].owned /\ w.row.notes = store[id].notes
    BY <2>4 DEF Content
  <2>6. ~w.row.closed
    BY <2>2, <2>3 DEF HeldAt, Closing
  <2>7. Said(w.row) = Said(store[id])
    BY <2>5 DEF Said
  <2> QED
    BY <1>1, <2>2, <2>3, <2>5, <2>6, <2>7 DEF HeldAt
<1> QED
  BY <1>2, <1>3

(* Sending: an insert that leaves the queue has landed or is given up.     *)
LEMMA SentHolds ==
  ASSUME AnnotationInv, NEW a \in Actors, NEW w \in actor[a].work, AppliedOrLost(w), session' = session,
         \A b \in Actors : actor'[b].work \subseteq actor[b].work,
         \A b \in Actors \ {a} : actor'[b].work = actor[b].work,
         broken \subseteq broken',
         \A v \in actor[a].work \ actor'[a].work : v.op = "insert" =>
           v.id[1] \in broken' \/ (v = w /\ ~Collides(w) /\ Applied(w))
  PROVE  Open' /\ Held'
<1>1. Open'
  BY DEF AnnotationInv, Open
<1>2. store' \in {store, Effect(w)} /\ (Applied(w) => store' = Effect(w))
  BY DEF AppliedOrLost, Applied
<1>3. ASSUME NEW s \in Subjects, NEW n \in Lines, <<s, n, TRUE>> \in owed', s \notin broken'
      PROVE  Queued(s, n)' \/ \E id \in RowIds : HeldAt(id, s, n)'
  <2>1. w \in Write /\ w.id \in RowIds /\ w.row \in Row
    BY DEF AnnotationInv, Inv, TypeOK, Write
  <2>2. ASSUME w.op = "insert", ~Collides(w), Applied(w), w.id[1] = s, w.row.owned, n \in Said(w.row)
        PROVE  \E id \in RowIds : HeldAt(id, s, n)'
    BY <1>2, <2>1, <2>2, InsertedHeld
  <2>3. CASE <<s, n, TRUE>> \in owed
    <3>1. CASE Queued(s, n)
      <4>1. PICK b \in Actors : \E v \in actor[b].work :
              v.op = "insert" /\ v.id[1] = s /\ v.row.owned /\ n \in Said(v.row)
        BY <3>1 DEF Queued
      <4>2. PICK v \in actor[b].work : v.op = "insert" /\ v.id[1] = s /\ v.row.owned /\ n \in Said(v.row)
        BY <4>1
      <4>3. CASE v \in actor'[b].work
        BY <4>2, <4>3 DEF Queued
      <4>4. CASE v \notin actor'[b].work
        <5>1. v = w /\ ~Collides(w) /\ Applied(w)
          BY <1>3, <4>2, <4>4
        <5> QED
          BY <2>2, <4>2, <5>1
      <4> QED
        BY <4>3, <4>4
    <3>2. ASSUME NEW id \in RowIds, HeldAt(id, s, n) PROVE HeldAt(id, s, n)'
      BY <1>2, <3>2, HeldStays
    <3>3. Queued(s, n) \/ \E id \in RowIds : HeldAt(id, s, n)
      BY <1>3, <2>3 DEF AnnotationInv, Held
    <3> QED
      BY <3>1, <3>2, <3>3
  <2>4. CASE <<s, n, TRUE>> \notin owed
    <3>1. Applied(w) /\ w.op = "insert" /\ ~Collides(w)
      BY <1>3, <2>4 DEF AppliedOrLost, Applied
    <3>2. <<s, n, TRUE>> \in {<<w.id[1], x, w.row.owned>> : x \in Said(w.row)}
      BY <1>3, <2>4, <3>1 DEF Applied
    <3>3. PICK x \in Said(w.row) : <<s, n, TRUE>> = <<w.id[1], x, w.row.owned>>
      BY <3>2
    <3> QED
      BY <2>2, <3>1, <3>3
  <2> QED
    BY <2>3, <2>4
<1> QED
  BY <1>1, <1>3 DEF Held

(* An insert that is given up is of a broken subject.                      *)
LEMMA GivenUpInserts ==
  ASSUME NEW W, NEW v \in W, v.op = "insert" PROVE v.id[1] \in GivenUp(W)
BY DEF GivenUp

(* A request of any outcome.                                               *)
LEMMA SendingHolds ==
  ASSUME AnnotationInv, NEW a \in Actors, WriteLands(a) \/ WriteFails(a) \/ WriteRetried(a)
  PROVE  Open' /\ Held'
<1>1. session' = session
  BY DEF WriteLands, WriteFails, WriteRetried
<1>2. CASE WriteLands(a)
  <2>1. PICK w \in Due(a) :
          ~Collides(w) /\ Applied(w) /\ actor' = [actor EXCEPT ![a] = Doing(@.work \ {w}, @.drops)]
    BY <1>2 DEF WriteLands
  <2>2. w \in actor[a].work
    BY DueIsWork DEF AnnotationInv
  <2>3. actor'[a].work = actor[a].work \ {w} /\ \A b \in Actors \ {a} : actor'[b] = actor[b]
    BY <2>1, DoingTypes DEF AnnotationInv, Inv, TypeOK
  <2>4. broken' = broken
    BY <1>2 DEF WriteLands
  <2> QED
    BY <1>1, <2>1, <2>2, <2>3, <2>4, SentHolds DEF AppliedOrLost
<1>3. CASE WriteFails(a)
  <2>1. PICK w \in Due(a) :
          /\ AppliedOrLost(w)
          /\ actor' = [actor EXCEPT ![a] = Doing(Left(a, w), @.drops)]
          /\ broken' = broken \cup GivenUp(actor[a].work \ Left(a, w))
    BY <1>3 DEF WriteFails
  <2>2. w \in actor[a].work
    BY DueIsWork DEF AnnotationInv
  <2>3. Left(a, w) \in SUBSET actor[a].work
    <3>1. actor[a].drops \in {"all", "stage", "one"}
      BY DEF AnnotationInv, Inv, TypeOK
    <3> QED
      BY <3>1 DEF Left
  <2>4. actor'[a].work = Left(a, w) /\ \A b \in Actors \ {a} : actor'[b] = actor[b]
    <3> DEFINE L == Left(a, w)
    <3>1. L \in SUBSET Write /\ actor' = [actor EXCEPT ![a] = Doing(L, @.drops)]
      BY <2>1, <2>3 DEF AnnotationInv, Inv, TypeOK
    <3> HIDE DEF L
    <3>2. actor'[a].work = L /\ \A b \in Actors \ {a} : actor'[b] = actor[b]
      BY <3>1, DoingTypes DEF AnnotationInv, Inv, TypeOK
    <3> QED
      BY <3>2 DEF L
  <2>5. \A v \in actor[a].work \ actor'[a].work : v.op = "insert" => v.id[1] \in broken'
    BY <2>1, <2>4, GivenUpInserts
  <2> QED
    BY <1>1, <2>1, <2>2, <2>3, <2>4, <2>5, SentHolds
<1>4. CASE WriteRetried(a)
  <2>1. PICK w \in Due(a) : AppliedOrLost(w) /\ actor' = [actor EXCEPT ![a].again = w]
    BY <1>4 DEF WriteRetried
  <2>2. w \in actor[a].work
    BY DueIsWork DEF AnnotationInv
  <2>3. \A b \in Actors : actor'[b].work = actor[b].work
    BY <2>1 DEF AnnotationInv, Inv, TypeOK
  <2>4. broken' = broken
    BY <1>4 DEF WriteRetried
  <2> QED
    BY <1>1, <2>1, <2>2, <2>3, <2>4, SentHolds
<1> QED
  BY <1>2, <1>3, <1>4

(* A restart gives up the inserts it forgets.                              *)
LEMMA RestartHolds == ASSUME AnnotationInv, NEW a \in Actors, Restart(a) PROVE Open' /\ Held'
<1>1. /\ actor'[a].work = {} /\ \A b \in Actors \ {a} : actor'[b] = actor[b]
      /\ session'[a].kept = {} /\ \A b \in Actors \ {a} : session'[b] = session[b]
      /\ UNCHANGED <<store, owed>> /\ broken' = broken \cup GivenUp(actor[a].work)
  BY DEF Restart, Idle, NewSession, AnnotationInv, Inv, TypeOK
<1>2. Open'
  BY <1>1 DEF AnnotationInv, Open
<1>3. ASSUME NEW s \in Subjects, NEW n \in Lines, Queued(s, n), s \notin broken' PROVE Queued(s, n)'
  <2>1. PICK b \in Actors : \E v \in actor[b].work :
          v.op = "insert" /\ v.id[1] = s /\ v.row.owned /\ n \in Said(v.row)
    BY <1>3 DEF Queued
  <2>2. b # a
    BY <1>1, <1>3, <2>1, GivenUpInserts
  <2> QED
    BY <1>1, <2>1, <2>2 DEF Queued
<1>4. ASSUME NEW id \in RowIds, NEW s, NEW n, HeldAt(id, s, n) PROVE HeldAt(id, s, n)'
  <2>1. \A b \in Actors : actor'[b].work \subseteq actor[b].work
    BY <1>1
  <2> QED
    BY <1>1, <1>4, <2>1 DEF HeldAt, Closing
<1>5. broken \subseteq broken' /\ owed' = owed
  BY <1>1
<1> QED
  BY <1>2, <1>3, <1>4, <1>5 DEF AnnotationInv, Held

(* Every step.                                                             *)
LEMMA AnnotationStep == ASSUME AnnotationInv, [Next]_vars PROVE AnnotationInv'
<1>1. ASSUME UNCHANGED vars PROVE Open' /\ Held'
  <2>1. UNCHANGED <<store, actor, session, owed, broken>>
    BY <1>1 DEF vars, history
  <2>2. Open'
    BY <2>1 DEF AnnotationInv, Open
  <2>3. \A s, n : Queued(s, n) => Queued(s, n)'
    BY <2>1 DEF Queued
  <2>4. \A id, s, n : HeldAt(id, s, n) => HeldAt(id, s, n)'
    BY <2>1 DEF HeldAt, Closing
  <2> QED
    BY <2>1, <2>2, <2>3, <2>4 DEF AnnotationInv, Held
<1>2. ASSUME Next PROVE Open' /\ Held'
  <2>1. PICK a \in Actors : Operation(a) \/ WriteLands(a) \/ WriteFails(a) \/ WriteRetried(a) \/ Restart(a)
    BY <1>2 DEF Next
  <2> QED
    BY <2>1, OperationHolds, SendingHolds, RestartHolds
<1>3. Open' /\ Held'
  BY <1>1, <1>2
<1> QED
  BY <1>3, StepKeeps DEF AnnotationInv

(* What is held or queued is what the property asks for.                   *)
LEMMA HeldIsKept == ASSUME AnnotationInv PROVE AnnotationsKept
<1> SUFFICES ASSUME NEW o \in owed, o[3], o[1] \notin broken
             PROVE  Waiting(o[1], o[2]) \/ \E p \in CurrentOf(o[1]) : o[2] \in Said(p.row)
  BY DEF AnnotationsKept
<1>0. PICK s \in Subjects, n \in Lines, b \in BOOLEAN : o = <<s, n, b>>
  BY DEF AnnotationInv, Inv, TypeOK
<1>1. o = <<s, n, TRUE>>
  BY <1>0
<1>2. Queued(s, n) => Waiting(s, n)
  BY DEF Queued, Waiting
<1>3. ASSUME NEW id \in RowIds, HeldAt(id, s, n) PROVE \E p \in CurrentOf(s) : n \in Said(p.row)
  <2> DEFINE p == [id |-> id, row |-> store[id]]
  <2>1. p \in CurrentOf(s) /\ n \in Said(p.row)
    BY <1>3 DEF HeldAt, CurrentOf, Current, CurrentIds
  <2> QED
    BY <2>1
<1>4. Queued(s, n) \/ \E id \in RowIds : HeldAt(id, s, n)
  BY <1>1 DEF AnnotationInv, Held
<1> QED
  BY <1>1, <1>2, <1>3, <1>4

(* No annotation is lost to a stale copy: whoever closes a row brings the  *)
(* row's blocks along, and whoever else rewrites the row leaves it open.   *)
THEOREM AnnotationsStay == Spec => []AnnotationsKept
<1>1. Init => AnnotationInv
  <2>1. Init => Open /\ Held
    BY DEF Init, Idle, NewSession, Open, Held
  <2> QED
    BY <2>1, InvInit DEF AnnotationInv
<1>2. AnnotationInv /\ [Next]_vars => AnnotationInv'
  BY AnnotationStep
<1>3. AnnotationInv => AnnotationsKept
  BY HeldIsKept
<1> QED
  BY <1>1, <1>2, <1>3, PTL DEF Spec

-----------------------------------------------------------------------------
(* One current row per subject, where one actor writes.                    *)

OneEach == \A i, j \in CurrentIds : i[1] = j[1] => i = j

(* What a list of writes may hold, where C are the current rows: marks on  *)
(* rows of C it does not close; and one insert for a subject, at the       *)
(* second stage, with a closing of every row of C of the subject at the    *)
(* first.  (An insert that is being retried may be in the store already.)  *)
Orderly(W, again, C) ==
  /\ \A w \in W : w.op = "upsert" /\ ~w.row.closed =>
       /\ w.id \in C
       /\ \A v \in W : v.op = "upsert" /\ (v.row.closed => v.id # w.id)
  /\ \A w \in W : w.op = "insert" =>
       /\ w.stage = 2 /\ ~w.row.closed
       /\ \A v \in W : v.op = "upsert" => v.row.closed /\ v.stage = 1
       /\ \A v \in W : v.op = "insert" /\ v.id[1] = w.id[1] => v = w
       /\ \A i \in C : i[1] = w.id[1] =>
            (i = w.id /\ again = w) \/ (\E v \in W : v.op = "upsert" /\ v.id = i)

(* A failure of a list with inserts drops all of it, and a retry is of a   *)
(* write that was due.                                                     *)
Disciplined(a) ==
  /\ Orderly(actor[a].work, actor[a].again, CurrentIds)
  /\ actor[a].drops # "all" => \A w \in actor[a].work : w.op = "upsert"
  /\ actor[a].again # None => \A v \in actor[a].work : actor[a].again.stage <= v.stage

Single == OneEach /\ \A a \in Actors : Disciplined(a)

(* What a write does to the set of current rows.                           *)
LEMMA EffectCurrent ==
  ASSUME Inv, NEW w \in Write, store' = Effect(w)
  PROVE  CurrentIds' = IF Collides(w) THEN CurrentIds
                       ELSE IF w.row.closed THEN CurrentIds \ {w.id} ELSE CurrentIds \cup {w.id}
<1>1. w.id \in RowIds /\ w.row # None
  BY NoneIsApart DEF Write
<1>2. CASE Collides(w)
  BY <1>2 DEF Effect, CurrentIds
<1>3. CASE ~Collides(w)
  <2>1. store' = [store EXCEPT ![w.id] = w.row] /\ DOMAIN store = RowIds
    BY <1>3 DEF Effect, Inv, TypeOK
  <2> QED
    BY <1>1, <1>3, <2>1 DEF CurrentIds
<1> QED
  BY <1>2, <1>3

(* An operation of the one actor that starts on an orderly list.           *)
LEMMA StartSingle ==
  ASSUME Inv, Single, NEW a \in Actors, \A b \in Actors : b = a, NEW W \in SUBSET Write,
         NEW d \in {"all", "stage", "one"}, Start(a, W, d), store' = store,
         Orderly(W, None, CurrentIds), d # "all" => \A w \in W : w.op = "upsert"
  PROVE  Single'
<1>1. actor'[a] = Doing(W, d) /\ actor'[a].work = W /\ actor'[a].again = None
  BY DoingTypes DEF Start, Inv, TypeOK
<1>2. actor'[a].drops # "all" => \A w \in actor'[a].work : w.op = "upsert"
  BY <1>1 DEF Doing, Idle
<1>3. CurrentIds' = CurrentIds
  BY DEF CurrentIds
<1>4. Disciplined(a)'
  BY <1>1, <1>2, <1>3 DEF Disciplined, Orderly
<1>5. OneEach'
  BY <1>3 DEF Single, OneEach
<1> QED
  BY <1>4, <1>5 DEF Single

(* A list that only marks and closes rows.                                 *)
LEMMA MarksOrderly ==
  ASSUME NEW W, \A w \in W : w.op = "upsert" /\ (~w.row.closed => w.id \in CurrentIds),
         \A w, v \in W : v.row.closed /\ ~w.row.closed => v.id # w.id
  PROVE  Orderly(W, None, CurrentIds)
BY DEF Orderly

(* A list of bumps of copies of current rows.                              *)
LEMMA BumpsOrderly ==
  ASSUME NEW P, \A p \in P : p \in Copy /\ ~p.row.closed /\ p.id \in CurrentIds
  PROVE  LET W == {Upsert(Bumped(p), 1) : p \in P} IN
           W \in SUBSET Write /\ Orderly(W, None, CurrentIds) /\ \A w \in W : w.op = "upsert"
<1> DEFINE W == {Upsert(Bumped(p), 1) : p \in P}
<1>1. OpenCopies(P)
  BY DEF OpenCopies
<1>2. \A w \in W : w \in Write /\ w.op = "upsert" /\ ~w.row.closed
  BY <1>1, BumpsOpen
<1>3. \A w \in W : w.id \in CurrentIds
  <2> SUFFICES ASSUME NEW p \in P PROVE Upsert(Bumped(p), 1).id \in CurrentIds
    OBVIOUS
  <2>1. Bumped(p) \in Copy /\ Bumped(p).id = p.id
    BY BumpedMarks DEF Marks
  <2> QED
    BY <2>1 DEF Upsert
<1> HIDE DEF W
<1>4. Orderly(W, None, CurrentIds)
  BY <1>2, <1>3, MarksOrderly
<1> QED
  BY <1>2, <1>4 DEF W

(* An upsert of a closed copy.                                             *)
LEMMA ClosedWrite ==
  ASSUME NEW p \in Copy
  PROVE  /\ Upsert(Closed(p), 1) \in Write /\ Upsert(Closed(p), 1).op = "upsert"
         /\ Upsert(Closed(p), 1).id = p.id /\ Upsert(Closed(p), 1).stage = 1
         /\ Upsert(Closed(p), 1).row.closed
<1>1. Closed(p) \in Copy /\ Closed(p).id = p.id
  BY ClosedMarks DEF Marks
<1>2. p.row \in Fields
  BY CopyRow, RowFields
<1>3. Closed(p).row = [p.row EXCEPT !.closed = TRUE]
  BY DEF Closed, Copy
<1>4. ASSUME NEW b \in BOOLEAN PROVE [p.row EXCEPT !.closed = b].closed = b
  BY <1>2 DEF Fields
<1>5. Closed(p).row.closed
  BY <1>3, <1>4, Zenon
<1> DEFINE q == Closed(p)
<1>6. q \in Copy /\ q.id = p.id /\ q.row.closed
  BY <1>1, <1>5
<1> HIDE DEF q
<1>7. /\ Upsert(q, 1) \in Write /\ Upsert(q, 1).op = "upsert" /\ Upsert(q, 1).id = p.id
      /\ Upsert(q, 1).stage = 1 /\ Upsert(q, 1).row.closed
  BY <1>6 DEF Upsert, Write, Copy
<1> QED
  BY <1>7 DEF q

(* A current row is among the current ids, and its copy is told by its id. *)
LEMMA CurrentById ==
  ASSUME Inv
  PROVE  /\ \A p \in Current : p.id \in CurrentIds
         /\ \A p, q \in Current : p.id = q.id => p = q
         /\ \A s : \A i \in CurrentIds : i[1] = s => \E p \in CurrentOf(s) : p.id = i
<1>1. (\A p \in Current : p.id \in CurrentIds) /\ \A p, q \in Current : p.id = q.id => p = q
  BY DEF Current
<1>2. ASSUME NEW s, NEW i \in CurrentIds, i[1] = s PROVE \E p \in CurrentOf(s) : p.id = i
  <2> DEFINE p == [id |-> i, row |-> store[i]]
  <2>1. p \in CurrentOf(s) /\ p.id = i
    BY <1>2 DEF Current, CurrentOf
  <2> QED
    BY <2>1
<1> QED
  BY <1>1, <1>2

(* A subject with one current row has one copy of it.                      *)
LEMMA OneCopy ==
  ASSUME Inv, OneEach, NEW s, NEW p \in CurrentOf(s), NEW i \in CurrentIds, i[1] = s
  PROVE  i = p.id
<1>1. p \in Current /\ p.id[1] = s /\ p.id \in CurrentIds
  BY CurrentCopies, CurrentById DEF Inv
<1> QED
  BY <1>1 DEF OneEach

(* memory_write.                                                           *)
LEMMA MemoryWriteSingle ==
  ASSUME Inv, Single, NEW a \in Actors, \A b \in Actors : b = a, NEW s \in Subjects, NEW n \in Notes,
         NEW proof \in BOOLEAN, NEW replaces, MemoryWrite(a, s, n, proof, replaces)
  PROVE  Single'
<1> DEFINE new == <<s, clock>>
<1>1. new \in RowIds /\ new[1] = s /\ store' = store
  BY StoreAssumption DEF MemoryWrite, Inv, TypeOK, RowIds
<1> HIDE DEF new
<1>2. CASE WriteFirst(a, s, n, proof)
  <2> DEFINE v == Insert(new, NewNote(n, proof))
             W == {v}
  <2>1. Start(a, W, "all") /\ CurrentOf(s) = {}
    BY <1>2 DEF WriteFirst, new
  <2>2. NewNote(n, proof) \in Row /\ ~NewNote(n, proof).closed
    <3>1. NewNote(n, proof) \in Row
      BY NewNoteRow
    <3> QED
      BY <3>1 DEF NewNote
  <2>3. v \in Write /\ v.op = "insert" /\ ~v.row.closed /\ v.stage = 2 /\ v.id[1] = s
    BY <1>1, <2>2 DEF Insert, Write
  <2> HIDE DEF v
  <2>4. \A i \in CurrentIds : i[1] # s
    BY <2>1, CurrentById
  <2>5. W \in SUBSET Write /\ Orderly(W, None, CurrentIds)
    BY <2>3, <2>4 DEF Orderly
  <2> HIDE DEF W
  <2> QED
    BY <1>1, <2>1, <2>5, StartSingle
<1>3. CASE WriteDuplicate(a, s, n, proof, replaces)
  <2>1. PICK p \in CurrentOf(s) : Start(a, {Upsert(Bumped(p), 1)}, "stage")
    BY <1>3 DEF WriteDuplicate
  <2> DEFINE P == {p}
             W == {Upsert(Bumped(q), 1) : q \in P}
  <2>2. \A q \in P : q \in Copy /\ ~q.row.closed /\ q.id \in CurrentIds
    BY CurrentCopies, CurrentOpen, CurrentById DEF Inv
  <2>3. Start(a, W, "stage")
    <3>1. W = {Upsert(Bumped(p), 1)}
      OBVIOUS
    <3> QED
      BY <2>1, <3>1
  <2> HIDE DEF P
  <2>4. W \in SUBSET Write /\ Orderly(W, None, CurrentIds) /\ \A w \in W : w.op = "upsert"
    BY <2>2, BumpsOrderly
  <2> HIDE DEF W
  <2> QED
    BY <1>1, <2>3, <2>4, StartSingle
<1>4. CASE WriteOver(a, s, n, proof, replaces)
  <2>1. PICK p \in CurrentOf(s) :
          Start(a, Supersession(p, <<s, clock>>, Successor(p.row, n, proof, replaces)), "all")
    BY <1>4 DEF WriteOver
  <2>2. p \in Current /\ p \in Copy /\ p.id[1] = s /\ p.row \in Row /\ ~p.row.closed
    BY CurrentCopies, CurrentOpen DEF Inv
  <2> DEFINE t == Successor(p.row, n, proof, replaces)
             close == Upsert(Closed(p), 1)
             v == Insert(new, t)
             W == {close, v}
  <2>3. ~t.closed
    BY <2>2, SuccessorOpen
  <2>4. t \in Row
    BY <2>2, SuccessorIsRow
  <2>5. Start(a, W, "all")
    BY <2>1 DEF Supersession, new
  <2> HIDE DEF t
  <2>6. v \in Write /\ v.op = "insert" /\ v.id[1] = s /\ ~v.row.closed /\ v.stage = 2
    BY <1>1, <2>3, <2>4 DEF Insert, Write
  <2>7. close \in Write /\ close.op = "upsert" /\ close.id = p.id /\ close.stage = 1 /\ close.row.closed
    BY <2>2, ClosedWrite
  <2>8. \A i \in CurrentIds : i[1] = s => i = p.id
    BY OneCopy DEF Single
  <2> HIDE DEF v, close
  <2>9. W \in SUBSET Write /\ Orderly(W, None, CurrentIds)
    BY <2>6, <2>7, <2>8 DEF Orderly
  <2> HIDE DEF W
  <2> QED
    BY <1>1, <2>5, <2>9, StartSingle
<1> QED
  BY <1>2, <1>3, <1>4 DEF MemoryWrite

(* A sample.                                                               *)
LEMMA SampleSingle ==
  ASSUME Inv, Single, NEW a \in Actors, \A b \in Actors : b = a, NEW s \in Subjects, NEW refuted,
         Sample(a, s, refuted)
  PROVE  Single'
<1> DEFINE P == {Checked(p, refuted) : p \in {q \in CurrentOf(s) : q.row.notes # {}}}
           W == {Upsert(Bumped(p), 1) : p \in P}
<1>1. Start(a, W, "stage") /\ store' = store
  BY DEF Sample
<1>2. \A q \in P : q \in Copy /\ ~q.row.closed /\ q.id \in CurrentIds
  <2> SUFFICES ASSUME NEW p \in CurrentOf(s)
               PROVE  LET q == Checked(p, refuted) IN q \in Copy /\ ~q.row.closed /\ q.id \in CurrentIds
    OBVIOUS
  <2>1. p \in Copy /\ ~p.row.closed /\ p.id \in CurrentIds
    BY CurrentCopies, CurrentOpen, CurrentById DEF Inv
  <2> QED
    BY <2>1, CheckedMarks, CheckedOpen DEF Marks
<1> HIDE DEF P
<1>3. W \in SUBSET Write /\ Orderly(W, None, CurrentIds) /\ \A w \in W : w.op = "upsert"
  BY <1>2, BumpsOrderly
<1> HIDE DEF W
<1> QED
  BY <1>1, <1>3, StartSingle

(* The decay pass only closes.                                             *)
LEMMA DecaySingle ==
  ASSUME Inv, Single, NEW a \in Actors, \A b \in Actors : b = a, Decay(a) PROVE Single'
<1> DEFINE W(old) == {Upsert([Closed(p) EXCEPT !.row.archived = TRUE], 1) : p \in old}
<1>1. PICK old \in SUBSET Current : Start(a, W(old), "all")
  BY DEF Decay
<1>2. store' = store
  BY DEF Decay
<1> DEFINE X == W(old)
<1>3. \A w \in X : w \in Write /\ w.op = "upsert" /\ w.row.closed
  <2> SUFFICES ASSUME NEW p \in old
               PROVE  LET w == Upsert([Closed(p) EXCEPT !.row.archived = TRUE], 1) IN
                        w \in Write /\ w.op = "upsert" /\ w.row.closed
    OBVIOUS
  <2> DEFINE c == Closed(p)
  <2>1. p \in Copy
    BY CurrentCopies DEF Inv
  <2>2. c \in Copy /\ c.row.closed
    <3>1. Closed(p) \in Copy
      BY <2>1, ClosedMarks DEF Marks
    <3>2. Upsert(Closed(p), 1).row.closed /\ Upsert(Closed(p), 1).row = Closed(p).row
      BY <2>1, <3>1, ClosedWrite, UpsertFields
    <3> QED
      BY <3>1, <3>2
  <2> HIDE DEF c
  <2>3. ASSUME NEW b \in BOOLEAN
        PROVE  [c EXCEPT !.row.archived = b] \in Copy /\ [c EXCEPT !.row.archived = b].row.closed
    <3>1. [c EXCEPT !.row.archived = b] \in Copy
      BY <2>2, MarkIn DEF Marks
    <3>2. c.row \in Fields
      BY <2>2, CopyRow, RowFields
    <3>3. [c EXCEPT !.row.archived = b].row = [c.row EXCEPT !.archived = b]
      BY <2>2 DEF Copy
    <3>4. [c.row EXCEPT !.archived = b].closed = c.row.closed
      BY <3>2 DEF Fields
    <3> QED
      BY <2>2, <3>1, <3>3, <3>4
  <2> DEFINE q == [c EXCEPT !.row.archived = TRUE]
  <2>4. q \in Copy /\ q.row.closed
    BY <2>3, Zenon
  <2> HIDE DEF q
  <2>5. Upsert(q, 1) \in Write /\ Upsert(q, 1).op = "upsert" /\ Upsert(q, 1).row.closed
    BY <2>4 DEF Upsert, Write, Copy
  <2> QED
    BY <2>5 DEF q, c
<1>4. Start(a, X, "all")
  BY <1>1
<1> HIDE DEF X
<1>5. Orderly(X, None, CurrentIds) /\ X \in SUBSET Write
  BY <1>3, MarksOrderly
<1> QED
  BY <1>2, <1>4, <1>5, StartSingle

(* The revalidation pass marks some current rows and closes others.        *)
LEMMA RevalidateSingle ==
  ASSUME Inv, Single, NEW a \in Actors, \A b \in Actors : b = a, Revalidate(a) PROVE Single'
<1> DEFINE marks(u) == {Upsert([p EXCEPT !.row.suspect = TRUE], 1) : p \in u}
           closes(r) == {Upsert(Closed(p), 1) : p \in r}
<1>1. PICK u \in SUBSET Current, r \in SUBSET Current :
        u \cap r = {} /\ Start(a, marks(u) \cup closes(r), "one")
  BY DEF Revalidate
<1>2. store' = store
  BY DEF Revalidate
<1>3. \A w \in marks(u) : w \in Write /\ w.op = "upsert" /\ ~w.row.closed
                          /\ w.id \in CurrentIds /\ \E p \in u : w.id = p.id
  <2> SUFFICES ASSUME NEW p \in u
               PROVE  LET w == Upsert([p EXCEPT !.row.suspect = TRUE], 1) IN
                        w \in Write /\ w.op = "upsert" /\ ~w.row.closed /\ w.id \in CurrentIds /\ w.id = p.id
    OBVIOUS
  <2>1. p \in Copy /\ ~p.row.closed /\ p.id \in CurrentIds
    BY CurrentCopies, CurrentOpen, CurrentById DEF Inv
  <2> DEFINE q == [p EXCEPT !.row.suspect = TRUE]
  <2>2. q \in Copy /\ q.id = p.id /\ ~q.row.closed
    <3>1. Marks(q, p)
      BY <2>1, MarkIn, Zenon
    <3>2. q.row.closed = p.row.closed
      BY <2>1, MarkLeavesOpen, Zenon
    <3> HIDE DEF q
    <3> QED
      BY <2>1, <3>1, <3>2 DEF Marks
  <2> HIDE DEF q
  <2>3. /\ Upsert(q, 1) \in Write /\ Upsert(q, 1).op = "upsert" /\ ~Upsert(q, 1).row.closed
        /\ Upsert(q, 1).id = p.id
    BY <2>2 DEF Upsert, Write, Copy
  <2> QED
    BY <2>1, <2>3 DEF q
<1>4. \A w \in closes(r) : w \in Write /\ w.op = "upsert" /\ w.row.closed /\ \E p \in r : w.id = p.id
  <2>1. \A p \in r : p \in Copy
    BY CurrentCopies DEF Inv
  <2> QED
    BY <2>1, ClosedWrite
<1>5. \A p \in u, q \in r : p.id # q.id
  BY <1>1, CurrentById
<1> DEFINE W == marks(u) \cup closes(r)
<1>6. Start(a, W, "one")
  BY <1>1
<1> HIDE DEF marks, closes
<1>7. /\ \A w \in W : w \in Write /\ w.op = "upsert" /\ (~w.row.closed => w.id \in CurrentIds)
      /\ \A w, v \in W : v.row.closed /\ ~w.row.closed => v.id # w.id
  BY <1>3, <1>4, <1>5
<1> HIDE DEF W
<1>8. Orderly(W, None, CurrentIds) /\ W \in SUBSET Write
  BY <1>7, MarksOrderly
<1> QED
  BY <1>2, <1>6, <1>7, <1>8, StartSingle

(* The catalog walk closes the one current row of a subject it inserts.    *)
LEMMA WalkSingle ==
  ASSUME Inv, Single, NEW a \in Actors, \A b \in Actors : b = a, NEW catalog \in Catalogs,
         NEW current \in [Subjects -> Current \cup {None}], Walk(a, catalog, current)
  PROVE  Single'
<1> DEFINE new(s)     == Walked(catalog[s], IF current[s] = None THEN None ELSE current[s].row)
           changed    == {s \in DOMAIN catalog : current[s] # None => ~Same(current[s].row, new(s))}
           superseded == {s \in changed : current[s] # None}
           vanished   == {s \in Subjects \ DOMAIN catalog : current[s] # None /\ current[s].row.owned}
           closes     == {Upsert(Closed(current[s]), 1) : s \in superseded \cup vanished}
           inserts    == {Insert(<<s, clock>>, new(s)) : s \in changed}
           W          == closes \cup inserts
<1>0. /\ Start(a, W, "all") /\ clock <= MaxRows /\ store' = store
      /\ \A s \in Subjects : IF CurrentOf(s) = {} THEN current[s] = None ELSE current[s] \in CurrentOf(s)
  BY DEF Walk
<1>1. DOMAIN catalog \in SUBSET Subjects /\ \A s \in DOMAIN catalog : catalog[s] \in SUBSET Elements
  BY DEF Catalogs
<1>2. \A s \in superseded \cup vanished :
        current[s] \in CurrentOf(s) /\ current[s] \in Copy /\ current[s].row \in Row /\ current[s].id[1] = s
  BY <1>0, <1>1, CurrentCopies, CurrentOpen DEF Inv
<1>3. \A s \in changed :
        LET v == Insert(<<s, clock>>, new(s)) IN
          v \in Write /\ v.op = "insert" /\ v.id[1] = s /\ ~v.row.closed /\ v.stage = 2
  <2> SUFFICES ASSUME NEW s \in changed
               PROVE  LET v == Insert(<<s, clock>>, new(s)) IN
                        v \in Write /\ v.op = "insert" /\ v.id[1] = s /\ ~v.row.closed /\ v.stage = 2
    OBVIOUS
  <2> DEFINE r == IF current[s] = None THEN None ELSE current[s].row
             t == Walked(catalog[s], r)
  <2>1. s \in Subjects /\ catalog[s] \in SUBSET Elements
    BY <1>1
  <2>2. r # None => r \in Row
    BY <1>2
  <2> HIDE DEF r
  <2>3. t \in Row
    BY <2>1, <2>2, WalkedRow
  <2>4. ~t.closed
    BY DEF Walked, Concept
  <2>5. new(s) = t
    BY DEF r
  <2>6. <<s, clock>> \in RowIds /\ <<s, clock>>[1] = s
    BY <1>0, <2>1, StoreAssumption DEF RowIds, Inv, TypeOK
  <2> HIDE DEF new, t
  <2> QED
    BY <2>3, <2>4, <2>5, <2>6 DEF Insert, Write
<1>4. \A w \in inserts : \E s \in changed : w = Insert(<<s, clock>>, new(s))
  OBVIOUS
<1>5. \A w \in closes : w \in Write /\ w.op = "upsert" /\ w.row.closed /\ w.stage = 1
  <2> SUFFICES ASSUME NEW s \in superseded \cup vanished
               PROVE  LET w == Upsert(Closed(current[s]), 1) IN
                        w \in Write /\ w.op = "upsert" /\ w.row.closed /\ w.stage = 1
    OBVIOUS
  <2> QED
    BY <1>2, ClosedWrite
<1>6. \A s \in changed : \A i \in CurrentIds : i[1] = s => \E v \in closes : v.id = i
  <2> SUFFICES ASSUME NEW s \in changed, NEW i \in CurrentIds, i[1] = s
               PROVE  \E v \in closes : v.id = i
    OBVIOUS
  <2>1. CurrentOf(s) # {}
    BY CurrentById
  <2>2. current[s] \in CurrentOf(s) /\ s \in Subjects
    BY <1>0, <1>1, <2>1
  <2>3. current[s] # None
    <3>1. current[s] \in Copy
      BY <2>2, CurrentCopies DEF Inv
    <3> QED
      BY <3>1, NoneIsApart
  <2>4. s \in superseded
    BY <2>3
  <2>5. i = current[s].id
    BY <2>2, OneCopy DEF Single
  <2>6. Upsert(Closed(current[s]), 1).id = i
    BY <1>2, <2>4, <2>5, ClosedWrite
  <2> QED
    BY <2>4, <2>6
<1> HIDE DEF closes, new, changed
<1>7. W \in SUBSET Write
  <2>1. \A w \in inserts : w \in Write
    BY <1>3
  <2> HIDE DEF inserts
  <2> QED
    BY <1>5, <2>1
<1>8. Orderly(W, None, CurrentIds)
  <2>1. \A w \in inserts : \E s \in changed : w = Insert(<<s, clock>>, new(s)) /\ w.op = "insert"
                                              /\ w.id[1] = s /\ ~w.row.closed /\ w.stage = 2
    <3> SUFFICES ASSUME NEW w \in inserts
                 PROVE  \E s \in changed : w = Insert(<<s, clock>>, new(s)) /\ w.op = "insert"
                                              /\ w.id[1] = s /\ ~w.row.closed /\ w.stage = 2
      OBVIOUS
    <3>1. PICK s \in changed : w = Insert(<<s, clock>>, new(s))
      BY <1>4
    <3> QED
      BY <1>3, <3>1
  <2> HIDE DEF inserts
  <2>2. \A w, v \in inserts : w.id[1] = v.id[1] => v = w
    BY <2>1
  <2>3. ASSUME NEW w \in W, w.op = "upsert" PROVE w \in closes /\ w.row.closed /\ w.stage = 1
    BY <1>5, <2>1, <2>3
  <2>4. ASSUME NEW w \in W, w.op = "insert"
        PROVE  w \in inserts /\ w.stage = 2 /\ ~w.row.closed
               /\ \A i \in CurrentIds : i[1] = w.id[1] => \E v \in W : v.op = "upsert" /\ v.id = i
    <3>1. w \in inserts
      BY <1>5, <2>4
    <3>2. \A v \in closes : v \in W /\ v.op = "upsert"
      BY <1>5
    <3> QED
      BY <1>6, <2>1, <3>1, <3>2
  <2> HIDE DEF W
  <2> QED
    BY <2>2, <2>3, <2>4 DEF Orderly
<1>9. Start(a, W, "all")
  BY <1>0
<1> HIDE DEF W
<1> QED
  BY <1>0, <1>7, <1>8, <1>9, StartSingle

(* A query that contradicts nothing bumps the current rows it delivers,    *)
(* and no row its session had before.                                      *)
LEMMA QuerySingle ==
  ASSUME Inv, Single, NEW a \in Actors, \A b \in Actors : b = a, NEW s \in Subjects,
         Query(a, s, {})
  PROVE  Single'
<1> DEFINE first   == s \notin session[a].delivered
           F       == {Checked(p, {}) : p \in {q \in CurrentOf(s) : q.row.notes # {}}}
           found   == IF first THEN F ELSE {}
           kept    == Remember(session[a].kept, found)
           carried == IF first /\ found = {} THEN {} ELSE {p \in kept : p.id[1] = s}
           again   == IF \E p \in carried : Refuted(p, {})
                        THEN {Checked(p, {}) : p \in carried} ELSE {}
           W       == {Upsert(Bumped(p), 1) : p \in found} \cup {Upsert(Bumped(p), 2) : p \in again}
<1>1. Start(a, W, "stage") /\ store' = store
  BY DEF Query
<1>2. \A q \in F : q \in Copy /\ ~q.row.closed /\ q.id \in CurrentIds
  <2> SUFFICES ASSUME NEW p \in CurrentOf(s)
               PROVE  LET q == Checked(p, {}) IN q \in Copy /\ ~q.row.closed /\ q.id \in CurrentIds
    OBVIOUS
  <2>1. p \in Copy /\ ~p.row.closed /\ p.id \in CurrentIds
    BY CurrentCopies, CurrentOpen, CurrentById DEF Inv
  <2> QED
    BY <2>1, CheckedMarks, CheckedOpen DEF Marks
<1> HIDE DEF F
<1>3. \A q \in found : q \in Copy /\ ~q.row.closed /\ q.id \in CurrentIds
  BY <1>2
<1> HIDE DEF found, kept, carried
<1>4. again = {}
  BY DEF Refuted
<1> HIDE DEF again
<1>5. W = {Upsert(Bumped(p), 1) : p \in found}
  BY <1>4
<1>6. W \in SUBSET Write /\ Orderly(W, None, CurrentIds) /\ \A w \in W : w.op = "upsert"
  BY <1>3, <1>5, BumpsOrderly
<1> HIDE DEF W
<1> QED
  BY <1>1, <1>6, StartSingle

(* Every operation of one actor that carries no copies from query to query.*)
LEMMA OperationSingle ==
  ASSUME Inv, Single, NEW a \in Actors, \A b \in Actors : b = a, Refutable = {} \/ "query" \notin Ops,
         Operation(a)
  PROVE  Single'
<1>1. ASSUME NEW s \in Subjects, NEW refuted \in SUBSET Refutable, Sample(a, s, refuted) \/ Query(a, s, refuted)
      PROVE  Single'
  <2>1. Query(a, s, refuted) => refuted = {}
    BY DEF Query
  <2> QED
    BY <1>1, <2>1, SampleSingle, QuerySingle
<1>2. ASSUME NEW s \in Subjects, NEW n \in Notes, NEW proof \in BOOLEAN, NEW r, MemoryWrite(a, s, n, proof, r)
      PROVE  Single'
  BY <1>2, MemoryWriteSingle
<1>3. ASSUME NEW catalog \in Catalogs, NEW current \in [Subjects -> Current \cup {None}],
             Walk(a, catalog, current)
      PROVE  Single'
  BY <1>3, WalkSingle
<1>4. Decay(a) \/ Revalidate(a) => Single'
  BY DecaySingle, RevalidateSingle
<1> QED
  BY <1>1, <1>2, <1>3, <1>4 DEF Operation

(* What is due is of the lowest stage there is.                            *)
LEMMA DueIsLowest ==
  ASSUME Inv, NEW a \in Actors, Disciplined(a), NEW w \in Due(a)
  PROVE  /\ w \in actor[a].work /\ w \in Write
         /\ \A v \in actor[a].work : w.stage <= v.stage
         /\ actor[a].again = None \/ actor[a].again = w
<1>1. w \in actor[a].work /\ w \in Write
  BY DueIsWork
<1> QED
  BY <1>1 DEF Due, Disciplined

(* An insert that is sent for the first time, or was lost before, finds no *)
(* current row of its subject: the closings went first.                    *)
LEMMA InsertFindsNone ==
  ASSUME Inv, NEW a \in Actors, Disciplined(a), NEW w \in Due(a), w.op = "insert", ~Collides(w)
  PROVE  \A i \in CurrentIds : i[1] # w.id[1]
<1>1. w \in actor[a].work /\ w.stage = 2 /\ \A v \in actor[a].work : w.stage <= v.stage
  BY DueIsLowest DEF Disciplined, Orderly
<1> SUFFICES ASSUME NEW i \in CurrentIds, i[1] = w.id[1] PROVE FALSE
  OBVIOUS
<1>2. i # w.id
  BY DEF Collides, CurrentIds
<1>3. PICK v \in actor[a].work : v.op = "upsert" /\ v.id = i
  BY <1>1, <1>2 DEF Disciplined, Orderly
<1>4. v.stage = 1
  BY <1>1, <1>3 DEF Disciplined, Orderly
<1> QED
  BY <1>1, <1>3, <1>4

(* What becomes of the current rows as w, due, is applied or lost: nothing,*)
(* or its row is closed, or it joins them as the only one of its subject.  *)
LEMMA SentCurrent ==
  ASSUME Inv, Single, NEW a \in Actors, NEW w \in Due(a), AppliedOrLost(w)
  PROVE  /\ OneEach'
         /\ \/ CurrentIds' = CurrentIds
            \/ w.op = "upsert" /\ w.row.closed /\ CurrentIds' = CurrentIds \ {w.id}
            \/ w.op = "insert" /\ ~Collides(w) /\ CurrentIds' = CurrentIds \cup {w.id}
<1>1. Disciplined(a) /\ w \in actor[a].work /\ w \in Write /\ w.op \in {"upsert", "insert"}
  BY DueIsLowest DEF Single, Write
<1>2. CASE store' = store
  <2>1. CurrentIds' = CurrentIds
    BY <1>2 DEF CurrentIds
  <2> QED
    BY <2>1 DEF Single, OneEach
<1>3. CASE store' = Effect(w)
  <2>1. CurrentIds' = IF Collides(w) THEN CurrentIds
                      ELSE IF w.row.closed THEN CurrentIds \ {w.id} ELSE CurrentIds \cup {w.id}
    BY <1>1, <1>3, EffectCurrent
  <2>2. CASE w.op = "upsert"
    <3>1. ~Collides(w)
      BY <2>2 DEF Collides
    <3>2. ~w.row.closed => w.id \in CurrentIds
      BY <1>1, <2>2 DEF Disciplined, Orderly
    <3>3. CurrentIds' = CurrentIds \/ (w.row.closed /\ CurrentIds' = CurrentIds \ {w.id})
      BY <2>1, <3>1, <3>2
    <3>4. OneEach'
      BY <3>3 DEF Single, OneEach
    <3> QED
      BY <2>2, <3>3, <3>4
  <2>3. CASE w.op = "insert"
    <3>1. ~w.row.closed
      BY <1>1, <2>3 DEF Disciplined, Orderly
    <3>2. CASE Collides(w)
      BY <2>1, <3>2 DEF Single, OneEach
    <3>3. CASE ~Collides(w)
      <4>1. CurrentIds' = CurrentIds \cup {w.id}
        BY <2>1, <3>1, <3>3
      <4>2. \A i \in CurrentIds : i[1] # w.id[1]
        BY <1>1, <2>3, <3>3, InsertFindsNone
      <4>3. OneEach'
        BY <4>1, <4>2 DEF Single, OneEach
      <4> QED
        BY <2>3, <3>3, <4>1, <4>3
    <3> QED
      BY <3>2, <3>3
  <2> QED
    BY <1>1, <2>2, <2>3
<1> QED
  BY <1>2, <1>3 DEF AppliedOrLost, Applied

(* A list of marks and closings stays one, whatever of it is left.         *)
LEMMA MarksStay ==
  ASSUME Inv, Single, NEW a \in Actors, NEW w \in Due(a), AppliedOrLost(w),
         \A v \in actor[a].work : v.op = "upsert", NEW W \in SUBSET actor[a].work, NEW again
  PROVE  Orderly(W, again, CurrentIds')
<1>1. Disciplined(a) /\ w \in actor[a].work
  BY DueIsLowest DEF Single
<1>2. ASSUME NEW v \in W, ~v.row.closed PROVE v.id \in CurrentIds'
  <2>1. v \in actor[a].work /\ v.id \in CurrentIds /\ (w.row.closed => w.id # v.id)
    BY <1>1, <1>2 DEF Disciplined, Orderly
  <2>2. w.op = "upsert"
    BY <1>1
  <2> QED
    BY <2>1, <2>2, SentCurrent
<1>3. \A v \in W : v.op = "upsert"
  OBVIOUS
<1>4. \A u, v \in W : v.row.closed /\ ~u.row.closed => v.id # u.id
  BY <1>1 DEF Disciplined, Orderly
<1> QED
  BY <1>2, <1>3, <1>4 DEF Orderly

(* A list with an insert stays orderly when w has landed and leaves it, or *)
(* when it stays to be retried.                                            *)
LEMMA SupersessionStays ==
  ASSUME Inv, Single, NEW a \in Actors, NEW w \in Due(a), AppliedOrLost(w), NEW again,
         NEW W, \/ W = actor[a].work \ {w} /\ Applied(w) /\ ~Collides(w)
                \/ W = actor[a].work /\ again = w /\ actor[a].again = None,
         NEW x \in actor[a].work, x.op = "insert"
  PROVE  Orderly(W, again, CurrentIds')
<1>0. w \in actor[a].work /\ w \in Write /\ w.op \in {"upsert", "insert"}
      /\ (actor[a].again = None \/ actor[a].again = w)
  BY DueIsLowest DEF Single, Write
<1>1. Orderly(actor[a].work, actor[a].again, CurrentIds)
  BY DEF Single, Disciplined
<1>2. \A v \in actor[a].work : v.op = "upsert" => v.row.closed /\ v.stage = 1
  BY <1>1 DEF Orderly
<1>3. ASSUME NEW v \in W, v.op = "insert", NEW i \in CurrentIds', i[1] = v.id[1]
      PROVE  (i = v.id /\ again = v) \/ \E u \in W : u.op = "upsert" /\ u.id = i
  <2>0. v \in actor[a].work
    OBVIOUS
  <2>1. CASE i \notin CurrentIds
    <3>1. w.op = "insert" /\ ~Collides(w) /\ i = w.id
      BY <1>3, <2>1, SentCurrent
    <3>2. v = w
      BY <1>0, <1>1, <1>3, <2>0, <3>1 DEF Orderly
    <3> QED
      BY <3>1, <3>2, <1>3
  <2>2. CASE i \in CurrentIds
    <3>1. (i = v.id /\ actor[a].again = v) \/ \E u \in actor[a].work : u.op = "upsert" /\ u.id = i
      BY <1>1, <1>3, <2>0, <2>2 DEF Orderly
    <3>2. ASSUME i = v.id, actor[a].again = v PROVE FALSE
      <4>1. v = w \/ actor[a].again = None
        BY <1>0, <3>2
      <4>2. CASE actor[a].again = None
        <5>1. v # None
          BY <2>0, NoneIsApart DEF Inv, TypeOK
        <5> QED
          BY <3>2, <4>2, <5>1
      <4>3. CASE v = w
        <5>1. W = actor[a].work
          BY <4>3
        <5>2. actor[a].again = None
          BY <1>0, <5>1
        <5> QED
          BY <4>2, <5>2
      <4> QED
        BY <4>1, <4>2, <4>3
    <3>3. PICK u \in actor[a].work : u.op = "upsert" /\ u.id = i
      BY <3>1, <3>2
    <3>4. CASE u \in W
      BY <3>3, <3>4
    <3>5. CASE u \notin W
      <4>1. u = w /\ Applied(w) /\ ~Collides(w)
        BY <3>5
      <4>2. store' = Effect(w) /\ w.row.closed
        BY <1>2, <1>0, <3>3, <4>1 DEF Applied
      <4>3. CurrentIds' = CurrentIds \ {w.id}
        BY <1>0, <4>1, <4>2, EffectCurrent
      <4> QED
        BY <1>3, <3>3, <4>1, <4>3
    <3> QED
      BY <3>4, <3>5
  <2> QED
    BY <2>1, <2>2
<1>4. W \subseteq actor[a].work
  OBVIOUS
<1>5. \A v \in W : v.op = "insert" =>
        /\ v.stage = 2 /\ ~v.row.closed
        /\ \A u \in W : u.op = "upsert" => u.row.closed /\ u.stage = 1
        /\ \A u \in W : u.op = "insert" /\ u.id[1] = v.id[1] => u = v
  BY <1>1, <1>4 DEF Orderly
<1> QED
  BY <1>2, <1>3, <1>4, <1>5 DEF Orderly

(* A request of any outcome.                                               *)
LEMMA SendingSingle ==
  ASSUME Inv, Single, NEW a \in Actors, \A b \in Actors : b = a,
         WriteLands(a) \/ WriteFails(a) \/ WriteRetried(a)
  PROVE  Single'
<1>0. /\ Disciplined(a) /\ actor[a].drops \in {"all", "stage", "one"}
      /\ actor[a].work \in SUBSET Write /\ \A v \in Write : v.op \in {"upsert", "insert"}
  BY DEF Single, Inv, TypeOK, Write
<1>1. ASSUME NEW w \in Due(a), AppliedOrLost(w), Disciplined(a)' PROVE Single'
  BY <1>1, SentCurrent DEF Single
<1>2. ASSUME NEW w \in Due(a), AppliedOrLost(w), NEW W \in SUBSET actor[a].work,
             actor' = [actor EXCEPT ![a] = Doing(W, @.drops)], Orderly(W, None, CurrentIds')
      PROVE  Single'
  <2>1. actor'[a] = Doing(W, actor[a].drops) /\ actor'[a].work = W /\ actor'[a].again = None
    BY <1>0, <1>2, DoingTypes DEF Inv, TypeOK
  <2>2. actor'[a].drops # "all" => \A v \in actor'[a].work : v.op = "upsert"
    BY <1>0, <2>1 DEF Doing, Idle, Disciplined
  <2>3. Disciplined(a)'
    BY <1>2, <2>1, <2>2 DEF Disciplined
  <2> QED
    BY <1>1, <1>2, <2>3
<1>3. CASE WriteLands(a)
  <2>1. PICK w \in Due(a) :
          ~Collides(w) /\ Applied(w) /\ actor' = [actor EXCEPT ![a] = Doing(@.work \ {w}, @.drops)]
    BY <1>3 DEF WriteLands
  <2> DEFINE W == actor[a].work \ {w}
  <2>2. actor' = [actor EXCEPT ![a] = Doing(W, @.drops)]
    BY <2>1 DEF Inv, TypeOK
  <2>3. AppliedOrLost(w) /\ W \in SUBSET actor[a].work
    BY <2>1 DEF AppliedOrLost
  <2>4. CASE \E x \in actor[a].work : x.op = "insert"
    <3>1. PICK x \in actor[a].work : x.op = "insert"
      BY <2>4
    <3>2. Orderly(W, None, CurrentIds')
      BY <2>1, <2>3, <3>1, SupersessionStays
    <3> HIDE DEF W
    <3> QED
      BY <1>2, <2>2, <2>3, <3>2
  <2>5. CASE ~\E x \in actor[a].work : x.op = "insert"
    <3>1. \A v \in actor[a].work : v.op = "upsert"
      BY <1>0, <2>5
    <3> HIDE DEF W
    <3>2. Orderly(W, None, CurrentIds')
      BY <2>3, <3>1, MarksStay
    <3> QED
      BY <1>2, <2>2, <2>3, <3>2
  <2> QED
    BY <2>4, <2>5
<1>4. CASE WriteFails(a)
  <2>1. PICK w \in Due(a) : AppliedOrLost(w) /\ actor' = [actor EXCEPT ![a] = Doing(Left(a, w), @.drops)]
    BY <1>4 DEF WriteFails
  <2> DEFINE W == Left(a, w)
  <2>2. W \in SUBSET actor[a].work /\ (actor[a].drops = "all" => W = {})
    BY <1>0 DEF Left
  <2>3. actor' = [actor EXCEPT ![a] = Doing(W, @.drops)]
    BY <2>1
  <2> HIDE DEF W
  <2>4. Orderly(W, None, CurrentIds')
    <3>1. CASE W = {}
      BY <3>1 DEF Orderly
    <3>2. CASE W # {}
      <4>1. \A v \in actor[a].work : v.op = "upsert"
        BY <1>0, <2>2, <3>2 DEF Disciplined
      <4> QED
        BY <2>1, <2>2, <4>1, MarksStay
    <3> QED
      BY <3>1, <3>2
  <2> QED
    BY <1>2, <2>1, <2>2, <2>3, <2>4
<1>5. CASE WriteRetried(a)
  <2>1. PICK w \in Due(a) : AppliedOrLost(w) /\ actor' = [actor EXCEPT ![a].again = w]
    BY <1>5 DEF WriteRetried
  <2>2. actor[a].again = None
    BY <1>5 DEF WriteRetried
  <2>3. /\ actor'[a].work = actor[a].work /\ actor'[a].again = w /\ actor'[a].drops = actor[a].drops
    BY <2>1 DEF Inv, TypeOK
  <2> DEFINE W == actor[a].work
  <2>4. Orderly(W, w, CurrentIds')
    <3>1. CASE \E x \in actor[a].work : x.op = "insert"
      <4>1. PICK x \in actor[a].work : x.op = "insert"
        BY <3>1
      <4> QED
        BY <2>1, <2>2, <4>1, SupersessionStays
    <3>2. CASE ~\E x \in actor[a].work : x.op = "insert"
      <4>1. \A v \in actor[a].work : v.op = "upsert"
        BY <1>0, <3>2
      <4> QED
        BY <2>1, <4>1, MarksStay
    <3> QED
      BY <3>1, <3>2
  <2>5. \A v \in actor[a].work : w.stage <= v.stage
    BY <1>0, <2>1, DueIsLowest
  <2>6. Orderly(actor'[a].work, actor'[a].again, CurrentIds')
    BY <2>3, <2>4
  <2>7. Disciplined(a)'
    BY <1>0, <2>3, <2>5, <2>6 DEF Disciplined
  <2> QED
    BY <1>1, <2>1, <2>7
<1> QED
  BY <1>3, <1>4, <1>5

(* Every step of the one actor.                                            *)
LEMMA SingleStep ==
  ASSUME Inv, Single, [Next]_vars, \A a, b \in Actors : a = b, Refutable = {} \/ "query" \notin Ops
  PROVE  Single'
<1>1. CASE UNCHANGED vars
  <2>1. actor' = actor /\ store' = store
    BY <1>1 DEF vars
  <2>2. CurrentIds' = CurrentIds
    BY <2>1 DEF CurrentIds
  <2>3. OneEach'
    BY <2>2 DEF Single, OneEach
  <2>4. \A a \in Actors : Disciplined(a)'
    BY <2>1, <2>2 DEF Single, Disciplined, Orderly
  <2> QED
    BY <2>3, <2>4 DEF Single
<1>2. CASE Next
  <2>1. PICK a \in Actors : Operation(a) \/ WriteLands(a) \/ WriteFails(a) \/ WriteRetried(a) \/ Restart(a)
    BY <1>2 DEF Next
  <2>2. \A b \in Actors : b = a
    OBVIOUS
  <2>3. CASE Restart(a)
    <3>1. actor'[a] = Idle /\ store' = store
      BY <2>3 DEF Restart, Inv, TypeOK
    <3>2. CurrentIds' = CurrentIds
      BY <3>1 DEF CurrentIds
    <3>3. Disciplined(a)'
      BY <3>1 DEF Disciplined, Orderly, Idle
    <3> QED
      BY <2>2, <3>2, <3>3 DEF Single, OneEach
  <2> QED
    BY <2>1, <2>2, <2>3, OperationSingle, SendingSingle
<1> QED
  BY <1>1, <1>2

(* At first there are no rows, and nothing to send.                        *)
LEMMA SingleInit == Init => Single
BY DEF Init, Idle, Single, OneEach, CurrentIds, Disciplined, Orderly

(* One current id, one current copy.                                       *)
LEMMA OneEachIsOne == ASSUME Inv, OneEach PROVE AtMostOneCurrent
<1> SUFFICES ASSUME NEW s \in Subjects PROVE Cardinality(CurrentOf(s)) <= 1
  BY DEF AtMostOneCurrent
<1>1. CASE CurrentOf(s) = {}
  BY <1>1, FS_EmptySet
<1>2. CASE CurrentOf(s) # {}
  <2>1. PICK p \in CurrentOf(s) : TRUE
    BY <1>2
  <2>2. \A q \in CurrentOf(s) : q = p
    <3> SUFFICES ASSUME NEW q \in CurrentOf(s) PROVE q = p
      OBVIOUS
    <3>1. p \in Current /\ q \in Current /\ q.id \in CurrentIds /\ q.id[1] = s
      BY CurrentCopies, CurrentById DEF Inv
    <3>2. q.id = p.id
      BY <3>1, OneCopy
    <3> QED
      BY <3>1, <3>2, CurrentById
  <2>3. CurrentOf(s) = {p}
    BY <2>1, <2>2
  <2>4. Cardinality(CurrentOf(s)) = 1
    BY <2>3, FS_Singleton, Zenon
  <2> QED
    BY <2>4
<1> QED
  BY <1>1, <1>2

(* Where one actor writes, a subject never has two current rows, whichever *)
(* requests are lost, retried or given up and whenever the actor is        *)
(* started again; provided no query's result contradicts a note, since the *)
(* recheck that follows writes back copies delivered long before, of rows  *)
(* that may have been superseded since.                                    *)
THEOREM OneCurrentRow ==
  ASSUME \A a, b \in Actors : a = b, Refutable = {} \/ "query" \notin Ops
  PROVE  Spec => []AtMostOneCurrent
<1>1. Inv /\ Single /\ [Next]_vars => Single'
  BY SingleStep
<1>2. Inv /\ Single => AtMostOneCurrent
  BY OneEachIsOne DEF Single
<1> QED
  BY <1>1, <1>2, SingleInit, InvHolds, PTL DEF Spec
=============================================================================
