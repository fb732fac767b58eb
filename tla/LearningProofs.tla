--------------------------- MODULE LearningProofs ---------------------------
(***************************************************************************)
(* Proofs about what the gateway learns: of EventBuffer, for any events,   *)
(* files, budget and losses, what is buffered is kept, and how far its     *)
(* budget can be exceeded; of Learning, for any connections, tenants,      *)
(* statements and outcomes, that capture pairs exactly the failures and    *)
(* working forms it is for, and that every note has its reasons.           *)
(***************************************************************************)
EXTENDS EventBuffer, Learning, FiniteSetTheorems, TLAPS

-----------------------------------------------------------------------------
(* The buffer of session events.                                           *)

(* What a request may do to the store.                                     *)
LEMMA RequestsStore ==
  ASSUME NEW e \in Events, TypeOK, Lands(e) \/ Reset(e) \/ Fails(e)
  PROVE  stored \subseteq stored' /\ stored' \subseteq Events /\ losses' \in 0..MaxLosses
BY BufferAssumption DEF Lands, Reset, Fails, Lost, TypeOK

-----------------------------------------------------------------------------
(* Types.                                                                  *)

(* It holds at the start.                                                  *)
LEMMA TypeInit == BufferInit => TypeOK
<1> SUFFICES ASSUME BufferInit PROVE TypeOK
  OBVIOUS
<1>1. <<>> \in Seq(Events)
  OBVIOUS
<1>2. file \in [Files -> Seq(Events)]
  BY <1>1 DEF BufferInit
<1>3. /\ replay \in [todo : SUBSET Files, path : Files \cup {NoFile}, lines : Seq(Events), again : BOOLEAN]
      /\ replay.lines = <<>>
  BY <1>1 DEF BufferInit, NoReplay
<1>4. rec \in [Events -> [at : {"new", "posting", "reposting", "measuring", "appending", "done"},
                        path : Files \cup {NoFile}]]
  BY DEF BufferInit
<1>5. /\ stored = {} /\ appended = {} /\ behind = {} /\ losses = 0 /\ met = FALSE
      /\ \A e \in Events : rec[e].at = "new"
  BY DEF BufferInit
<1>6. 0 \in 0..MaxLosses
  BY BufferAssumption
<1> QED
  BY <1>2, <1>3, <1>4, <1>5, <1>6 DEF TypeOK

(* A recording's own step types.                                           *)
LEMMA RecTypes ==
  ASSUME TypeOK, NEW e \in Events,
         NEW to \in {"posting", "reposting", "measuring", "appending", "done"}, Step(e, to)
  PROVE  /\ rec' \in [Events -> [at : {"new", "posting", "reposting", "measuring", "appending", "done"},
                                path : Files \cup {NoFile}]]
         /\ \A d \in Events : rec'[d].path = rec[d].path
         /\ \A d \in Events : rec'[d].at = IF d = e THEN to ELSE rec[d].at
BY DEF TypeOK, Step

(* A recording under way stays in its gateway's file.                      *)
LEMMA RecPlaced ==
  ASSUME TypeOK, NEW e \in Events, rec[e].at # "new",
         NEW to \in {"posting", "reposting", "measuring", "appending", "done"}, Step(e, to)
  PROVE  \A d \in Events : rec'[d].at # "new" => rec'[d].path # NoFile
<1> SUFFICES ASSUME NEW d \in Events, rec'[d].at # "new" PROVE rec'[d].path # NoFile
  OBVIOUS
<1>1. rec'[d].path = rec[d].path
  BY RecTypes
<1>2. rec[d].at # "new"
  <2>1. rec'[d].at = IF d = e THEN to ELSE rec[d].at
    BY RecTypes
  <2> QED
    BY <2>1
<1> QED
  BY <1>1, <1>2 DEF TypeOK

(* A step of a recording keeps the types.                                  *)
LEMMA RecordTypes ==
  ASSUME TypeOK, NEW e \in Events, RecordStep(e) PROVE TypeOK'
<1>1. CASE \E f \in Files : Record(e, f)
  BY <1>1, BufferAssumption DEF Record, TypeOK
<1>2. CASE PostLands(e) \/ PostReset(e) \/ PostFails(e)
  <2>1. stored' \subseteq Events /\ losses' \in 0..MaxLosses
    BY <1>2, RequestsStore DEF PostLands, PostReset, PostFails
  <2>2. UNCHANGED <<file, replay, appended, behind, met>>
    BY <1>2 DEF PostLands, PostReset, PostFails
  <2>3. \E to \in {"reposting", "measuring", "done"} : Step(e, to)
    BY <1>2 DEF PostLands, PostReset, PostFails
  <2>4. rec' \in [Events -> [at : {"new", "posting", "reposting", "measuring", "appending", "done"},
                             path : Files \cup {NoFile}]]
    BY <2>3, RecTypes
  <2>5. \A d \in Events : rec'[d].at # "new" => rec'[d].path # NoFile
    <3>1. rec[e].at # "new"
      BY <1>2 DEF PostLands, PostReset, PostFails
    <3> QED
      BY <2>3, <3>1, RecPlaced
  <2> QED
    BY <2>1, <2>2, <2>4, <2>5 DEF TypeOK
<1>3. CASE Measure(e)
  <2>1. rec' \in [Events -> [at : {"new", "posting", "reposting", "measuring", "appending", "done"},
                             path : Files \cup {NoFile}]]
    BY <1>3, RecTypes DEF Measure
  <2>2. \A d \in Events : rec'[d].at # "new" => rec'[d].path # NoFile
    <3>1. rec[e].at # "new" /\ \E to \in {"appending", "done"} : Step(e, to)
      BY <1>3 DEF Measure
    <3> QED
      BY <3>1, RecPlaced
  <2> QED
    BY <1>3, <2>1, <2>2 DEF Measure, TypeOK
<1>4. CASE AppendLine(e)
  <2>1. rec' \in [Events -> [at : {"new", "posting", "reposting", "measuring", "appending", "done"},
                             path : Files \cup {NoFile}]]
    BY <1>4, RecTypes DEF AppendLine
  <2>3. \A d \in Events : rec'[d].at # "new" => rec'[d].path # NoFile
    <3>1. rec[e].at = "appending" /\ Step(e, "done")
      BY <1>4 DEF AppendLine
    <3> QED
      BY <3>1, RecPlaced
  <2>2. file' \in [Files -> Seq(Events)]
    <3>1. \A f \in Files : Append(file[f], e) \in Seq(Events)
      BY DEF TypeOK
    <3> QED
      BY <1>4, <3>1 DEF AppendLine, TypeOK
  <2> QED
    BY <1>4, <2>1, <2>2, <2>3 DEF AppendLine, TypeOK
<1> QED
  BY <1>1, <1>2, <1>3, <1>4 DEF RecordStep

(* A step of the replay keeps the types.                                   *)
LEMMA PassTypes ==
  ASSUME TypeOK, ReplayStep PROVE TypeOK'
<1>1. CASE StartReplay
  BY <1>1 DEF StartReplay, TypeOK, NoReplay
<1>2. CASE \E f \in Files : ReadFile(f)
  <2>1. PICK f \in Files : ReadFile(f)
    BY <1>2
  <2>2. file[f] \in Seq(Events) /\ f # NoFile
    BY BufferAssumption DEF TypeOK
  <2>3. replay' \in [todo : SUBSET Files, path : Files \cup {NoFile}, lines : Seq(Events), again : BOOLEAN]
        /\ replay'.path = f
    BY <2>1, <2>2 DEF ReadFile, TypeOK
  <2> QED
    BY <2>1, <2>2, <2>3 DEF ReadFile, TypeOK
<1>3. CASE ReplayLands \/ ReplayReset \/ ReplayFails
  <2>1. Replaying /\ Head(replay.lines) \in Events /\ Tail(replay.lines) \in Seq(Events)
    BY <1>3 DEF ReplayLands, ReplayReset, ReplayFails, Replaying, TypeOK
  <2>2. stored' \subseteq Events /\ losses' \in 0..MaxLosses
    BY <1>3, <2>1, RequestsStore DEF ReplayLands, ReplayReset, ReplayFails
  <2>3. replay' \in [todo : SUBSET Files, path : Files \cup {NoFile}, lines : Seq(Events), again : BOOLEAN]
        /\ (replay'.lines # <<>> => replay'.path # NoFile)
    <3>1. CASE ReplayLands \/ ReplayReset
      BY <3>1, <2>1 DEF ReplayLands, ReplayReset, Replaying, TypeOK
    <3>2. CASE ReplayFails
      <4>1. replay' = NoReplay /\ <<>> \in Seq(Events)
        BY <3>2 DEF ReplayFails
      <4> QED
        BY <4>1 DEF NoReplay
    <3> QED
      BY <1>3, <3>1, <3>2
  <2>4. UNCHANGED <<file, rec, appended, behind>> /\ met' \in BOOLEAN
    BY <1>3 DEF ReplayLands, ReplayReset, ReplayFails, Met, TypeOK
  <2> QED
    BY <2>2, <2>3, <2>4 DEF TypeOK
<1>4. CASE Unlink
  BY <1>4 DEF Unlink, TypeOK, NoReplay
<1>5. CASE ReplayEnds
  BY <1>5, BufferAssumption DEF ReplayEnds, Lost, TypeOK, NoReplay
<1> QED
  BY <1>1, <1>2, <1>3, <1>4, <1>5 DEF ReplayStep

(* Types, for any instance.                                                *)
THEOREM TypesHold == BufferSpec => []TypeOK
<1>1. TypeOK /\ [BufferNext]_bufferVars => TypeOK'
  BY RecordTypes, PassTypes DEF BufferNext, bufferVars, TypeOK
<1> QED
  BY TypeInit, <1>1, PTL DEF BufferSpec

-----------------------------------------------------------------------------
(* What is buffered is kept.                                               *)

(* Of the file being replayed, a line is stored, or still to go, or was    *)
(* appended since it was read.                                             *)
Replayed ==
  replay.path # NoFile => \A e \in ToSet(file[replay.path]) :
    e \in stored \/ e \in ToSet(replay.lines) \/ e \in behind

KeepInv == TypeOK /\ BufferedUnlessBehind /\ Replayed

(* A step that takes nothing from the store, leaves the files and history  *)
(* alone and drops no line of the replay but a stored one.                 *)
LEMMA KeptByStore ==
  ASSUME KeepInv, stored \subseteq stored', UNCHANGED <<file, appended, behind>>,
         \/ replay'.path = NoFile
         \/ /\ replay'.path = replay.path
            /\ ToSet(replay.lines) \subseteq ToSet(replay'.lines) \cup stored'
  PROVE  BufferedUnlessBehind' /\ Replayed'
BY DEF KeepInv, BufferedUnlessBehind, InFile, Replayed

(* An appended line is in the file, and the old ones still are.            *)
LEMMA AppendedLines ==
  ASSUME NEW S, NEW s \in Seq(S), NEW e \in S
  PROVE  ToSet(Append(s, e)) = ToSet(s) \cup {e}
<1> DEFINE t == Append(s, e)
<1>1. Len(s) \in Nat /\ DOMAIN s = 1..Len(s) /\ DOMAIN t = 1..(Len(s) + 1)
  OBVIOUS
<1>2. t[Len(s) + 1] = e /\ \A i \in 1..Len(s) : t[i] = s[i]
  OBVIOUS
<1>3. \A i \in DOMAIN t : i = Len(s) + 1 \/ i \in DOMAIN s
  BY <1>1
<1>4. DOMAIN s \subseteq DOMAIN t /\ Len(s) + 1 \in DOMAIN t
  BY <1>1
<1> HIDE DEF t
<1>5. {t[i] : i \in DOMAIN t} = {s[i] : i \in DOMAIN s} \cup {e}
  BY <1>1, <1>2, <1>3, <1>4
<1> QED
  BY <1>5 DEF ToSet, t

(* The lines of a sequence are its head and those of its tail.             *)
LEMMA HeadAndTail ==
  ASSUME NEW S, NEW s \in Seq(S), s # <<>>
  PROVE  ToSet(s) = {Head(s)} \cup ToSet(Tail(s))
<1>1. Len(s) \in Nat \ {0} /\ DOMAIN s = 1..Len(s) /\ Head(s) = s[1]
      /\ DOMAIN Tail(s) = 1..(Len(s) - 1)
  OBVIOUS
<1>2. \A i \in 1..(Len(s) - 1) : Tail(s)[i] = s[i + 1]
  OBVIOUS
<1>3. ASSUME NEW i \in DOMAIN s PROVE s[i] \in {Head(s)} \cup ToSet(Tail(s))
  <2>1. CASE i = 1
    BY <2>1, <1>1
  <2>2. CASE i # 1
    <3>1. i - 1 \in DOMAIN Tail(s) /\ Tail(s)[i - 1] = s[i]
      BY <2>2, <1>1, <1>2, <1>3
    <3> QED
      BY <3>1 DEF ToSet
  <2> QED
    BY <2>1, <2>2
<1>4. \A i \in DOMAIN Tail(s) : Tail(s)[i] \in ToSet(s)
  BY <1>1, <1>2 DEF ToSet
<1>5. Head(s) \in ToSet(s)
  BY <1>1 DEF ToSet
<1> QED
  BY <1>3, <1>4, <1>5 DEF ToSet

(* A recording loses nothing: its append only adds a line.                 *)
LEMMA RecordKeeps ==
  ASSUME KeepInv, NEW e \in Events, RecordStep(e)
  PROVE  BufferedUnlessBehind' /\ Replayed'
<1>1. CASE AppendLine(e)
  <2> DEFINE f == rec[e].path
  <2>1. f \in Files
    BY <1>1 DEF AppendLine, KeepInv, TypeOK
  <2>2. BufferedUnlessBehind' /\ Replayed'
    <3>1. /\ file' = [file EXCEPT ![f] = Append(@, e)] /\ appended' = appended \cup {e}
          /\ behind' = IF replay.path = f THEN behind \cup {e} ELSE behind
          /\ UNCHANGED <<stored, replay>>
      BY <1>1 DEF AppendLine
    <3>2. ToSet(file'[f]) = ToSet(file[f]) \cup {e}
          /\ \A g \in Files \ {f} : file'[g] = file[g]
      BY <2>1, <3>1, AppendedLines DEF KeepInv, TypeOK
    <3>3. \A d \in Events : InFile(d) => InFile(d)'
      BY <2>1, <3>2 DEF InFile
    <3>4. InFile(e)'
      BY <2>1, <3>2 DEF InFile
    <3>5. BufferedUnlessBehind'
      BY <3>1, <3>3, <3>4 DEF KeepInv, TypeOK, BufferedUnlessBehind
    <3>6. Replayed'
      BY <3>1, <3>2 DEF KeepInv, TypeOK, Replayed
    <3> QED
      BY <3>5, <3>6
  <2> QED
    BY <2>2
<1>2. CASE PostLands(e) \/ PostReset(e) \/ PostFails(e)
  <2>1. stored \subseteq stored'
    BY <1>2, RequestsStore DEF KeepInv, PostLands, PostReset, PostFails
  <2>2. UNCHANGED <<file, replay, appended, behind>>
    BY <1>2 DEF PostLands, PostReset, PostFails
  <2> QED
    BY <2>1, <2>2, KeptByStore
<1>3. CASE (\E f \in Files : Record(e, f)) \/ Measure(e)
  <2>1. UNCHANGED <<stored, file, replay, appended, behind>>
    BY <1>3 DEF Record, Measure
  <2> QED
    BY <2>1, KeptByStore
<1> QED
  BY <1>1, <1>2, <1>3 DEF RecordStep

(* The replay loses nothing but what was appended behind it.               *)
LEMMA PassKeeps ==
  ASSUME KeepInv, ReplayStep
  PROVE  BufferedUnlessBehind' /\ Replayed'
<1>1. CASE StartReplay \/ ReplayEnds
  <2>1. UNCHANGED <<stored, file, appended, behind>> /\ replay'.path = NoFile
    BY <1>1 DEF StartReplay, ReplayEnds, NoReplay
  <2> QED
    BY <2>1, KeptByStore
<1>2. CASE \E f \in Files : ReadFile(f)
  <2>1. PICK f \in Files : ReadFile(f)
    BY <1>2
  <2>2. UNCHANGED <<stored, file, appended, behind>> /\ replay'.path = f /\ replay'.lines = file[f]
    BY <2>1 DEF ReadFile, KeepInv, TypeOK
  <2>3. Replayed'
    BY <2>2 DEF Replayed
  <2>4. BufferedUnlessBehind'
    BY <2>2 DEF KeepInv, BufferedUnlessBehind, InFile
  <2> QED
    BY <2>3, <2>4
<1>3. CASE ReplayLands \/ ReplayReset \/ ReplayFails
  <2>1. Replaying /\ Head(replay.lines) \in Events
        /\ ToSet(replay.lines) = {Head(replay.lines)} \cup ToSet(Tail(replay.lines))
    BY <1>3, HeadAndTail DEF ReplayLands, ReplayReset, ReplayFails, Replaying, KeepInv, TypeOK
  <2>2. stored \subseteq stored' /\ UNCHANGED <<file, appended, behind>>
    BY <1>3, <2>1, RequestsStore DEF ReplayLands, ReplayReset, ReplayFails, KeepInv
  <2>3. CASE ReplayLands
    <3>1. replay'.path = replay.path /\ replay'.lines = Tail(replay.lines) /\ Head(replay.lines) \in stored'
      BY <2>3 DEF ReplayLands, Lands, KeepInv, TypeOK
    <3> QED
      BY <2>1, <2>2, <3>1, KeptByStore
  <2>4. CASE ReplayReset
    <3>1. replay'.path = replay.path /\ replay'.lines = replay.lines
      BY <2>4 DEF ReplayReset, KeepInv, TypeOK
    <3> QED
      BY <2>2, <3>1, KeptByStore
  <2>5. CASE ReplayFails
    <3>1. replay'.path = NoFile
      BY <2>5 DEF ReplayFails, NoReplay
    <3> QED
      BY <2>2, <3>1, KeptByStore
  <2> QED
    BY <1>3, <2>3, <2>4, <2>5
<1>4. CASE Unlink
  <2> DEFINE f == replay.path
  <2>1. /\ f \in Files /\ replay.lines = <<>>
        /\ file' = [file EXCEPT ![f] = <<>>] /\ replay'.path = NoFile
        /\ UNCHANGED <<stored, appended, behind>>
    BY <1>4 DEF Unlink, NoReplay, KeepInv, TypeOK
  <2>2. ToSet(replay.lines) = {}
    BY <2>1 DEF ToSet
  <2>3. \A e \in ToSet(file[f]) : e \in stored \/ e \in behind
    BY <1>4, <2>2 DEF Unlink, KeepInv, Replayed
  <2>4. \A e \in Events : InFile(e) => e \in ToSet(file[f]) \/ InFile(e)'
    BY <2>1 DEF InFile, KeepInv, TypeOK
  <2>5. BufferedUnlessBehind'
    BY <2>1, <2>3, <2>4 DEF BufferedUnlessBehind, KeepInv, TypeOK
  <2>6. Replayed'
    BY <2>1 DEF Replayed
  <2> QED
    BY <2>5, <2>6
<1> QED
  BY <1>1, <1>2, <1>3, <1>4 DEF ReplayStep

(* Whatever fails, and in whatever order recordings and replays go on, a   *)
(* buffered event is in a file or stored, unless it was appended to a file *)
(* the replay had read.                                                    *)
THEOREM BufferedAreKept == BufferSpec => []BufferedUnlessBehind
<1>1. BufferInit => KeepInv
  BY TypeInit DEF BufferInit, NoReplay, KeepInv, BufferedUnlessBehind, Replayed
<1>2. KeepInv /\ [BufferNext]_bufferVars => KeepInv'
  <2> SUFFICES ASSUME KeepInv, [BufferNext]_bufferVars PROVE KeepInv'
    OBVIOUS
  <2>1. CASE ReplayStep
    BY <2>1, PassTypes, PassKeeps DEF KeepInv
  <2>2. ASSUME NEW e \in Events, RecordStep(e) PROVE KeepInv'
    BY <2>2, RecordTypes, RecordKeeps DEF KeepInv
  <2>3. CASE UNCHANGED bufferVars
    BY <2>3 DEF bufferVars, KeepInv, TypeOK, BufferedUnlessBehind, InFile, Replayed
  <2> QED
    BY <2>1, <2>2, <2>3 DEF BufferNext
<1> QED
  BY <1>1, <1>2, PTL DEF BufferSpec, KeepInv

-----------------------------------------------------------------------------
(* The budget.                                                             *)

Appending == {e \in Events : rec[e].at = "appending"}

(* Whoever has found room, and is about to append, is one of the           *)
(* recordings under way; with their lines the files keep the bound.        *)
RoomInv ==
  /\ TypeOK
  /\ IsFiniteSet(Recording) /\ Cardinality(Recording) <= Recorders
  /\ IsFiniteSet(Lines) /\ Size + Cardinality(Appending) < Budget + Recorders

(* Those about to append are among the recordings.                         *)
LEMMA AppendingAreRecording ==
  ASSUME TypeOK, IsFiniteSet(Recording)
  PROVE  /\ IsFiniteSet(Appending) /\ Cardinality(Appending) <= Cardinality(Recording)
         /\ Cardinality(Appending) \in Nat /\ Cardinality(Recording) \in Nat
<1>1. Appending \subseteq Recording
  BY DEF Appending, Recording
<1> QED
  BY <1>1, FS_Subset, FS_CardinalityType

(* A finite set grows by at most one with an element.                      *)
LEMMA OneMore ==
  ASSUME NEW S, NEW x, IsFiniteSet(S)
  PROVE  /\ IsFiniteSet(S \cup {x}) /\ Cardinality(S \cup {x}) <= Cardinality(S) + 1
         /\ Cardinality(S) \in Nat /\ Cardinality(S \cup {x}) \in Nat
BY FS_AddElement, FS_CardinalityType

(* A step with no more lines, no more appends and no new recording.        *)
LEMMA RoomLeft ==
  ASSUME RoomInv, TypeOK', Lines' \subseteq Lines, Appending' \subseteq Appending,
         Recording' \subseteq Recording
  PROVE  RoomInv'
<1>1. IsFiniteSet(Appending)
  BY AppendingAreRecording DEF RoomInv
<1>2. IsFiniteSet(Recording') /\ Cardinality(Recording') <= Cardinality(Recording)
  BY FS_Subset DEF RoomInv
<1>3. IsFiniteSet(Lines') /\ Cardinality(Lines') <= Cardinality(Lines)
  BY FS_Subset DEF RoomInv
<1>4. IsFiniteSet(Appending') /\ Cardinality(Appending') <= Cardinality(Appending)
  BY <1>1, FS_Subset
<1>5. /\ Cardinality(Recording) \in Nat /\ Cardinality(Recording') \in Nat
      /\ Cardinality(Lines) \in Nat /\ Cardinality(Lines') \in Nat
      /\ Cardinality(Appending) \in Nat /\ Cardinality(Appending') \in Nat
  BY <1>1, <1>2, <1>3, <1>4, FS_CardinalityType DEF RoomInv
<1> QED
  BY <1>2, <1>3, <1>4, <1>5, BufferAssumption DEF RoomInv, Size

(* Events that do not record before a step and after it.                   *)
LEMMA SameRecordings ==
  ASSUME UNCHANGED rec
  PROVE  Recording' = Recording /\ Appending' = Appending
BY DEF Recording, Appending

(* A step of the replay only takes lines away.                             *)
LEMMA PassLeavesRoom == ASSUME RoomInv, ReplayStep PROVE RoomInv'
<1>1. TypeOK'
  BY PassTypes DEF RoomInv
<1>2. UNCHANGED rec
  BY DEF ReplayStep, StartReplay, ReadFile, ReplayLands, ReplayReset, ReplayFails, Unlink, ReplayEnds
<1>3. Lines' \subseteq Lines
  <2>1. CASE UNCHANGED file
    BY <2>1 DEF Lines
  <2>2. CASE Unlink
    <3>1. \A f \in Files : file'[f] = file[f] \/ file'[f] = <<>>
      BY <2>2 DEF Unlink, RoomInv, TypeOK
    <3>2. \A f \in Files : DOMAIN file'[f] \subseteq DOMAIN file[f]
      BY <3>1
    <3> QED
      BY <3>2 DEF Lines
  <2> QED
    BY <2>1, <2>2 DEF ReplayStep, StartReplay, ReadFile, ReplayLands, ReplayReset, ReplayFails, ReplayEnds
<1> QED
  BY <1>1, <1>2, <1>3, SameRecordings, RoomLeft

(* A recording finds room, and its append uses it up.                      *)
LEMMA RecordLeavesRoom == ASSUME RoomInv, NEW e \in Events, RecordStep(e) PROVE RoomInv'
<1>1. TypeOK'
  BY RecordTypes DEF RoomInv
<1> USE DEF RoomInv
<1>2. CASE \E f \in Files : Record(e, f)
  <2>1. PICK f \in Files : Record(e, f)
    BY <1>2
  <2>2. Recording' = Recording \cup {e} /\ Appending' = Appending /\ Lines' = Lines
    BY <2>1 DEF Record, Recording, Appending, Lines, TypeOK
  <2>3. Cardinality(Recording) < Recorders
    BY <2>1 DEF Record
  <2>4. /\ IsFiniteSet(Recording') /\ Cardinality(Recording) \in Nat
        /\ Cardinality(Recording') <= Cardinality(Recording) + 1
    BY <2>2, OneMore
  <2>5. Cardinality(Recording') <= Recorders
    BY <2>3, <2>4, FS_CardinalityType, BufferAssumption
  <2> QED
    BY <1>1, <2>2, <2>4, <2>5 DEF Size
<1>3. CASE PostLands(e) \/ PostReset(e) \/ PostFails(e)
  <2>1. /\ UNCHANGED file /\ rec[e].at \in {"posting", "reposting"}
        /\ \E to \in {"reposting", "measuring", "done"} : Step(e, to)
    BY <1>3 DEF PostLands, PostReset, PostFails
  <2>2. Recording' \subseteq Recording /\ Appending' \subseteq Appending
    BY <2>1, RecTypes DEF Recording, Appending
  <2>3. Lines' = Lines
    BY <2>1 DEF Lines
  <2> QED
    BY <1>1, <2>2, <2>3, RoomLeft
<1>4. CASE Measure(e)
  <2>1. Lines' = Lines
    BY <1>4 DEF Measure, Lines
  <2>2. rec[e].at = "measuring" /\ Step(e, IF Size >= Budget THEN "done" ELSE "appending")
    BY <1>4 DEF Measure
  <2>3. CASE Size >= Budget
    <3>1. Recording' \subseteq Recording /\ Appending' \subseteq Appending
      BY <2>2, <2>3, RecTypes DEF Recording, Appending
    <3> QED
      BY <1>1, <2>1, <3>1, RoomLeft
  <2>4. CASE ~(Size >= Budget)
    <3>1. Recording' = Recording
      BY <2>2, <2>4, RecTypes DEF Recording
    <3>2. Cardinality(Appending') <= Recorders /\ Cardinality(Appending') \in Nat
      <4>1. Appending' \subseteq Recording'
        BY DEF Appending, Recording
      <4>2. IsFiniteSet(Appending') /\ Cardinality(Appending') <= Cardinality(Recording)
        BY <3>1, <4>1, FS_Subset
      <4> QED
        BY <4>2, FS_CardinalityType, BufferAssumption
    <3>3. Cardinality(Lines) \in Nat
      BY FS_CardinalityType
    <3> QED
      BY <1>1, <2>1, <2>4, <3>1, <3>2, <3>3, BufferAssumption DEF Size
  <2> QED
    BY <2>3, <2>4
<1>5. CASE AppendLine(e)
  <2> DEFINE f == rec[e].path
  <2>1. f \in Files /\ file[f] \in Seq(Events)
    BY <1>5 DEF AppendLine, TypeOK
  <2>2. rec[e].at = "appending" /\ Step(e, "done") /\ file' = [file EXCEPT ![f] = Append(@, e)]
    BY <1>5 DEF AppendLine
  <2>3. Recording' \subseteq Recording /\ Appending' = Appending \ {e} /\ e \in Appending
    BY <2>2, RecTypes DEF Recording, Appending
  <2>4. DOMAIN Append(file[f], e) = DOMAIN file[f] \cup {Len(file[f]) + 1}
    BY <2>1
  <2>5. Lines' = Lines \cup {<<f, Len(file[f]) + 1>>}
    <3>1. file'[f] = Append(file[f], e) /\ \A g \in Files \ {f} : file'[g] = file[g]
      BY <2>1, <2>2 DEF TypeOK
    <3>2. \A g \in Files : {g} \X DOMAIN file'[g] =
             IF g = f THEN ({g} \X DOMAIN file[g]) \cup {<<f, Len(file[f]) + 1>>}
                      ELSE {g} \X DOMAIN file[g]
      BY <2>4, <3>1
    <3>3. \A x : x \in Lines' <=> \E g \in Files : x \in {g} \X DOMAIN file'[g]
      BY DEF Lines
    <3>4. \A x : x \in Lines <=> \E g \in Files : x \in {g} \X DOMAIN file[g]
      BY DEF Lines
    <3>5. \A x : x \in Lines' <=> x \in Lines \/ x = <<f, Len(file[f]) + 1>>
      BY <2>1, <3>2, <3>3, <3>4
    <3> QED
      BY <3>5
  <2>6. IsFiniteSet(Lines') /\ Cardinality(Lines') <= Cardinality(Lines) + 1
    BY <2>5, OneMore
  <2>7. IsFiniteSet(Appending) /\ Cardinality(Appending') = Cardinality(Appending) - 1
        /\ IsFiniteSet(Appending')
    BY <2>3, AppendingAreRecording, FS_RemoveElement
  <2>8. IsFiniteSet(Recording') /\ Cardinality(Recording') <= Cardinality(Recording)
    BY <2>3, FS_Subset
  <2>9. /\ Cardinality(Lines) \in Nat /\ Cardinality(Lines') \in Nat
        /\ Cardinality(Appending) \in Nat /\ Cardinality(Appending') \in Nat
        /\ Cardinality(Recording) \in Nat /\ Cardinality(Recording') \in Nat
    BY <2>6, <2>7, <2>8, FS_CardinalityType
  <2> QED
    BY <1>1, <2>6, <2>7, <2>8, <2>9, BufferAssumption DEF Size
<1> QED
  BY <1>2, <1>3, <1>4, <1>5 DEF RecordStep

(* The check of the budget is not one step with the append; the files      *)
(* exceed it by less than the number of recordings under way at once.      *)
THEOREM BudgetHolds == BufferSpec => []BufferBounded
<1>1. BufferInit => RoomInv
  <2> SUFFICES ASSUME BufferInit PROVE RoomInv
    OBVIOUS
  <2>1. Recording = {} /\ Appending = {}
    BY DEF BufferInit, Recording, Appending
  <2>2. Lines = {}
    <3>1. \A f \in Files : DOMAIN file[f] = {}
      BY DEF BufferInit
    <3> QED
      BY <3>1 DEF Lines
  <2> QED
    BY <2>1, <2>2, TypeInit, FS_EmptySet, BufferAssumption DEF RoomInv, Size
<1>2. RoomInv /\ [BufferNext]_bufferVars => RoomInv'
  <2> SUFFICES ASSUME RoomInv, [BufferNext]_bufferVars PROVE RoomInv'
    OBVIOUS
  <2>1. CASE UNCHANGED bufferVars
    <3>1. TypeOK' /\ Lines' = Lines /\ UNCHANGED rec
      BY <2>1 DEF bufferVars, RoomInv, TypeOK, Lines
    <3> QED
      BY <3>1, SameRecordings, RoomLeft
  <2> QED
    BY <2>1, PassLeavesRoom, RecordLeavesRoom DEF BufferNext
<1>3. RoomInv => BufferBounded
  <2> SUFFICES ASSUME RoomInv PROVE BufferBounded
    OBVIOUS
  <2>1. Cardinality(Appending) \in Nat /\ Cardinality(Lines) \in Nat
    BY AppendingAreRecording, FS_CardinalityType DEF RoomInv
  <2> QED
    BY <2>1, BufferAssumption DEF RoomInv, BufferBounded, Size
<1> QED
  BY <1>1, <1>2, <1>3, PTL DEF BufferSpec

-----------------------------------------------------------------------------
(* Types.                                                                  *)

Run == [conn : Conns, st : Statements, ok : BOOLEAN, ms : Nat \cup {None}, async : BOOLEAN,
        at : {"ended", "recorded", "captured"}]

(* Every outcome has its event; the failures that wait are outcomes of     *)
(* their connection; what capture took and made is of the outcomes.        *)
RunsOK  == runs \in Seq(Run) /\ event \in Seq(Tenants \cup {"none", "buffered"}) /\ Len(event) = Len(runs)
FailureOK ==
  /\ failure \in [Conns -> [Subjects -> Nat]]
  /\ \A c \in Conns, x \in Subjects :
       failure[c][x] # 0 => failure[c][x] \in DOMAIN runs /\ runs[failure[c][x]].conn = c
CapturedOK == captured \in Seq(DOMAIN runs) /\ fixes \subseteq Subjects \X (DOMAIN runs) \X (DOMAIN runs)

(* An event is stored once: an outcome that is not recorded has none, and  *)
(* what is to be replayed is in the buffer.                                *)
StoredOnce ==
  /\ {"at", "by", "flush"} \subseteq DOMAIN pass
  /\ \A i \in DOMAIN runs : runs[i].at = "ended" => event[i] = "none"
  /\ pass.flush \subseteq {i \in DOMAIN event : event[i] = "buffered"}
  /\ pass.at = "flush" => pass.by = Deployment
  /\ pass.by \in {Deployment, None}

Typed == RunsOK /\ FailureOK /\ CapturedOK /\ StoredOnce

(* What a step leaves of the outcomes.                                     *)
Grown ==
  /\ DOMAIN runs \subseteq DOMAIN runs'
  /\ \A i \in DOMAIN runs :
       /\ runs'[i].conn = runs[i].conn /\ runs'[i].st = runs[i].st
       /\ runs'[i].ok = runs[i].ok /\ runs'[i].async = runs[i].async

(* An outcome is what was run where, and what came of it.                  *)
LEMMA RunIs ==
  ASSUME RunsOK, NEW i \in DOMAIN runs
  PROVE  /\ runs[i] \in Run /\ runs[i].conn \in Conns /\ runs[i].st \in Statements
         /\ runs[i].ok \in BOOLEAN /\ runs[i].async \in BOOLEAN
         /\ i \in DOMAIN event /\ event[i] \in Tenants \cup {"none", "buffered"} /\ i \in Nat \ {0}
         /\ TenantOfRun(i) \in Tenants /\ Text(i) \in DOMAIN SubjectsOf
<1>1. runs[i] \in Run /\ i \in 1..Len(runs)
  BY DEF RunsOK
<1>2. i \in DOMAIN event /\ event[i] \in Tenants \cup {"none", "buffered"} /\ i \in Nat \ {0}
  BY <1>1 DEF RunsOK
<1>3. /\ runs[i].conn \in Conns /\ runs[i].st \in Statements
      /\ runs[i].ok \in BOOLEAN /\ runs[i].async \in BOOLEAN
  BY <1>1 DEF Run
<1>4. TenantOfRun(i) \in Tenants /\ Text(i) \in DOMAIN SubjectsOf
  BY <1>3, LearningAssumption DEF TenantOfRun, Tenants, Text
<1> QED
  BY <1>1, <1>2, <1>3, <1>4

(* No tenant is one of the two marks.                                      *)
LEMMA TenantsApart ==
  ASSUME NEW t \in Tenants \cup {None}
  PROVE  t # "none" /\ t # "buffered"
BY LearningAssumption DEF Tenants

(* At the start there is nothing.                                          *)
LEMMA InitTyped == Init => Typed
<1> SUFFICES ASSUME Init PROVE Typed
  OBVIOUS
<1>1. RunsOK /\ DOMAIN runs = {}
  BY DEF Init, RunsOK
<1>2. CapturedOK
  BY DEF Init, CapturedOK
<1>3. FailureOK
  BY DEF Init, FailureOK
<1>4. StoredOnce
  BY <1>1 DEF Init, StoredOnce, NoPass
<1> QED
  BY <1>1, <1>2, <1>3, <1>4 DEF Typed

(* An outcome that comes in is the last one.                               *)
LEMMA EndsMakes ==
  ASSUME RunsOK, NEW c \in Conns, NEW s \in Statements, NEW o \in Outcomes[<<c, s>>], Ends(c, s, o)
  PROVE  /\ RunsOK' /\ DOMAIN runs' = DOMAIN runs \cup {Len(runs) + 1} /\ Grown
         /\ Len(runs) + 1 \notin DOMAIN runs
         /\ \A i \in DOMAIN runs : runs'[i] = runs[i] /\ event'[i] = event[i]
         /\ event'[Len(runs) + 1] = "none"
         /\ UNCHANGED <<horizon, failure, notes, pass, faults, captured, fixes>>
<1> DEFINE r == [conn |-> c, st |-> s, ok |-> o.ok, ms |-> o.ms, async |-> o.async, at |-> "ended"]
<1>1. o.ok \in BOOLEAN /\ o.ms \in Nat \cup {None} /\ o.async \in BOOLEAN
  BY LearningAssumption
<1>2. r \in Run
  BY <1>1 DEF Run
<1> HIDE DEF r
<1>3. /\ runs' = Append(runs, r) /\ event' = Append(event, "none")
      /\ UNCHANGED <<horizon, failure, notes, pass, faults, captured, fixes>>
  BY DEF Ends, r
<1>4. /\ runs' \in Seq(Run) /\ Len(runs') = Len(runs) + 1 /\ DOMAIN runs' = 1..(Len(runs) + 1)
      /\ \A i \in DOMAIN runs : runs'[i] = runs[i]
  BY <1>2, <1>3 DEF RunsOK
<1>5. /\ event' \in Seq(Tenants \cup {"none", "buffered"}) /\ Len(event') = Len(event) + 1
      /\ \A i \in DOMAIN event : event'[i] = event[i]
      /\ event'[Len(event) + 1] = "none"
  BY <1>3 DEF RunsOK
<1>6. DOMAIN runs = 1..Len(runs) /\ DOMAIN event = DOMAIN runs /\ Len(runs) \in Nat /\ Len(event) = Len(runs)
  BY DEF RunsOK
<1>7. DOMAIN runs' = DOMAIN runs \cup {Len(runs) + 1} /\ Len(runs) + 1 \notin DOMAIN runs
  BY <1>4, <1>6
<1>8. Tenants' = Tenants
  BY DEF Tenants
<1> QED
  BY <1>3, <1>4, <1>5, <1>6, <1>7, <1>8 DEF RunsOK, Grown

(* The capture of an outcome goes on.                                      *)
LEMMA AtMoves ==
  ASSUME RunsOK, NEW i \in DOMAIN runs, NEW v \in {"recorded", "captured"},
         runs' = [runs EXCEPT ![i].at = v]
  PROVE  /\ runs' \in Seq(Run) /\ Len(runs') = Len(runs) /\ DOMAIN runs' = DOMAIN runs /\ Grown
         /\ runs'[i].at = v /\ \A j \in DOMAIN runs \ {i} : runs'[j] = runs[j]
<1>1. runs[i] \in Run
  BY DEF RunsOK
<1> DEFINE r == [runs[i] EXCEPT !.at = v]
<1>2. /\ r \in Run /\ r.at = v /\ r.conn = runs[i].conn /\ r.st = runs[i].st
      /\ r.ok = runs[i].ok /\ r.async = runs[i].async
  BY <1>1 DEF Run
<1>3. runs' = [runs EXCEPT ![i] = r]
  OBVIOUS
<1> HIDE DEF r
<1>4. /\ runs' \in Seq(Run) /\ Len(runs') = Len(runs) /\ DOMAIN runs' = DOMAIN runs
      /\ runs'[i] = r /\ \A j \in DOMAIN runs \ {i} : runs'[j] = runs[j]
  BY <1>2, <1>3 DEF RunsOK
<1> QED
  BY <1>2, <1>4 DEF Grown

(* The event of an outcome changes.                                        *)
LEMMA EventMoves ==
  ASSUME RunsOK, NEW i \in DOMAIN event, NEW v \in Tenants \cup {"none", "buffered"},
         event' = [event EXCEPT ![i] = v]
  PROVE  /\ event' \in Seq(Tenants \cup {"none", "buffered"}) /\ Len(event') = Len(event)
         /\ DOMAIN event' = DOMAIN event
         /\ event'[i] = v /\ \A j \in DOMAIN event \ {i} : event'[j] = event[j]
BY DEF RunsOK

(* Failures that wait, while the outcomes grow, and what capture has taken.*)
LEMMA WaitingKept ==
  ASSUME FailureOK, Grown, failure' = failure
  PROVE  FailureOK'
BY DEF FailureOK, Grown

(* What capture has taken stays among the outcomes.                        *)
LEMMA CapturedKept ==
  ASSUME CapturedOK, Grown, UNCHANGED <<captured, fixes>>
  PROVE  CapturedOK'
<1>1. captured \in Seq(DOMAIN runs')
  BY DEF CapturedOK, Grown
<1>2. fixes \subseteq Subjects \X (DOMAIN runs') \X (DOMAIN runs')
  BY DEF CapturedOK, Grown
<1> QED
  BY <1>1, <1>2 DEF CapturedOK

(* RecordEvent leaves the types.                                           *)
LEMMA RecordTyped ==
  ASSUME Typed, NEW i \in DOMAIN runs, RecordEvent(i)
  PROVE  Typed' /\ Grown /\ UNCHANGED <<horizon, failure, notes, pass, captured, fixes>>
         /\ \A j \in DOMAIN event : event'[j] = event[j] \/ event[j] = "none"
<1>0. RunsOK /\ FailureOK /\ CapturedOK /\ StoredOnce
  BY DEF Typed
<1>1. /\ runs[i].at = "ended" /\ runs' = [runs EXCEPT ![i].at = "recorded"]
      /\ UNCHANGED <<horizon, failure, notes, pass, captured, fixes>>
      /\ event' = event \/ \E v \in {TenantOfRun(i), "buffered"} : event' = [event EXCEPT ![i] = v]
  BY DEF RecordEvent
<1>2. /\ runs' \in Seq(Run) /\ Len(runs') = Len(runs) /\ DOMAIN runs' = DOMAIN runs /\ Grown
      /\ runs'[i].at = "recorded" /\ \A j \in DOMAIN runs \ {i} : runs'[j] = runs[j]
  BY <1>0, <1>1, AtMoves
<1>3. i \in DOMAIN event /\ TenantOfRun(i) \in Tenants
  BY <1>0, RunIs
<1>4. /\ event' \in Seq(Tenants \cup {"none", "buffered"}) /\ Len(event') = Len(event)
      /\ DOMAIN event' = DOMAIN event /\ \A j \in DOMAIN event \ {i} : event'[j] = event[j]
  <2>1. CASE event' = event
    BY <1>0, <2>1 DEF RunsOK
  <2>2. ASSUME NEW v \in {TenantOfRun(i), "buffered"}, event' = [event EXCEPT ![i] = v]
        PROVE  /\ event' \in Seq(Tenants \cup {"none", "buffered"}) /\ Len(event') = Len(event)
               /\ DOMAIN event' = DOMAIN event /\ \A j \in DOMAIN event \ {i} : event'[j] = event[j]
    BY <1>0, <1>3, <2>2, EventMoves
  <2> QED
    BY <1>1, <2>1, <2>2
<1>5. Tenants' = Tenants
  BY DEF Tenants
<1>6. RunsOK'
  BY <1>0, <1>2, <1>4, <1>5 DEF RunsOK
<1>7. event[i] = "none"
  BY <1>0, <1>1 DEF StoredOnce
<1>8. StoredOnce'
  <2>1. pass' = pass /\ \A j \in DOMAIN runs : runs'[j].at = "ended" => j # i /\ runs[j].at = "ended"
    BY <1>1, <1>2
  <2>2. \A j \in DOMAIN event : event[j] = "buffered" => event'[j] = "buffered"
    BY <1>4, <1>7
  <2>3. \A j \in DOMAIN runs : j \in DOMAIN event
    BY <1>0, RunIs
  <2> QED
    BY <1>0, <1>2, <1>4, <2>1, <2>2, <2>3 DEF StoredOnce
<1>9. FailureOK' /\ CapturedOK'
  BY <1>0, <1>1, <1>2, WaitingKept, CapturedKept
<1> QED
  BY <1>1, <1>2, <1>4, <1>6, <1>7, <1>8, <1>9 DEF Typed

(* A pass starts, replays and ends.                                        *)
LEMMA PassTyped ==
  ASSUME Typed, (\E caller \in Callers : StartPass(caller)) \/ Passing
  PROVE  Typed' /\ Grown /\ UNCHANGED <<runs, failure, captured, fixes>>
         /\ \A j \in DOMAIN event : event'[j] = event[j] \/ event[j] = "buffered"
<1>0. RunsOK /\ FailureOK /\ CapturedOK /\ StoredOnce
  BY DEF Typed
<1>1. UNCHANGED <<runs, failure, captured, fixes>> /\ Grown
  BY DEF StartPass, Passing, Flush, Flushed, Distill, Grown
<1>2. FailureOK' /\ CapturedOK'
  BY <1>0, <1>1, WaitingKept, CapturedKept
<1>3. Tenants' = Tenants
  BY DEF Tenants
<1> SUFFICES RunsOK' /\ StoredOnce' /\ \A j \in DOMAIN event : event'[j] = event[j] \/ event[j] = "buffered"
  BY <1>1, <1>2 DEF Typed
<1>4. ASSUME NEW caller, StartPass(caller)
      PROVE  event' = event /\ StoredOnce'
  <2>1. /\ event' = event
        /\ pass' = [[[NoPass EXCEPT !.at = IF caller = "startup" THEN "flush" ELSE "read"]
                      EXCEPT !.by = IF caller = "startup" THEN Deployment ELSE None]
                      EXCEPT !.flush = IF caller = "startup" THEN {i \in DOMAIN event : event[i] = "buffered"} ELSE {}]
    BY <1>4 DEF StartPass
  <2>2. /\ {"at", "by", "flush"} \subseteq DOMAIN pass'
        /\ pass'.flush \subseteq {i \in DOMAIN event : event[i] = "buffered"}
        /\ pass'.at = "flush" => pass'.by = Deployment
        /\ pass'.by \in {Deployment, None}
    BY <2>1 DEF NoPass
  <2> QED
    BY <1>0, <1>1, <2>1, <2>2 DEF StoredOnce
<1>5. CASE Flushed \/ Distill
  <2>1. event' = event /\ (pass' = [pass EXCEPT !.at = "read"] \/ pass' = NoPass)
    BY <1>5 DEF Flushed, Distill
  <2>2. /\ {"at", "by", "flush"} \subseteq DOMAIN pass' /\ pass'.at # "flush"
        /\ pass'.flush \in {pass.flush, {}} /\ pass'.by \in {pass.by, None}
    BY <1>0, <2>1 DEF StoredOnce, NoPass
  <2>3. RunsOK'
    BY <1>0, <1>1, <1>3, <2>1 DEF RunsOK
  <2>4. StoredOnce'
    BY <1>0, <1>1, <2>1, <2>2 DEF StoredOnce
  <2> QED
    BY <2>1, <2>3, <2>4
<1>6. ASSUME NEW i \in DOMAIN event, Flush(i)
      PROVE  RunsOK' /\ StoredOnce' /\ \A j \in DOMAIN event : event'[j] = event[j] \/ event[j] = "buffered"
  <2>1. pass.at = "flush" /\ i \in pass.flush /\ event[i] = "buffered" /\ pass.by = Deployment
    BY <1>0, <1>6 DEF Flush, StoredOnce
  <2>2. CASE event' = event /\ pass' = [[pass EXCEPT !.flush = {}] EXCEPT !.at = "read"]
    <3>1. /\ {"at", "by", "flush"} \subseteq DOMAIN pass' /\ pass'.at # "flush"
          /\ pass'.flush = {} /\ pass'.by = pass.by
      BY <1>0, <2>2 DEF StoredOnce
    <3>2. RunsOK'
      BY <1>0, <1>1, <1>3, <2>2 DEF RunsOK
    <3>3. StoredOnce'
      BY <1>0, <1>1, <2>2, <3>1 DEF StoredOnce
    <3> QED
      BY <2>2, <3>2, <3>3
  <2>3. CASE event' = [event EXCEPT ![i] = pass.by] /\ pass' = [pass EXCEPT !.flush = @ \ {i}]
    <3>1. pass.by \in Tenants
      BY <2>1 DEF Tenants
    <3>2. /\ event' \in Seq(Tenants \cup {"none", "buffered"}) /\ Len(event') = Len(event)
          /\ DOMAIN event' = DOMAIN event
          /\ event'[i] = pass.by /\ \A j \in DOMAIN event \ {i} : event'[j] = event[j]
      BY <1>0, <2>3, <3>1, EventMoves
    <3>3. RunsOK'
      BY <1>0, <1>1, <1>3, <3>2 DEF RunsOK
    <3>4. \A j \in DOMAIN runs : runs[j].at = "ended" => j # i /\ j \in DOMAIN event
      <4> SUFFICES ASSUME NEW j \in DOMAIN runs, runs[j].at = "ended" PROVE j # i /\ j \in DOMAIN event
        OBVIOUS
      <4>1. event[j] = "none" /\ j \in DOMAIN event
        BY <1>0, RunIs DEF StoredOnce
      <4> QED
        BY <2>1, <4>1
    <3>5. /\ {"at", "by", "flush"} \subseteq DOMAIN pass' /\ pass'.at = pass.at
          /\ pass'.flush = pass.flush \ {i} /\ pass'.by = pass.by
      BY <1>0, <2>3 DEF StoredOnce
    <3>6. StoredOnce'
      BY <1>0, <1>1, <3>2, <3>4, <3>5 DEF StoredOnce
    <3> QED
      BY <2>1, <3>2, <3>3, <3>6
  <2> QED
    BY <1>6, <2>2, <2>3 DEF Flush
<1>7. event' = event => RunsOK'
  BY <1>0, <1>1, <1>3 DEF RunsOK
<1> QED
  BY <1>4, <1>5, <1>6, <1>7 DEF Passing, Flushed, Distill

-----------------------------------------------------------------------------
(* Fixes.                                                                  *)

(* The last captured outcome of the connection on the subject is at p, and *)
(* it failed.                                                              *)
LastFailed(c, x, p) ==
  /\ p \in DOMAIN captured /\ IsOn(captured[p], c, x) /\ ~runs[captured[p]].ok
  /\ \A r \in DOMAIN captured : p < r => ~IsOn(captured[r], c, x)

(* The failure that waits is the last outcome, if that failed.             *)
Waiting ==
  \A c \in Conns, x \in Subjects :
    /\ failure[c][x] = 0 => \A p \in DOMAIN captured : ~LastFailed(c, x, p)
    /\ failure[c][x] # 0 => \E p \in DOMAIN captured : LastFailed(c, x, p) /\ captured[p] = failure[c][x]

(* There is only one last outcome.                                         *)
LEMMA OneLast ==
  ASSUME CapturedOK, NEW c, NEW x, NEW p, NEW q, LastFailed(c, x, p), LastFailed(c, x, q)
  PROVE  p = q
<1>1. p \in Nat /\ q \in Nat /\ p \in DOMAIN captured /\ q \in DOMAIN captured
  BY DEF LastFailed, CapturedOK
<1>2. ~(p < q) /\ ~(q < p)
  BY <1>1 DEF LastFailed
<1> QED
  BY <1>1, <1>2

(* What waits is what failed last.                                         *)
LEMMA WaitingIsLast ==
  ASSUME CapturedOK, Waiting, NEW c \in Conns, NEW x \in Subjects, NEW a \in DOMAIN runs, 0 \notin DOMAIN runs
  PROVE  (failure[c][x] = a) <=> \E p \in DOMAIN captured : LastFailed(c, x, p) /\ captured[p] = a
BY OneLast DEF Waiting

(* The step of a capture, taken apart.                                     *)
LEMMA CaptureMakes ==
  ASSUME Typed, NEW i \in DOMAIN runs, Capture(i)
  PROVE  /\ runs' \in Seq(Run) /\ Len(runs') = Len(runs) /\ DOMAIN runs' = DOMAIN runs /\ Grown
         /\ \A j \in DOMAIN runs : runs'[j].at = "ended" => runs[j].at = "ended"
         /\ UNCHANGED <<event, horizon, pass>>
         /\ failure' \in [Conns -> [Subjects -> Nat]]
         /\ \A d \in Conns, x \in Subjects : failure'[d][x] =
              IF d = runs[i].conn /\ x \in SubjectsOf[runs[i].st]
                THEN IF runs[i].ok THEN 0 ELSE i
                ELSE failure[d][x]
         /\ captured' = Append(captured, i)
         /\ fixes' = fixes \cup IF runs[i].ok THEN Fixes(runs[i].conn, runs[i].st, i) ELSE {}
<1>0. RunsOK /\ FailureOK
  BY DEF Typed
<1> DEFINE c == runs[i].conn
           new == StillFailing(c, runs[i].st, i, runs[i].ok)
<1>1. c \in Conns /\ i \in Nat
  BY <1>0, RunIs
<1>2. /\ runs' = [runs EXCEPT ![i].at = "captured"] /\ UNCHANGED <<event, horizon, pass>>
      /\ failure' = [failure EXCEPT ![c] = new]
      /\ captured' = Append(captured, i)
      /\ fixes' = fixes \cup IF runs[i].ok THEN Fixes(runs[i].conn, runs[i].st, i) ELSE {}
  BY DEF Capture
<1>3. /\ runs' \in Seq(Run) /\ Len(runs') = Len(runs) /\ DOMAIN runs' = DOMAIN runs /\ Grown
      /\ runs'[i].at = "captured" /\ \A j \in DOMAIN runs \ {i} : runs'[j] = runs[j]
  BY <1>0, <1>2, AtMoves
<1>4. /\ new \in [Subjects -> Nat]
      /\ \A x \in Subjects : new[x] =
           IF x \in SubjectsOf[runs[i].st] THEN IF runs[i].ok THEN 0 ELSE i ELSE failure[c][x]
  BY <1>0, <1>1 DEF StillFailing, FailureOK
<1>5. /\ failure' \in [Conns -> [Subjects -> Nat]] /\ failure'[c] = new
      /\ \A d \in Conns \ {c} : failure'[d] = failure[d]
  <2> HIDE DEF new
  <2> QED
    BY <1>0, <1>1, <1>2, <1>4 DEF FailureOK
<1>6. \A d \in Conns, x \in Subjects : failure'[d][x] =
        IF d = c /\ x \in SubjectsOf[runs[i].st] THEN IF runs[i].ok THEN 0 ELSE i ELSE failure[d][x]
  <2> HIDE DEF new
  <2> QED
    BY <1>4, <1>5
<1>7. \A j \in DOMAIN runs : runs'[j].at = "ended" => runs[j].at = "ended"
  BY <1>3
<1> QED
  BY <1>2, <1>3, <1>5, <1>6, <1>7

(* The fixes of a working form.                                            *)
LEMMA FixesGive ==
  ASSUME NEW c, NEW s, NEW i, NEW x, NEW a, NEW b
  PROVE  <<x, a, b>> \in Fixes(c, s, i) <=>
           b = i /\ x \in SubjectsOf[s] /\ failure[c][x] # 0 /\ a = failure[c][x] /\ runs[a].st # s
BY DEF Fixes

(* A capture leaves the types.                                             *)
LEMMA CaptureTyped ==
  ASSUME Typed, NEW i \in DOMAIN runs, Capture(i)
  PROVE  Typed'
<1>0. RunsOK /\ FailureOK /\ CapturedOK /\ StoredOnce
  BY DEF Typed
<1>1. /\ runs' \in Seq(Run) /\ Len(runs') = Len(runs) /\ DOMAIN runs' = DOMAIN runs /\ Grown
      /\ \A j \in DOMAIN runs : runs'[j].at = "ended" => runs[j].at = "ended"
      /\ UNCHANGED <<event, horizon, pass>>
      /\ failure' \in [Conns -> [Subjects -> Nat]]
      /\ \A d \in Conns, x \in Subjects : failure'[d][x] =
           IF d = runs[i].conn /\ x \in SubjectsOf[runs[i].st]
             THEN IF runs[i].ok THEN 0 ELSE i
             ELSE failure[d][x]
      /\ captured' = Append(captured, i)
      /\ fixes' = fixes \cup IF runs[i].ok THEN Fixes(runs[i].conn, runs[i].st, i) ELSE {}
  BY CaptureMakes
<1>2. Tenants' = Tenants
  BY DEF Tenants
<1>3. RunsOK'
  BY <1>0, <1>1, <1>2 DEF RunsOK
<1>4. FailureOK'
  <2> SUFFICES ASSUME NEW d \in Conns, NEW x \in Subjects, failure'[d][x] # 0
               PROVE  failure'[d][x] \in DOMAIN runs /\ runs[failure'[d][x]].conn = d
    BY <1>1 DEF FailureOK, Grown
  <2>1. CASE d = runs[i].conn /\ x \in SubjectsOf[runs[i].st]
    BY <1>1, <2>1
  <2>2. CASE ~(d = runs[i].conn /\ x \in SubjectsOf[runs[i].st])
    BY <1>0, <1>1, <2>2 DEF FailureOK
  <2> QED
    BY <2>1, <2>2
<1>5. CapturedOK'
  <2>1. captured' \in Seq(DOMAIN runs)
    BY <1>0, <1>1 DEF CapturedOK
  <2>2. ASSUME NEW f \in Fixes(runs[i].conn, runs[i].st, i)
        PROVE  f \in Subjects \X (DOMAIN runs) \X (DOMAIN runs)
    <3>1. PICK x \in SubjectsOf[runs[i].st] :
            failure[runs[i].conn][x] # 0 /\ f = <<x, failure[runs[i].conn][x], i>>
      BY <2>2 DEF Fixes
    <3>2. runs[i].conn \in Conns /\ runs[i].st \in Statements
      BY <1>0, RunIs
    <3>3. x \in Subjects
      BY <3>1, <3>2, LearningAssumption
    <3>4. failure[runs[i].conn][x] \in DOMAIN runs
      BY <1>0, <3>1, <3>2, <3>3 DEF FailureOK
    <3> QED
      BY <3>1, <3>3, <3>4
  <2>3. fixes' \subseteq Subjects \X (DOMAIN runs) \X (DOMAIN runs)
    BY <1>0, <1>1, <2>2 DEF CapturedOK
  <2> QED
    BY <1>1, <2>1, <2>3 DEF CapturedOK
<1>6. StoredOnce'
  BY <1>0, <1>1 DEF StoredOnce
<1> QED
  BY <1>3, <1>4, <1>5, <1>6 DEF Typed

(* Fixes stay exact while nothing is captured.                             *)
LEMMA FixesKept ==
  ASSUME Typed, Waiting, FixesAreExact, Grown, UNCHANGED <<failure, captured, fixes>>
  PROVE  Waiting' /\ FixesAreExact'
<1>0. CapturedOK /\ \A p \in DOMAIN captured : captured[p] \in DOMAIN runs
  BY DEF Typed, CapturedOK
<1>1. \A i \in DOMAIN runs : \A c, x : IsOn(i, c, x)' <=> IsOn(i, c, x)
  BY DEF Grown, IsOn
<1>2. \A p \in DOMAIN captured : \A c, x : LastFailed(c, x, p)' <=> LastFailed(c, x, p)
  BY <1>0, <1>1 DEF LastFailed, Grown
<1>3. Waiting'
  BY <1>2 DEF Waiting
<1>4. \A p, q \in DOMAIN captured : \A c, x : Neighbours(p, q, c, x)' <=> Neighbours(p, q, c, x)
  BY <1>0, <1>1 DEF Neighbours
<1>5. ASSUME NEW x \in Subjects, NEW i \in DOMAIN runs', NEW j \in DOMAIN runs'
      PROVE  <<x, i, j>> \in fixes' <=>
               \E c \in Conns, p, q \in DOMAIN captured' :
                 /\ captured'[p] = i /\ captured'[q] = j /\ Neighbours(p, q, c, x)'
                 /\ ~runs'[i].ok /\ runs'[j].ok /\ runs'[i].st # runs'[j].st
  <2>1. CASE i \in DOMAIN runs /\ j \in DOMAIN runs
    <3>1. <<x, i, j>> \in fixes <=>
               \E c \in Conns, p, q \in DOMAIN captured :
                 /\ captured[p] = i /\ captured[q] = j /\ Neighbours(p, q, c, x)
                 /\ ~runs[i].ok /\ runs[j].ok /\ runs[i].st # runs[j].st
      BY <2>1 DEF FixesAreExact
    <3>2. runs'[i].ok = runs[i].ok /\ runs'[j].ok = runs[j].ok
          /\ runs'[i].st = runs[i].st /\ runs'[j].st = runs[j].st
      BY <2>1 DEF Grown
    <3> QED
      BY <1>4, <3>1, <3>2
  <2>2. CASE ~(i \in DOMAIN runs /\ j \in DOMAIN runs)
    <3>1. <<x, i, j>> \notin fixes
      BY <1>0, <2>2 DEF CapturedOK
    <3> QED
      BY <1>0, <2>2, <3>1
  <2> QED
    BY <2>1, <2>2
<1>6. FixesAreExact'
  BY <1>5 DEF FixesAreExact
<1> QED
  BY <1>3, <1>6

(* A capture makes a fix of the failure that waits and of what it takes.   *)
LEMMA CaptureExact ==
  ASSUME Typed, Waiting, FixesAreExact, NEW i \in DOMAIN runs, Capture(i)
  PROVE  Waiting' /\ FixesAreExact'
<1>0. RunsOK /\ FailureOK /\ CapturedOK /\ \A p \in DOMAIN captured : captured[p] \in DOMAIN runs
  BY DEF Typed, CapturedOK
<1>a. PICK c : c = runs[i].conn
  OBVIOUS
<1>b. PICK s : s = runs[i].st
  OBVIOUS
<1>c. PICK l : l = Len(captured) + 1
  OBVIOUS
<1>1. c \in Conns /\ s \in Statements /\ i \in Nat \ {0} /\ 0 \notin DOMAIN runs /\ runs[i].ok \in BOOLEAN
  BY <1>0, <1>a, <1>b, RunIs
<1>2. /\ DOMAIN runs' = DOMAIN runs /\ Grown
      /\ \A d \in Conns, x \in Subjects : failure'[d][x] =
           IF d = c /\ x \in SubjectsOf[s] THEN IF runs[i].ok THEN 0 ELSE i ELSE failure[d][x]
      /\ captured' = Append(captured, i)
      /\ fixes' = fixes \cup IF runs[i].ok THEN Fixes(c, s, i) ELSE {}
  BY <1>a, <1>b, CaptureMakes
<1>3. /\ DOMAIN captured' = DOMAIN captured \cup {l} /\ captured'[l] = i
      /\ \A p \in DOMAIN captured : captured'[p] = captured[p] /\ p < l /\ p \in Nat
      /\ l \notin DOMAIN captured /\ l \in Nat
  BY <1>0, <1>2, <1>c DEF CapturedOK
<1>4. \A j \in DOMAIN runs : \A d, x : IsOn(j, d, x)' <=> IsOn(j, d, x)
  BY <1>2 DEF Grown, IsOn
<1>5. \A d, x : IsOn(i, d, x) <=> d = c /\ x \in SubjectsOf[s]
  BY <1>a, <1>b DEF IsOn
<1>6. ASSUME NEW d, NEW x, NEW p \in DOMAIN captured
      PROVE  LastFailed(d, x, p)' <=> LastFailed(d, x, p) /\ ~(d = c /\ x \in SubjectsOf[s])
  BY <1>0, <1>2, <1>3, <1>4, <1>5 DEF LastFailed, Grown
<1>7. ASSUME NEW d, NEW x
      PROVE  LastFailed(d, x, l)' <=> ~runs[i].ok /\ d = c /\ x \in SubjectsOf[s]
  <2>1. \A r \in DOMAIN captured' : ~(l < r)
    BY <1>3
  <2> QED
    BY <1>2, <1>3, <1>4, <1>5, <2>1 DEF LastFailed, Grown
<1>8. Waiting'
  <2> SUFFICES ASSUME NEW d \in Conns, NEW x \in Subjects
               PROVE  /\ failure'[d][x] = 0 => \A p \in DOMAIN captured' : ~LastFailed(d, x, p)'
                      /\ failure'[d][x] # 0 => \E p \in DOMAIN captured' : LastFailed(d, x, p)' /\ captured'[p] = failure'[d][x]
    BY DEF Waiting
  <2>1. CASE d = c /\ x \in SubjectsOf[s]
    BY <1>1, <1>2, <1>3, <1>6, <1>7, <2>1
  <2>2. CASE ~(d = c /\ x \in SubjectsOf[s])
    <3>1. failure'[d][x] = failure[d][x]
      BY <1>2, <2>2
    <3>2. /\ failure[d][x] = 0 => \A p \in DOMAIN captured : ~LastFailed(d, x, p)
          /\ failure[d][x] # 0 => \E p \in DOMAIN captured : LastFailed(d, x, p) /\ captured[p] = failure[d][x]
      BY DEF Waiting
    <3> QED
      BY <1>3, <1>6, <1>7, <2>2, <3>1, <3>2
  <2> QED
    BY <2>1, <2>2
<1>9. ASSUME NEW d, NEW x, NEW p \in DOMAIN captured
      PROVE  /\ \A q \in DOMAIN captured : Neighbours(p, q, d, x)' <=> Neighbours(p, q, d, x)
             /\ Neighbours(p, l, d, x)' <=>
                  /\ d = c /\ x \in SubjectsOf[s] /\ IsOn(captured[p], d, x)
                  /\ \A r \in DOMAIN captured : p < r => ~IsOn(captured[r], d, x)
  <2>1. ASSUME NEW q \in DOMAIN captured PROVE Neighbours(p, q, d, x)' <=> Neighbours(p, q, d, x)
    <3>1. \A r \in DOMAIN captured' : r < q => r \in DOMAIN captured
      BY <1>3
    <3> QED
      BY <1>0, <1>3, <1>4, <3>1 DEF Neighbours
  <2>2. Neighbours(p, l, d, x)' <=>
          /\ d = c /\ x \in SubjectsOf[s] /\ IsOn(captured[p], d, x)
          /\ \A r \in DOMAIN captured : p < r => ~IsOn(captured[r], d, x)
    BY <1>0, <1>3, <1>4, <1>5 DEF Neighbours
  <2> QED
    BY <2>1, <2>2
<1>10. ASSUME NEW q \in DOMAIN captured', NEW d, NEW x PROVE ~Neighbours(l, q, d, x)'
  BY <1>3 DEF Neighbours
<1>11. ASSUME NEW x \in Subjects, NEW a \in DOMAIN runs, NEW b \in DOMAIN runs
       PROVE  <<x, a, b>> \in fixes' <=>
               \E d \in Conns, p, q \in DOMAIN captured' :
                 /\ captured'[p] = a /\ captured'[q] = b /\ Neighbours(p, q, d, x)'
                 /\ ~runs'[a].ok /\ runs'[b].ok /\ runs'[a].st # runs'[b].st
  <2> DEFINE Old == \E d \in Conns, p, q \in DOMAIN captured :
                      /\ captured[p] = a /\ captured[q] = b /\ Neighbours(p, q, d, x)
                      /\ ~runs[a].ok /\ runs[b].ok /\ runs[a].st # runs[b].st
             New == /\ b = i /\ runs[i].ok /\ x \in SubjectsOf[s] /\ runs[a].st # s
                    /\ \E p \in DOMAIN captured : LastFailed(c, x, p) /\ captured[p] = a
  <2>1. runs'[a].ok = runs[a].ok /\ runs'[b].ok = runs[b].ok
        /\ runs'[a].st = runs[a].st /\ runs'[b].st = runs[b].st
    BY <1>2 DEF Grown
  <2>2. <<x, a, b>> \in fixes <=> Old
    BY DEF FixesAreExact
  <2>3. (<<x, a, b>> \in IF runs[i].ok THEN Fixes(c, s, i) ELSE {}) <=> New
    <3>1. (failure[c][x] = a) <=> \E p \in DOMAIN captured : LastFailed(c, x, p) /\ captured[p] = a
      BY <1>0, <1>1, WaitingIsLast
    <3>2. a # 0
      BY <1>1
    <3> QED
      BY <3>1, <3>2, FixesGive
  <2>4. <<x, a, b>> \in fixes' <=> Old \/ New
    BY <1>2, <2>2, <2>3
  <2>5. ASSUME Old \/ New
        PROVE  \E d \in Conns, p, q \in DOMAIN captured' :
                 /\ captured'[p] = a /\ captured'[q] = b /\ Neighbours(p, q, d, x)'
                 /\ ~runs'[a].ok /\ runs'[b].ok /\ runs'[a].st # runs'[b].st
    <3>1. CASE Old
      BY <1>3, <1>9, <2>1, <3>1
    <3>2. CASE New
      <4>1. PICK p \in DOMAIN captured : LastFailed(c, x, p) /\ captured[p] = a
        BY <3>2
      <4>2. Neighbours(p, l, c, x)' /\ ~runs[a].ok
        BY <1>9, <3>2, <4>1 DEF LastFailed
      <4>3. captured'[p] = a /\ captured'[l] = b /\ p \in DOMAIN captured' /\ l \in DOMAIN captured'
        BY <1>3, <3>2, <4>1
      <4>4. ~runs'[a].ok /\ runs'[b].ok /\ runs'[a].st # runs'[b].st
        BY <1>b, <2>1, <3>2, <4>2
      <4> QED
        BY <1>1, <4>2, <4>3, <4>4
    <3> QED
      BY <2>5, <3>1, <3>2
  <2>6. ASSUME NEW d \in Conns, NEW p \in DOMAIN captured', NEW q \in DOMAIN captured',
               captured'[p] = a, captured'[q] = b, Neighbours(p, q, d, x)',
               ~runs'[a].ok, runs'[b].ok, runs'[a].st # runs'[b].st
        PROVE  Old \/ New
    <3>1. p \in DOMAIN captured
      BY <1>3, <1>10, <2>6
    <3>2. CASE q \in DOMAIN captured
      BY <1>3, <1>9, <2>1, <2>6, <3>1, <3>2
    <3>3. CASE q = l
      <4>1. d = c /\ x \in SubjectsOf[s] /\ IsOn(captured[p], d, x)
            /\ \A r \in DOMAIN captured : p < r => ~IsOn(captured[r], d, x)
        BY <1>9, <2>6, <3>1, <3>3
      <4>2. captured[p] = a /\ b = i /\ runs[i].ok /\ ~runs[a].ok /\ runs[a].st # s
        BY <1>3, <1>b, <2>1, <2>6, <3>1, <3>3
      <4>3. LastFailed(c, x, p)
        BY <3>1, <4>1, <4>2 DEF LastFailed
      <4> QED
        BY <3>1, <4>1, <4>2, <4>3
    <3> QED
      BY <1>3, <3>2, <3>3
  <2> HIDE DEF Old, New
  <2> QED
    BY <2>4, <2>5, <2>6
<1>12. FixesAreExact'
  BY <1>2, <1>11 DEF FixesAreExact
<1> QED
  BY <1>8, <1>12

-----------------------------------------------------------------------------
(* Notes.                                                                  *)

(* What NotesHaveReasons says of a note.                                   *)
Founded(n) ==
  /\ \A k \in DOMAIN n.says : \E i \in Own(n.owner) : Text(i) = n.says[k]
  /\ n.kind = "proven" =>
       \E s \in SUBSET Own(n.owner) :
         /\ \A i \in s : runs[i].ok /\ Text(i) = n.says[1]
         /\ Cardinality(s) >= MinSessions
         /\ \A i, j \in s : i # j => Apart(i, j)
  /\ n.kind = "caution" =>
       Cardinality({i \in Own(n.owner) : ~runs[i].ok /\ n.subject \in SubjectsOf[Text(i)]}) >= MinFailures
  /\ n.proof => \E i \in Own(n.owner) : runs[i].ok /\ Text(i) = n.says[Len(n.says)]

NotesOK == \A n \in notes : n.owner \in Tenants \cup {None} /\ Founded(n)

(* An event that is stored is not stored again.                            *)
EventsStay == \A j \in DOMAIN event : event'[j] = event[j] \/ event[j] \in {"none", "buffered"}

(* The outcomes are finitely many.                                         *)
LEMMA RunsFinite ==
  ASSUME RunsOK, NEW s \in SUBSET DOMAIN runs
  PROVE  IsFiniteSet(s) /\ Cardinality(s) \in Nat
<1>1. DOMAIN runs = 1..Len(runs) /\ Len(runs) \in Nat
  BY DEF RunsOK
<1>2. IsFiniteSet(DOMAIN runs)
  BY <1>1, FS_Interval
<1>3. IsFiniteSet(s)
  BY <1>2, FS_Subset
<1> QED
  BY <1>3, FS_CardinalityType

(* What is a tenant's own stays its own.                                   *)
LEMMA OwnGrows ==
  ASSUME RunsOK, Grown, EventsStay, NEW t \in Tenants \cup {None}
  PROVE  /\ Own(t) \subseteq Own(t)' /\ Own(t) \subseteq DOMAIN runs
         /\ \A i \in DOMAIN runs : Text(i)' = Text(i)
<1>1. Own(t) \subseteq DOMAIN runs
  BY DEF Own
<1>2. \A i \in DOMAIN runs : Text(i)' = Text(i) /\ TenantOfRun(i)' = TenantOfRun(i)
  BY DEF Grown, Text, TenantOfRun
<1>3. ASSUME NEW i \in Own(t) PROVE i \in Own(t)'
  <2>1. i \in DOMAIN runs /\ i \in DOMAIN runs' /\ i \in DOMAIN event /\ (TenantOfRun(i) = t \/ event[i] = t)
    BY RunIs DEF Own, Grown
  <2>2. event[i] = t => event'[i] = t
    BY <2>1, TenantsApart DEF EventsStay
  <2> QED
    BY <1>2, <2>1, <2>2 DEF Own
<1> QED
  BY <1>1, <1>2, <1>3

(* A note keeps its reasons.                                               *)
LEMMA FoundedStays ==
  ASSUME RunsOK, RunsOK', Grown, EventsStay, NEW n, n.owner \in Tenants \cup {None}, Founded(n)
  PROVE  Founded(n)'
<1>1. /\ Own(n.owner) \subseteq Own(n.owner)' /\ Own(n.owner) \subseteq DOMAIN runs
      /\ \A i \in DOMAIN runs : Text(i)' = Text(i)
  BY OwnGrows
<1>2. \A i \in DOMAIN runs : /\ runs'[i].ok = runs[i].ok /\ runs'[i].async = runs[i].async
                             /\ runs'[i].conn = runs[i].conn
  BY DEF Grown
<1>3. \A i, j \in DOMAIN runs : Apart(i, j) => Apart(i, j)'
  BY <1>2 DEF Apart
<1>4. \A k \in DOMAIN n.says : \E i \in Own(n.owner)' : Text(i)' = n.says[k]
  BY <1>1 DEF Founded
<1>5. ASSUME n.kind = "proven"
      PROVE  \E s \in SUBSET Own(n.owner)' :
               /\ \A i \in s : runs'[i].ok /\ Text(i)' = n.says[1]
               /\ Cardinality(s) >= MinSessions
               /\ \A i, j \in s : i # j => Apart(i, j)'
  <2>1. PICK s \in SUBSET Own(n.owner) :
               /\ \A i \in s : runs[i].ok /\ Text(i) = n.says[1]
               /\ Cardinality(s) >= MinSessions
               /\ \A i, j \in s : i # j => Apart(i, j)
    BY <1>5 DEF Founded
  <2>2. s \in SUBSET Own(n.owner)' /\ s \subseteq DOMAIN runs
    BY <1>1
  <2>3. \A i \in s : runs'[i].ok /\ Text(i)' = n.says[1]
    BY <1>1, <1>2, <2>1, <2>2
  <2>4. \A i, j \in s : i # j => Apart(i, j)'
    BY <1>3, <2>1, <2>2
  <2> QED
    BY <2>1, <2>2, <2>3, <2>4
<1>6. ASSUME n.kind = "caution"
      PROVE  Cardinality({i \in Own(n.owner)' : ~runs'[i].ok /\ n.subject \in SubjectsOf[Text(i)']}) >= MinFailures
  <2> DEFINE A == {i \in Own(n.owner) : ~runs[i].ok /\ n.subject \in SubjectsOf[Text(i)]}
             B == {i \in Own(n.owner)' : ~runs'[i].ok /\ n.subject \in SubjectsOf[Text(i)']}
  <2>1. A \subseteq B /\ B \subseteq DOMAIN runs' /\ A \subseteq DOMAIN runs
    BY <1>1, <1>2 DEF Own
  <2>2. IsFiniteSet(B) /\ Cardinality(B) \in Nat
    <3>1. ASSUME NEW s \in SUBSET DOMAIN runs' PROVE IsFiniteSet(s) /\ Cardinality(s) \in Nat
      <4>1. DOMAIN runs' = 1..Len(runs') /\ Len(runs') \in Nat
        BY DEF RunsOK
      <4>2. IsFiniteSet(DOMAIN runs')
        BY <4>1, FS_Interval
      <4>3. IsFiniteSet(s)
        BY <4>2, FS_Subset
      <4> QED
        BY <4>3, FS_CardinalityType
    <3> HIDE DEF B
    <3> QED
      BY <2>1, <3>1
  <2>3. Cardinality(A) >= MinFailures
    BY <1>6 DEF Founded
  <2>4. Cardinality(A) \in Nat
    <3> HIDE DEF A
    <3> QED
      BY <2>1, RunsFinite
  <2>5. Cardinality(A) <= Cardinality(B)
    <3> HIDE DEF A, B
    <3> QED
      BY <2>1, <2>2, FS_Subset
  <2>6. MinFailures \in Nat
    BY LearningAssumption
  <2> HIDE DEF A
  <2>7. Cardinality(B) >= MinFailures
    <3> HIDE DEF B
    <3> QED
      BY <2>2, <2>3, <2>4, <2>5, <2>6
  <2> QED
    BY <2>7
<1>7. n.proof => \E i \in Own(n.owner)' : runs'[i].ok /\ Text(i)' = n.says[Len(n.says)]
  BY <1>1, <1>2 DEF Founded
<1> QED
  BY <1>4, <1>5, <1>6, <1>7 DEF Founded

(* The notes of a step are the ones there were and those it writes.        *)
LEMMA NotesStay ==
  ASSUME RunsOK, RunsOK', Grown, EventsStay, NotesOK, NEW new, notes' \subseteq notes \cup new,
         \A n \in new : n.owner \in Tenants \cup {None} /\ Founded(n)
  PROVE  NotesOK'
<1>1. Tenants' = Tenants
  BY DEF Tenants
<1>2. ASSUME NEW n \in notes' PROVE n.owner \in Tenants \cup {None} /\ Founded(n)'
  <2>1. n.owner \in Tenants \cup {None} /\ Founded(n)
    BY DEF NotesOK
  <2> QED
    BY <2>1, FoundedStays
<1> QED
  BY <1>1, <1>2 DEF NotesOK

(* The notes of a step that writes none.                                   *)
LEMMA NotesSame ==
  ASSUME RunsOK, RunsOK', Grown, EventsStay, NotesOK, notes' = notes
  PROVE  NotesOK'
<1>1. PICK none : none = {}
  OBVIOUS
<1>2. notes' \subseteq notes \cup none /\ \A n \in none : n.owner \in Tenants \cup {None} /\ Founded(n)
  BY <1>1
<1> QED
  BY <1>2, NotesStay

(* memory_write, of several notes: nothing else is written.                *)
LEMMA WritesOnly ==
  ASSUME NEW new, WriteNotes(new)
  PROVE  notes' \subseteq notes \cup new
BY DEF WriteNotes

(* The notes of a working form name two statements of the connection.      *)
LEMMA FixNoteFounded ==
  ASSUME Typed, NEW i \in DOMAIN runs, runs[i].ok,
         NEW f \in Fixes(runs[i].conn, runs[i].st, i)
  PROVE  LET n == FixNote(TenantOf[runs[i].conn], f) IN n.owner \in Tenants \cup {None} /\ Founded(n)
<1>0. RunsOK /\ FailureOK
  BY DEF Typed
<1> DEFINE c == runs[i].conn
           t == TenantOf[c]
           n == FixNote(t, f)
<1>1. c \in Conns /\ runs[i].st \in Statements /\ t \in Tenants
  BY <1>0, RunIs DEF TenantOfRun
<1>2. PICK x \in SubjectsOf[runs[i].st] : failure[c][x] # 0 /\ f = <<x, failure[c][x], i>>
  BY DEF Fixes
<1>3. x \in Subjects
  BY <1>1, LearningAssumption
<1>4. failure[c][x] \in DOMAIN runs /\ runs[failure[c][x]].conn = c
  BY <1>0, <1>1, <1>2, <1>3 DEF FailureOK
<1>5. i \in Own(t) /\ failure[c][x] \in Own(t)
  BY <1>4 DEF Own, TenantOfRun
<1>6. /\ n.owner = t /\ n.kind = "fix" /\ n.says = <<Text(failure[c][x]), Text(i)>>
  BY <1>2 DEF FixNote
<1> HIDE DEF n, t
<1>7. \A k \in DOMAIN n.says : \E j \in Own(n.owner) : Text(j) = n.says[k]
  BY <1>5, <1>6
<1>8. runs[i].ok /\ Text(i) = n.says[Len(n.says)]
  BY <1>6
<1>9. Founded(n)
  BY <1>5, <1>6, <1>7, <1>8 DEF Founded
<1> QED
  BY <1>1, <1>6, <1>9 DEF n, t

(* What a client of a tenant reads is the tenant's own.                    *)
LEMMA ReadIsOwn ==
  ASSUME RunsOK, NEW t
  PROVE  Readable(t) \subseteq Own(t) /\ Readable(t) \subseteq DOMAIN runs
BY DEF Readable, Own, RunsOK

(* As many outcomes as there are sessions among some, each of another.     *)
LEMMA Representatives ==
  ASSUME RunsOK, NEW w \in SUBSET DOMAIN runs
  PROVE  /\ Cardinality({SessionOf(i) : i \in w}) \in Nat
         /\ \E s \in SUBSET w :
              /\ Cardinality(s) = Cardinality({SessionOf(i) : i \in w})
              /\ \A i, j \in s : i # j => SessionOf(i) # SessionOf(j)
<1> DEFINE z == {SessionOf(i) : i \in w}
           f == [i \in w |-> SessionOf(i)]
           g == [y \in z |-> CHOOSE i \in w : SessionOf(i) = y]
           s == {g[y] : y \in z}
<1>1. IsFiniteSet(w)
  BY RunsFinite
<1>2. f \in Surjection(w, z)
  BY DEF Surjection
<1>3. IsFiniteSet(z) /\ Cardinality(z) \in Nat
  <2>1. IsFiniteSet(z)
    <3> HIDE DEF f, z
    <3> QED
      BY <1>1, <1>2, FS_Surjection
  <2> HIDE DEF z
  <2> QED
    BY <2>1, FS_CardinalityType
<1>4. \A y \in z : g[y] \in w /\ SessionOf(g[y]) = y
  <2> SUFFICES ASSUME NEW y \in z PROVE g[y] \in w /\ SessionOf(g[y]) = y
    OBVIOUS
  <2>1. \E i \in w : SessionOf(i) = y
    OBVIOUS
  <2>2. g[y] = CHOOSE i \in w : SessionOf(i) = y
    OBVIOUS
  <2> QED
    BY <2>1, <2>2
<1>5. g \in [z -> s] /\ s \subseteq w
  BY <1>4
<1> HIDE DEF z, f, g
<1>6. /\ \A a, b \in z : g[a] = g[b] => a = b
      /\ \A u \in s : \E a \in z : g[a] = u
  BY <1>4
<1>7. \A u, v \in s : u # v => SessionOf(u) # SessionOf(v)
  BY <1>4, <1>6
<1> HIDE DEF s
<1>8. ExistsBijection(z, s)
  <2>1. g \in Injection(z, s)
    BY <1>5, <1>6 DEF Injection, IsInjective
  <2>2. g \in Surjection(z, s)
    BY <1>5, <1>6 DEF Surjection
  <2> QED
    <3>1. g \in Bijection(z, s)
      BY <2>1, <2>2 DEF Bijection
    <3> QED
      BY <3>1 DEF ExistsBijection
<1>9. Cardinality(s) = Cardinality(z)
  BY <1>3, <1>8, FS_Bijection
<1> QED
  BY <1>3, <1>5, <1>7, <1>9 DEF z

(* Outcomes of different sessions come from different sides.               *)
LEMMA SessionsApart ==
  ASSUME RunsOK, NEW i \in DOMAIN runs, NEW j \in DOMAIN runs, SessionOf(i) # SessionOf(j)
  PROVE  Apart(i, j)
<1>1. runs[i].async \in BOOLEAN /\ runs[j].async \in BOOLEAN
  BY RunIs
<1> QED
  BY <1>1 DEF SessionOf, Apart

(* What the events of a tenant prove, it did from several sides.           *)
LEMMA ProvenFounded ==
  ASSUME RunsOK, NEW t, NEW n \in Proven(t, Readable(t))
  PROVE  n.owner = t /\ Founded(n)
<1> DEFINE seen == Readable(t)
<1>1. PICK p \in Subjects \X Mentioned(seen) :
        /\ Cardinality({SessionOf(i) : i \in Worked(On(seen, p[1], p[2]))}) >= MinSessions
        /\ n = Learned(t, "proven", p[1], <<p[2]>>, TRUE)
  BY DEF Proven
<1> DEFINE w == Worked(On(seen, p[1], p[2]))
<1>2. seen \subseteq Own(t) /\ seen \subseteq DOMAIN runs
  BY ReadIsOwn
<1>3. /\ w \subseteq Own(t) /\ w \subseteq DOMAIN runs
      /\ \A i \in w : runs[i].ok /\ Text(i) = p[2]
  <2> HIDE DEF seen
  <2> QED
    BY <1>2 DEF Worked, On
<1>4. n.owner = t /\ n.kind = "proven" /\ n.says = <<p[2]>>
  BY <1>1 DEF Learned
<1> HIDE DEF w, seen
<1>5. Cardinality({SessionOf(i) : i \in w}) >= MinSessions
  BY <1>1 DEF w
<1>6. PICK s \in SUBSET w :
        /\ Cardinality(s) = Cardinality({SessionOf(i) : i \in w})
        /\ \A i, j \in s : i # j => SessionOf(i) # SessionOf(j)
  BY <1>3, Representatives
<1>7. \A i, j \in s : i # j => Apart(i, j)
  BY <1>3, <1>6, SessionsApart
<1>8. Cardinality(s) >= MinSessions
  BY <1>5, <1>6
<1>9. PICK i \in w : TRUE
  <2>1. MinSessions \in Nat \ {0}
    BY LearningAssumption
  <2>2. s # {}
    BY <1>8, <2>1, FS_EmptySet
  <2> QED
    BY <2>2
<1>10. \A k \in DOMAIN n.says : \E j \in Own(n.owner) : Text(j) = n.says[k]
  BY <1>3, <1>4, <1>9
<1>11. i \in Own(n.owner) /\ runs[i].ok /\ Text(i) = n.says[Len(n.says)]
  BY <1>3, <1>4, <1>9
<1>12. s \in SUBSET Own(n.owner) /\ \A j \in s : runs[j].ok /\ Text(j) = n.says[1]
  BY <1>3, <1>4
<1>13. Founded(n)
  BY <1>4, <1>7, <1>8, <1>10, <1>11, <1>12 DEF Founded
<1> QED
  BY <1>4, <1>13

(* A warning comes of the tenant's failures.                               *)
LEMMA CautionFounded ==
  ASSUME RunsOK, NEW t, NEW n \in Cautions(t, Readable(t))
  PROVE  n.owner = t /\ Founded(n)
<1> DEFINE seen == Readable(t)
<1>1. PICK x \in Subjects :
        /\ Cardinality(Failed(OnSubject(seen, x))) >= MinFailures
        /\ n = Learned(t, "caution", x, <<>>, FALSE)
  BY DEF Cautions
<1> DEFINE a == Failed(OnSubject(seen, x))
           b == {i \in Own(t) : ~runs[i].ok /\ x \in SubjectsOf[Text(i)]}
<1>2. seen \subseteq Own(t) /\ seen \subseteq DOMAIN runs
  BY ReadIsOwn
<1>3. a \subseteq b /\ b \subseteq DOMAIN runs
  <2> HIDE DEF seen
  <2> QED
    BY <1>2 DEF Failed, OnSubject, Own
<1>4. n.owner = t /\ n.kind = "caution" /\ n.says = <<>> /\ n.subject = x /\ ~n.proof
  BY <1>1 DEF Learned
<1>5. Cardinality(a) >= MinFailures
  BY <1>1
<1>6. Cardinality(b) >= MinFailures
  <2> HIDE DEF a, b
  <2>1. a \in SUBSET DOMAIN runs /\ b \in SUBSET DOMAIN runs
    BY <1>3
  <2>2. IsFiniteSet(b) /\ Cardinality(b) \in Nat /\ Cardinality(a) \in Nat
    BY <2>1, RunsFinite
  <2>3. Cardinality(a) <= Cardinality(b)
    BY <1>3, <2>2, FS_Subset
  <2> QED
    BY <1>5, <2>2, <2>3, LearningAssumption
<1>7. DOMAIN n.says = {}
  BY <1>4
<1>8. Founded(n)
  BY <1>4, <1>6, <1>7 DEF Founded
<1> QED
  BY <1>4, <1>8

(* A slow query is one of the tenant's.                                    *)
LEMMA SlowFounded ==
  ASSUME RunsOK, NEW t, NEW n \in Slow(t, Readable(t))
  PROVE  n.owner = t /\ Founded(n)
<1> DEFINE seen == Readable(t)
<1>1. PICK p \in Subjects \X Mentioned(seen) : n = Learned(t, "slow", p[1], <<p[2]>>, FALSE)
  BY DEF Slow
<1>2. n.owner = t /\ n.kind = "slow" /\ n.says = <<p[2]>> /\ ~n.proof
  BY <1>1 DEF Learned
<1>3. PICK i \in seen : p[2] = Text(i)
  BY DEF Mentioned
<1>4. i \in Own(t)
  BY ReadIsOwn
<1>5. \A k \in DOMAIN n.says : \E j \in Own(n.owner) : Text(j) = n.says[k]
  BY <1>2, <1>3, <1>4
<1> QED
  BY <1>2, <1>5 DEF Founded

(* Every step leaves the types, and every note its reasons.                *)
LEMMA StepLearning ==
  Typed /\ Waiting /\ FixesAreExact /\ NotesOK /\ [Next]_vars
    => Typed' /\ Waiting' /\ FixesAreExact' /\ NotesOK'
<1> SUFFICES ASSUME Typed, Waiting, FixesAreExact, NotesOK, [Next]_vars
             PROVE  Typed' /\ Waiting' /\ FixesAreExact' /\ NotesOK'
  OBVIOUS
<1>0. RunsOK
  BY DEF Typed
<1>1. CASE UNCHANGED vars
  <2>1. UNCHANGED <<runs, event, failure, pass, captured, fixes, notes>> /\ Tenants' = Tenants
    BY <1>1 DEF vars, Tenants
  <2>2. Typed'
    BY <2>1 DEF Typed, RunsOK, FailureOK, CapturedOK, StoredOnce
  <2>3. Grown /\ EventsStay /\ RunsOK'
    BY <2>1, <2>2 DEF Grown, EventsStay, Typed
  <2>4. NotesOK'
    BY <1>0, <2>1, <2>3, NotesSame
  <2> QED
    BY <2>1, <2>2, <2>3, <2>4, FixesKept
<1>2. ASSUME NEW c \in Conns, NEW s \in Statements, NEW o \in Outcomes[<<c, s>>], Ends(c, s, o)
      PROVE  Typed' /\ Waiting' /\ FixesAreExact' /\ NotesOK'
  <2>1. /\ RunsOK' /\ DOMAIN runs' = DOMAIN runs \cup {Len(runs) + 1} /\ Grown
        /\ \A i \in DOMAIN runs : runs'[i] = runs[i] /\ event'[i] = event[i]
        /\ event'[Len(runs) + 1] = "none"
        /\ UNCHANGED <<horizon, failure, notes, pass, faults, captured, fixes>>
    BY <1>0, <1>2, EndsMakes
  <2>2. DOMAIN event = DOMAIN runs /\ DOMAIN event' = DOMAIN runs'
    BY <1>0, <2>1 DEF RunsOK
  <2>3. FailureOK' /\ CapturedOK'
    BY <2>1, WaitingKept, CapturedKept DEF Typed
  <2>4. StoredOnce'
    BY <2>1, <2>2 DEF Typed, StoredOnce
  <2>5. EventsStay
    BY <2>1, <2>2 DEF EventsStay
  <2>6. NotesOK'
    BY <1>0, <2>1, <2>5, NotesSame
  <2> QED
    BY <2>1, <2>3, <2>4, <2>6, FixesKept DEF Typed
<1>3. ASSUME NEW i \in DOMAIN runs, RecordEvent(i)
      PROVE  Typed' /\ Waiting' /\ FixesAreExact' /\ NotesOK'
  <2>1. /\ Typed' /\ Grown /\ UNCHANGED <<horizon, failure, notes, pass, captured, fixes>>
        /\ \A j \in DOMAIN event : event'[j] = event[j] \/ event[j] = "none"
    BY <1>3, RecordTyped
  <2>2. EventsStay /\ RunsOK'
    BY <2>1 DEF EventsStay, Typed
  <2>3. NotesOK'
    BY <1>0, <2>1, <2>2, NotesSame
  <2> QED
    BY <2>1, <2>3, FixesKept
<1>4. ASSUME NEW i \in DOMAIN runs, Capture(i)
      PROVE  Typed' /\ Waiting' /\ FixesAreExact' /\ NotesOK'
  <2>1. Typed' /\ RunsOK'
    BY <1>4, CaptureTyped DEF Typed
  <2>2. Grown /\ event' = event
    BY <1>4, CaptureMakes
  <2>3. EventsStay
    BY <2>2 DEF EventsStay
  <2> DEFINE found == IF runs[i].ok THEN Fixes(runs[i].conn, runs[i].st, i) ELSE {}
             new   == {FixNote(TenantOf[runs[i].conn], f) : f \in found}
  <2>4. WriteNotes(new)
    BY <1>4 DEF Capture
  <2>5. ASSUME NEW n \in new PROVE n.owner \in Tenants \cup {None} /\ Founded(n)
    <3>1. PICK f \in found : n = FixNote(TenantOf[runs[i].conn], f)
      OBVIOUS
    <3>2. runs[i].ok /\ f \in Fixes(runs[i].conn, runs[i].st, i)
      BY <3>1
    <3> QED
      BY <3>1, <3>2, FixNoteFounded
  <2> HIDE DEF new
  <2>6. notes' \subseteq notes \cup new
    BY <2>4, WritesOnly
  <2>7. NotesOK'
    BY <1>0, <2>1, <2>2, <2>3, <2>5, <2>6, NotesStay
  <2> QED
    BY <1>4, <2>1, <2>7, CaptureExact
<1>5. CASE Age
  <2>1. UNCHANGED <<runs, event, failure, pass, captured, fixes, notes>> /\ Tenants' = Tenants
    BY <1>5 DEF Age, Tenants
  <2>2. Typed'
    BY <2>1 DEF Typed, RunsOK, FailureOK, CapturedOK, StoredOnce
  <2>3. Grown /\ EventsStay /\ RunsOK'
    BY <2>1, <2>2 DEF Grown, EventsStay, Typed
  <2>4. NotesOK'
    BY <1>0, <2>1, <2>3, NotesSame
  <2> QED
    BY <2>1, <2>2, <2>3, <2>4, FixesKept
<1>6. CASE (\E caller \in Callers : StartPass(caller)) \/ Passing
  <2>1. /\ Typed' /\ Grown /\ UNCHANGED <<runs, failure, captured, fixes>>
        /\ \A j \in DOMAIN event : event'[j] = event[j] \/ event[j] = "buffered"
    BY <1>6, PassTyped
  <2>2. EventsStay /\ RunsOK'
    BY <2>1 DEF EventsStay, Typed
  <2> DEFINE new == Proven(pass.by, Readable(pass.by)) \cup Cautions(pass.by, Readable(pass.by))
                      \cup Slow(pass.by, Readable(pass.by))
  <2>3. notes' \subseteq notes \cup new
    <3>1. CASE notes' = notes
      BY <3>1
    <3>2. CASE WriteNotes(new)
      <4> HIDE DEF new
      <4> QED
        BY <3>2, WritesOnly
    <3> QED
      BY <1>6, <3>1, <3>2 DEF StartPass, Passing, Flush, Flushed, Distill
  <2>4. pass.by \in Tenants \cup {None}
    BY DEF Typed, StoredOnce, Tenants
  <2>5. \A n \in new : n.owner \in Tenants \cup {None} /\ Founded(n)
    BY <1>0, <2>4, ProvenFounded, CautionFounded, SlowFounded
  <2> HIDE DEF new
  <2>6. NotesOK'
    BY <1>0, <2>1, <2>2, <2>3, <2>5, NotesStay
  <2> QED
    BY <2>1, <2>6, FixesKept
<1> QED
  BY <1>1, <1>2, <1>3, <1>4, <1>5, <1>6 DEF Next, Capturing

(* At the start there are no outcomes, fixes or notes.                     *)
LEMMA InitLearning == Init => Typed /\ Waiting /\ FixesAreExact /\ NotesOK
<1> SUFFICES ASSUME Init PROVE Waiting /\ FixesAreExact /\ NotesOK
  BY InitTyped
<1>1. DOMAIN runs = {} /\ DOMAIN captured = {} /\ notes = {}
      /\ \A c \in Conns, x \in Subjects : failure[c][x] = 0
  BY DEF Init
<1> QED
  BY <1>1 DEF Waiting, FixesAreExact, NotesOK

(* Capture makes a fix of exactly the pairs it is for, a failure and the   *)
(* working form that follows it on the same connection and dataset, for    *)
(* any connections, statements and overlapping calls (memory_capture.py).  *)
THEOREM FixesStayExact == Spec => []FixesAreExact
BY InitLearning, StepLearning, PTL DEF Spec

(* Every note has its reasons in what its own tenant did: the texts it     *)
(* names, the sessions that prove it and the failures it warns of, for any *)
(* thresholds, tenants and passes (distill.py, memory_capture.py).         *)
THEOREM NotesAreFounded == Spec => []NotesHaveReasons
<1>1. NotesOK => NotesHaveReasons
  BY DEF NotesOK, Founded, NotesHaveReasons
<1> QED
  BY <1>1, InitLearning, StepLearning, PTL DEF Spec
=============================================================================
