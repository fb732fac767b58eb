----------------------------- MODULE EventBuffer -----------------------------
(***************************************************************************)
(* The session events of tools/memory_capture.py: each goes to the cluster *)
(* or, when the cluster does not take it, to the gateway's JSONL buffer,   *)
(* within a budget; the maintenance pass replays the buffers.  Requests    *)
(* fail or are retried as in cc_client.py; recording goes on in all the    *)
(* gateways while one of them replays.                                     *)
(***************************************************************************)
EXTENDS Naturals, Sequences, FiniteSets, SequencesExt

CONSTANTS
  Events,     \* query outcomes to record
  Files,      \* buffer files, one per gateway process
  Writers,    \* those of the gateways that may write to the store
  Budget,     \* session_log_max_bytes, in events
  Recorders,  \* bound of the model: events being recorded at once
  MaxLosses,  \* bound of the model: requests that fail or are retried
  NoFile

ASSUME BufferAssumption ==
  /\ Budget \in Nat \ {0} /\ Recorders \in Nat \ {0} /\ MaxLosses \in Nat
  /\ NoFile \notin Files /\ Writers \subseteq Files

VARIABLES
  stored,    \* the rows of AgentMemory.SessionEvent
  file,      \* file[f]: the lines of a buffer; no file and an empty one are alike
  rec,       \* rec[e]: how far the recording of e is, and in which gateway
  replay,    \* the replay: files left, the one being replayed, its lines still to go
  losses,    \* requests that failed or were retried so far
  appended,  \* history: events that reached a buffer
  behind,    \* history: those appended to a file after the replay had read it
  met        \* history: the replay has met an id that exists

bufferVars == <<stored, file, rec, replay, losses, appended, behind, met>>

NoReplay == [todo |-> {}, path |-> NoFile, lines |-> <<>>, again |-> FALSE]

BufferInit ==
  /\ stored = {} /\ file = [f \in Files |-> <<>>]
  /\ rec = [e \in Events |-> [at |-> "new", path |-> NoFile]]
  /\ replay = NoReplay
  /\ losses = 0
  /\ appended = {} /\ behind = {} /\ met = FALSE

-----------------------------------------------------------------------------
(* One INSERT of an event: an existing id is an error; a reset connection  *)
(* is tried once more; any other failure is final.                         *)

Lost == losses < MaxLosses /\ losses' = losses + 1

Lands(e) == e \notin stored /\ stored' = stored \cup {e} /\ UNCHANGED losses

(* No answer, whether or not the row was stored.                           *)
Reset(e) ==
  /\ Lost
  /\ \/ UNCHANGED stored
     \/ stored' = stored \cup {e}

(* The store answers that the id exists, or does not answer.               *)
Fails(e) ==
  \/ e \in stored /\ UNCHANGED <<stored, losses>>
  \/ Reset(e)

-----------------------------------------------------------------------------
(* _record_session_event.                                                  *)

Lines == UNION {{f} \X DOMAIN file[f] : f \in Files}
Size == Cardinality(Lines)
Recording == {e \in Events : rec[e].at \notin {"new", "done"}}

Step(e, to) == rec' = [rec EXCEPT ![e].at = to]

(* Without memory_write_enabled the buffer is all there is.                *)
Record(e, f) ==
  /\ rec[e].at = "new" /\ Cardinality(Recording) < Recorders
  /\ rec' = [rec EXCEPT ![e] = [at |-> IF f \in Writers THEN "posting" ELSE "measuring", path |-> f]]
  /\ UNCHANGED <<stored, file, replay, losses, appended, behind, met>>

PostLands(e) ==
  /\ rec[e].at \in {"posting", "reposting"}
  /\ Lands(e) /\ Step(e, "done")
  /\ UNCHANGED <<file, replay, appended, behind, met>>

PostReset(e) ==
  /\ rec[e].at = "posting"
  /\ Reset(e) /\ Step(e, "reposting")
  /\ UNCHANGED <<file, replay, appended, behind, met>>

PostFails(e) ==
  /\ rec[e].at \in {"posting", "reposting"}
  /\ Fails(e) /\ Step(e, "measuring")
  /\ UNCHANGED <<file, replay, appended, behind, met>>

(* Mutant of Measure: the budget is not looked at.                         *)
MeasureNothing(e) ==
  /\ rec[e].at = "measuring" /\ Step(e, "appending")
  /\ UNCHANGED <<stored, file, replay, losses, appended, behind, met>>

(* The budget is over all the files; over it, the event is dropped.        *)
Measure(e) ==
  /\ rec[e].at = "measuring"
  /\ Step(e, IF Size >= Budget THEN "done" ELSE "appending")
  /\ UNCHANGED <<stored, file, replay, losses, appended, behind, met>>

AppendLine(e) ==
  LET f == rec[e].path IN
  /\ rec[e].at = "appending" /\ Step(e, "done")
  /\ file' = [file EXCEPT ![f] = Append(@, e)]
  /\ appended' = appended \cup {e}
  /\ behind' = IF replay.path = f THEN behind \cup {e} ELSE behind
  /\ UNCHANGED <<stored, replay, losses, met>>

-----------------------------------------------------------------------------
(* flush_buffered_events, one at a time under the maintenance lock.        *)

(* A gateway starts: the directory is listed.                              *)
StartReplay ==
  /\ replay = NoReplay
  /\ \E f \in Files : file[f] # <<>>
  /\ replay' = [NoReplay EXCEPT !.todo = {f \in Files : file[f] # <<>>}]
  /\ UNCHANGED <<stored, file, rec, losses, appended, behind, met>>

ReadFile(f) ==
  /\ f \in replay.todo /\ replay.path = NoFile
  /\ replay' = [replay EXCEPT !.todo = @ \ {f}, !.path = f, !.lines = file[f]]
  /\ UNCHANGED <<stored, file, rec, losses, appended, behind, met>>

Replaying == replay.path # NoFile /\ replay.lines # <<>>
Met == met' = (met \/ Head(replay.lines) \in stored)

ReplayLands ==
  /\ Replaying /\ Lands(Head(replay.lines))
  /\ replay' = [replay EXCEPT !.lines = Tail(@), !.again = FALSE]
  /\ UNCHANGED <<file, rec, appended, behind, met>>

ReplayReset ==
  /\ Replaying /\ ~replay.again
  /\ Reset(Head(replay.lines))
  /\ replay' = [replay EXCEPT !.again = TRUE]
  /\ UNCHANGED <<file, rec, appended, behind, met>>

(* Mutant of ReplayFails: the failed line is skipped.                      *)
ReplayFailsOver ==
  /\ Replaying /\ Fails(Head(replay.lines))
  /\ replay' = [replay EXCEPT !.lines = Tail(@), !.again = FALSE]
  /\ Met /\ UNCHANGED <<file, rec, appended, behind>>

(* The error leaves the whole flush; what it had not unlinked stays.       *)
ReplayFails ==
  /\ Replaying /\ Fails(Head(replay.lines))
  /\ replay' = NoReplay
  /\ Met /\ UNCHANGED <<file, rec, appended, behind>>

(* Mutant of Unlink: all the listed files go when the first is replayed.   *)
UnlinkListed ==
  /\ replay.path # NoFile /\ replay.lines = <<>>
  /\ file' = [f \in Files |-> IF f = replay.path \/ f \in replay.todo THEN <<>> ELSE file[f]]
  /\ replay' = NoReplay
  /\ UNCHANGED <<stored, rec, losses, appended, behind, met>>

(* Every line was stored: the file goes, with what was appended since.     *)
Unlink ==
  /\ replay.path # NoFile /\ replay.lines = <<>>
  /\ file' = [file EXCEPT ![replay.path] = <<>>]
  /\ replay' = IF replay.todo = {} THEN NoReplay ELSE [replay EXCEPT !.path = NoFile]
  /\ UNCHANGED <<stored, rec, losses, appended, behind, met>>

(* The gateway dies, or the pass has used up its 60 seconds.               *)
ReplayEnds ==
  /\ replay # NoReplay /\ Lost
  /\ replay' = NoReplay
  /\ UNCHANGED <<stored, file, rec, appended, behind, met>>

RecordStep(e) ==
  \/ \E f \in Files : Record(e, f)
  \/ PostLands(e) \/ PostReset(e) \/ PostFails(e) \/ Measure(e) \/ AppendLine(e)

ReplayStep ==
  \/ StartReplay \/ (\E f \in Files : ReadFile(f))
  \/ ReplayLands \/ ReplayReset \/ ReplayFails \/ Unlink \/ ReplayEnds

BufferNext == ReplayStep \/ \E e \in Events : RecordStep(e)

BufferSpec == BufferInit /\ [][BufferNext]_bufferVars

(* A recording under way and a replay under way go on, and gateways go on  *)
(* being started while there is something to replay.                       *)
FairBufferSpec == BufferSpec /\ WF_bufferVars(ReplayStep) /\ \A e \in Events : WF_bufferVars(RecordStep(e))

-----------------------------------------------------------------------------

(* Types; a replay that holds lines holds a file, and so does a recording. *)
TypeOK ==
  /\ stored \subseteq Events /\ appended \subseteq Events /\ behind \subseteq appended
  /\ file \in [Files -> Seq(Events)]
  /\ rec \in [Events -> [at : {"new", "posting", "reposting", "measuring", "appending", "done"},
                         path : Files \cup {NoFile}]]
  /\ replay \in [todo : SUBSET Files, path : Files \cup {NoFile}, lines : Seq(Events), again : BOOLEAN]
  /\ \A e \in Events : rec[e].at # "new" => rec[e].path # NoFile
  /\ replay.lines # <<>> => replay.path # NoFile
  /\ losses \in 0..MaxLosses /\ met \in BOOLEAN

InFile(e) == \E f \in Files : e \in ToSet(file[f])

(* What the buffer promises: once an event reached a file it is in a file  *)
(* or in the store, whatever fails during the replay; only an event that   *)
(* was appended to a file the replay had already read is another matter.   *)
BufferedUnlessBehind == \A e \in appended : e \in stored \/ InFile(e) \/ e \in behind

(* The budget is checked before the append and not with it, so the files   *)
(* may exceed it, but by no more than the recordings under way at once.    *)
BufferBounded == Size < Budget + Recorders

(* A buffered event reaches the store, when gateways go on being started,  *)
(* unless a replay meets an id that exists: failures that leave nothing    *)
(* behind only delay it.                                                   *)
StoredUnlessMet == \A e \in Events : e \in appended ~> (e \in stored \/ e \in behind \/ met)
=============================================================================
