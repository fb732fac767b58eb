------------------------------- MODULE Learning -------------------------------
(***************************************************************************)
(* What the gateway learns from the queries that go through it: every      *)
(* outcome is recorded as a session event; on a connection a failure and   *)
(* the working form after it become a note at once (tools/memory_capture); *)
(* over the connections, a pass at startup or the loop of the HTTP gateway *)
(* turns events into notes (distill).  A request fails as a whole: how     *)
(* an event is buffered and replayed is in EventBuffer, how a note is      *)
(* reconciled with the stored ones in MemoryStore.                         *)
(***************************************************************************)
EXTENDS Integers, Sequences, FiniteSetsExt

CONSTANTS
  Conns,        \* connections
  TenantOf,     \* TenantOf[c]: the principal of a connection
  Deployment,   \* resolve_principal outside a request: the one of startup
  Process,      \* agent_session_id, the session of what has no connection
  Statements,
  Short,        \* Short[s]: the statement as _trim leaves it
  SubjectsOf,   \* the datasets a text names, of statements and of trimmed ones
  Subjects,
  Outcomes,     \* Outcomes[<<c, s>>]: what s comes to on c: worked or not, elapsed time, asynchronous
  SlowTime,     \* above it, a mean is slow
  MinSessions, MinFailures, MinSlow,   \* the thresholds of run_distill
  Callers,      \* "startup", "loop": which of the two passes there are
  MaxRuns,      \* bound of the model: outcomes
  Overlap,      \* bound of the model: outcomes being captured at once
  MaxFaults,    \* bound of the model: requests that fail
  None

ASSUME LearningAssumption ==
  /\ TenantOf \in [Conns -> {TenantOf[c] : c \in Conns}] /\ Process \notin Conns
  /\ Statements \cup {Short[s] : s \in Statements} \subseteq DOMAIN SubjectsOf
  /\ \A s \in DOMAIN SubjectsOf : SubjectsOf[s] \subseteq Subjects
  /\ \A c \in Conns, s \in Statements : \A o \in Outcomes[<<c, s>>] :
       /\ o.ok \in BOOLEAN /\ o.ms \in Nat \cup {None} /\ o.async \in BOOLEAN
       /\ o.async => o.ms = None    \* wait_on_async_query has no metrics
  /\ None \notin Nat
  /\ {"none", "buffered"} \cap ({TenantOf[c] : c \in Conns} \cup {Deployment, None}) = {}
  /\ MinSessions \in Nat \ {0} /\ MinFailures \in Nat \ {0} /\ MinSlow \in Nat \ {0}

VARIABLES
  runs,      \* runs[i]: an outcome a tool saw, and how far its capture is
  event,     \* event[i]: its event: not there, buffered, or stored for a tenant
  horizon,   \* the outcomes up to this one are older than event_retention_days
  failure,   \* failure[c][x]: CaptureState: the failed outcome on x, or 0
  notes,     \* the notes learned
  pass,      \* the distillation
  faults,
  captured,  \* history: the outcomes in the order in which capture took them
  fixes      \* history: what capture made of them: <<subject, failed, working>>

vars == <<runs, event, horizon, failure, notes, pass, faults, captured, fixes>>

NoPass == [at |-> "off", by |-> None, flush |-> {}]

Init ==
  /\ runs = <<>> /\ event = <<>> /\ horizon = 0
  /\ failure = [c \in Conns |-> [x \in Subjects |-> 0]]
  /\ notes = {} /\ pass = NoPass
  /\ faults = 0
  /\ captured = <<>> /\ fixes = {}

Fault == faults < MaxFaults /\ faults' = faults + 1

Tenants == {TenantOf[c] : c \in Conns} \cup {Deployment}
TenantOfRun(i) == TenantOf[runs[i].conn]
Text(i)        == Short[runs[i].st]

(* Mutant of SessionOf: the process, whatever the connection.              *)
SessionOfProcess(i) == Process

(* The session an event names: wait_on_async_query passes none on.         *)
SessionOf(i) == IF runs[i].async THEN Process ELSE runs[i].conn

-----------------------------------------------------------------------------
(* capture_query_outcome                                                   *)

(* A query comes to its end: with rows, or with the failure signal of an   *)
(* error or of no rows and warnings.                                       *)
Ends(c, s, o) ==
  /\ Len(runs) < MaxRuns
  /\ Cardinality({i \in DOMAIN runs : runs[i].at # "captured"}) < Overlap
  /\ runs' = Append(runs, [conn |-> c, st |-> s, ok |-> o.ok, ms |-> o.ms, async |-> o.async,
                           at |-> "ended"])
  /\ event' = Append(event, "none")
  /\ UNCHANGED <<horizon, failure, notes, pass, faults, captured, fixes>>

(* The event goes to the store, or to the buffer, or nowhere.              *)
RecordEvent(i) ==
  /\ runs[i].at = "ended" /\ runs' = [runs EXCEPT ![i].at = "recorded"]
  /\ \/ event' = [event EXCEPT ![i] = TenantOfRun(i)] /\ UNCHANGED faults
     \/ event' = [event EXCEPT ![i] = "buffered"] /\ Fault
     \/ UNCHANGED event /\ Fault
  /\ UNCHANGED <<horizon, failure, notes, pass, captured, fixes>>

(* Mutant of StillFailing: the failure is looked up and stays.             *)
StillFailingGet(c, s, i, ok) ==
  [x \in Subjects |-> IF x \in SubjectsOf[s] /\ ~ok THEN i ELSE failure[c][x]]

(* The failures that await a working form: the outcome's own for its       *)
(* subjects when it failed, none for them when it worked.                  *)
StillFailing(c, s, i, ok) ==
  [x \in Subjects |-> IF x \notin SubjectsOf[s] THEN failure[c][x] ELSE IF ok THEN 0 ELSE i]

(* The fixes that a working form yields: not for a mere repetition.        *)
Fixes(c, s, i) ==
  {<<x, failure[c][x], i>> :
     x \in {y \in SubjectsOf[s] : failure[c][y] # 0 /\ runs[failure[c][y]].st # s}}

FixNote(t, f) ==
  [owner |-> t, kind |-> "fix", subject |-> f[1], says |-> <<Text(f[2]), Text(f[3])>>, proof |-> TRUE]

(* memory_write one after the other: one that fails is passed over.  What  *)
(* is read and closed on the way is in MemoryStore; nothing here reads a   *)
(* note, so that the writes may be taken together.                         *)
WriteNotes(new) ==
  \/ notes' = notes \cup new /\ UNCHANGED faults
  \/ Fault /\ \E n \in new : notes' = notes \cup (new \ {n})

(* CaptureState.record of the connection's scope, and the notes it makes.  *)
Capture(i) ==
  LET c == runs[i].conn
      found == IF runs[i].ok THEN Fixes(c, runs[i].st, i) ELSE {}
  IN /\ runs[i].at = "recorded" /\ runs' = [runs EXCEPT ![i].at = "captured"]
     /\ failure' = [failure EXCEPT ![c] = StillFailing(c, runs[i].st, i, runs[i].ok)]
     /\ captured' = Append(captured, i) /\ fixes' = fixes \cup found
     /\ WriteNotes({FixNote(TenantOf[c], f) : f \in found})
     /\ UNCHANGED <<event, horizon, pass>>

-----------------------------------------------------------------------------
(* run_distill                                                             *)

(* Time goes by: one more outcome is outside of the window.                *)
Age ==
  /\ horizon < Len(runs) /\ horizon' = horizon + 1
  /\ UNCHANGED <<runs, event, failure, notes, pass, faults, captured, fixes>>

(* The maintenance pass is bound to the deployment's principal, the client *)
(* of the loop to none.                                                    *)
StartPass(caller) ==
  /\ caller \in Callers /\ pass.at = "off"
  /\ pass' = [NoPass EXCEPT
       !.at = IF caller = "startup" THEN "flush" ELSE "read",
       !.by = IF caller = "startup" THEN Deployment ELSE None,
       !.flush = IF caller = "startup" THEN {i \in DOMAIN event : event[i] = "buffered"} ELSE {}]
  /\ UNCHANGED <<runs, event, horizon, failure, notes, faults, captured, fixes>>

(* A buffered event is stored, as the one who replays it stores it: with   *)
(* the deployment for its tenant.  The first failure ends the flush.       *)
Flush(i) ==
  /\ pass.at = "flush" /\ i \in pass.flush
  /\ \/ /\ event' = [event EXCEPT ![i] = pass.by] /\ UNCHANGED faults
        /\ pass' = [pass EXCEPT !.flush = @ \ {i}]
     \/ /\ pass' = [pass EXCEPT !.flush = {}, !.at = "read"]
        /\ Fault /\ UNCHANGED event
  /\ UNCHANGED <<runs, horizon, failure, notes, captured, fixes>>

Flushed ==
  /\ pass.at = "flush" /\ pass.flush = {}
  /\ pass' = [pass EXCEPT !.at = "read"]
  /\ UNCHANGED <<runs, event, horizon, failure, notes, faults, captured, fixes>>

(* execute_memory_read: a client reads the events of the tenant it is      *)
(* bound to; one that is bound to none is refused, and reads none.         *)
Readable(t) == {i \in DOMAIN event : i > horizon /\ event[i] = t}

On(seen, x, text) == {i \in seen : Text(i) = text /\ x \in SubjectsOf[text]}
Worked(seen)      == {i \in seen : runs[i].ok}
Failed(seen)      == {i \in seen : ~runs[i].ok}
Mentioned(seen)   == {Text(i) : i \in seen}
OnSubject(seen, x) == {i \in seen : x \in SubjectsOf[Text(i)]}

Learned(t, kind, x, says, proof) ==
  [owner |-> t, kind |-> kind, subject |-> x, says |-> says, proof |-> proof]

(* Mutant of Proven: the uses are counted, not the sessions.               *)
ProvenByUse(t, seen) ==
  {Learned(t, "proven", p[1], <<p[2]>>, TRUE) : p \in
     {q \in Subjects \X Mentioned(seen) : Cardinality(Worked(On(seen, q[1], q[2]))) >= MinSessions}}

(* proven_queries: a text that worked in enough sessions.                  *)
Proven(t, seen) ==
  {Learned(t, "proven", p[1], <<p[2]>>, TRUE) : p \in
     {q \in Subjects \X Mentioned(seen) :
        Cardinality({SessionOf(i) : i \in Worked(On(seen, q[1], q[2]))}) >= MinSessions}}

(* recurring_failures, with one class of error: a dataset on which enough  *)
(* failed and nothing worked.                                              *)
Cautions(t, seen) ==
  {Learned(t, "caution", x, <<>>, FALSE) : x \in
     {y \in Subjects : /\ Cardinality(Failed(OnSubject(seen, y))) >= MinFailures
                       /\ Worked(OnSubject(seen, y)) = {}}}

Timed(seen) == {i \in Worked(seen) : runs[i].ms # None}
TotalTime(s) == FoldSet(LAMBDA i, sum : sum + runs[i].ms, 0, s)

(* slow_patterns: a text that worked often enough, slowly on the average.  *)
Slow(t, seen) ==
  {Learned(t, "slow", p[1], <<p[2]>>, FALSE) : p \in
     {q \in Subjects \X Mentioned(seen) :
        LET s == Timed(On(seen, q[1], q[2]))
        IN Cardinality(s) >= MinSlow /\ TotalTime(s) > SlowTime * Cardinality(s)}}

(* The events are read once and the notes written: a failed read is one of *)
(* no events, a failed write is counted and the next note has its turn.    *)
Distill ==
  LET seen == Readable(pass.by)
      new  == Proven(pass.by, seen) \cup Cautions(pass.by, seen) \cup Slow(pass.by, seen)
  IN /\ pass.at = "read" /\ pass' = NoPass
     /\ \/ WriteNotes(new)
        \/ UNCHANGED notes /\ Fault
     /\ UNCHANGED <<runs, event, horizon, failure, captured, fixes>>

-----------------------------------------------------------------------------

Capturing == \E i \in DOMAIN runs :
  RecordEvent(i) \/ Capture(i)

Passing ==
  \/ \E i \in DOMAIN event : Flush(i)
  \/ Flushed \/ Distill

Next ==
  \/ \E c \in Conns, s \in Statements : \E o \in Outcomes[<<c, s>>] : Ends(c, s, o)
  \/ Capturing
  \/ Age
  \/ \E caller \in Callers : StartPass(caller)
  \/ Passing

Spec == Init /\ [][Next]_vars

(* A call goes on to its reply and a pass to its end, by their timeouts;   *)
(* the loop sleeps and passes for ever, and gateways are started again.    *)
FairSpec ==
  /\ Spec
  /\ WF_vars(Capturing) /\ WF_vars(Passing)
  /\ \A caller \in Callers : WF_vars(StartPass(caller))

-----------------------------------------------------------------------------

(* The outcome is of the connection, on the subject.                       *)
IsOn(i, c, x) == runs[i].conn = c /\ x \in SubjectsOf[runs[i].st]

(* Of the captured outcomes, those at p and at q are next to each other    *)
(* among the connection's on the subject.                                  *)
Neighbours(p, q, c, x) ==
  /\ p < q /\ IsOn(captured[p], c, x) /\ IsOn(captured[q], c, x)
  /\ \A r \in DOMAIN captured : p < r /\ r < q => ~IsOn(captured[r], c, x)

(* However outcomes of several connections and of calls that overlap are   *)
(* interleaved, capture makes a fix of exactly the pairs it is for: a      *)
(* failure and the working form that follows it on the connection, of      *)
(* another statement on the same dataset, each failure used once.          *)
FixesAreExact ==
  \A x \in Subjects, i, j \in DOMAIN runs :
    <<x, i, j>> \in fixes <=>
      \E c \in Conns, p, q \in DOMAIN captured :
        /\ captured[p] = i /\ captured[q] = j /\ Neighbours(p, q, c, x)
        /\ ~runs[i].ok /\ runs[j].ok /\ runs[i].st # runs[j].st

(* What a note of a tenant can stem from: the outcomes of its connections, *)
(* and those that the replay of the buffer made its own.                   *)
Own(t) == {i \in DOMAIN runs : TenantOfRun(i) = t \/ event[i] = t}

(* Two outcomes come from different sides: from two connections, or one of *)
(* them from the asynchronous queries, which all count for one.            *)
Apart(i, j) ==
  \/ runs[i].async # runs[j].async
  \/ ~runs[i].async /\ ~runs[j].async /\ runs[i].conn # runs[j].conn

(* A note has reasons in what its tenant did: a text that it names was the *)
(* tenant's, a proven one worked for several, and for nothing that one     *)
(* connection repeats or another tenant does; a warning comes of enough    *)
(* failures, and a note is a proof where it names what worked.             *)
NotesHaveReasons ==
  \A n \in notes :
    /\ \A k \in DOMAIN n.says : \E i \in Own(n.owner) : Text(i) = n.says[k]
    /\ n.kind = "proven" =>
         \E s \in SUBSET Own(n.owner) :
           /\ \A i \in s : runs[i].ok /\ Text(i) = n.says[1]
           /\ Cardinality(s) >= MinSessions
           /\ \A i, j \in s : i # j => Apart(i, j)
    /\ n.kind = "caution" =>
         Cardinality({i \in Own(n.owner) : ~runs[i].ok /\ n.subject \in SubjectsOf[Text(i)]}) >= MinFailures
    /\ n.proof => \E i \in Own(n.owner) : runs[i].ok /\ Text(i) = n.says[Len(n.says)]

(* What has worked from two sides for the tenant, as far as the store      *)
(* knows.                                                                  *)
Corroborated(t, x, text) ==
  \E i, j \in DOMAIN event :
    /\ i > horizon /\ j > horizon /\ event[i] = t /\ event[j] = t /\ Apart(i, j)
    /\ \A k \in {i, j} : runs[k].ok /\ Text(k) = text /\ x \in SubjectsOf[text]

(* Consolidation: what two sessions of the deployment's tenant proved is   *)
(* in its notes sooner or later, unless it ages before.                    *)
ProvenIsLearned ==
  \A x \in Subjects, text \in {Short[s] : s \in Statements} :
    Corroborated(Deployment, x, text) ~>
      \/ \E n \in notes : n.owner = Deployment /\ n.kind = "proven" /\ n.subject = x /\ n.says = <<text>>
      \/ ~Corroborated(Deployment, x, text)
=============================================================================
