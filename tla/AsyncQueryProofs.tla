------------------------- MODULE AsyncQueryProofs -------------------------
(***************************************************************************)
(* The audit log and the calls that share it, for any number of calls,     *)
(* ids and tenants and any TTL: results are real, lifetimes are those of   *)
(* the submission, and what was cancelled stays forgotten.                 *)
(***************************************************************************)
EXTENDS AsyncQuery, TLAPS

Unborn  == {"executing", "compiling", "posting", "accepted"}
Polling == {"polling", "answered", "sleeping"}

(* The steps of one call, and of everything else.                          *)
CallStep(c) ==
  \/ \E i \in Ids : \/ ExecuteStart(c, i) \/ ExecuteRefused(c, i)
                    \/ WaitStart(c, i) \/ FetchStart(c, i) \/ CancelStart(c, i)
                    \/ SubmitStart(c, i)
  \/ ExecuteEnd(c)
  \/ SubmitRefused(c) \/ SubmitPost(c) \/ ClusterStarts(c)
  \/ ConnectionLost(c) \/ SubmitFails(c) \/ SubmitDone(c)
  \/ PollAnswered(c) \/ PollFails(c) \/ WaitPending(c)
  \/ WaitSleep(c) \/ WaitWake(c) \/ WaitTerminal(c)
  \/ FetchEnd(c)
  \/ ClusterCancels(c) \/ CancelEnd(c) \/ CancelFails(c)

(* The next-state relation, flattened: one case per action.                *)
LEMMA NextCases ==
  ASSUME Next
  PROVE  \/ \E c \in Calls : CallStep(c)
         \/ \E j \in Jobs : JobEnds(j)
         \/ ReadHistory
         \/ Tick
  BY DEF Next, CallStep, Submit, Poll, Cancel

(* The log's operations keep its type.                                     *)
LEMMA LogTypes ==
  ASSUME entries \in [Ids -> Entry \cup {None}], now \in Nat
  PROVE  /\ Pruned \in [Ids -> Entry \cup {None}]
         /\ \A i \in Ids : AfterGet(i) \in [Ids -> Entry \cup {None}]
         /\ \A i \in Ids : AfterForget(i) \in [Ids -> Entry \cup {None}]
         /\ \A i \in Ids, e \in Entry : AfterRecord(i, e) \in [Ids -> Entry \cup {None}]
         /\ \A h \in Handles \cup {None} : NewEntry(h) \in Entry
         /\ \A e \in Entry, h \in Handles \cup {None} : WithResult(e, h) \in Entry
  BY DEF Pruned, AfterGet, AfterForget, AfterRecord, NewEntry, WithResult, Entry

(* None is neither an entry nor a handle, and handles are jobs.            *)
LEMMA NoneIsNoEntry == None \notin Entry /\ None \notin Handles /\ Handles = Jobs
  BY LogAssumption, QueryAssumption DEF Entry

(* None is not a time either.                                              *)
LEMMA NoneIsNoTime == \A t \in 0..MaxTime : t # None
  BY LogAssumption, QueryAssumption

(* What the phase of a call says of its local variables.                   *)
Shape(c) ==
  /\ call[c].pc = "idle" => call[c] = Idle
  /\ call[c].pc \in Unborn => call[c].id \in Ids /\ born[call[c].id] = None
  /\ call[c].pc \in Polling => call[c].entry # None /\ call[c].entry.handle # None
  /\ call[c].pc \in {"cancelling", "cancelAnswered"} =>
       call[c].id \in Ids /\ (born[call[c].id] # None \/ call[c].id \in early)
  /\ call[c].entry # None => call[c].id \in Ids /\ born[call[c].id] # None

Shapes == \A c \in Calls : Shape(c)

(* An id names one submission: calls that are still submitting hold ids of *)
(* their own, and every copy of an entry keeps the stamp of the birth.     *)
OwnIds ==
  \A c, d \in Calls :
    (c # d /\ call[c].pc \in Unborn /\ call[d].pc \in Unborn) => call[c].id # call[d].id
Stamps ==
  /\ \A i \in Ids : entries[i] # None => born[i] # None /\ entries[i].at = born[i]
  /\ \A c \in Calls : call[c].entry # None => call[c].entry.at = born[call[c].id]
  /\ \A i \in forgotten : born[i] # None

(* The empty log and the idle calls have their types and shapes.           *)
LEMMA TypeInit == Init => TypeOK /\ Shapes
  BY QueryAssumption DEF Init, TypeOK, Idle, Local, Phases, Attempts, Shapes, Shape, Unborn, Polling

(* Every action keeps them.                                                *)
LEMMA TypeStep == TypeOK /\ Shapes /\ [Next]_vars => TypeOK'
<1> SUFFICES ASSUME TypeOK, Shapes, [Next]_vars PROVE TypeOK'
  OBVIOUS
<1> USE NoneIsNoEntry
<1>0. now \in Nat /\ MaxTime \in Nat /\ Window \in Nat
  BY QueryAssumption DEF TypeOK
<1>i. Idle \in Local
  BY DEF Idle, Local, Phases, Attempts
<1>1. ASSUME NEW c \in Calls, CallStep(c) PROVE TypeOK'
  <2> call[c] \in Local
    BY DEF TypeOK
  <2>t. /\ Pruned \in [Ids -> Entry \cup {None}]
        /\ \A i \in Ids : AfterGet(i) \in [Ids -> Entry \cup {None}]
        /\ \A i \in Ids : AfterForget(i) \in [Ids -> Entry \cup {None}]
        /\ \A i \in Ids, e \in Entry : AfterRecord(i, e) \in [Ids -> Entry \cup {None}]
        /\ \A h \in Handles \cup {None} : NewEntry(h) \in Entry
        /\ \A e \in Entry, h \in Handles \cup {None} : WithResult(e, h) \in Entry
    BY <1>0, LogTypes DEF TypeOK
  <2>1. ASSUME NEW i \in Ids, ExecuteStart(c, i) \/ CancelStart(c, i) \/ SubmitStart(c, i) PROVE TypeOK'
    <3>1. PICK pc \in Phases : call' = [call EXCEPT ![c] = [Idle EXCEPT !.pc = pc, !.id = i]]
      BY <2>1 DEF ExecuteStart, CancelStart, SubmitStart, Phases
    <3>2. [Idle EXCEPT !.pc = pc, !.id = i] \in Local
      BY DEF Local, Idle, Attempts
    <3>3. call' \in [Calls -> Local]
      BY <3>1, <3>2 DEF TypeOK
    <3> QED BY <2>1, <3>3 DEF ExecuteStart, CancelStart, SubmitStart, TypeOK
  <2>2. ASSUME NEW i \in Ids, ExecuteRefused(c, i) PROVE TypeOK'
    BY <2>2, <1>0, <2>t DEF ExecuteRefused, RecordOutcome, TypeOK
  <2>3. ASSUME NEW i \in Ids, WaitStart(c, i) PROVE TypeOK'
    <3>1. entries' \in [Ids -> Entry \cup {None}]
      BY <2>3, <2>t DEF WaitStart
    <3>2. call' \in [Calls -> Local]
      <4>1. CASE call' = [call EXCEPT ![c] = Idle]
        BY <4>1, <1>i DEF TypeOK
      <4>2. CASE \E w \in {0, Window} : call' = [call EXCEPT ![c] = [Idle EXCEPT
                   !.pc = "polling", !.id = i, !.entry = entries[i], !.until = now + w]]
        <5>1. PICK w \in {0, Window} : call' = [call EXCEPT ![c] = [Idle EXCEPT
                     !.pc = "polling", !.id = i, !.entry = entries[i], !.until = now + w]]
          BY <4>2
        <5>2. now + w \in Nat /\ entries[i] \in Entry \cup {None}
          BY <1>0 DEF TypeOK
        <5>3. [Idle EXCEPT !.pc = "polling", !.id = i, !.entry = entries[i], !.until = now + w] \in Local
          BY <5>2 DEF Local, Idle, Attempts, Phases
        <5> QED BY <5>1, <5>3 DEF TypeOK
      <4> QED BY <4>1, <4>2, <2>3 DEF WaitStart, Reply
    <3> QED BY <3>1, <3>2, <2>3 DEF WaitStart, TypeOK
  <2>4. ASSUME NEW i \in Ids, FetchStart(c, i) PROVE TypeOK'
    <3>1. entries' \in [Ids -> Entry \cup {None}]
      BY <2>4, <2>t DEF FetchStart
    <3>2. call' \in [Calls -> Local]
      <4>1. CASE call' = [call EXCEPT ![c] = Idle]
        BY <4>1, <1>i DEF TypeOK
      <4>2. CASE call' = [call EXCEPT ![c] = [Idle EXCEPT
                   !.pc = "fetching", !.id = i, !.entry = entries[i]]]
        BY <4>2, <1>i DEF TypeOK, Local, Idle, Phases
      <4> QED BY <4>1, <4>2, <2>4 DEF FetchStart, Reply
    <3> QED BY <3>1, <3>2, <2>4 DEF FetchStart, TypeOK
  <2>5. CASE ExecuteEnd(c)
    <3>1. call[c].id \in Ids
      BY <2>5 DEF ExecuteEnd, Shapes, Shape, Unborn
    <3> QED BY <3>1, <2>5, <1>0, <1>i, <2>t DEF ExecuteEnd, RecordOutcome, Reply, TypeOK
  <2>6. CASE SubmitRefused(c) \/ SubmitFails(c) \/ PollFails(c) \/ WaitPending(c) \/ FetchEnd(c) \/ CancelFails(c)
    BY <2>6, <1>i DEF SubmitRefused, SubmitFails, PollFails, WaitPending, FetchEnd, CancelFails, Reply, TypeOK
  <2>7. CASE SubmitPost(c) \/ WaitSleep(c) \/ WaitWake(c)
    <3>1. PICK pc \in Phases : call' = [call EXCEPT ![c] = [call[c] EXCEPT !.pc = pc]]
      BY <2>7 DEF SubmitPost, WaitSleep, WaitWake, Goto, Phases
    <3>2. [call[c] EXCEPT !.pc = pc] \in Local
      BY DEF Local
    <3> QED BY <2>7, <3>1, <3>2 DEF SubmitPost, WaitSleep, WaitWake, TypeOK
  <2>8. CASE ClusterStarts(c)
    <3>1. call[c].id \in Ids
      BY <2>8 DEF ClusterStarts, Shapes, Shape, Unborn
    <3>2. call' \in [Calls -> Local]
      BY <2>8 DEF ClusterStarts, Goto, TypeOK, Local, Phases
    <3>3. jobs' \in [Jobs -> {"none", "running", "success", "failed"}]
      BY <2>8 DEF ClusterStarts, TypeOK
    <3> QED BY <3>2, <3>3, <2>8 DEF ClusterStarts, TypeOK
  <2>9. CASE ConnectionLost(c)
    BY <2>9, <1>i DEF ConnectionLost, Reply, TypeOK, Local, Phases, Attempts
  <2>10. CASE SubmitDone(c)
    <3>1. call[c].id \in Ids /\ call[c].attempt \in Attempts
      BY <2>10 DEF SubmitDone, Shapes, Shape, Unborn, Local
    <3>2. PICK h \in {<<call[c].id, call[c].attempt>>, None} : entries' = AfterRecord(call[c].id, NewEntry(h))
      BY <2>10 DEF SubmitDone
    <3>3. h \in Handles \cup {None}
      BY <3>1, <3>2 DEF Jobs
    <3>4. entries' \in [Ids -> Entry \cup {None}]
      BY <3>1, <3>2, <3>3, <2>t
    <3> QED BY <3>1, <3>4, <2>10, <1>i, <1>0 DEF SubmitDone, Reply, TypeOK
  <2>11. CASE PollAnswered(c)
    <3>1. call[c].entry.handle \in Jobs
      BY <2>11 DEF PollAnswered, Shapes, Shape, Polling, Local, Entry
    <3>2. jobs[call[c].entry.handle] \in {"none", "running", "success", "failed"}
      BY <3>1 DEF TypeOK
    <3>3. PICK r \in {call[c].entry.handle, None} :
            call' = [call EXCEPT ![c] = [call[c] EXCEPT
                      !.pc = "answered", !.answer = jobs[call[c].entry.handle],
                      !.result = IF jobs[call[c].entry.handle] = "success" THEN r ELSE None]]
      BY <2>11 DEF PollAnswered
    <3>4. [call[c] EXCEPT
             !.pc = "answered", !.answer = jobs[call[c].entry.handle],
             !.result = IF jobs[call[c].entry.handle] = "success" THEN r ELSE None] \in Local
      BY <3>1, <3>2 DEF Local, Phases
    <3> QED BY <3>3, <3>4, <2>11 DEF PollAnswered, TypeOK
  <2>12. CASE WaitTerminal(c)
    <3>1. call[c].id \in Ids /\ call[c].entry \in Entry /\ call[c].result \in Handles \cup {None}
      BY <2>12 DEF WaitTerminal, Shapes, Shape, Polling, Local
    <3>2. entries' \in [Ids -> Entry \cup {None}]
      BY <3>1, <2>12, <2>t DEF WaitTerminal, TypeOK
    <3> QED BY <3>2, <2>12, <1>i DEF WaitTerminal, Reply, TypeOK
  <2>13. CASE ClusterCancels(c)
    <3>1. call' \in [Calls -> Local]
      BY <2>13 DEF ClusterCancels, CancelAnswers, TypeOK, Local, Phases
    <3>2. jobs' \in [Jobs -> {"none", "running", "success", "failed"}]
      BY <2>13 DEF ClusterCancels, CancelAnswers, TypeOK
    <3> QED BY <3>1, <3>2, <2>13 DEF ClusterCancels, CancelAnswers, TypeOK
  <2>14. CASE CancelEnd(c)
    <3>1. call[c].id \in Ids
      BY <2>14 DEF CancelEnd, Forget, Shapes, Shape
    <3>2. entries' \in [Ids -> Entry \cup {None}] /\ forgotten' \subseteq Ids
      BY <3>1, <2>14, <2>t DEF CancelEnd, Forget, TypeOK
    <3> QED BY <3>2, <2>14, <1>i DEF CancelEnd, Forget, Reply, TypeOK
  <2> QED BY <1>1, <2>1, <2>2, <2>3, <2>4, <2>5, <2>6, <2>7, <2>8, <2>9, <2>10, <2>11, <2>12,
             <2>13, <2>14 DEF CallStep
<1>2. ASSUME NEW j \in Jobs, JobEnds(j) PROVE TypeOK'
  BY <1>2 DEF JobEnds, TypeOK
<1>3. CASE ReadHistory
  BY <1>3, <1>0, LogTypes DEF ReadHistory, TypeOK
<1>4. CASE Tick
  BY <1>4, <1>0 DEF Tick, TypeOK
<1>5. CASE UNCHANGED vars
  BY <1>5 DEF vars, TypeOK
<1> QED BY <1>1, <1>2, <1>3, <1>4, <1>5, NextCases

-----------------------------------------------------------------------------

(* A call's step moves no other call.                                      *)
LEMMA OthersUnmoved ==
  ASSUME TypeOK, NEW c \in Calls, CallStep(c)
  PROVE  \A d \in Calls \ {c} : call'[d] = call[d]
<1>1. ASSUME NEW i \in Ids, ExecuteStart(c, i) \/ ExecuteRefused(c, i)
                             \/ WaitStart(c, i) \/ FetchStart(c, i) \/ CancelStart(c, i)
                             \/ SubmitStart(c, i)
      PROVE  \A d \in Calls \ {c} : call'[d] = call[d]
  BY <1>1 DEF TypeOK, ExecuteStart, ExecuteRefused, WaitStart, FetchStart, CancelStart, SubmitStart, Reply
<1>2. CASE ExecuteEnd(c) \/ SubmitRefused(c) \/ SubmitPost(c) \/ ClusterStarts(c)
           \/ ConnectionLost(c) \/ SubmitFails(c) \/ SubmitDone(c)
  BY <1>2 DEF TypeOK, ExecuteEnd, SubmitRefused, SubmitPost, ClusterStarts, ConnectionLost, SubmitFails,
              SubmitDone, Reply, Goto
<1>3. CASE PollAnswered(c) \/ PollFails(c) \/ WaitPending(c) \/ WaitSleep(c) \/ WaitWake(c)
           \/ WaitTerminal(c) \/ FetchEnd(c) \/ ClusterCancels(c) \/ CancelEnd(c) \/ CancelFails(c)
  BY <1>3 DEF TypeOK, PollAnswered, PollFails, WaitPending, WaitSleep, WaitWake, WaitTerminal, FetchEnd,
              ClusterCancels, CancelAnswers, CancelEnd, Forget, CancelFails, Reply, Goto
<1> QED BY <1>1, <1>2, <1>3, CallStep(c) DEF CallStep

(* An entry enters the log for the first time in three ways only: a        *)
(* refused or finished execute_query, and a submission that was answered.  *)
Birth(c, i) ==
  /\ i \in Ids /\ born[i] = None
  /\ born' = [born EXCEPT ![i] = now]
  /\ \A d \in Calls \ {c} : call[d].pc \in Unborn => call[d].id # i
  /\ call'[c] = Idle
  /\ \E h \in {None} \cup {<<i, a>> : a \in Attempts} : entries' = AfterRecord(i, NewEntry(h))
  /\ UNCHANGED <<now, jobs, forgotten>>

(* What an action does to the record of births: only the two actions that  *)
(* record a new submission write it, for the id they were submitting.      *)
LEMMA Births ==
  ASSUME TypeOK, Shapes, OwnIds, NEW c \in Calls, CallStep(c), born' # born
  PROVE  \E i \in Ids : Birth(c, i)
<1>1. ASSUME NEW i \in Ids, ExecuteRefused(c, i) PROVE Birth(c, i)
  <2>1. born[i] = None /\ \A d \in Calls : call[d].id # i
    BY <1>1 DEF ExecuteRefused, Fresh
  <2>2. call'[c] = Idle
    BY <1>1 DEF ExecuteRefused, IsIdle, Shapes, Shape
  <2> QED BY <2>1, <2>2, <1>1 DEF ExecuteRefused, RecordOutcome, Birth
<1>2. CASE ExecuteEnd(c)
  <2>1. call[c].id \in Ids /\ born[call[c].id] = None
    BY <1>2 DEF ExecuteEnd, Shapes, Shape, Unborn
  <2>2. \A d \in Calls \ {c} : call[d].pc \in Unborn => call[d].id # call[c].id
    BY <1>2 DEF ExecuteEnd, OwnIds, Unborn
  <2>3. Birth(c, call[c].id)
    BY <2>1, <2>2, <1>2 DEF ExecuteEnd, RecordOutcome, Reply, Birth, TypeOK
  <2> QED BY <2>1, <2>3
<1>3. CASE SubmitDone(c)
  <2>1. call[c].id \in Ids /\ born[call[c].id] = None /\ call[c].attempt \in Attempts
    BY <1>3 DEF SubmitDone, Shapes, Shape, Unborn, TypeOK, Local
  <2>2. \A d \in Calls \ {c} : call[d].pc \in Unborn => call[d].id # call[c].id
    BY <1>3 DEF SubmitDone, OwnIds, Unborn
  <2>3. Birth(c, call[c].id)
    BY <2>1, <2>2, <1>3 DEF SubmitDone, Reply, Birth, TypeOK
  <2> QED BY <2>1, <2>3
<1>4. ASSUME NEW i \in Ids, ExecuteStart(c, i) \/ WaitStart(c, i) \/ FetchStart(c, i)
                             \/ CancelStart(c, i) \/ SubmitStart(c, i)
      PROVE  FALSE
  BY <1>4 DEF ExecuteStart, WaitStart, FetchStart, CancelStart, SubmitStart
<1>5. CASE \/ SubmitRefused(c) \/ SubmitPost(c) \/ ClusterStarts(c) \/ ConnectionLost(c) \/ SubmitFails(c)
           \/ PollAnswered(c) \/ PollFails(c) \/ WaitPending(c) \/ WaitSleep(c) \/ WaitWake(c)
           \/ WaitTerminal(c) \/ FetchEnd(c) \/ ClusterCancels(c) \/ CancelEnd(c) \/ CancelFails(c)
  BY <1>5 DEF SubmitRefused, SubmitPost, ClusterStarts, ConnectionLost, SubmitFails, PollAnswered, PollFails,
              WaitPending, WaitSleep, WaitWake, WaitTerminal, FetchEnd, ClusterCancels, CancelAnswers, CancelEnd, Forget, CancelFails
<1> QED BY <1>1, <1>2, <1>3, <1>4, <1>5, CallStep(c) DEF CallStep

(* Once born, an id keeps its stamp.                                       *)
LEMMA BornOnce ==
  ASSUME TypeOK, Shapes, OwnIds, NEW c \in Calls, CallStep(c)
  PROVE  \A i \in Ids : born[i] # None => born'[i] = born[i]
<1>1. CASE born' = born
  BY <1>1
<1>2. CASE born' # born
  <2>1. PICK i \in Ids : Birth(c, i)
    BY <1>2, Births
  <2> QED BY <2>1 DEF Birth, TypeOK
<1> QED BY <1>1, <1>2

(* The acting call, after its step, has the shape of its phase.            *)
LEMMA OwnShape ==
  ASSUME TypeOK, Shapes, OwnIds, NEW c \in Calls, CallStep(c)
  PROVE  Shape(c)'
<1> USE NoneIsNoEntry
<1>0. \A i \in Ids : born[i] # None => born'[i] = born[i]
  BY BornOnce
<1>t. call[c] \in Local /\ Shape(c)
  BY DEF TypeOK, Shapes
<1>i. Idle.pc = "idle" /\ Idle.entry = None
  BY DEF Idle
<1>1. CASE call'[c] = Idle
  BY <1>1, <1>i DEF Shape, Unborn, Polling
<1>2. ASSUME NEW i \in Ids, ExecuteStart(c, i) \/ SubmitStart(c, i) PROVE Shape(c)'
  <2>1. PICK pc \in Unborn : call' = [call EXCEPT ![c] = [Idle EXCEPT !.pc = pc, !.id = i]]
    BY <1>2 DEF ExecuteStart, SubmitStart, Unborn
  <2>2. call'[c].pc = pc /\ call'[c].id = i /\ call'[c].entry = None
    BY <2>1 DEF TypeOK, Idle
  <2>3. born'[i] = None
    BY <1>2 DEF ExecuteStart, SubmitStart, Fresh
  <2> QED BY <2>2, <2>3 DEF Shape, Unborn, Polling
<1>3. ASSUME NEW i \in Ids, CancelStart(c, i) PROVE Shape(c)'
  <2>1. call'[c].pc = "cancelling" /\ call'[c].id = i /\ call'[c].entry = None
    BY <1>3 DEF CancelStart, TypeOK, Idle
  <2>2. born[i] = None => i \in early'
    BY <1>3 DEF CancelStart
  <2> QED BY <2>1, <2>2, <1>3 DEF CancelStart, Shape, Unborn, Polling
<1>4. ASSUME NEW i \in Ids, WaitStart(c, i), call'[c] # Idle PROVE Shape(c)'
  <2>1. PICK w \in {0, Window} : call' = [call EXCEPT ![c] = [Idle EXCEPT
               !.pc = "polling", !.id = i, !.entry = entries[i], !.until = now + w]]
    BY <1>4 DEF WaitStart, Reply, TypeOK
  <2>2. call'[c].pc = "polling" /\ call'[c].id = i /\ call'[c].entry = entries[i]
    BY <2>1 DEF TypeOK, Idle
  <2>3. entries[i] # None /\ entries[i].handle # None /\ born[i] # None /\ born' = born
    BY <1>4 DEF WaitStart, Reply, TypeOK, Found
  <2> QED BY <2>2, <2>3 DEF Shape, Unborn, Polling
<1>5. ASSUME NEW i \in Ids, FetchStart(c, i), call'[c] # Idle PROVE Shape(c)'
  <2>1. call' = [call EXCEPT ![c] = [Idle EXCEPT !.pc = "fetching", !.id = i, !.entry = entries[i]]]
    BY <1>5 DEF FetchStart, Reply, TypeOK
  <2>2. call'[c].pc = "fetching" /\ call'[c].id = i /\ call'[c].entry = entries[i]
    BY <2>1 DEF TypeOK, Idle
  <2>3. born[i] # None /\ born' = born
    BY <1>5 DEF FetchStart
  <2> QED BY <2>2, <2>3 DEF Shape, Unborn, Polling
<1>6. ASSUME NEW i \in Ids, ExecuteRefused(c, i) PROVE call'[c] = Idle
  BY <1>6, <1>t DEF ExecuteRefused, IsIdle, Shape
<1>7. CASE \/ ExecuteEnd(c) \/ SubmitRefused(c) \/ SubmitFails(c) \/ SubmitDone(c) \/ PollFails(c)
           \/ WaitPending(c) \/ WaitTerminal(c) \/ FetchEnd(c) \/ CancelEnd(c) \/ CancelFails(c)
  <2>1. call'[c] = Idle
    BY <1>7 DEF ExecuteEnd, SubmitRefused, SubmitFails, SubmitDone, PollFails, WaitPending, WaitTerminal,
                FetchEnd, CancelEnd, Forget, CancelFails, Reply, TypeOK
  <2> QED BY <2>1, <1>1
<1>8. CASE (SubmitPost(c) \/ ClusterStarts(c) \/ ConnectionLost(c)) /\ call'[c] # Idle
  <2>1. call[c].pc \in Unborn /\ call'[c].pc \in Unborn /\ born' = born
        /\ call'[c].id = call[c].id /\ call'[c].entry = call[c].entry
    BY <1>8, <1>t DEF SubmitPost, ClusterStarts, ConnectionLost, Goto, Reply, Unborn, AsyncPhases, TypeOK, Local
  <2> QED BY <2>1, <1>t DEF Shape, Unborn, Polling
<1>9. CASE PollAnswered(c) \/ WaitSleep(c) \/ WaitWake(c)
  <2>1. call[c].pc \in Polling /\ call'[c].pc \in Polling /\ born' = born
        /\ call'[c].id = call[c].id /\ call'[c].entry = call[c].entry
    BY <1>9, <1>t DEF PollAnswered, WaitSleep, WaitWake, Goto, Polling, TypeOK, Local
  <2> QED BY <2>1, <1>t DEF Shape, Unborn, Polling
<1>10. CASE ClusterCancels(c)
  <2>1. call[c].pc = "cancelling" /\ call'[c].pc = "cancelAnswered" /\ born' = born
        /\ call'[c].id = call[c].id /\ call'[c].entry = call[c].entry /\ early' = early
    BY <1>10, <1>t DEF ClusterCancels, CancelAnswers, TypeOK, Local
  <2> QED BY <2>1, <1>t DEF Shape, Unborn, Polling
<1> QED BY <1>1, <1>2, <1>3, <1>4, <1>5, <1>6, <1>7, <1>8, <1>9, <1>10, CallStep(c) DEF CallStep

-----------------------------------------------------------------------------

(* What a call's step may do to an entry of the log: leave it, drop it,    *)
(* bring it to life, or store a result in the copy the call has read.      *)
StoresResult(c, i) ==
  /\ call[c].pc = "answered" /\ call[c].id = i /\ call[c].result # None
  /\ entries'[i] = WithResult(call[c].entry, call[c].result)
  /\ UNCHANGED <<born, jobs, forgotten>>
  /\ call'[c] = Idle

Written(c, i) ==
  \/ entries'[i] = None
  \/ entries'[i] = entries[i]
  \/ /\ born[i] = None /\ born'[i] = now
     /\ \E h \in {None} \cup {<<i, a>> : a \in Attempts} : entries'[i] = NewEntry(h)
  \/ StoresResult(c, i)

(* What an action does to an entry of the log: drops it, writes the one of *)
(* a new submission, or stores a result in the copy a wait had read.       *)
LEMMA Writes ==
  ASSUME TypeOK, Shapes, OwnIds, NEW c \in Calls, CallStep(c), NEW i \in Ids
  PROVE  Written(c, i)
<1>p. Pruned \in [Ids -> Entry \cup {None}] /\ Pruned[i] \in {entries[i], None}
  BY LogTypes DEF TypeOK, Pruned
<1>1. CASE born' # born
  <2>1. PICK k \in Ids : Birth(c, k)
    BY <1>1, Births
  <2>2. PICK h \in {None} \cup {<<k, a>> : a \in Attempts} : entries' = [Pruned EXCEPT ![k] = NewEntry(h)]
    BY <2>1 DEF Birth, AfterRecord
  <2>3. CASE i = k
    <3>1. entries'[i] = NewEntry(h)
      BY <2>2, <2>3, <1>p
    <3>2. born[i] = None /\ born'[i] = now
      BY <2>1, <2>3 DEF Birth, TypeOK
    <3> QED BY <3>1, <3>2, <2>3 DEF Written
  <2>4. CASE i # k
    BY <2>2, <2>4, <1>p DEF Written
  <2> QED BY <2>3, <2>4
<1>2. ASSUME born' = born, NEW k \in Ids, WaitStart(c, k) \/ FetchStart(c, k) PROVE Written(c, i)
  BY <1>2 DEF WaitStart, FetchStart, AfterGet, Written, TypeOK
<1>3. ASSUME born' = born, NEW k \in Ids, ExecuteStart(c, k) \/ CancelStart(c, k) \/ SubmitStart(c, k)
      PROVE  Written(c, i)
  BY <1>3 DEF ExecuteStart, CancelStart, SubmitStart, Written
<1>4. ASSUME NEW k \in Ids, ExecuteRefused(c, k) PROVE born' # born
  BY <1>4, NoneIsNoTime DEF ExecuteRefused, RecordOutcome, Fresh, TypeOK
<1>5. CASE ExecuteEnd(c) \/ SubmitDone(c)
  <2>1. call[c].id \in Ids /\ born[call[c].id] = None
    BY <1>5 DEF ExecuteEnd, SubmitDone, Shapes, Shape, Unborn
  <2>2. born'[call[c].id] = now
    BY <1>5, <2>1 DEF ExecuteEnd, SubmitDone, RecordOutcome, TypeOK
  <2>3. now # None
    BY NoneIsNoTime DEF TypeOK
  <2> QED BY <2>1, <2>2, <2>3, <1>1
<1>6. CASE CancelEnd(c)
  BY <1>6 DEF CancelEnd, Forget, AfterForget, Written, TypeOK
<1>7. CASE WaitTerminal(c) /\ born' = born
  BY <1>7, <1>p DEF WaitTerminal, AfterRecord, Written, StoresResult, Reply, TypeOK
<1>8. CASE \/ SubmitRefused(c) \/ SubmitPost(c) \/ ClusterStarts(c) \/ ConnectionLost(c) \/ SubmitFails(c)
           \/ PollAnswered(c) \/ PollFails(c) \/ WaitPending(c) \/ WaitSleep(c) \/ WaitWake(c)
           \/ FetchEnd(c) \/ ClusterCancels(c) \/ CancelFails(c)
  BY <1>8 DEF SubmitRefused, SubmitPost, ClusterStarts, ConnectionLost, SubmitFails, PollAnswered, PollFails,
              WaitPending, WaitSleep, WaitWake, FetchEnd, ClusterCancels, CancelAnswers, CancelFails, Written
<1> QED BY <1>1, <1>2, <1>3, <1>4, <1>5, <1>6, <1>7, <1>8, CallStep(c) DEF CallStep

(* A call holds the entry it held before, or one it just found in the log. *)
LEMMA Reads ==
  ASSUME TypeOK, Shapes, NEW c \in Calls, CallStep(c), call'[c].entry # None
  PROVE  \/ call'[c].entry = call[c].entry /\ call'[c].id = call[c].id
         \/ /\ call[c].pc = "idle" /\ call'[c].id \in Ids /\ Found(call'[c].id)
            /\ call'[c].entry = entries[call'[c].id] /\ UNCHANGED <<now, jobs, born, forgotten>>
<1>t. call[c] \in Local /\ Shape(c) /\ Idle.entry = None
  BY DEF TypeOK, Shapes, Idle
<1>1. ASSUME NEW i \in Ids, WaitStart(c, i)
      PROVE  call'[c].id = i /\ Found(i) /\ call'[c].entry = entries[i]
  <2>1. call'[c] # Idle
    BY <1>t
  <2>2. PICK w \in {0, Window} : call' = [call EXCEPT ![c] = [Idle EXCEPT
               !.pc = "polling", !.id = i, !.entry = entries[i], !.until = now + w]]
    BY <1>1, <2>1 DEF WaitStart, Reply, TypeOK
  <2>3. Found(i)
    BY <1>1, <2>1 DEF WaitStart, Reply, TypeOK
  <2> QED BY <2>2, <2>3 DEF TypeOK, Idle
<1>2. ASSUME NEW i \in Ids, FetchStart(c, i)
      PROVE  call'[c].id = i /\ Found(i) /\ call'[c].entry = entries[i]
  <2>1. call'[c] # Idle
    BY <1>t
  <2>2. call' = [call EXCEPT ![c] = [Idle EXCEPT !.pc = "fetching", !.id = i, !.entry = entries[i]]]
    BY <1>2, <2>1 DEF FetchStart, Reply, TypeOK
  <2>3. Found(i)
    BY <1>2, <2>1 DEF FetchStart, Reply, TypeOK
  <2> QED BY <2>2, <2>3 DEF TypeOK, Idle
<1>3. ASSUME NEW i \in Ids, ExecuteStart(c, i) \/ SubmitStart(c, i) \/ CancelStart(c, i) PROVE FALSE
  BY <1>3 DEF ExecuteStart, SubmitStart, CancelStart, TypeOK, Idle
<1>4. ASSUME NEW i \in Ids, ExecuteRefused(c, i) PROVE FALSE
  BY <1>4, <1>t DEF ExecuteRefused, IsIdle, Shape
<1>5. CASE \/ ExecuteEnd(c) \/ SubmitRefused(c) \/ SubmitFails(c) \/ SubmitDone(c) \/ PollFails(c)
           \/ WaitPending(c) \/ WaitTerminal(c) \/ FetchEnd(c) \/ CancelEnd(c) \/ CancelFails(c)
  <2>1. call'[c] = Idle
    BY <1>5 DEF ExecuteEnd, SubmitRefused, SubmitFails, SubmitDone, PollFails, WaitPending, WaitTerminal,
                FetchEnd, CancelEnd, Forget, CancelFails, Reply, TypeOK
  <2> QED BY <2>1, <1>t
<1>6. CASE (SubmitPost(c) \/ ClusterStarts(c) \/ ConnectionLost(c)) /\ call'[c] # Idle
  BY <1>6, <1>t DEF SubmitPost, ClusterStarts, ConnectionLost, Goto, Reply, TypeOK, Local
<1>7. CASE PollAnswered(c) \/ WaitSleep(c) \/ WaitWake(c) \/ ClusterCancels(c)
  BY <1>7, <1>t DEF PollAnswered, WaitSleep, WaitWake, ClusterCancels, CancelAnswers, Goto, TypeOK, Local
<1>8. ASSUME NEW i \in Ids, WaitStart(c, i) \/ FetchStart(c, i)
      PROVE  call[c].pc = "idle" /\ UNCHANGED <<now, jobs, born, forgotten>>
  BY <1>8 DEF WaitStart, FetchStart, IsIdle
<1> QED BY <1>t, <1>1, <1>2, <1>3, <1>4, <1>5, <1>6, <1>7, <1>8, CallStep(c) DEF CallStep

(* A call that is submitting held its id before the step, or took one that *)
(* no call had.                                                            *)
LEMMA Names ==
  ASSUME TypeOK, Shapes, NEW c \in Calls, CallStep(c), call'[c].pc \in Unborn
  PROVE  \/ call[c].pc \in Unborn /\ call'[c].id = call[c].id
         \/ \A d \in Calls : call[d].id # call'[c].id
<1>t. call[c] \in Local /\ Shape(c) /\ Idle.pc = "idle"
  BY DEF TypeOK, Shapes, Idle
<1>1. ASSUME NEW i \in Ids, ExecuteStart(c, i) \/ SubmitStart(c, i)
      PROVE  \A d \in Calls : call[d].id # call'[c].id
  <2>1. call'[c].id = i
    BY <1>1 DEF ExecuteStart, SubmitStart, TypeOK, Idle
  <2> QED BY <2>1, <1>1 DEF ExecuteStart, SubmitStart, Fresh
<1>2. ASSUME NEW i \in Ids, WaitStart(c, i) \/ FetchStart(c, i) \/ CancelStart(c, i) PROVE FALSE
  <2>1. CASE WaitStart(c, i)
    <3>1. call'[c] = Idle \/ call'[c].pc = "polling"
      BY <2>1 DEF WaitStart, Reply, TypeOK, Idle
    <3> QED BY <3>1, <1>t DEF Unborn
  <2>2. CASE FetchStart(c, i)
    <3>1. call'[c] = Idle \/ call'[c].pc = "fetching"
      BY <2>2 DEF FetchStart, Reply, TypeOK, Idle
    <3> QED BY <3>1, <1>t DEF Unborn
  <2>3. CASE CancelStart(c, i)
    <3>1. call'[c] = Idle \/ call'[c].pc = "cancelling"
      BY <2>3 DEF CancelStart, Reply, TypeOK, Idle
    <3> QED BY <3>1, <1>t DEF Unborn
  <2> QED BY <1>2, <2>1, <2>2, <2>3
<1>3. ASSUME NEW i \in Ids, ExecuteRefused(c, i) PROVE FALSE
  BY <1>3, <1>t DEF ExecuteRefused, IsIdle, Unborn
<1>4. CASE \/ ExecuteEnd(c) \/ SubmitRefused(c) \/ SubmitFails(c) \/ SubmitDone(c) \/ PollFails(c)
           \/ WaitPending(c) \/ WaitTerminal(c) \/ FetchEnd(c) \/ CancelEnd(c) \/ CancelFails(c)
  <2>1. call'[c] = Idle
    BY <1>4 DEF ExecuteEnd, SubmitRefused, SubmitFails, SubmitDone, PollFails, WaitPending, WaitTerminal,
                FetchEnd, CancelEnd, Forget, CancelFails, Reply, TypeOK
  <2> QED BY <2>1, <1>t DEF Unborn
<1>5. CASE SubmitPost(c) \/ ClusterStarts(c) \/ ConnectionLost(c)
  <2>1. call'[c] # Idle
    BY <1>t DEF Unborn
  <2> QED BY <1>5, <2>1, <1>t DEF SubmitPost, ClusterStarts, ConnectionLost, Goto, Reply, Unborn, AsyncPhases,
                                  TypeOK, Local
<1>6. CASE PollAnswered(c) \/ WaitSleep(c) \/ WaitWake(c) \/ ClusterCancels(c)
  <2>1. call'[c].pc \in Polling \cup {"cancelAnswered"}
    BY <1>6, <1>t DEF PollAnswered, WaitSleep, WaitWake, ClusterCancels, CancelAnswers, Goto, Polling, TypeOK, Local
  <2> QED BY <2>1 DEF Unborn, Polling
<1> QED BY <1>1, <1>2, <1>3, <1>4, <1>5, <1>6, CallStep(c) DEF CallStep

-----------------------------------------------------------------------------
(* The first half of the inductive invariant: types, phases, names, stamps.*)

Inv == TypeOK /\ Shapes /\ OwnIds /\ Stamps

(* Initially no id is in use and nothing is recorded.                      *)
LEMMA InvInit == Init => Inv
<1> SUFFICES ASSUME Init PROVE Inv
  OBVIOUS
<1> QED BY TypeInit, NoneIsNoEntry DEF Inv, Init, OwnIds, Stamps, Idle, Unborn

(* A cancel asked early stays one.                                         *)
LEMMA EarlyGrows ==
  ASSUME NEW c \in Calls, CallStep(c)
  PROVE  early \subseteq early'
  BY CallStep(c) DEF CallStep, ExecuteStart, ExecuteRefused, RecordOutcome, WaitStart, FetchStart, CancelStart,
              SubmitStart, ExecuteEnd, SubmitRefused, SubmitPost, ClusterStarts, ConnectionLost, SubmitFails,
              SubmitDone, PollAnswered, PollFails, WaitPending, WaitSleep, WaitWake, WaitTerminal, FetchEnd,
              ClusterCancels, CancelEnd, CancelFails

(* Every call's step keeps it.                                             *)
LEMMA InvCall ==
  ASSUME Inv, TypeOK', NEW c \in Calls, CallStep(c)
  PROVE  Inv'
<1> USE NoneIsNoEntry
<1>0. TypeOK /\ Shapes /\ OwnIds /\ Stamps
  BY DEF Inv
<1>1. \A d \in Calls \ {c} : call'[d] = call[d]
  BY <1>0, OthersUnmoved
<1>2. (\A i \in Ids : born[i] # None => born'[i] = born[i]) /\ early \subseteq early'
  BY <1>0, BornOnce, EarlyGrows
<1>3. Shapes'
  <2>1. ASSUME NEW d \in Calls \ {c} PROVE Shape(d)'
    <3>1. Shape(d) /\ call'[d] = call[d]
      BY <1>0, <1>1 DEF Shapes
    <3>2. ASSUME call[d].pc \in Unborn PROVE born'[call[d].id] = None
      <4>1. CASE born' = born
        BY <4>1, <3>1, <3>2 DEF Shape
      <4>2. CASE born' # born
        <5>1. PICK i \in Ids : Birth(c, i)
          BY <4>2, <1>0, Births
        <5>2. call[d].id # i
          BY <5>1, <3>2 DEF Birth
        <5> QED BY <5>1, <5>2, <3>1, <3>2, <1>0 DEF Birth, Shape, TypeOK
      <4> QED BY <4>1, <4>2
    <3> QED BY <3>1, <3>2, <1>2 DEF Shape
  <2>2. Shape(c)'
    BY <1>0, OwnShape
  <2> QED BY <2>1, <2>2 DEF Shapes
<1>4. OwnIds'
  <2>1. call'[c].pc \in Unborn => (\/ call[c].pc \in Unborn /\ call'[c].id = call[c].id
                                  \/ \A d \in Calls : call[d].id # call'[c].id)
    BY <1>0, Names
  <2> QED BY <2>1, <1>0, <1>1 DEF OwnIds
<1>5. Stamps'
  <2>1. ASSUME NEW i \in Ids, entries'[i] # None PROVE born'[i] # None /\ entries'[i].at = born'[i]
    <3>1. Written(c, i)
      BY <1>0, Writes
    <3>2. CASE entries'[i] = entries[i]
      BY <3>2, <2>1, <1>0, <1>2 DEF Stamps
    <3>3. CASE born'[i] = now /\ \E h \in {None} \cup {<<i, a>> : a \in Attempts} : entries'[i] = NewEntry(h)
      BY <3>3, <1>0, NoneIsNoTime DEF NewEntry, TypeOK
    <3>4. CASE StoresResult(c, i)
      <4>1. call[c].entry # None /\ call[c].entry \in Entry
        BY <3>4, <1>0 DEF StoresResult, Shapes, Shape, Polling, TypeOK, Local
      <4>2. call[c].entry.at = born[i] /\ born[i] # None
        BY <4>1, <3>4, <1>0 DEF StoresResult, Stamps, Shapes, Shape
      <4> QED BY <4>1, <4>2, <3>4 DEF StoresResult, WithResult, Entry
    <3> QED BY <2>1, <3>1, <3>2, <3>3, <3>4 DEF Written
  <2>2. ASSUME NEW d \in Calls, call'[d].entry # None PROVE call'[d].entry.at = born'[call'[d].id]
    <3>1. CASE call'[d].entry = call[d].entry /\ call'[d].id = call[d].id
      BY <3>1, <2>2, <1>0, <1>2 DEF Stamps, Shapes, Shape
    <3>2. CASE d = c /\ Found(call'[c].id) /\ call'[c].id \in Ids /\ call'[c].entry = entries[call'[c].id]
               /\ born' = born
      BY <3>2, <2>2, <1>0 DEF Found, Stamps
    <3> QED BY <2>2, <3>1, <3>2, <1>0, <1>1, Reads
  <2>3. \A i \in forgotten' : born'[i] # None
    <3>1. \A i \in forgotten' : i \in forgotten \/ (i = call[c].id /\ entries[i] # None)
      <4>1. CASE CancelEnd(c)
        BY <4>1 DEF CancelEnd, Forget
      <4>2. CASE forgotten' = forgotten
        BY <4>2
      <4> QED BY <4>1, <4>2, CallStep(c) DEF CallStep, ExecuteStart, ExecuteRefused, RecordOutcome, WaitStart,
             FetchStart, CancelStart, SubmitStart, ExecuteEnd, SubmitRefused, SubmitPost, ClusterStarts,
             ConnectionLost, SubmitFails, SubmitDone, PollAnswered, PollFails, WaitPending, WaitSleep, WaitWake,
             WaitTerminal, FetchEnd, ClusterCancels, CancelAnswers, CancelFails
    <3> QED BY <3>1, <1>0, <1>2 DEF Stamps, Shapes, Shape, TypeOK
  <2> QED BY <2>1, <2>2, <2>3 DEF Stamps
<1> QED BY <1>3, <1>4, <1>5 DEF Inv

(* The steps nobody calls: they move no call, and bring nothing to life.   *)
Elsewhere == (\E j \in Jobs : JobEnds(j)) \/ ReadHistory \/ Tick \/ UNCHANGED vars

(* Such a step leaves the calls alone and can only drop entries.           *)
LEMMA NothingNew ==
  ASSUME TypeOK, Elsewhere
  PROVE  /\ UNCHANGED <<call, born, forgotten, early>>
         /\ \A i \in Ids : entries'[i] \in {None, entries[i]}
  BY DEF Elsewhere, JobEnds, ReadHistory, Tick, vars, Pruned, TypeOK

(* So every step keeps the ids apart and the stamps equal to the births.   *)
LEMMA InvStep == Inv /\ [Next]_vars => Inv'
<1> SUFFICES ASSUME Inv, [Next]_vars PROVE Inv'
  OBVIOUS
<1>1. TypeOK'
  BY TypeStep DEF Inv
<1>2. ASSUME NEW c \in Calls, CallStep(c) PROVE Inv'
  BY <1>1, <1>2, InvCall
<1>3. CASE Elsewhere
  <2>1. UNCHANGED <<call, born, forgotten, early>> /\ \A i \in Ids : entries'[i] \in {None, entries[i]}
    BY <1>3, NothingNew DEF Inv
  <2> QED BY <1>1, <2>1 DEF Inv, Shapes, Shape, OwnIds, Stamps
<1> QED BY <1>2, <1>3, NextCases DEF Elsewhere

(* The variables keep their types, for every number of calls, ids and      *)
(* tenants: in particular a submission is never posted a third time.       *)
THEOREM TypesHold == Spec => []TypeOK
<1>1. Spec => []Inv
  BY InvInit, InvStep, PTL DEF Spec
<1>2. Inv => TypeOK
  BY DEF Inv
<1> QED BY <1>1, <1>2, PTL

(* A wait or a fetch that finds an entry began within TTL of the           *)
(* submission, whatever was recorded in between.                           *)
THEOREM LifetimesHold == Spec => ServedWithinTTL
<1>1. Inv /\ [Next]_vars => [\A c \in Calls : Serves(c) => now - born[call'[c].id] < TTL]_vars
  <2> SUFFICES ASSUME Inv, [Next]_vars, NEW c \in Calls, Serves(c)
               PROVE  now - born[call'[c].id] < TTL
    OBVIOUS
  <2>1. TypeOK /\ Shapes /\ OwnIds /\ Stamps
    BY DEF Inv
  <2>2. call'[c] # call[c]
    BY DEF Serves
  <2>3. CallStep(c)
    <3>1. ~Elsewhere
      BY <2>1, <2>2, NothingNew
    <3>2. PICK d \in Calls : CallStep(d)
      BY <3>1, NextCases DEF Elsewhere
    <3>3. d = c
      BY <2>1, <2>2, <3>2, OthersUnmoved
    <3> QED BY <3>2, <3>3
  <2>4. Shape(c) /\ Shape(c)'
    BY <2>1, <2>3, OwnShape DEF Shapes
  <2>5. call[c].entry = None
    BY <2>4 DEF Serves, Shape, Idle
  <2>6. call'[c].entry # None
    <3>1. CASE call'[c].pc = "polling"
      BY <3>1, <2>4 DEF Shape, Polling
    <3>2. CASE call'[c].pc = "fetching"
      <4>1. ASSUME NEW i \in Ids, ExecuteStart(c, i) \/ SubmitStart(c, i) \/ CancelStart(c, i)
                                  \/ WaitStart(c, i)
            PROVE  FALSE
        <5>1. CASE ExecuteStart(c, i) \/ SubmitStart(c, i) \/ CancelStart(c, i)
          <6>1. PICK pc \in {"executing", "compiling", "cancelling"} :
                  call' = [call EXCEPT ![c] = [Idle EXCEPT !.pc = pc, !.id = i]]
            BY <5>1 DEF ExecuteStart, SubmitStart, CancelStart
          <6> QED BY <6>1, <3>2, <2>1 DEF TypeOK, Idle
        <5>2. CASE WaitStart(c, i)
          <6>1. call'[c] # Idle
            BY <3>2 DEF Idle
          <6>2. PICK w \in {0, Window} : call' = [call EXCEPT ![c] = [Idle EXCEPT
                       !.pc = "polling", !.id = i, !.entry = entries[i], !.until = now + w]]
            BY <5>2, <6>1, <2>1 DEF WaitStart, Reply, TypeOK
          <6> QED BY <6>2, <3>2, <2>1 DEF TypeOK, Idle
        <5> QED BY <4>1, <5>1, <5>2
      <4>2. ASSUME NEW i \in Ids, ExecuteRefused(c, i) PROVE FALSE
        BY <4>2, <2>2 DEF ExecuteRefused
      <4>3. ~(\/ ExecuteEnd(c) \/ SubmitRefused(c) \/ SubmitPost(c) \/ ClusterStarts(c) \/ ConnectionLost(c)
              \/ SubmitFails(c) \/ SubmitDone(c) \/ PollAnswered(c) \/ PollFails(c) \/ WaitPending(c)
              \/ WaitSleep(c) \/ WaitWake(c) \/ WaitTerminal(c) \/ FetchEnd(c) \/ ClusterCancels(c)
              \/ CancelEnd(c) \/ CancelFails(c))
        BY DEF Serves, ExecuteEnd, SubmitRefused, SubmitPost, ClusterStarts, ConnectionLost, SubmitFails,
           SubmitDone, PollAnswered, PollFails, WaitPending, WaitSleep, WaitWake, WaitTerminal, FetchEnd,
           ClusterCancels, CancelAnswers, CancelEnd, Forget, CancelFails, AsyncPhases
      <4>4. PICK i \in Ids : FetchStart(c, i)
        BY <2>3, <4>1, <4>2, <4>3 DEF CallStep
      <4>5. Found(i) /\ call'[c].entry = entries[i]
        <5>1. call'[c] # Idle
          BY <3>2 DEF Idle
        <5>2. Found(i) /\ call' = [call EXCEPT ![c] = [Idle EXCEPT !.pc = "fetching", !.id = i,
                                                                  !.entry = entries[i]]]
          BY <4>4, <5>1, <2>1 DEF FetchStart, Reply, TypeOK
        <5> QED BY <5>2, <2>1 DEF TypeOK, Idle
      <4> QED BY <4>5 DEF Found
    <3> QED BY <3>1, <3>2 DEF Serves
  <2>7. call'[c].id \in Ids /\ Found(call'[c].id)
    BY <2>1, <2>3, <2>5, <2>6, Reads
  <2> QED BY <2>1, <2>7, LogAssumption DEF Found, Expired, Stamps, TypeOK, Entry
<1>2. Spec => []Inv
  BY InvInit, InvStep, PTL DEF Spec
<1> QED BY <1>1, <1>2, PTL DEF Spec, ServedWithinTTL

-----------------------------------------------------------------------------
(* The second half: where results come from.  A call holds a result only   *)
(* between the answer to its poll and the end of its wait, and all copies  *)
(* of an entry carry the same handle.                                      *)

Answer(c) ==
  call[c].result # None =>
    /\ call[c].pc = "answered" /\ call[c].answer = "success"
    /\ call[c].result = call[c].entry.handle
    /\ jobs[call[c].result] = "success"
Answers == \A c \in Calls : Answer(c)

Agree ==
  /\ \A c \in Calls : (call[c].entry # None /\ entries[call[c].id] # None)
        => call[c].entry.handle = entries[call[c].id].handle
  /\ \A c, d \in Calls : (call[c].entry # None /\ call[d].entry # None /\ call[c].id = call[d].id)
        => call[c].entry.handle = call[d].entry.handle

RInv == Inv /\ OnlyFinishedResults /\ Answers /\ Agree

(* Initially there is no result anywhere.                                  *)
LEMMA RInvInit == Init => RInv
<1> SUFFICES ASSUME Init PROVE RInv
  OBVIOUS
<1> QED BY InvInit, NoneIsNoEntry DEF RInv, Init, OnlyFinishedResults, Answers, Answer, Agree, Idle

(* A job that has succeeded stays so, once its submission is born.         *)
LEMMA SuccessKept ==
  ASSUME Inv, [Next]_vars, NEW j \in Jobs, jobs[j] = "success", born[j[1]] # None
  PROVE  jobs'[j] = "success"
<1>0. TypeOK /\ Shapes
  BY DEF Inv
<1>1. ASSUME NEW c \in Calls, CallStep(c) PROVE jobs'[j] = "success"
  <2>1. CASE ClusterStarts(c)
    <3>1. born[call[c].id] = None
      BY <2>1, <1>0 DEF ClusterStarts, Shapes, Shape, Unborn
    <3>2. j # <<call[c].id, call[c].attempt>>
      BY <3>1
    <3> QED BY <3>2, <2>1, <1>0 DEF ClusterStarts, TypeOK
  <2>2. CASE ClusterCancels(c)
    BY <2>2, <1>0 DEF ClusterCancels, CancelAnswers, Running, TypeOK
  <2>3. CASE jobs' = jobs
    BY <2>3
  <2> QED BY <1>1, <2>1, <2>2, <2>3 DEF CallStep, ExecuteStart, ExecuteRefused, RecordOutcome, WaitStart,
         FetchStart, CancelStart, SubmitStart, ExecuteEnd, SubmitRefused, SubmitPost, ConnectionLost,
         SubmitFails, SubmitDone, PollAnswered, PollFails, WaitPending, WaitSleep, WaitWake, WaitTerminal,
         FetchEnd, CancelEnd, Forget, CancelFails
<1>2. CASE Elsewhere
  BY <1>2, <1>0 DEF Elsewhere, JobEnds, ReadHistory, Tick, vars, TypeOK
<1> QED BY <1>1, <1>2, NextCases DEF Elsewhere

(* Only a poll brings a call a result.                                     *)
LEMMA PollsOnly ==
  ASSUME RInv, NEW c \in Calls, CallStep(c), call'[c].result # None
  PROVE  /\ call'[c].pc = "answered" /\ call'[c].answer = "success"
         /\ call'[c].id = call[c].id /\ call'[c].entry = call[c].entry
         /\ call'[c].result = call[c].entry.handle /\ jobs[call[c].entry.handle] = "success"
         /\ UNCHANGED <<jobs, entries, born>>
<1>t. call[c] \in Local /\ Shape(c) /\ Answer(c) /\ Idle.result = None /\ TypeOK
  BY DEF RInv, Inv, TypeOK, Shapes, Answers, Idle
<1>1. ASSUME NEW i \in Ids, ExecuteStart(c, i) \/ SubmitStart(c, i) \/ CancelStart(c, i) PROVE FALSE
  <2>1. PICK pc \in {"executing", "compiling", "cancelling"} :
          call' = [call EXCEPT ![c] = [Idle EXCEPT !.pc = pc, !.id = i]]
    BY <1>1 DEF ExecuteStart, SubmitStart, CancelStart
  <2> QED BY <2>1, <1>t DEF TypeOK, Idle
<1>2. ASSUME NEW i \in Ids, WaitStart(c, i) PROVE FALSE
  <2>1. call'[c] # Idle
    BY <1>t
  <2>2. PICK w \in {0, Window} : call' = [call EXCEPT ![c] = [Idle EXCEPT
               !.pc = "polling", !.id = i, !.entry = entries[i], !.until = now + w]]
    BY <1>2, <2>1, <1>t DEF WaitStart, Reply, TypeOK
  <2> QED BY <2>2, <1>t DEF TypeOK, Idle
<1>3. ASSUME NEW i \in Ids, FetchStart(c, i) PROVE FALSE
  <2>1. call'[c] # Idle
    BY <1>t
  <2>2. call' = [call EXCEPT ![c] = [Idle EXCEPT !.pc = "fetching", !.id = i, !.entry = entries[i]]]
    BY <1>3, <2>1, <1>t DEF FetchStart, Reply, TypeOK
  <2> QED BY <2>2, <1>t DEF TypeOK, Idle
<1>4. ASSUME NEW i \in Ids, ExecuteRefused(c, i) PROVE FALSE
  BY <1>4, <1>t DEF ExecuteRefused, IsIdle, Answer
<1>5. CASE \/ ExecuteEnd(c) \/ SubmitRefused(c) \/ SubmitFails(c) \/ SubmitDone(c) \/ PollFails(c)
           \/ WaitPending(c) \/ WaitTerminal(c) \/ FetchEnd(c) \/ CancelEnd(c) \/ CancelFails(c)
  <2>1. call'[c] = Idle
    BY <1>5, <1>t DEF ExecuteEnd, SubmitRefused, SubmitFails, SubmitDone, PollFails, WaitPending, WaitTerminal,
                FetchEnd, CancelEnd, Forget, CancelFails, Reply, TypeOK
  <2> QED BY <2>1, <1>t
<1>6. CASE \/ SubmitPost(c) \/ ClusterStarts(c) \/ ConnectionLost(c) \/ WaitSleep(c) \/ WaitWake(c)
           \/ ClusterCancels(c)
  <2>1. call[c].result = None
    BY <1>6, <1>t DEF SubmitPost, ClusterStarts, ConnectionLost, WaitSleep, WaitWake, ClusterCancels, CancelAnswers, Answer,
                      AsyncPhases
  <2>2. call'[c] # Idle
    BY <1>t
  <2>3. call'[c].result = call[c].result
    BY <1>6, <2>2, <1>t DEF SubmitPost, ClusterStarts, ConnectionLost, WaitSleep, WaitWake, ClusterCancels, CancelAnswers,
                            Goto, Reply, TypeOK, Local
  <2> QED BY <2>1, <2>3
<1>7. CASE PollAnswered(c)
  <2>1. PICK r \in {call[c].entry.handle, None} :
          call' = [call EXCEPT ![c] = [call[c] EXCEPT
                    !.pc = "answered", !.answer = jobs[call[c].entry.handle],
                    !.result = IF jobs[call[c].entry.handle] = "success" THEN r ELSE None]]
    BY <1>7 DEF PollAnswered
  <2>2. /\ call'[c].pc = "answered" /\ call'[c].answer = jobs[call[c].entry.handle]
        /\ call'[c].id = call[c].id /\ call'[c].entry = call[c].entry
        /\ call'[c].result = IF jobs[call[c].entry.handle] = "success" THEN r ELSE None
    BY <2>1, <1>t DEF TypeOK, Local
  <2> QED BY <2>2, <1>7 DEF PollAnswered
<1> QED BY <1>1, <1>2, <1>3, <1>4, <1>5, <1>6, <1>7, CallStep(c) DEF CallStep

(* An entry whose results are real keeps them so while its id is born.     *)
LEMMA RealKept ==
  ASSUME Inv, [Next]_vars, NEW i \in Ids, NEW e \in Entry, ResultOf(i, e), born[i] # None
  PROVE  ResultOf(i, e)'
  BY SuccessKept, NoneIsNoEntry DEF ResultOf, Entry

(* Every call's step keeps the results real: a poll brings the handle of a *)
(* job that succeeded, and only such a handle is stored.                   *)
LEMMA RInvCall ==
  ASSUME RInv, [Next]_vars, NEW c \in Calls, CallStep(c)
  PROVE  RInv'
<1> USE NoneIsNoEntry
<1>0. /\ Inv /\ TypeOK /\ Shapes /\ OwnIds /\ Stamps
      /\ OnlyFinishedResults /\ Answers /\ Agree
      /\ Inv' /\ TypeOK' /\ Shapes' /\ Stamps'
  BY InvStep DEF RInv, Inv
<1>1. \A d \in Calls \ {c} : call'[d] = call[d]
  BY <1>0, OthersUnmoved
<1>2. \A i \in Ids : Written(c, i)
  BY <1>0, Writes
<1>3. ASSUME NEW d \in Calls, call'[d].entry # None
      PROVE  \/ call'[d].entry = call[d].entry /\ call'[d].id = call[d].id
             \/ /\ d = c /\ call[c].pc = "idle"
                /\ call'[c].id \in Ids /\ Found(call'[c].id) /\ call'[c].entry = entries[call'[c].id]
                /\ UNCHANGED <<now, jobs, born, forgotten>>
  BY <1>0, <1>1, <1>3, Reads
<1>4. OnlyFinishedResults'
  <2>1. ASSUME NEW i \in Ids, NEW e \in Entry, entries'[i] = e PROVE ResultOf(i, e)'
    <3>1. CASE e = entries[i]
      <4>1. ResultOf(i, e) /\ born[i] # None
        BY <3>1, <1>0 DEF OnlyFinishedResults, Stamps
      <4> QED BY <4>1, <1>0, RealKept
    <3>2. CASE \E h \in {None} \cup {<<i, a>> : a \in Attempts} : e = NewEntry(h)
      <4>1. PICK h \in {None} \cup {<<i, a>> : a \in Attempts} : e = NewEntry(h)
        BY <3>2
      <4>2. e.result = None /\ e.handle = h
        BY <4>1 DEF NewEntry
      <4> QED BY <4>2 DEF ResultOf
    <3>3. CASE StoresResult(c, i)
      <4>1. call[c].entry \in Entry /\ ResultOf(i, call[c].entry)
        BY <3>3, <1>0 DEF StoresResult, Shapes, Shape, Polling, OnlyFinishedResults, TypeOK, Local
      <4>2. call[c].result = call[c].entry.handle /\ jobs[call[c].result] = "success"
        BY <3>3, <1>0 DEF StoresResult, Answers, Answer
      <4>3. e.handle = call[c].entry.handle /\ e.result = call[c].result /\ jobs' = jobs
        BY <2>1, <3>3, <4>1 DEF StoresResult, WithResult, Entry
      <4> QED BY <4>1, <4>2, <4>3 DEF ResultOf
    <3> QED BY <2>1, <1>2, <3>1, <3>2, <3>3 DEF Written
  <2>2. ASSUME NEW d \in Calls, NEW k \in Ids, NEW e \in Entry, call'[d].entry = e, call'[d].id = k
        PROVE  ResultOf(k, e)'
    <3>1. CASE e = call[d].entry /\ k = call[d].id
      <4>1. ResultOf(k, e) /\ born[k] # None
        BY <3>1, <1>0 DEF OnlyFinishedResults, Shapes, Shape
      <4> QED BY <4>1, <1>0, RealKept
    <3>2. CASE Found(k) /\ e = entries[k] /\ UNCHANGED jobs
      <4>1. ResultOf(k, e)
        BY <3>2, <1>0 DEF Found, OnlyFinishedResults
      <4> QED BY <4>1, <3>2 DEF ResultOf
    <3> QED BY <2>2, <1>3, <3>1, <3>2
  <2>3. \A i \in Ids : entries'[i] # None => entries'[i] \in Entry
    BY <1>0 DEF TypeOK
  <2>4. \A d \in Calls : call'[d].entry # None => call'[d].entry \in Entry /\ call'[d].id \in Ids
    BY <1>0 DEF TypeOK, Local, Shapes, Shape
  <2> QED BY <2>1, <2>2, <2>3, <2>4 DEF OnlyFinishedResults
<1>5. Answers'
  <2>1. ASSUME NEW d \in Calls \ {c}, call[d].result # None PROVE Answer(d)'
    <3>1. Answer(d) /\ call'[d] = call[d]
      BY <1>0, <1>1 DEF Answers
    <3>2. call[d].entry # None /\ call[d].id \in Ids /\ born[call[d].id] # None
      BY <2>1, <3>1, <1>0 DEF Answer, Shapes, Shape, Polling
    <3>3. call[d].result \in Jobs /\ call[d].result[1] = call[d].id
      BY <2>1, <3>1, <3>2, <1>0 DEF Answer, OnlyFinishedResults, ResultOf, TypeOK, Local
    <3>4. jobs'[call[d].result] = "success"
      BY <2>1, <3>1, <3>2, <3>3, <1>0, SuccessKept DEF Answer
    <3> QED BY <3>1, <3>4 DEF Answer
  <2>2. Answer(c)'
    BY PollsOnly DEF Answer
  <2> QED BY <2>1, <2>2, <1>1 DEF Answers, Answer
<1>6. Agree'
  <2>1. ASSUME NEW d \in Calls, call'[d].entry # None, entries'[call'[d].id] # None
        PROVE  call'[d].entry.handle = entries'[call'[d].id].handle
    <3> DEFINE i == call'[d].id
    <3>0. i \in Ids
      BY <2>1, <1>0 DEF Shapes, Shape
    <3>1. CASE entries'[i] = entries[i]
      BY <2>1, <3>1, <1>3, <1>0 DEF Agree
    <3>2. CASE born[i] = None
      BY <2>1, <3>2, <1>3, <1>0 DEF Shapes, Shape, Found, Stamps
    <3>3. CASE StoresResult(c, i)
      <4>1. call[c].entry # None /\ call[c].entry \in Entry /\ call[c].pc = "answered"
        BY <3>3, <1>0 DEF StoresResult, Shapes, Shape, Polling, TypeOK, Local
      <4>2. entries'[i].handle = call[c].entry.handle
        BY <3>3, <4>1 DEF StoresResult, WithResult, Entry
      <4>3. call'[d].entry = call[d].entry /\ call'[d].id = call[d].id
        BY <2>1, <4>1, <1>3
      <4> QED BY <2>1, <4>1, <4>2, <4>3, <3>3, <1>0 DEF StoresResult, Agree
    <3> QED BY <2>1, <3>0, <1>2, <3>1, <3>2, <3>3 DEF Written
  <2>2. ASSUME NEW d \in Calls, NEW e \in Calls, call'[d].entry # None, call'[e].entry # None,
               call'[d].id = call'[e].id
        PROVE  call'[d].entry.handle = call'[e].entry.handle
    BY <2>2, <1>3, <1>0 DEF Agree, Found
  <2> QED BY <2>1, <2>2 DEF Agree
<1> QED BY <1>0, <1>4, <1>5, <1>6 DEF RInv

(* So does every step.                                                     *)
LEMMA RInvStep == RInv /\ [Next]_vars => RInv'
<1> SUFFICES ASSUME RInv, [Next]_vars PROVE RInv'
  OBVIOUS
<1>1. ASSUME NEW c \in Calls, CallStep(c) PROVE RInv'
  BY <1>1, RInvCall
<1>2. CASE Elsewhere
  <2> USE NoneIsNoEntry
  <2>0. /\ Inv /\ TypeOK /\ Shapes /\ Stamps /\ OnlyFinishedResults /\ Answers /\ Agree /\ Inv'
    BY InvStep DEF RInv, Inv
  <2>1. UNCHANGED <<call, born, forgotten>> /\ \A i \in Ids : entries'[i] \in {None, entries[i]}
    BY <1>2, <2>0, NothingNew
  <2>2. ASSUME NEW i \in Ids, NEW e \in Entry, entries'[i] = e PROVE ResultOf(i, e)'
    <3>1. entries[i] = e /\ ResultOf(i, e) /\ born[i] # None
      BY <2>0, <2>1, <2>2 DEF OnlyFinishedResults, Stamps
    <3> QED BY <3>1, <2>0, RealKept
  <2>3. ASSUME NEW d \in Calls, NEW k \in Ids, NEW e \in Entry, call[d].entry = e, call[d].id = k
        PROVE  ResultOf(k, e)'
    <3>1. ResultOf(k, e) /\ born[k] # None
      BY <2>3, <2>0 DEF OnlyFinishedResults, Shapes, Shape
    <3> QED BY <3>1, <2>0, RealKept
  <2>4. ASSUME NEW d \in Calls, call[d].result # None PROVE jobs'[call[d].result] = "success"
    <3>1. Answer(d) /\ call[d].entry # None /\ call[d].id \in Ids /\ born[call[d].id] # None
      BY <2>4, <2>0 DEF Answers, Answer, Shapes, Shape, Polling
    <3>2. call[d].result \in Jobs /\ call[d].result[1] = call[d].id
      BY <2>4, <3>1, <2>0 DEF Answer, OnlyFinishedResults, ResultOf, TypeOK, Local
    <3> QED BY <2>4, <3>1, <3>2, <2>0, SuccessKept DEF Answer
  <2>5. OnlyFinishedResults'
    <3>1. \A i \in Ids : entries'[i] # None => entries'[i] \in Entry
      BY <2>0, <2>1 DEF TypeOK
    <3>2. \A d \in Calls : call[d].entry # None => call[d].entry \in Entry /\ call[d].id \in Ids
      BY <2>0 DEF TypeOK, Local, Shapes, Shape
    <3> QED BY <2>1, <2>2, <2>3, <3>1, <3>2 DEF OnlyFinishedResults
  <2>6. Answers'
    BY <2>0, <2>1, <2>4 DEF Answers, Answer
  <2>7. Agree'
    BY <2>0, <2>1 DEF Agree, Shapes, Shape
  <2> QED BY <2>0, <2>5, <2>6, <2>7 DEF RInv
<1> QED BY <1>1, <1>2, NextCases DEF Elsewhere

(* Every result handle the log or a call holds names a job of its own      *)
(* submission that has succeeded.                                          *)
THEOREM ResultsAreReal == Spec => []OnlyFinishedResults
<1>1. Spec => []RInv
  BY RInvInit, RInvStep, PTL DEF Spec
<1>2. RInv => OnlyFinishedResults
  BY DEF RInv
<1> QED BY <1>1, <1>2, PTL

(* A stored result stays, and stays the same, as long as its entry does.   *)
THEOREM ResultsStick == Spec => ResultSticks
<1>1. RInv /\ [Next]_vars => [\A i \in Ids : (entries[i] # None /\ entries[i].result # None)
              => (entries'[i] = None \/ entries'[i].result = entries[i].result)]_vars
  <2> SUFFICES ASSUME RInv, [Next]_vars, NEW i \in Ids, entries[i] # None, entries[i].result # None,
                      entries'[i] # None
               PROVE  entries'[i].result = entries[i].result
    OBVIOUS
  <2> USE NoneIsNoEntry
  <2>0. TypeOK /\ Shapes /\ OwnIds /\ Stamps /\ OnlyFinishedResults /\ Answers /\ Agree
    BY DEF RInv, Inv
  <2>1. ASSUME NEW c \in Calls, CallStep(c) PROVE entries'[i].result = entries[i].result
    <3>1. Written(c, i)
      BY <2>0, <2>1, Writes
    <3>2. CASE StoresResult(c, i)
      <4>1. call[c].entry # None /\ call[c].entry \in Entry
        BY <3>2, <2>0 DEF StoresResult, Shapes, Shape, Polling, TypeOK, Local
      <4>2. entries'[i].result = call[c].entry.handle
        BY <3>2, <4>1, <2>0 DEF StoresResult, WithResult, Entry, Answers, Answer
      <4>3. entries[i].result = entries[i].handle
        BY <2>0 DEF OnlyFinishedResults, ResultOf
      <4> QED BY <4>1, <4>2, <4>3, <3>2, <2>0 DEF StoresResult, Agree
    <3>3. born[i] # None
      BY <2>0 DEF Stamps
    <3> QED BY <3>1, <3>2, <3>3 DEF Written
  <2>2. CASE Elsewhere
    BY <2>0, <2>2, NothingNew
  <2> QED BY <2>1, <2>2, NextCases DEF Elsewhere
<1>2. Spec => []RInv
  BY RInvInit, RInvStep, PTL DEF Spec
<1> QED BY <1>1, <1>2, PTL DEF Spec, ResultSticks

-----------------------------------------------------------------------------
(* The last part: what the log forgets has stopped, and, if it did not     *)
(* succeed, never comes back.                                              *)

(* A job starts before its submission is born, and ends once.              *)
LEMMA JobMoves ==
  ASSUME Inv, [Next]_vars, NEW j \in Jobs
  PROVE  \/ jobs'[j] = jobs[j]
         \/ jobs[j] = "running" /\ jobs'[j] \in {"success", "failed"}
         \/ born[j[1]] = None /\ jobs'[j] = "running"
<1>0. TypeOK /\ Shapes
  BY DEF Inv
<1>1. ASSUME NEW c \in Calls, CallStep(c)
      PROVE  \/ jobs'[j] = jobs[j]
             \/ jobs[j] = "running" /\ jobs'[j] \in {"success", "failed"}
             \/ born[j[1]] = None /\ jobs'[j] = "running"
  <2>1. CASE ClusterStarts(c)
    <3>1. born[call[c].id] = None
      BY <2>1, <1>0 DEF ClusterStarts, Shapes, Shape, Unborn
    <3> QED BY <3>1, <2>1, <1>0 DEF ClusterStarts, TypeOK
  <2>2. CASE ClusterCancels(c)
    BY <2>2, <1>0 DEF ClusterCancels, CancelAnswers, Running, TypeOK
  <2>3. CASE jobs' = jobs
    BY <2>3
  <2> QED BY <1>1, <2>1, <2>2, <2>3 DEF CallStep, ExecuteStart, ExecuteRefused, RecordOutcome, WaitStart,
         FetchStart, CancelStart, SubmitStart, ExecuteEnd, SubmitRefused, SubmitPost, ConnectionLost,
         SubmitFails, SubmitDone, PollAnswered, PollFails, WaitPending, WaitSleep, WaitWake, WaitTerminal,
         FetchEnd, CancelEnd, Forget, CancelFails
<1>2. CASE Elsewhere
  BY <1>2, <1>0 DEF Elsewhere, JobEnds, ReadHistory, Tick, vars, TypeOK
<1> QED BY <1>1, <1>2, NextCases DEF Elsewhere

(* A call about to forget an id has seen its one job stopped, or asked     *)
(* before the id was logged.                                               *)
Stopped(i) == ~Retried(i) => Running(i) = {}
Stopping ==
  \A c \in Calls : (call[c].pc = "cancelAnswered" /\ call[c].answer \in {"ok", "notFound"})
                      => call[c].id \in early \/ Stopped(call[c].id)

(* The jobs of a submission that has stopped do not start again.           *)
LEMMA StaysStopped ==
  ASSUME Inv, Inv', [Next]_vars, NEW i \in Ids, born[i] # None, Stopped(i)
  PROVE  Stopped(i)'
<1>0. TypeOK /\ TypeOK'
  BY DEF Inv
<1>1. <<i, 1>> \in Jobs /\ <<i, 2>> \in Jobs
  BY DEF Jobs, Attempts
<1>2. Retried(i) => Retried(i)'
  BY <1>0, <1>1, JobMoves DEF Retried
<1>3. ASSUME NEW j \in Jobs, j[1] = i, jobs[j] # "running" PROVE jobs'[j] # "running"
  BY <1>3, JobMoves
<1> QED BY <1>2, <1>3 DEF Stopped, Running

(* What a step adds to the forgotten ids.                                  *)
LEMMA Forgets ==
  ASSUME TypeOK, NEW c \in Calls, CallStep(c), NEW i \in forgotten', i \notin forgotten
  PROVE  /\ call[c].pc = "cancelAnswered" /\ call[c].answer \in {"ok", "notFound"} /\ call[c].id = i
         /\ entries' = AfterForget(i) /\ UNCHANGED <<jobs, born>>
<1>1. CASE CancelEnd(c)
  BY <1>1 DEF CancelEnd, Forget
<1>2. CASE forgotten' = forgotten
  BY <1>2
<1> QED BY <1>1, <1>2, CallStep(c) DEF CallStep, ExecuteStart, ExecuteRefused, RecordOutcome, WaitStart,
     FetchStart, CancelStart, SubmitStart, ExecuteEnd, SubmitRefused, SubmitPost, ClusterStarts,
     ConnectionLost, SubmitFails, SubmitDone, PollAnswered, PollFails, WaitPending, WaitSleep, WaitWake,
     WaitTerminal, FetchEnd, ClusterCancels, CancelAnswers, CancelFails

(* How a call comes to hold the cluster's answer to its cancel.            *)
LEMMA CancelIsAnswered ==
  ASSUME TypeOK, Shapes, NEW c \in Calls, CallStep(c), call'[c].pc = "cancelAnswered"
  PROVE  ClusterCancels(c)
<1>t. call[c] \in Local /\ Shape(c) /\ Idle.pc = "idle"
  BY DEF TypeOK, Shapes, Idle
<1>1. ASSUME NEW i \in Ids, ExecuteStart(c, i) \/ SubmitStart(c, i) \/ CancelStart(c, i) PROVE FALSE
  <2>1. PICK pc \in {"executing", "compiling", "cancelling"} :
          call' = [call EXCEPT ![c] = [Idle EXCEPT !.pc = pc, !.id = i]]
    BY <1>1 DEF ExecuteStart, SubmitStart, CancelStart
  <2> QED BY <2>1, <1>t DEF TypeOK, Idle
<1>2. ASSUME NEW i \in Ids, WaitStart(c, i) \/ FetchStart(c, i) PROVE FALSE
  <2>1. call'[c] = Idle \/ call'[c].pc \in {"polling", "fetching"}
    BY <1>2 DEF WaitStart, FetchStart, Reply, TypeOK, Idle
  <2> QED BY <2>1, <1>t
<1>3. ASSUME NEW i \in Ids, ExecuteRefused(c, i) PROVE FALSE
  BY <1>3 DEF ExecuteRefused, IsIdle
<1>4. CASE \/ ExecuteEnd(c) \/ SubmitRefused(c) \/ SubmitFails(c) \/ SubmitDone(c) \/ PollFails(c)
           \/ WaitPending(c) \/ WaitTerminal(c) \/ FetchEnd(c) \/ CancelEnd(c) \/ CancelFails(c)
  <2>1. call'[c] = Idle
    BY <1>4 DEF ExecuteEnd, SubmitRefused, SubmitFails, SubmitDone, PollFails, WaitPending, WaitTerminal,
                FetchEnd, CancelEnd, Forget, CancelFails, Reply, TypeOK
  <2> QED BY <2>1, <1>t
<1>5. CASE SubmitPost(c) \/ ClusterStarts(c) \/ ConnectionLost(c)
  <2>1. call'[c].pc \in Unborn \cup {"idle"}
    BY <1>5, <1>t DEF SubmitPost, ClusterStarts, ConnectionLost, Goto, Reply, Unborn, TypeOK, Local
  <2> QED BY <2>1 DEF Unborn
<1>6. CASE PollAnswered(c) \/ WaitSleep(c) \/ WaitWake(c)
  <2>1. call'[c].pc \in Polling
    BY <1>6, <1>t DEF PollAnswered, WaitSleep, WaitWake, Goto, Polling, TypeOK, Local
  <2> QED BY <2>1 DEF Polling
<1> QED BY <1>1, <1>2, <1>3, <1>4, <1>5, <1>6, CallStep(c) DEF CallStep

FInv == RInv /\ ForgottenHasStopped /\ CancelledStaysForgotten /\ Stopping

(* Initially nothing has been forgotten.                                   *)
LEMMA FInvInit == Init => FInv
<1> SUFFICES ASSUME Init PROVE FInv
  OBVIOUS
<1> QED BY RInvInit DEF FInv, Init, ForgottenHasStopped, CancelledStaysForgotten, Stopping, Idle

(* Every step keeps it: the cluster answered the cancel when the job had   *)
(* stopped, and an entry is only written back for a job that succeeded.    *)
LEMMA FInvStep == FInv /\ [Next]_vars => FInv'
<1> SUFFICES ASSUME FInv, [Next]_vars PROVE FInv'
  OBVIOUS
<1> USE NoneIsNoEntry
<1>0. /\ RInv /\ Inv /\ TypeOK /\ Shapes /\ OwnIds /\ Stamps /\ OnlyFinishedResults /\ Answers
      /\ RInv' /\ Inv' /\ TypeOK'
      /\ ForgottenHasStopped /\ CancelledStaysForgotten /\ Stopping
  BY RInvStep, InvStep DEF FInv, RInv, Inv
<1>1. \A i \in Ids : (born[i] # None /\ Stopped(i)) => Stopped(i)'
  BY <1>0, StaysStopped
<1>e. early \subseteq early'
  <2>1. ASSUME NEW c \in Calls, CallStep(c) PROVE early \subseteq early'
    BY <2>1, EarlyGrows
  <2>2. CASE Elsewhere
    BY <2>2 DEF Elsewhere, JobEnds, ReadHistory, Tick, vars
  <2> QED BY <2>1, <2>2, NextCases DEF Elsewhere
<1>2. Stopping'
  <2>1. ASSUME NEW d \in Calls, call'[d] = call[d], call[d].pc = "cancelAnswered",
               call[d].answer \in {"ok", "notFound"}, NEW k \in Ids, k = call[d].id
        PROVE  k \in early' \/ Stopped(k)'
    BY <1>0, <1>1, <1>e, <2>1 DEF Stopping, Shapes, Shape
  <2>2. ASSUME NEW c \in Calls, CallStep(c), call'[c].pc = "cancelAnswered",
               call'[c].answer \in {"ok", "notFound"}, NEW k \in Ids, k = call'[c].id
        PROVE  k \in early' \/ Stopped(k)'
    <3>1. ClusterCancels(c)
      BY <2>2, <1>0, CancelIsAnswered
    <3>2. call'[c].id = call[c].id /\ call[c].pc = "cancelling"
      BY <3>1, <1>0 DEF ClusterCancels, CancelAnswers, TypeOK, Local
    <3>3. CASE Running(k) = {} /\ UNCHANGED jobs
      BY <3>3 DEF Stopped, Running, Retried
    <3>4. CASE \E j \in Running(k) : jobs' = [jobs EXCEPT ![j] = "failed"]
      <4>1. PICK j \in Running(k) : jobs' = [jobs EXCEPT ![j] = "failed"]
        BY <3>4
      <4>2. j \in Jobs /\ j[1] = k /\ jobs[j] = "running" /\ <<k, 1>> \in Jobs /\ <<k, 2>> \in Jobs
        BY <4>1 DEF Running, Jobs, Attempts
      <4>3. ASSUME ~Retried(k)', NEW m \in Jobs, m[1] = k, jobs'[m] = "running" PROVE FALSE
        <5>1. jobs'[<<k, 2>>] = "none"
          BY <4>3 DEF Retried
        <5>2. m = <<k, 1>> /\ j = <<k, 1>>
          <6>1. m # <<k, 2>> /\ j # <<k, 2>>
            BY <5>1, <4>1, <4>2, <4>3, <1>0 DEF TypeOK
          <6> QED BY <6>1, <4>2, <4>3 DEF Jobs, Attempts
        <5> QED BY <5>2, <4>1, <4>2, <4>3, <1>0 DEF TypeOK
      <4> QED BY <4>3 DEF Stopped, Running
    <3>5. CASE Asked(k)
      <4>1. born[k] = None
        BY <3>5, <1>0 DEF Asked, Shapes, Shape, Unborn
      <4> QED BY <4>1, <3>2, <2>2, <1>0, <1>e DEF Shapes, Shape
    <3>6. \/ Running(k) = {} /\ UNCHANGED jobs
          \/ \E j \in Running(k) : jobs' = [jobs EXCEPT ![j] = "failed"]
          \/ Asked(k)
      <4>1. CancelAnswers(c, "refused") => call'[c].answer = "refused"
        BY <1>0 DEF CancelAnswers, TypeOK, Local
      <4> QED BY <3>1, <3>2, <4>1, <2>2 DEF ClusterCancels
    <3> QED BY <3>3, <3>4, <3>5, <3>6
  <2>3. \A d \in Calls : call'[d].pc = "cancelAnswered" => call'[d].id \in Ids
    BY <1>0 DEF Inv, Shapes, Shape
  <2>4. ASSUME NEW c \in Calls, CallStep(c) PROVE Stopping'
    <3>1. \A d \in Calls \ {c} : call'[d] = call[d]
      BY <1>0, <2>4, OthersUnmoved
    <3> QED BY <2>1, <2>2, <2>3, <2>4, <3>1 DEF Stopping
  <2>5. CASE Elsewhere
    <3>1. call' = call
      BY <1>0, <2>5, NothingNew
    <3> QED BY <2>1, <2>3, <3>1 DEF Stopping
  <2> QED BY <2>4, <2>5, NextCases DEF Elsewhere
<1>3. ForgottenHasStopped'
  <2>1. ASSUME NEW k \in Ids, k \in forgotten, k \notin early PROVE Stopped(k)'
    BY <1>0, <1>1, <2>1 DEF ForgottenHasStopped, Stopped, Stamps
  <2>2. ASSUME NEW k \in Ids, k \in forgotten', k \notin forgotten, k \notin early PROVE Stopped(k)'
    <3>1. PICK c \in Calls : CallStep(c)
      BY <1>0, <2>2, NothingNew, NextCases DEF Elsewhere
    <3>2. call[c].pc = "cancelAnswered" /\ call[c].answer \in {"ok", "notFound"} /\ call[c].id = k
      BY <1>0, <2>2, <3>1, Forgets
    <3> QED BY <1>0, <1>1, <2>2, <3>2 DEF Stopping, Shapes, Shape
  <2>3. forgotten' \subseteq Ids
    BY <1>0 DEF TypeOK
  <2> QED BY <1>e, <2>1, <2>2, <2>3 DEF ForgottenHasStopped, Stopped
<1>4. CancelledStaysForgotten'
  <2> SUFFICES ASSUME NEW i \in forgotten', ~Retried(i)', jobs'[<<i, 1>>] # "success"
               PROVE  entries'[i] = None
    BY DEF CancelledStaysForgotten
  <2>0. i \in Ids /\ <<i, 1>> \in Jobs /\ <<i, 2>> \in Jobs
    BY <1>0 DEF TypeOK, Jobs, Attempts
  <2>1. CASE i \notin forgotten
    <3>1. PICK c \in Calls : CallStep(c)
      BY <1>0, <2>1, NothingNew, NextCases DEF Elsewhere
    <3>2. entries' = AfterForget(i)
      BY <1>0, <2>1, <3>1, Forgets
    <3> QED BY <3>2, <2>0, <1>0 DEF AfterForget, TypeOK
  <2>2. CASE i \in forgotten
    <3>1. born[i] # None
      BY <2>2, <1>0 DEF Stamps
    <3>2. ~Retried(i)
      BY <2>0, <1>0, <3>1, JobMoves DEF Retried
    <3>4. jobs[<<i, 1>>] # "success"
      BY <2>0, <3>1, <1>0, JobMoves
    <3>5. entries[i] = None
      BY <2>2, <3>2, <3>4, <1>0 DEF CancelledStaysForgotten
    <3>6. ASSUME NEW c \in Calls, StoresResult(c, i) PROVE FALSE
      <4>1. call[c].entry # None /\ call[c].result = call[c].entry.handle /\ jobs[call[c].result] = "success"
        BY <3>6, <1>0 DEF StoresResult, Answers, Answer, Shapes, Shape, Polling
      <4>2. call[c].result \in Jobs /\ call[c].result[1] = i
        BY <3>6, <4>1, <1>0 DEF StoresResult, OnlyFinishedResults, ResultOf, TypeOK, Local
      <4>3. call[c].result = <<i, 1>> \/ call[c].result = <<i, 2>>
        BY <4>2 DEF Jobs, Attempts
      <4> QED BY <4>1, <4>3, <3>2, <3>4 DEF Retried
    <3>7. ASSUME NEW c \in Calls, CallStep(c) PROVE entries'[i] = None
      <4>1. Written(c, i)
        BY <1>0, <2>0, <3>7, Writes
      <4> QED BY <4>1, <3>1, <3>5, <3>6 DEF Written
    <3>8. CASE Elsewhere
      BY <3>5, <3>8, <2>0, <1>0, NothingNew
    <3> QED BY <3>7, <3>8, NextCases DEF Elsewhere
  <2> QED BY <2>1, <2>2
<1> QED BY <1>0, <1>2, <1>3, <1>4 DEF FInv

(* The log forgets a submission that was posted once only when its job no  *)
(* longer runs, unless a cancel was asked before the submission was        *)
(* logged.                                                                 *)
THEOREM ForgottenJobsHaveStopped == Spec => []ForgottenHasStopped
<1>1. Spec => []FInv
  BY FInvInit, FInvStep, PTL DEF Spec
<1>2. FInv => ForgottenHasStopped
  BY DEF FInv
<1> QED BY <1>1, <1>2, PTL

(* A submission that was posted once and forgotten is never recorded again *)
(* unless its job has succeeded, whatever waits are still in flight and    *)
(* whenever the cancel was asked.                                          *)
THEOREM CancelledIsForgotten == Spec => []CancelledStaysForgotten
<1>1. Spec => []FInv
  BY FInvInit, FInvStep, PTL DEF Spec
<1>2. FInv => CancelledStaysForgotten
  BY DEF FInv
<1> QED BY <1>1, <1>2, PTL
=============================================================================
