----------------------------- MODULE AsyncQuery -----------------------------
(***************************************************************************)
(* The query tools of the gateway: submit_async_query, wait_on_async_query,*)
(* fetch_query_result, cancel_query and the recording half of execute_query*)
(* run concurrently on one event loop, over one audit log, against a       *)
(* cluster that runs the jobs.  A step is what a tool does between two     *)
(* awaits; the cluster's half of a request is a step of its own, so a      *)
(* request, the cluster's doing, and the reply's arrival may be separated  *)
(* by steps of every other call.                                           *)
(***************************************************************************)
EXTENDS AuditLog, FiniteSets

CONSTANTS
  Calls,          \* tool calls that may be in flight at once
  Tenants,        \* the principals they are bound to
  TenantOf,       \* TenantOf[c]: the principal of call slot c
  SyncPermits, AsyncPermits, WaitPermits,  \* the sizes of the three pools
  PermitShare,    \* one tenant's share of any pool
  Window,         \* max_wait_ms, in polls
  Submissions,    \* bound of the model: the ids that submissions may get
  MaxTime         \* bound of the model: the clock stops here

(* A submission is posted at most twice (one retry); each POST the cluster *)
(* takes in starts a job, and the job's handles are named by the job.      *)
Attempts == {1, 2}
Jobs == Ids \X Attempts

ASSUME QueryAssumption ==
  /\ IsFiniteSet(Calls)
  /\ Jobs = Handles
  /\ TenantOf \in [Calls -> Tenants]
  /\ {SyncPermits, AsyncPermits, WaitPermits, PermitShare} \subseteq Nat \ {0}
  /\ Window \in Nat /\ MaxTime \in Nat

VARIABLES
  jobs,        \* jobs[j]: none, running, success or failed, at the cluster
  call,        \* call[c]: where call c is, with its local variables
  born,        \* born[i]: history: when i entered the log for the first time
  forgotten,   \* history: the ids a cancel_query has dropped from the log
  early        \* history: the ids of which a cancel was asked before they were logged

vars == <<now, entries, jobs, call, born, forgotten, early>>

Phases == {"idle", "executing", "compiling", "posting", "accepted",
           "polling", "answered", "sleeping", "fetching",
           "cancelling", "cancelAnswered"}

(* A call's local variables: the id it was given, the audit entry it read, *)
(* the POST it is at, its deadline or wake-up time, the cluster's answer.  *)
Local == [pc : Phases, id : Ids \cup {None}, entry : Entry \cup {None},
          attempt : Attempts, until : Nat,
          answer : {"none", "ok", "notFound", "refused", "running", "success", "failed"},
          result : Handles \cup {None}]

Idle == [pc |-> "idle", id |-> None, entry |-> None, attempt |-> 1, until |-> 0,
         answer |-> "none", result |-> None]

Init ==
  /\ now = 0
  /\ entries = [i \in Ids |-> None]
  /\ jobs = [j \in Jobs |-> "none"]
  /\ call = [c \in Calls |-> Idle]
  /\ born = [i \in Ids |-> None]
  /\ forgotten = {} /\ early = {}

-----------------------------------------------------------------------------

(* acquire, on the pool whose permits are held in these phases: PermitPool *)
(* is proved to admit exactly when the calls inside leave room.            *)
Inside(phases) == {c \in Calls : call[c].pc \in phases}
HasRoom(c, permits, phases) ==
  /\ Cardinality(Inside(phases)) < permits
  /\ Cardinality({d \in Inside(phases) : TenantOf[d] = TenantOf[c]}) < PermitShare

SyncPhases  == {"executing"}
AsyncPhases == {"posting", "accepted"}
WaitPhases  == {"polling", "answered", "sleeping"}

IsIdle(c) == call[c].pc = "idle"
Goto(c, pc) == call' = [call EXCEPT ![c].pc = pc]
Reply(c) == call' = [call EXCEPT ![c] = Idle]

(* make_client_context_id: an id nobody has used.                          *)
Fresh(i) ==
  /\ born[i] = None
  /\ \A a \in Attempts : jobs[<<i, a>>] = "none"
  /\ \A c \in Calls : call[c].id # i

-----------------------------------------------------------------------------
(* execute_query: a blocking query under a sync permit; its outcome, good  *)
(* or bad, is recorded under an id of its own, with no handle.             *)

ExecuteStart(c, i) ==
  /\ IsIdle(c) /\ Fresh(i)
  /\ HasRoom(c, SyncPermits, SyncPhases)
  /\ call' = [call EXCEPT ![c] = [Idle EXCEPT !.pc = "executing", !.id = i]]
  /\ UNCHANGED <<now, entries, jobs, born, forgotten, early>>

RecordOutcome(i) ==
  /\ entries' = AfterRecord(i, NewEntry(None))
  /\ born' = [born EXCEPT ![i] = now]
  /\ UNCHANGED <<now, jobs, forgotten, early>>

ExecuteEnd(c) ==
  /\ call[c].pc = "executing"
  /\ RecordOutcome(call[c].id)
  /\ Reply(c)

(* The pool is full: NOT_READY, recorded as well.                          *)
ExecuteRefused(c, i) ==
  /\ IsIdle(c) /\ Fresh(i)
  /\ ~HasRoom(c, SyncPermits, SyncPhases)
  /\ RecordOutcome(i)
  /\ UNCHANGED call

-----------------------------------------------------------------------------
(* submit_async_query: compile, take an async permit, POST, record.        *)

SubmitStart(c, i) ==
  /\ IsIdle(c)
  /\ Fresh(i) /\ i \in Submissions
  /\ call' = [call EXCEPT ![c] = [Idle EXCEPT !.pc = "compiling", !.id = i]]
  /\ UNCHANGED <<now, entries, jobs, born, forgotten, early>>

(* The compile fails, or the plan is refused, or the pool is full.         *)
SubmitRefused(c) ==
  /\ call[c].pc = "compiling"
  /\ Reply(c)
  /\ UNCHANGED <<now, entries, jobs, born, forgotten, early>>

SubmitPost(c) ==
  /\ call[c].pc = "compiling"
  /\ HasRoom(c, AsyncPermits, AsyncPhases)
  /\ Goto(c, "posting")
  /\ UNCHANGED <<now, entries, jobs, born, forgotten, early>>

(* The cluster takes the POST in and starts the job.                       *)
ClusterStarts(c) ==
  /\ call[c].pc = "posting"
  /\ jobs' = [jobs EXCEPT ![<<call[c].id, call[c].attempt>>] = "running"]
  /\ Goto(c, "accepted")
  /\ UNCHANGED <<now, entries, born, forgotten, early>>

(* Mutant of ConnectionLost: every reset connection is tried again.        *)
ConnectionLostAgain(c) ==
  /\ call[c].pc \in AsyncPhases
  /\ call' = [call EXCEPT ![c].pc = "posting", ![c].attempt = @ + 1]
  /\ UNCHANGED <<now, entries, jobs, born, forgotten, early>>

(* _post_query: a connection that dies, before or after the cluster took   *)
(* the POST in, is retried once; the second failure is the caller's.       *)
ConnectionLost(c) ==
  /\ call[c].pc \in AsyncPhases
  /\ IF call[c].attempt = 1
       THEN call' = [call EXCEPT ![c].pc = "posting", ![c].attempt = 2]
       ELSE Reply(c)
  /\ UNCHANGED <<now, entries, jobs, born, forgotten, early>>

(* A timeout is not retried; neither is an error the cluster reports.      *)
SubmitFails(c) ==
  /\ call[c].pc \in AsyncPhases
  /\ Reply(c)
  /\ UNCHANGED <<now, entries, jobs, born, forgotten, early>>

(* The reply arrives: the entry is recorded with the handle it carries, if *)
(* it carries one.                                                         *)
SubmitDone(c) ==
  /\ call[c].pc = "accepted"
  /\ \E h \in {<<call[c].id, call[c].attempt>>, None} :
       entries' = AfterRecord(call[c].id, NewEntry(h))
  /\ born' = [born EXCEPT ![call[c].id] = now]
  /\ Reply(c)
  /\ UNCHANGED <<now, jobs, forgotten, early>>

-----------------------------------------------------------------------------
(* wait_on_async_query: read the entry, take a wait permit, poll.          *)

WaitStart(c, i) ==
  /\ IsIdle(c) /\ born[i] # None
  /\ entries' = AfterGet(i)
  /\ IF ~Found(i) \/ entries[i].handle = None
       THEN Reply(c)
       ELSE IF ~HasRoom(c, WaitPermits, WaitPhases)
         THEN Reply(c)
         ELSE \E w \in {0, Window} :
                /\ now + w <= MaxTime
                /\ call' = [call EXCEPT ![c] = [Idle EXCEPT
                     !.pc = "polling", !.id = i, !.entry = entries[i], !.until = now + w]]
  /\ UNCHANGED <<now, jobs, born, forgotten, early>>

(* The cluster answers the poll; a success may come without a handle.      *)
PollAnswered(c) ==
  LET job == call[c].entry.handle IN
  /\ call[c].pc = "polling"
  /\ \E r \in {job, None} :
       call' = [call EXCEPT ![c].pc = "answered", ![c].answer = jobs[job],
                            ![c].result = IF jobs[job] = "success" THEN r ELSE None]
  /\ UNCHANGED <<now, entries, jobs, born, forgotten, early>>

PollFails(c) ==
  /\ call[c].pc = "polling"
  /\ Reply(c)
  /\ UNCHANGED <<now, entries, jobs, born, forgotten, early>>

(* Mutant of WaitPending: the wait stores back the entry it read.          *)
WaitPendingTouch(c) ==
  /\ call[c].pc = "answered" /\ call[c].answer = "running"
  /\ now >= call[c].until
  /\ Reply(c)
  /\ entries' = AfterRecord(call[c].id, call[c].entry)
  /\ UNCHANGED <<now, jobs, born, forgotten, early>>

(* Mutant of WaitPending: the handle of any answer is taken for a result.  *)
WaitPendingStash(c) ==
  /\ call[c].pc = "answered" /\ call[c].answer = "running"
  /\ now >= call[c].until
  /\ Reply(c)
  /\ entries' = AfterRecord(call[c].id, WithResult(call[c].entry, call[c].entry.handle))
  /\ UNCHANGED <<now, jobs, born, forgotten, early>>

(* Progress and capture awaited, the answer is acted on.  Not terminal:    *)
(* past the deadline the agent is told so, before it the wait sleeps.      *)
WaitPending(c) ==
  /\ call[c].pc = "answered" /\ call[c].answer = "running"
  /\ now >= call[c].until
  /\ Reply(c)
  /\ UNCHANGED <<now, entries, jobs, born, forgotten, early>>

WaitSleep(c) ==
  /\ call[c].pc = "answered" /\ call[c].answer = "running"
  /\ now < call[c].until
  /\ Goto(c, "sleeping")
  /\ UNCHANGED <<now, entries, jobs, born, forgotten, early>>

(* Mutant of WaitWake: the window starts again with every poll.            *)
WaitWakeRenewed(c) ==
  /\ call[c].pc = "sleeping"
  /\ call' = [call EXCEPT ![c].pc = "polling", ![c].until = now + Window]
  /\ UNCHANGED <<now, entries, jobs, born, forgotten, early>>

WaitWake(c) ==
  /\ call[c].pc = "sleeping"
  /\ Goto(c, "polling")
  /\ UNCHANGED <<now, entries, jobs, born, forgotten, early>>

(* Terminal: a success stores the result handle in the entry read when the *)
(* wait began; a failure stores nothing.                                   *)
WaitTerminal(c) ==
  /\ call[c].pc = "answered" /\ call[c].answer \in {"success", "failed"}
  /\ entries' = IF call[c].result # None
                  THEN AfterRecord(call[c].id, WithResult(call[c].entry, call[c].result))
                  ELSE entries
  /\ Reply(c)
  /\ UNCHANGED <<now, jobs, born, forgotten, early>>

-----------------------------------------------------------------------------
(* fetch_query_result: resolve the result handle, GET it.                  *)

FetchStart(c, i) ==
  /\ IsIdle(c) /\ born[i] # None
  /\ entries' = AfterGet(i)
  /\ IF ~Found(i)
       THEN Reply(c)
       ELSE IF entries[i].result = None
         THEN Reply(c)
         ELSE call' = [call EXCEPT ![c] = [Idle EXCEPT
                !.pc = "fetching", !.id = i, !.entry = entries[i]]]
  /\ UNCHANGED <<now, jobs, born, forgotten, early>>

FetchEnd(c) ==
  /\ call[c].pc = "fetching"
  /\ Reply(c)
  /\ UNCHANGED <<now, entries, jobs, born, forgotten, early>>

-----------------------------------------------------------------------------
(* cancel_query: ask the cluster; forget the entry when it is gone.  Any   *)
(* id that is in use can be named, one still compiling or being posted as  *)
(* well: list_running_queries shows it.                                    *)

CancelStart(c, i) ==
  /\ IsIdle(c) /\ ~Fresh(i)
  /\ call' = [call EXCEPT ![c] = [Idle EXCEPT !.pc = "cancelling", !.id = i]]
  /\ early' = IF born[i] = None THEN early \cup {i} ELSE early
  /\ UNCHANGED <<now, entries, jobs, born, forgotten>>

Running(i) == {j \in Jobs : j[1] = i /\ jobs[j] = "running"}

(* A compile or a blocking query of that id may be with the cluster.       *)
Asked(i) == \E d \in Calls : call[d].id = i /\ call[d].pc \in {"compiling", "executing"}

CancelAnswers(c, answer) ==
  call' = [call EXCEPT ![c].pc = "cancelAnswered", ![c].answer = answer]

(* The cluster cancels a running request of that id, or will not, or says  *)
(* there is none.  What becomes of a compile or a blocking query that was  *)
(* told to stop is left open.                                              *)
ClusterCancels(c) ==
  LET i == call[c].id IN
  /\ call[c].pc = "cancelling"
  /\ \/ \E j \in Running(i) : jobs' = [jobs EXCEPT ![j] = "failed"] /\ CancelAnswers(c, "ok")
     \/ Running(i) = {} /\ CancelAnswers(c, "notFound") /\ UNCHANGED jobs
     \/ Asked(i) /\ CancelAnswers(c, "ok") /\ UNCHANGED jobs
     \/ (Running(i) # {} \/ Asked(i)) /\ CancelAnswers(c, "refused") /\ UNCHANGED jobs
  /\ UNCHANGED <<now, entries, born, forgotten, early>>

(* What forget drops, if there is an entry to drop.                        *)
Forget(i) ==
  /\ entries' = AfterForget(i)
  /\ forgotten' = IF entries[i] # None THEN forgotten \cup {i} ELSE forgotten

(* Mutant of CancelEnd: any answer drops the entry.                        *)
CancelEndAlways(c) ==
  /\ call[c].pc = "cancelAnswered"
  /\ Forget(call[c].id)
  /\ Reply(c)
  /\ UNCHANGED <<now, jobs, born, early>>

CancelEnd(c) ==
  /\ call[c].pc = "cancelAnswered"
  /\ IF call[c].answer \in {"ok", "notFound"}
       THEN Forget(call[c].id)
       ELSE UNCHANGED <<entries, forgotten>>
  /\ Reply(c)
  /\ UNCHANGED <<now, jobs, born, early>>

(* The DELETE or its answer is lost, whether or not it had its effect.     *)
CancelFails(c) ==
  /\ call[c].pc \in {"cancelling", "cancelAnswered"}
  /\ Reply(c)
  /\ UNCHANGED <<now, entries, jobs, born, forgotten, early>>

-----------------------------------------------------------------------------
(* The cluster finishes a job; get_query_history reads (and prunes) the    *)
(* log; time passes.                                                       *)

JobEnds(j) ==
  /\ jobs[j] = "running"
  /\ \E s \in {"success", "failed"} : jobs' = [jobs EXCEPT ![j] = s]
  /\ UNCHANGED <<now, entries, call, born, forgotten, early>>

ReadHistory ==
  /\ entries' = Pruned
  /\ UNCHANGED <<now, jobs, call, born, forgotten, early>>

Tick ==
  /\ now < MaxTime
  /\ now' = now + 1
  /\ UNCHANGED <<entries, jobs, call, born, forgotten, early>>

Submit(c) == \/ \E i \in Ids : SubmitStart(c, i)
             \/ SubmitRefused(c) \/ SubmitPost(c) \/ ClusterStarts(c)
             \/ ConnectionLost(c) \/ SubmitFails(c) \/ SubmitDone(c)

Poll(c) == \/ PollAnswered(c) \/ PollFails(c) \/ WaitPending(c)
           \/ WaitSleep(c) \/ WaitWake(c) \/ WaitTerminal(c)

Cancel(c) == ClusterCancels(c) \/ CancelEnd(c) \/ CancelFails(c)

Next ==
  \/ \E c \in Calls :
       \/ \E i \in Ids : \/ ExecuteStart(c, i) \/ ExecuteRefused(c, i)
                         \/ WaitStart(c, i) \/ FetchStart(c, i) \/ CancelStart(c, i)
       \/ ExecuteEnd(c) \/ Submit(c) \/ Poll(c) \/ FetchEnd(c) \/ Cancel(c)
  \/ \E j \in Jobs : JobEnds(j)
  \/ ReadHistory
  \/ Tick

Spec == Init /\ [][Next]_vars

(* A call that is under way goes on: the event loop runs it, the HTTP      *)
(* client ends each of its requests (request_timeout_s), and time passes.  *)
(* Nothing obliges a job to end or an agent to make a call.                *)
Busy(c) == ~IsIdle(c) /\ (ExecuteEnd(c) \/ Submit(c) \/ Poll(c) \/ FetchEnd(c) \/ Cancel(c))
Fairness == WF_vars(Tick) /\ \A c \in Calls : WF_vars(Busy(c))
FairSpec == Spec /\ Fairness

-----------------------------------------------------------------------------

(* Types; an id is a submission's throughout, and it is posted twice at    *)
(* most.                                                                   *)
TypeOK ==
  /\ now \in 0..MaxTime
  /\ entries \in [Ids -> Entry \cup {None}]
  /\ jobs \in [Jobs -> {"none", "running", "success", "failed"}]
  /\ call \in [Calls -> Local]
  /\ born \in [Ids -> Nat \cup {None}]
  /\ forgotten \subseteq Ids /\ early \subseteq Ids

(* Entry e is one of submission i, and its result, if any, is real.        *)
ResultOf(i, e) ==
  /\ e.handle # None => e.handle[1] = i
  /\ e.result # None => e.result = e.handle /\ jobs[e.result] = "success"

(* Every result handle a fetch can reach, in the log or in a call's copy   *)
(* of an entry, names a job of that very submission that has succeeded:    *)
(* waits that overlap, retries and cancels never leave a result behind for *)
(* another query, for a failed one, or for one still running.              *)
OnlyFinishedResults ==
  /\ \A i \in Ids : entries[i] # None => ResultOf(i, entries[i])
  /\ \A c \in Calls : call[c].entry # None => ResultOf(call[c].id, call[c].entry)

(* A wait or a fetch finds its entry.                                      *)
Serves(c) == call[c].pc = "idle" /\ call'[c].pc \in {"polling", "fetching"}

(* No entry outlives its query's TTL: a result stored late, even after the *)
(* entry expired, keeps the stamp of the submission, so a wait or a fetch  *)
(* that finds an entry began within TTL of it.                             *)
ServedWithinTTL ==
  [][\A c \in Calls : Serves(c) => now - born[call'[c].id] < TTL]_vars

(* A result, once stored, stays for as long as the entry does: a wait that *)
(* read the entry before the result was there does not take it away again. *)
ResultSticks ==
  [][\A i \in Ids : (entries[i] # None /\ entries[i].result # None)
        => (entries'[i] = None \/ entries'[i].result = entries[i].result)]_vars

Retried(i) == jobs[<<i, 2>>] # "none"

(* Forgetting is for queries that have stopped: when the log forgets a     *)
(* submission that was posted once, its job no longer runs, so the agent   *)
(* never loses the only name of a live job.  Exempt is a submission of     *)
(* which a cancel was asked before it was logged: the cluster may answer   *)
(* that there is none, and the POST then starts the job.                   *)
ForgottenHasStopped ==
  \A i \in forgotten \ early : ~Retried(i) => Running(i) = {}

(* A submission that was forgotten stays forgotten unless its job has      *)
(* succeeded, whichever waits on it are still in flight.                   *)
CancelledStaysForgotten ==
  \A i \in forgotten : (~Retried(i) /\ jobs[<<i, 1>>] # "success") => entries[i] = None

(* Every call is answered: a wait ends with its window, whether or not its *)
(* job ever does, and no order of failures leaves a call hanging.          *)
EveryCallReplies == \A c \in Calls : ~IsIdle(c) ~> IsIdle(c)
=============================================================================
