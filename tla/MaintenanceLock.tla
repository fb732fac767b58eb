--------------------------- MODULE MaintenanceLock ---------------------------
(***************************************************************************)
(* The lock file that lets one of the gateways started on a machine run    *)
(* the maintenance pass: acquire_lock, release_lock and the pass itself in *)
(* maintenance.py.  Every file operation is a step of its own.             *)
(***************************************************************************)
EXTENDS Naturals, FiniteSets

CONSTANTS Processes, Nobody

ASSUME NobodyIsNoProcess == Nobody \notin Processes

VARIABLES
  at,      \* where each gateway is in run_startup_maintenance
  owner,   \* who created the lock file that is there now, or Nobody
  old,     \* the file is older than LOCK_STALE_S
  robbed   \* history: gateways whose lock file another one removed

lockVars == <<at, owner, old, robbed>>

LockInit ==
  /\ at = [p \in Processes |-> "start"]
  /\ owner = Nobody /\ old = FALSE
  /\ robbed = {}

Goes(p, from, to) == at[p] = from /\ at' = [at EXCEPT ![p] = to]

(* Mutant of Created: the file is opened without O_EXCL.                   *)
CreatedAnyway(p) == owner' = p /\ old' = FALSE /\ robbed' = robbed \ {p}

(* O_CREAT | O_EXCL.                                                       *)
Created(p) == owner = Nobody /\ owner' = p /\ old' = FALSE /\ robbed' = robbed \ {p}

SameFile == UNCHANGED <<owner, old, robbed>>

(* Whatever file is there goes, its age with it.                           *)
Removed(p) == /\ owner' = Nobody /\ old' = FALSE
              /\ robbed' = robbed \cup ({owner} \ {p, Nobody})

(* The first attempt.                                                      *)
Create(p) == Goes(p, "start", "running") /\ Created(p)
CreateFails(p) == owner # Nobody /\ Goes(p, "start", "found") /\ SameFile

(* Mutant of IsStale: no lock is ever broken.                              *)
IsStaleNever == FALSE

(* A file that is gone counts as stale.                                    *)
IsStale == owner = Nobody \/ old

Judge(p) == Goes(p, "found", IF IsStale THEN "breaking" ELSE "done") /\ SameFile

(* unlink takes whatever file is there by now; an error is passed over.    *)
Break(p) == Goes(p, "breaking", "again") /\ Removed(p)
BreakFails(p) == Goes(p, "breaking", "again") /\ SameFile

CreateAgain(p) == Goes(p, "again", "running") /\ Created(p)
CreateAgainFails(p) == owner # Nobody /\ Goes(p, "again", "done") /\ SameFile

(* The pass ended, failed or reached MAINTENANCE_TIMEOUT_S: the file is    *)
(* removed, whoever created it, if that can be done.                       *)
Release(p) == Goes(p, "running", "done") /\ Removed(p)
ReleaseFails(p) == Goes(p, "running", "done") /\ SameFile

(* One that dies earlier leaves no file and just goes no further.          *)
Crash(p) == Goes(p, "running", "crashed") /\ SameFile

(* The gateway is through with the file that it created.                   *)
Left(p) == at[p] \in {"crashed", "done"}

(* A pass is capped well below LOCK_STALE_S, so a lock grows old only in   *)
(* the hands of a gateway that crashed, or failed to remove it.            *)
GrowOld ==
  /\ owner # Nobody /\ ~old /\ Left(owner)
  /\ old' = TRUE
  /\ UNCHANGED <<at, owner, robbed>>

(* The gateway is launched again.                                          *)
Launch(p) ==
  /\ at[p] \in {"done", "crashed"} /\ owner # p
  /\ at' = [at EXCEPT ![p] = "start"]
  /\ SameFile

Acquire(p) ==
  \/ Create(p) \/ CreateFails(p) \/ Judge(p) \/ Break(p) \/ BreakFails(p)
  \/ CreateAgain(p) \/ CreateAgainFails(p)

Ends(p) == Release(p) \/ ReleaseFails(p)

LockNext == GrowOld \/ \E p \in Processes : Acquire(p) \/ Ends(p) \/ Crash(p) \/ Launch(p)

LockSpec == LockInit /\ [][LockNext]_lockVars

(* A gateway that was started goes on, a pass ends (it is capped), time    *)
(* passes, gateways go on being launched, and one that tries again and     *)
(* again to break a lock does not fail at it for ever.                     *)
FairLockSpec == /\ LockSpec /\ WF_lockVars(GrowOld)
                /\ \A p \in Processes : /\ WF_lockVars(Acquire(p)) /\ WF_lockVars(Ends(p)) /\ WF_lockVars(Launch(p))
                                         /\ SF_lockVars(Break(p))

-----------------------------------------------------------------------------

(* Types; a file that is not there is not old.                             *)
TypeOK ==
  /\ at \in [Processes -> {"start", "found", "breaking", "again", "running", "done", "crashed"}]
  /\ owner \in Processes \cup {Nobody}
  /\ old \in BOOLEAN /\ (old => owner # Nobody)
  /\ robbed \subseteq Processes

Running == {p \in Processes : at[p] = "running"}

(* A gateway in its pass has its own lock file on disk, unless another one *)
(* removed it: with stale locks, crashes and relaunches, nobody gets in by *)
(* any way but an exclusive create.                                        *)
RunnersHoldTheFile == \A p \in Running : p \in robbed \/ owner = p

(* So gateways that were not robbed run one at a time.                     *)
OneUnrobbed == Cardinality(Running \ robbed) <= 1

(* A lock left behind, by a gateway that crashed or could not remove it,   *)
(* does not stop maintenance for good.                                     *)
LeakIsBroken == \A p \in Processes :
  (owner = p /\ Left(p)) ~> (owner = Nobody \/ ~Left(owner))
=============================================================================
