------------------------------ MODULE QueryPath ------------------------------
(***************************************************************************)
(* The way of a statement through the gateway: execute_query,              *)
(* profile_query, and submit_async_query with fetch_query_result.  The     *)
(* statement is checked and given a LIMIT, compiled without running,       *)
(* authorized on the plan, looked up for columnar scans, run, and windowed *)
(* to what an agent is given to read; the agent pages until it is told     *)
(* that there is no more.  Others define and redefine views, synonyms and  *)
(* datasets meanwhile.  Calls share nothing on this way, so the model has  *)
(* one at a time.                                                          *)
(***************************************************************************)
EXTENDS Integers, Sequences, FiniteSets, SequencesExt

CONSTANTS
  Definitions,    \* what the name in the statement may stand for: sets of plan sources
  Missing,        \* the name is not defined
  DataverseOf,    \* DataverseOf[s]: the dataverse a plan source names, or None
  Rows,           \* Rows[d]: the sizes of the rows that the statement has under definition d
  Columnar,       \* the plan sources in columnar format
  Restricting,    \* the definitions whose plan projects or selects
  Principals,     \* tenants
  Dataverses,
  EngineDefault,  \* the dataverse that the engine takes when a request gives none
  Deployments,    \* the settings to consider: dataverse_allowlist, artifacts_enabled
  Limits,         \* page sizes an agent asks for
  OwnLimits,      \* the LIMIT in the statement, or None
  SubmitLimit,    \* MAX_LIMIT of async_query.py
  MaxRows, MaxBytes, MaxField,   \* the egress settings
  FlaggedRows, FlaggedBytes,     \* the ceilings for a flagged scan
  MaxChanges,     \* bound of the model: redefinitions
  MaxFaults,      \* bound of the model: requests that fail
  None

ASSUME PathAssumption ==
  /\ Missing \notin Definitions /\ None \notin Dataverses \cup Principals \cup Nat
  /\ MaxRows \in Nat \ {0} /\ MaxBytes \in Nat \ {0} /\ MaxField \in Nat \ {0}
  /\ FlaggedRows \in Nat \ {0} /\ FlaggedBytes \in Nat \ {0}
  /\ Limits \subseteq Nat \ {0} /\ OwnLimits \subseteq Nat \cup {None} /\ SubmitLimit \in Nat
  /\ Rows \in [Definitions -> Seq(Nat)]

VARIABLES
  allowlist,  \* dataverse_allowlist: for some principals, dataverses; empty when unset
  artifacts,  \* artifacts_enabled
  catalog,    \* what the name stands for now
  reading,    \* the agent: what it asks for, and what it has been shown so far
  call,       \* the tool call in flight
  job,        \* the stored result of the submission
  ran,        \* history: the last execution, and whether it was of what a plan had shown
  changes, faults

settings == <<allowlist, artifacts>>
vars == <<settings, catalog, reading, call, job, ran, changes, faults>>

NotReading == [at |-> "none", by |-> None, dv |-> None, own |-> None, limit |-> 1, kind |-> "execute",
               seen |-> <<>>, total |-> 0, saved |-> 0, steady |-> TRUE]

NoCall == [at |-> "none", plan |-> FALSE, sources |-> {}, todo |-> {}, columnar |-> {}, judged |-> TRUE]

NoRun == [by |-> None, dv |-> None, reads |-> {}, judged |-> TRUE]

Init ==
  /\ \E d \in Deployments : allowlist = d.allowlist /\ artifacts = d.artifacts
  /\ catalog \in Definitions \cup {Missing}
  /\ reading = NotReading /\ call = NoCall
  /\ job = [rows |-> <<>>, flagged |-> FALSE]
  /\ ran = NoRun
  /\ changes = 0 /\ faults = 0

-----------------------------------------------------------------------------
(* plan_parser.py, tenant_policy.py                                        *)

(* resolve_sources: a source that names a dataverse is of that one;        *)
(* another is of the default, when there is one.                           *)
Resolved(s, dv) == IF DataverseOf[s] # None THEN DataverseOf[s] ELSE dv

Unresolved(sources, dv) == {s \in sources : Resolved(s, dv) = None}
Touched(sources, dv)    == {Resolved(s, dv) : s \in sources} \ {None}

Enforced == DOMAIN allowlist # {}

(* Mutant of Allowed: a caller without a tenant is taken for unrestricted. *)
AllowedToAnyone(p) ==
  IF p = None THEN Dataverses ELSE IF p \in DOMAIN allowlist THEN allowlist[p] ELSE {}

(* allowed_dataverses: nothing for a caller without a tenant, and nothing  *)
(* for one that the list leaves out.                                       *)
Allowed(p) == IF p \in DOMAIN allowlist THEN allowlist[p] ELSE {}

(* check_compiled_plan.  A statement with compile errors passes, to be     *)
(* answered by its own error; one without a plan does not.                 *)
Authorized(p, dv, errors, plan, sources) ==
  \/ ~Enforced
  \/ errors
  \/ plan /\ Unresolved(sources, dv) = {} /\ Touched(sources, dv) \subseteq Allowed(p)

-----------------------------------------------------------------------------
(* statement_guard.py, egress.py                                           *)

(* normalize_statement: a statement without a LIMIT gets that of the tool. *)
Limited(rows, own, default) ==
  SubSeq(rows, 1, IF own # None THEN (IF own < Len(rows) THEN own ELSE Len(rows))
                  ELSE (IF default < Len(rows) THEN default ELSE Len(rows)))

Clamped(rows) == [i \in DOMAIN rows |-> IF rows[i] > MaxField THEN MaxField ELSE rows[i]]
Bytes(rows)   == FoldLeft(LAMBDA x, y : x + y, 0, rows)

Least(a, b) == IF a < b THEN a ELSE b

(* Mutant of Fits: a first row beyond the budget is dropped like another.  *)
FitsStrictly(rows, n, maxBytes) == Bytes(SubSeq(rows, 1, n)) <= maxBytes

(* The first n rows fit in the budget; the first one always does.          *)
Fits(rows, n, maxBytes) == n <= 1 \/ Bytes(SubSeq(rows, 1, n)) <= maxBytes

(* truncate_for_llm: how many of the rows of a page are delivered.         *)
Delivered(rows, maxRows, maxBytes) ==
  CHOOSE n \in 0..Least(Len(rows), maxRows) :
    /\ Fits(rows, n, maxBytes)
    /\ \A m \in 0..Least(Len(rows), maxRows) : Fits(rows, m, maxBytes) => m <= n

(* Mutant of More: only the page counts, not what was cut from it.         *)
MoreByPage(rows, offset, limit, shown, cut) == offset + limit < Len(rows)

(* moreAvailable: rows behind the page, or cut from it.                    *)
More(rows, offset, limit, shown, cut) == offset + limit < Len(rows) \/ cut

(* Mutant of Saved: the artifact holds the page, not the response.         *)
SavedPage(rows, paged) == IF artifacts THEN Len(paged) ELSE 0

(* The rows in the artifact: those of the response, as they came.          *)
Saved(rows, paged) == IF artifacts THEN Len(rows) ELSE 0

(* The reply with one page of the rows.  When it does not show everything  *)
(* to the end, the rows are saved whole, where artifacts are enabled.      *)
Page(rows, flagged, offset, limit) ==
  LET paged == SubSeq(rows, offset + 1, Least(offset + limit, Len(rows)))
      n     == Delivered(Clamped(paged), IF flagged THEN Least(MaxRows, FlaggedRows) ELSE MaxRows,
                         IF flagged THEN Least(MaxBytes, FlaggedBytes) ELSE MaxBytes)
      more  == More(rows, offset, limit, n, n < Len(paged))
  IN [shown |-> [i \in 1..n |-> offset + i], total |-> Len(rows), more |-> more,
      saved |-> IF more THEN Saved(rows, paged) ELSE 0]

-----------------------------------------------------------------------------
(* The calls.                                                              *)

(* Where a call of a kind begins: profile_query compiles just to authorize.*)
FirstRequest(kind) ==
  IF kind = "fetch" THEN "fetch" ELSE IF kind = "profile" /\ ~Enforced THEN "run" ELSE "compile"

(* An agent takes a statement to one of the tools.  (A statement that      *)
(* check_unsupported_functions rejects is answered at once.)               *)
Open(p, dv, own, limit, kind) ==
  /\ reading.at = "none"
  /\ reading' = [NotReading EXCEPT !.at = "asking", !.by = p, !.dv = dv, !.own = own,
                                   !.limit = limit, !.kind = kind]
  /\ call' = [NoCall EXCEPT !.at = FirstRequest(kind)]
  /\ UNCHANGED <<settings, catalog, job, ran, changes, faults>>

(* The offset of the next page: behind the rows the agent has been shown.  *)
Offset == Len(reading.seen)

(* The agent asks for the next page: the same statement again, or a fetch. *)
NextPage ==
  /\ reading.at = "more"
  /\ reading' = [reading EXCEPT !.at = "asking"]
  /\ call' = [NoCall EXCEPT !.at = FirstRequest(reading.kind)]
  /\ UNCHANGED <<settings, catalog, job, ran, changes, faults>>

(* The call is answered without rows.                                      *)
Answer(x) == reading' = [reading EXCEPT !.at = x] /\ call' = NoCall

(* The compile request and, in the same step, the decision on its plan:    *)
(* the engine returns a plan, or nothing that can be parsed; or it returns *)
(* errors, because the name is missing or for some other reason, which may *)
(* be gone when the statement is run.                                      *)
Compile(errors, plan) ==
  LET sources == IF errors \/ ~plan THEN {} ELSE catalog
      parsed  == plan /\ ~errors
  IN /\ call.at = "compile"
     /\ IF errors = (catalog = Missing)
          THEN UNCHANGED faults
          ELSE errors /\ faults < MaxFaults /\ faults' = faults + 1
     /\ IF Authorized(reading.by, reading.dv, errors, parsed, sources)
          THEN /\ call' = [call EXCEPT
                     !.at = IF reading.kind = "profile" THEN "run" ELSE "lookup",
                     !.plan = parsed, !.sources = sources, !.judged = ~errors,
                     !.todo = sources \ Unresolved(sources, reading.dv)]
               /\ UNCHANGED reading
          ELSE Answer("refused")
     /\ UNCHANGED <<settings, catalog, job, ran, changes>>

(* assess_columnar_scan asks for the format of each dataset in turn; one   *)
(* that cannot be had is passed over.                                      *)
LookUp(s) ==
  /\ call.at = "lookup" /\ s \in call.todo
  /\ \/ call' = [call EXCEPT !.todo = @ \ {s}, !.columnar = @ \cup ({s} \cap Columnar)]
        /\ UNCHANGED faults
     \/ call' = [call EXCEPT !.todo = @ \ {s}]
        /\ faults < MaxFaults /\ faults' = faults + 1
  /\ UNCHANGED <<settings, catalog, reading, job, ran, changes>>

LookedUp ==
  /\ call.at = "lookup" /\ call.todo = {}
  /\ call' = [call EXCEPT !.at = "run"]
  /\ UNCHANGED <<settings, catalog, reading, job, ran, changes, faults>>

(* check_columnar_scan: a columnar dataset, named in full, read by a plan  *)
(* that neither projects nor selects.                                      *)
Flagged ==
  /\ \E s \in call.columnar : DataverseOf[s] # None
  /\ call.sources \notin Restricting

Show(page) ==
  /\ reading' = [reading EXCEPT !.at = IF page.more THEN "more" ELSE "over",
                   !.seen = @ \o page.shown, !.total = page.total, !.saved = page.saved]
  /\ call' = NoCall

(* The statement runs, on what the name stands for by then.                *)
Run ==
  /\ call.at = "run" /\ catalog # Missing
  /\ ran' = [by |-> reading.by, dv |-> reading.dv, reads |-> catalog, judged |-> call.judged]
  /\ \/ /\ reading.kind = "execute"
        /\ Show(Page(Limited(Rows[catalog], reading.own, reading.limit), Flagged,
                     Offset, reading.limit))
        /\ UNCHANGED job
     \/ /\ reading.kind = "submit"
        /\ job' = [rows |-> Limited(Rows[catalog], reading.own, SubmitLimit), flagged |-> Flagged]
        /\ reading' = [reading EXCEPT !.kind = "fetch", !.at = "more", !.steady = TRUE]
        /\ call' = NoCall
     \/ /\ reading.kind = "profile"
        /\ Answer("over") /\ UNCHANGED job
  /\ UNCHANGED <<settings, catalog, changes, faults>>

RunErrs ==
  /\ call.at = "run" /\ catalog = Missing
  /\ Answer("refused")
  /\ UNCHANGED <<settings, catalog, job, ran, changes, faults>>

(* fetch_query_result pages over the stored rows.                          *)
Fetch ==
  /\ call.at = "fetch"
  /\ Show(Page(job.rows, job.flagged, Offset, reading.limit))
  /\ UNCHANGED <<settings, catalog, job, ran, changes, faults>>

(* A request of the call fails: the call is answered with the error, and   *)
(* the agent, which has seen nothing new, may ask again.                   *)
Fails ==
  /\ call.at \in {"compile", "run", "fetch"}
  /\ faults < MaxFaults /\ faults' = faults + 1
  /\ Answer("more")
  /\ UNCHANGED <<settings, catalog, job, ran, changes>>

(* Somebody redefines the name, or drops it.                               *)
Redefine(d) ==
  /\ changes < MaxChanges /\ changes' = changes + 1
  /\ d # catalog /\ catalog' = d
  /\ call' = [call EXCEPT !.judged = FALSE]
  /\ reading' = [reading EXCEPT !.steady = @ /\ reading.kind = "fetch"]
  /\ UNCHANGED <<settings, job, ran, faults>>

-----------------------------------------------------------------------------

Kinds == {"execute", "submit", "profile"}

Step ==
  \/ \E errors, plan \in BOOLEAN : Compile(errors, plan)
  \/ (\E s \in call.todo : LookUp(s)) \/ LookedUp
  \/ Run \/ RunErrs \/ Fetch \/ Fails

Next ==
  \/ \E p \in Principals \cup {None}, dv \in Dataverses \cup {None}, own \in OwnLimits,
        limit \in Limits, kind \in Kinds : Open(p, dv, own, limit, kind)
  \/ NextPage \/ Step
  \/ \E d \in Definitions \cup {Missing} : Redefine(d)

Spec == Init /\ [][Next]_vars

(* The loop goes on with a call under way, and the HTTP client has a       *)
(* timeout; an agent that is told of more asks for it.                     *)
FairSpec == Spec /\ WF_vars(Step) /\ WF_vars(NextPage)

-----------------------------------------------------------------------------

(* The dataverse that an execution really reads a source from.             *)
ReadFrom(s, dv) ==
  IF DataverseOf[s] # None THEN DataverseOf[s] ELSE IF dv # None THEN dv ELSE EngineDefault

(* What tenant_policy.py is for: whichever tool runs the statement, and    *)
(* whatever the name turns out to stand for, what is read is of dataverses *)
(* that the tenant is allowed, if the compile request showed it.  It does  *)
(* not for a name redefined between it and the run, nor when it returned   *)
(* errors: such a statement goes unchecked, and should the errors be gone  *)
(* by the time it runs, so is what it reads.                               *)
ReadsAreAuthorized ==
  Enforced /\ ran.judged =>
    \A s \in ran.reads :
      ran.by \in DOMAIN allowlist /\ ReadFrom(s, ran.dv) \in allowlist[ran.by]

(* An agent that goes on from the rows it was shown until there is no more *)
(* has seen every row of the response exactly once and in order, whatever  *)
(* the page size, the caps on rows and bytes, the fields that are clamped  *)
(* and the failures in between, if the name stays as it is.                *)
PagesAreExact ==
  reading.steady =>
    /\ reading.seen = [i \in 1..Len(reading.seen) |-> i]
    /\ reading.at = "over" /\ reading.total > 0 => Len(reading.seen) = reading.total

(* What a page leaves out is never lost where artifacts are enabled: while *)
(* rows of the response are unseen, the last reply names a file with all   *)
(* of them.  Where they are not, no reply names one.                       *)
OverflowIsSaved ==
  reading.steady /\ Len(reading.seen) < reading.total =>
    reading.saved = IF artifacts THEN reading.total ELSE 0

(* Paging ends: every page brings a row, or says that it was the last.     *)
ReadingEnds == (reading.at = "asking") ~> (reading.at \in {"over", "refused"})
=============================================================================
