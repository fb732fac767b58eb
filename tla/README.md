# Verification of the AsterixDB MCP gateway

TLA+ models of the parts of the gateway (`src/src/asterixdb_mcp`, `src/scripts`) that keep state or
decide over several steps, model-checked with TLC on small instances, and theorems about all of
them, proved with TLAPS for every value of the constants.

## 1. The system

The gateway is a Python process, stdio or HTTP, between agents and an AsterixDB cluster. Each tool
call is a coroutine on one event loop: what it does between two `await`s is atomic, and every
request to the cluster is a point where other calls run. Several gateway processes, and scripts that
an operator runs, may share one cluster, one buffer directory and one machine's temp directory.

| Component | State | Operations | Talks to |
|---|---|---|---|
| Permit pools (`permits.py`) | a counter of permits, one per tenant | enter, leave | entered by `execute_query`, `submit`, `wait` (`server.py`, `async_query.py`) |
| Audit log (`audit_log.py`) | entries by clientContextID, with handles and a time | record, get, forget, recent; lazy expiry | written by the query tools |
| Asynchronous queries (`async_query.py`) | locals of a call across awaits | submit, wait, fetch, cancel | pools, log, cluster client |
| Query path (`execute_query.py`, `profile_query.py`, `statement_guard.py`, `tenant_policy.py`, `plan_guard.py`, `egress.py`) | none; the agent's place in the pages | limit, compile, authorize, look up, run, page, save | cluster client, artifacts |
| Cluster client (`cc_client.py`) | none; one HTTP client, bound to a tenant per call | query, compile, submit, poll, cancel, memory read and write | the cluster; retries a reset connection once |
| Artifacts (`artifacts.py`) | files and their mtimes, shared by gateways | sweep, write, name, serve | written by the query tools, read as resources |
| Memory store (`AgentMemory.Memory`) | bi-temporal rows `subject@time` with an owner | INSERT and UPSERT of whole rows | everything below |
| `memory_write.py` | none | reconcile a note, close the old row, insert the new one | agents, capture, distillation |
| Delivery (`memory_notes.py`, `sample_dataset.py`, `staleness.py`) | per session: subjects delivered, copies of rows | deliver, bump usage, mark suspect, recheck | query and sample tools |
| Passes (`decay.py`, `revalidate.py`, `okf_walk.py`, `migrate.py`, `distill.py`) | none | read rows, write some back | run by maintenance; `distill` also by a loop |
| Session events (`memory_capture.py`) | `SessionEvent` rows, JSONL buffers; per connection the failures that await a working form | record, buffer, replay, pair | every query; maintenance |
| Maintenance (`maintenance.py`) | a lock file | elect, run the steps, release | all the passes |
| Sessions and tenants (`identity.py`, `scopes.py`, `memory_store.py`, `auth.py`, `http_security.py`, `http_app.py`) | a scope per connection | name the tenant, make or drop a scope, refuse to start | every tool |
| Briefing, preferences (`briefing.py`, `preferences.py`) | a flag per scope; rows | brief once; remember a rule | memory store |
| Index tools (`recommend_indexes.py`, `health_check.py`, `index_catalog.py`) | none | advise to create, advise to drop | the catalog, operators |
| Scripts (`okf_refresh.py` and others) | none | refresh the concepts of a tenant | memory store |
| Parsers, introspection, resources, prompts, configuration | none | | see section 7 |

What is hard here: a call's copy of a log entry or of a row is written back many awaits after it
was read; the one retry of `_post_query` repeats requests that are not idempotent; a change of the
store is two writes without a transaction, by gateways and scripts that know nothing of one
another; files are checked, read and removed in separate steps by several processes; permits must be
returned on every exit; a statement is authorized in one request and run in another; three cuts of a
result are nested and the next page starts behind all of them; a connection can change its tenant; and
time (TTL, retention, caps, age of a lock) decides while all of this goes on.

What makes each part correct: the counters of a pool are the calls inside it and one tenant leaves
others what the shares allow; the log serves nothing past its TTL, keeps results, and never holds a result of another or an
unfinished query; what is forgotten once it was logged no longer
runs; every call is answered; what is read is in the
tenant's allowlist if its plan showed it; the pages of a result are the result, once and in order, and what they leave out
is saved where that is enabled; a reference to a file is good until its date, whichever gateways sweep; a row of the store
keeps what it says, an annotation is not lost to a stale copy, the first line of a note does not lose
"(unverified)" without evidence, and supersession keeps one current row; a buffered event reaches the cluster and the
buffer stays near its budget; a fix joins a failure with the next working form of its own connection,
and a learned note has its reasons; the state of a session is one tenant's; what was answered as
recorded can be read; one gateway at a time runs maintenance; and advice to create and to drop, when followed,
comes to an end.

## 2. Modules

| Module | Models | Composed of |
|---|---|---|
| `TenantLimiter` | abstract: which calls are inside, and the two limits on them | |
| `PermitPool` | `permits.py`: the counters | implements `TenantLimiter` (property `LimiterSpec`) |
| `AuditLog` | `audit_log.py`: entries and the five operations, as operators on the log | |
| `AsyncQuery` | the four asynchronous tools, the recording half of `execute_query`, the cluster's half of their requests | extends `AuditLog` |
| `QueryPath` | a statement from its LIMIT to its last page, through `execute_query`, `submit` and `fetch`, or `profile_query` | |
| `ArtifactShelf` | abstract: a reference is good until its date | |
| `Artifacts` | `artifacts.py`: gateways on one directory | implements `ArtifactShelf` (property `ShelfSpec`) |
| `MemoryStore` | the concept store and its writers | |
| `EventBuffer` | recording, buffering and replay of session events | |
| `Learning` | from outcomes to events, fixes and distilled notes | |
| `MaintenanceLock` | the lock file | |
| `Sessions` | start, credentials, scopes, briefing, preferences, owners of rows | |
| `IndexAdvice` | the two index tools and operators who follow them | |
| `Refresh` | `scripts/okf_refresh.py` beside itself, sessions and a changing catalog | |
| `MC...` | instances for TLC | |
| `...Proofs` | theorems and proofs; `QueryPathProofs` has those of `PermitPool` too, `LearningProofs` those of `EventBuffer`, `MaintenanceProofs` those of `MaintenanceLock` and `Refresh` | extend the module |

**PermitPool.** `inUse` and `held` are the class's `_in_use` and `_held`, `holder` the calls inside; `Enter` and `Leave` are the two
synchronous halves of `acquire`. A missing key of the dictionary counts as zero and reads as one
on the way out, as in the code. The abstract `TenantLimiter` has no counters, it counts the calls.

**AsyncQuery.** `call[c]` is the program counter and the locals of a call slot; a call is replaced by
another when it has replied. Between two steps of a call, any other call, the cluster, or the clock may
move. The cluster's acceptance of a POST (`ClusterStarts`), its answer to a poll and its cancelling
are steps of their own, so a reply can be lost after the effect. A job is named by its submission and the
attempt that started it. `born` and `forgotten` are history. Permits are counted by the phases
that hold them, which is what `PermitPool` is proved to do. `Submissions` names the ids that are
submitted, of those there are: the others are only asked for. A cancel takes any id of which a submission is under
way or logged: the agent may have it from `list_running_queries`. `early` are the ids of which one was asked before the
entry was recorded.

**QueryPath.** `reading` is the agent's side (who asks, with which dataverse, limit and LIMIT of its own,
which rows it has seen, the file it was told of); `call` is the program counter and the locals of the call
under way; `job` is a submitted query's stored rows. `Compile` is the compile request with the decision on
its plan, `LookUp` one request for a dataset's format each, `Run` the execution with its cuts: the page,
the cap on rows, the cap on bytes over clamped fields. The name in the statement stands for a set of sources
that others redefine at any moment (`Redefine`). A compile request answers with errors when the name is missing, and
otherwise as a fault, which may be gone when the statement runs; `call.judged` says whether a plan was seen and still
holds. `Deployments` are the settings there may be: the allowlist, and whether artifacts are enabled. Rows are their sizes.

**Artifacts.** One step per file operation: the sweep (`purge_expired`) goes over the files it listed one by one,
by their mtimes and its own gateway's retention; then the file is opened, filled, and named in a reply with a
date. Reading is `resolve_artifact_file` and, later, the opening of the file. A gateway can be killed
anywhere, and a file can resist its removal. `ArtifactShelf` keeps one thing: until its date, the artifact is there whole.

**MemoryStore.** A row is its two time bounds, reduced to `closed`, and what the decisions look at:
whether the walk owns it, its core as a set of schema elements, its text, and four bookkeeping marks (`sourced`: it has a
`source_query`). The text is what the code makes of it: blocks, which blank lines part, each a set of lines of which some
are prefixed with the marker. A note is a set of paragraphs with a first line, the one that gets the marker (`Blocks`);
a paragraph becomes a block of its own. Whether a block has evidence (`Unverified`), is repeated or is retired is decided
block by block, as `memory_write.py` does, and the walk drops single lines (`Surviving`), as `okf_walk.py` does.
An operation reads the current rows once and queues the writes it has decided on; each `WriteLands`, `WriteFails` or `WriteRetried` sends one of them, so
everything else may happen between the read and each write. `drops` records what the code gives up when
a write fails: the whole operation (`memory_write`, walk, decay), the rest of a delivery, or just
that write (revalidation). Which notes occur in or begin which blocks, which paraphrase them, the elements a line
mentions and the fragments a correction names are constants. The age that makes a note decay and the
outcome of a replayed proof are free choices. A sample and a query each touch one subject. Two actors
never take the same microsecond stamp.

**EventBuffer.** One step per request or file operation; `Size` and the append are apart, as the
worker threads of several processes make them. `Writers` are the gateways with `memory_write_enabled`; the others
buffer at once. The replay is one at a time (the maintenance lock),
and goes through the listed files in any order (`StartReplay`, `ReplayStep`, `ReplayEnds`). Files that cannot be read or removed and torn
lines are left out.

**Learning.** `runs` are the outcomes in the order in which they ended. `RecordEvent` stores or buffers an
event under the tenant of its connection; `Capture` pairs failures with working forms by `CaptureState` and
writes the fixes. A pass begins (`StartPass`, bound to the deployment's tenant at startup, to none in the
loop), replays the buffer and distills proven queries, recurring failures and slow patterns from the events
it may read. `Age` moves the window of the events. What a note does to the store is `MemoryStore`'s; here a
note that is written is kept.

**MaintenanceLock.** One step per file operation, each removal with its failure, which the code passes over (`BreakFails`, `ReleaseFails`). A lock turns old only when its gateway has crashed or
is done and could not remove it (`Left`), because a pass is capped at 60 s and a lock is stale after 600 s.

**Sessions.** A gateway starts: the backfill reads the rows without an owner and writes them one by one, then the
settings are judged, then it serves. A request comes on a connection with a credential, which makes it a
tenant's or turns it away; its scope is found or made (`ForCall`), a new one if the tenant is another than
before. `config.tier` are rules in the global tier, which every tenant reads (`Everyone`, the "*" of `scope_clause`) and which
the gateway never writes. The briefing is `CheckPending`, `Inventory` and `Brief`, `remember_preference` is `ReadCurrent` and
`Insert`, and between any two of these steps all other calls may run. A number names a scope for ever, so that
history can tell two scopes of one key apart. Restarts keep the rows and lose the rest.

**IndexAdvice.** An operator asks one of the tools, the tool reads the catalog once and studies a statement at
a time while others create and drop indexes, and the operator follows what it was told, in any order.
The advisor of the cluster may propose any index that helps. A recommendation without DDL, for a dataset that a join scans,
is an advice to `inspect`: following it changes nothing. Indexes are key lists with a structure.

**Refresh.** A run of the script holds what it has read (`run[p]`): the catalog, its rows, and what it is about
to close and insert, one request a step. Sessions write notes meanwhile, also over notes that are there (`WriteNote`, in one step: its requests are
`MemoryStore`'s): the successor has what the note did not bring from the old row, the digest included (`Rewritten`).
The catalog and the data change, and a request that fails ends the script. `owed` is history:
what each tenant was told and nothing has refuted. What refutes a claim is the catalog of the moment, and also the catalog as the
tenant's own refresh has read it, if that refresh has yet to read the row (`Stands`): the script judges by what it fetched first.

## 3. Runs

| Run | Instance | Shows |
|---|---|---|
| `permit_pool` | 5 calls, 2 tenants and none, 3 permits, share 2 | the counters are the calls, a newcomer is turned away only if the shares of those inside are the pool, `TenantLimiter` is implemented |
| `async_query` | 2 ids, 1 submitted, 2 calls, TTL 1, clock to 1, cancels at any time, fair | results are of finished jobs of their own submission and stick, nothing is served past the TTL, what is forgotten after it was logged has stopped, every call replies |
| `query_path` | 3 definitions of a name, 2 tenants, pages of 1 and 3, caps of 2 rows and 3 bytes, no allowlist with artifacts or an allowlist without, 1 redefinition, 1 request that fails or returns errors, fair | what a plan showed is authorized, pages are exact, overflow is saved if anything is, paging ends |
| `artifacts` | 2 gateways with retentions 1 and 2, 2 files, 1 reader, clock to 3, 1 fault | `ArtifactShelf` is implemented |
| `memory_store` | 2 actors write, query and walk, 2 notes of 2 lines, 3 stamps | annotations are kept, and history is, under stale copies |
| `memory_store_alone` | 1 actor does everything, but contradicts nothing, 4 notes, 3 stamps, 1 fault | one current row at most; annotations and the markers of unproved notes are kept under faults |
| `event_buffer` | 3 events, 2 at a time, 2 files of gateways of which one only buffers, budget 1, 3 losses, fair | a buffered event is in a file or stored unless appended behind the replay, the budget is nearly kept, what is buffered is stored unless the replay meets a stored line |
| `learning` | 3 connections of 2 tenants, 2 statements on a dataset, 3 outcomes, 2 of them not yet captured, 1 fault, fair | fixes are exact, notes have reasons, what two sessions proved is learned |
| `maintenance_lock` | 3 gateways, any crashes, failed removals and relaunches, fair | whoever runs holds the file or was robbed of it, a leaked lock is broken |
| `sessions` | 10 settings, 2 tenants' tokens and 2 bad ones, 1 connection and calls without one, 3 calls, 1 old row, 1 fault, fair | scopes are separate, a briefing is given once, rules are their tenant's, what is recorded is kept, old rows are adopted |
| `index_advice` | 2 datasets in 2 dataverses, 2 fields, 4 statements, 2 old indexes, 2 operators, 1 failed read, fair | no lookup is lost to a dropped index; advice to create, analyze and drop comes to an end, but for a dataset out of scope |
| `refresh` | 2 tenants, 2 concepts and a note, overlapping scopes, 1 change of the catalog or data, 1 note, 1 fault, fair | what was learned is kept, rows of others are, the store becomes level with the catalog and no refresh has anything left to write |

**Bounds.** `MaxTime`: an entry is expired at the age of the TTL, and the clock of `AsyncQuery` stops there, so entries
are seen fresh and expired, and recorded again after expiry; that of `Artifacts` lets a file
of either gateway become due under both retentions. `Attempts`: the code posts at most
twice. `MaxRows` (stamps): a row, and two writers who both read it and each supersede it, is the
shortest lost update. `MaxFaults` in `MemoryStore`: one fault at any of the writes, since a fault ends the
operation or is followed by the one retry; the run with two actors has none, its matter is the
interleaving. `MaxLosses` in `EventBuffer`: every recording may be refused, or
fewer and the replay interrupted. `Recorders` below the number of events, so that the overshoot of the budget is
less than what it would be with no check. Three gateways in `MaintenanceLock`: one holds, one breaks, one
creates in between. Two calls or actors suffice for a stale copy: one holds it while the other moves on. In
`QueryPath` the caps are such that each of the three cuts is the least one for some page, and one row
is beyond any budget; one redefinition falls between any two requests. In `Learning` two sessions are what the
code asks for, the third connection is another tenant's, and `Overlap` bounds the outcomes that have ended and are not
captured yet: with two, they are captured in either order. In `Sessions` two calls overlap and a third comes later; the
connection passes from one tenant to the other and back. In `IndexAdvice` the indexes are three key lists over the two
fields, so that prefixes, duplicates and longer keys of another structure occur. In `Refresh` the second tenant's
refresh has a smaller scope and no grounding.
Symmetry is used in runs without liveness only. Where a run does not check deadlock,
the instance comes to rest with its stamps, files, calls or events used up and all actors idle, as a gateway does
that nobody calls.

In `PermitPool` the share is below the pool, as in the blocking pool that is shipped (3 and 2); that of a share that is the
pool, as in the async one (2 and 2), the property says that one tenant may fill it, and the theorem covers both. In
`MemoryStore` the notes are of one line, of two in a paragraph, of two paragraphs, and a paraphrase.
In `Refresh` the note that is there has a query, and may be written over without one or with another.

**Fairness.** `AsyncQuery`: a call under way goes on, since the loop runs ready coroutines and the HTTP client
has a timeout, and time passes; no job has to end, no agent has to call. `QueryPath`: a call under way goes on, for the
same reasons, and an agent that is told of more rows asks for them. `EventBuffer`: a recording and a
replay under way go on, and gateways go on being launched while something is buffered, which is
when the replay runs. `Learning`: calls and passes go on; gateways are launched again and again. `MaintenanceLock`:
acquiring and releasing are local and the pass is capped; locks age; gateways go on being launched, and the removal of a
stale lock does not fail for ever (strong fairness of `Break`, as the launches in between disable it). `Sessions`: a start
runs to its end, its failures passed over, and gateways are started again. `IndexAdvice`: each operator keeps asking and does as
told; `AdviceSettles` is about operators who do. `Refresh`: each tenant's refresh is scheduled again and again.
In the last two the fairness is `[]<>` of a step that changes the operator's or the run's own state: such a step is always
enabled, so this is weak fairness.

## 4. Proofs

| Theorem | Says, for all constants |
|---|---|
| `QueryPathProofs!CountersAreTheCalls` | the counters are the numbers of calls inside |
| `QueryPathProofs!PoolImplementsLimiter` | `PermitPool` implements `TenantLimiter` |
| `QueryPathProofs!NewcomersAreCrowdedOut` | a tenant with nothing in flight is turned away only if the shares of those inside add up to the pool, whatever the share |
| `QueryPathProofs!ReadsStayInTheAllowlist` | what is read is allowed, if the compile request returned no errors and the name was not redefined since |
| `QueryPathProofs!PagesStayExact`, `OverflowStaysSaved` | the pages are the result, and what they leave out is saved if artifacts are enabled |
| `AsyncQueryProofs!TypesHold` | types, and at most two attempts |
| `AsyncQueryProofs!LifetimesHold` | nothing is served past the TTL |
| `AsyncQueryProofs!ResultsAreReal`, `ResultsStick` | result handles are of succeeded jobs of their own submission, and stay |
| `AsyncQueryProofs!ForgottenJobsHaveStopped`, `CancelledIsForgotten` | what is forgotten has stopped, unless a cancel was asked before it was logged; and it stays forgotten unless it succeeded |
| `ArtifactsProofs!TypesHold`, `ShelfIsKept` | types; `Artifacts` implements `ArtifactShelf`: what a reference names is served whole for the shortest retention |
| `MemoryStoreProofs!TypesHold` | types; evidence is where a row's kind has it |
| `MemoryStoreProofs!HistoryIsKept` | a stored row stays and goes on saying what it said |
| `MemoryStoreProofs!EvidenceIsReal` | a line that only begins notes and stands in an overlay without "(unverified)" was written with a proof, or in a block that begins with a proved note |
| `MemoryStoreProofs!AnnotationsStay` | a line of an overlay stays in a current row, or is about to, until it is told to go |
| `MemoryStoreProofs!OneCurrentRow` | if one actor writes, and none of its queries contradicts a note, a subject has one current row at most |
| `LearningProofs!TypesHold` | of `EventBuffer`: types; replays and recordings hold a file |
| `LearningProofs!BufferedAreKept` | a buffered event is in a file or stored, unless appended behind the replay's read |
| `LearningProofs!BudgetHolds` | the files exceed the budget by less than the recordings under way |
| `LearningProofs!FixesStayExact` | a fix joins a failure with the next outcome captured on its connection and dataset, of another text, that worked; and each such pair is one |
| `LearningProofs!NotesAreFounded` | a learned note has its texts, sessions, failures and proofs in what its own tenant did |
| `MaintenanceProofs!LocksHold`, `UnrobbedAreAlone` | whoever runs holds the lock file or was robbed of it; the others run one at a time |
| `MaintenanceProofs!RefreshIsTyped` | of `Refresh`: types; what is inserted has a fresh id |
| `MaintenanceProofs!CopiesAreOwn` | what a refresh holds is a copy of rows it may write, with their text |
| `MaintenanceProofs!OthersAreLeft` | a refresh never changes a row of another tenant or of the shared tier |
| `MaintenanceProofs!OverlaysSurvive` | what was learned stays in a row, or in one about to be inserted, until it is refuted, a session writes over the note, or the script stopped between its two requests |
| `SessionsProofs!TypesHold` | types; every row a call stored has an owner |
| `SessionsProofs!ScopesStaySeparate` | calls that share a scope are of one connection and one tenant |
| `SessionsProofs!RulesStayOwn`, `RecordedStaysKept` | a briefing shows a tenant's own rules and the global tier's; what was answered as recorded can be read for ever |
| `SessionsProofs!BriefedAtMostOnce` | who calls after a briefing is briefed again only if another tenant used the key in between |
| `IndexAdviceProofs!AdviceIsTyped` | index names are distinct, advice is about rows, and only who asked for a report is told to drop |
| `IndexAdviceProofs!NothingIsLost` | if one operator follows the reports, an index that is dropped leaves one that starts with its keys |

The assumptions are those of the modules (`LogAssumption`, `QueryAssumption`, `PoolAssumption`, `PathAssumption`,
`ArtifactsAssumption`, `SessionsAssumption`, ...):
finite sets of calls, positive sizes, constants apart from each other, `Shortest` no longer than any gateway's retention, old
rows numbered apart from the calls that add rows.

*Pools.* The invariant says that `inUse` is the number of calls inside, each tenant's counter is the
number of its calls, and the call sets are finite; entering and leaving change one call and one bucket. The
refinement needs it because the guard of the detailed step speaks of counters. A newcomer that is turned away finds the pool
full, since its own counter is zero; no tenant inside holds more than its share, so those inside are enough to make up the pool.

*Queries.* Types are proved first, with the shape of `call` and of `Local`. `Inv` adds what no property
says but every step needs: a stored or copied entry was born when its id was, an id is given out once,
and a copy is no younger than `born`. From it the TTL theorem: `with_result_handle` keeps the stamp, so a
late record cannot make an entry younger. `RInv` ties results to jobs: a copied handle is of its
own id, an answer of success is of a job that succeeded, and success is final. `FInv` ties cancels to
jobs: a cancel answered "ok" or "not found" has an id whose only job is over, or was asked early, and over is final; a wait that
would record again must have seen success, which a cancelled job never shows. `forgotten` are the ids
of which an entry was dropped: a cancel that finds none drops nothing, and its submission may still be logged.

*Query path.* `CallCleared` carries the authorization from the compile request to the run: a call between the two was
cleared for what the name stands for, unless it has been redefined since or no plan was seen (`call.judged`). For the pages, `ShownInOrder` says that what
the agent has seen is the first so many rows of the response it pages over, and that while some are missing the file it
was told of has them all. One page is a lemma about `Page` (`PageIs`): what it shows starts at the offset and is
a prefix of the window, and "more" is true exactly when rows are left, whichever of the three cuts was the least; the number
delivered is the length of the longest prefix that fits, and its existence is by the well-foundedness of the naturals, not by
induction over the rows.

*Artifacts.* `PromiseInv`: a named file is whole and not younger than its date says, or the shortest
retention is over; the same of a file that is being written, counted from the moment at which its date was taken; and no two
gateways write one file. A sweep removes only what is older than its gateway's retention, which is no shorter than the
shortest. The refinement maps `due` to the date a reply gave or is going to give and `kept` to the whole files.

*Lock.* The invariant is `TypeOK` with `RunnersHoldTheFile`: only an exclusive create makes a runner, and every
removal of another's file is recorded in `robbed`.

*Store.* `HistoryKept` is not inductive: a write queued long ago decides what the row will say. `Faithful`
adds that every queued upsert and every copy a session keeps says what its row says, and that every row to be inserted
has the evidence it claims. A leading line gets into an overlay with the marker or with a proof; the marker is lost when a
proved note begins its block, or with the line itself, since the walk drops single lines but moves none. Bookkeeping (a bump, a mark, a close) does not touch what a row says, so a step that starts
on writes made of current rows or kept copies preserves it; a step that sends one leaves every row saying the same, so the
copies of all the others stay faithful. `Faithful` says nothing of the bookkeeping: a copy stays open when its row
is closed, which is how one current row too many can come back (section 6).

For `AnnotationsKept`, `Held` says where an owed line is: in a current overlay that nobody is about to close, or in a row
that is queued for insertion. The first half is what survives a stale copy. Who closes an overlay has queued a successor with
every line the overlay still owes (`Succeeded`), at the moment of the read; whoever else writes the row writes
it open (`Open`: the copies a session keeps were current when they were read) and saying the same (`Faithful`).
An insert leaves the queue by landing on an id that had no row, which nobody can be about to close, or by being given up,
which breaks the subject. Two writers who supersede one row thus leave two current rows, which is why the
property promises a current row and not the current row.

`AtMostOneCurrent` holds of one actor only, and not of one whose queries contradict what it keeps copies of and write them back
(section 6); these are the hypotheses (`Refutable = {}`, or no queries), and the instance of `memory_store_alone`, where
notes are delivered and their use is counted. The actor's queue is `Orderly`: marks are on rows that are current and that it
does not close; of a subject it inserts one row, in the second round, and closes every current row of that subject in the first. That
survives each write, its retry, whose insert may have landed already, and its failure, which drops the inserts with the closings.

*Buffer.* `BufferedUnlessBehind` needs to know, of the file that is being replayed, that each of its lines is stored, or
still to go, or behind. `BufferBounded` needs the events that found room and have not appended yet: with them, the
lines on disk stay below the bound, because whoever is about to append is one of the recordings under way. The
size is a cardinality so that no induction over files is needed.

*Sessions.* `ScopeInv` adds that live scopes have different numbers and that a call that was given a scope's number is of its key
and its tenant; numbers are given out once, so what is true of a dead scope's calls stays true. `RowsInv` adds where a row came
from: it is an old one without an owner, one of the global tier, or somebody of its owner's tenancy gave its rule; the backfill, which may write
what it read long ago, reads only rows without an owner, and those change in no other way. `BriefInv` follows the flag: who was
briefed still has the scope whose briefing is spent, or another tenant has called on the key since; and a call that was late and is
on its way to a briefing has lost its scope in this way. No order of the calls is needed, only that a number is never given out twice.

*Learning.* `FixesAreExact` compares the fixes with the whole history of captures; the code keeps one failure for each connection
and dataset. The invariant is that what it keeps is the last captured outcome there, if that failed, and nothing otherwise; then a
success closes exactly the pair that the history has. `NotesHaveReasons` rests on counts of what a tenant did (`Own`), which only
grow: an event keeps its run and reaches its tenant's store once, so the sessions and failures that a note was written for are still there later.
Sessions are counted by choosing one run of each.

*Refresh.* `Typed` has the one fact about data: rows and copies are finitely many, so the id of a new row is free. `HeldAreOwn` is for
`OthersRowsKept`: a copy that is written back was taken of a row its tenant may write, and no step changes what makes it so, except the
adoption of rows without an owner, which is exempt. For `LearnedKept`, each owed claim has a row that is `Safe`: it bears the claim, and whatever the
tenant's refresh holds of that row will let it through: the bundle it fetched does not refute it, a copy of a note has a digest that its query
still gives, and if the row is about to be closed its successor bears the claim too. The attempt to prove this found that an earlier
form of `WriteNote` promised too much: a claim made between the reading of the catalog and the reading of the rows is judged by
a catalog that is older than the claim. `Stands` now says so. What a note that is written over leaves behind is a case of its
own (`LearnedIs`): with another query and the digest of the old one, nothing is owed of it (section 6).

*Index advice.* A report is a set of rows to drop and of families, duplicates of which one row is to stay. `Sound` says of what is left of
it that every row to drop is covered by a row that is `Firm`, not to be dropped and, if of a family, of one that is whole; and that a
family that is not whole has a longer row that is firm. A fresh report is sound because among the rows that cover a row one is longest, and a
family is redundant in one piece. A catalog that grows keeps it sound, a drop that was advised does, and a choice does, because
the row kept stands wherever another of the family stood. The hypothesis that one operator follows the reports cannot be dropped: TLC finds two
who keep different duplicates (section 6).

Only model-checked: the liveness properties `EveryCallReplies`, `ReadingEnds`, `StoredUnlessMet`, `LeakIsBroken`, `ProvenIsLearned`,
`LegacyIsAdopted`, `AdviceSettles` and `StoreSettles` (TLAPS handles neither fairness nor ENABLED). Every invariant and every
action property of the runs is stated by a theorem. Facts by induction over sequences are avoided in the modules with
proofs, and none of them reaches a RECURSIVE operator.

## 5. Reading the models against the code

`PROJECT.json` maps every definition to its lines, every property of a run to a plausible bug that
violates it, and every hazard to the properties that watch it. The definitions named as mutants stand
before the ones they mutate and are used by nothing else. A guard of an action is the condition or the
early return of the handler; its disjuncts are the handler's exits. The formatting of answers, logging,
metrics and the argument checks that reject a call before any state is read are left out.

## 6. Seen while modelling

The models contain these behaviours, and the properties are stated so that they are exempt (by `behind`, `broken`,
`robbed`, `steady`, `ownerless` and the like) or bounded by a premise. Each was found in the code on the way; some of them
differ from what a comment or a document says, which is then quoted by its line.

*Queries and artifacts.*

- A cancel of a submission that is still being compiled or posted may be answered NOT_FOUND
  (`async_query.py:424-436`), and the POST then starts the job all the same. If the entry was recorded before the answer arrived, it
  is dropped, and the running job has lost its name. That "the query already finished" (`:438`) need not be so, although a context id is to be had while a submission is in flight (`server.py:440-447`, `running_queries.py:3-7`).
  `ForgottenHasStopped` exempts these (`early`).
- A reset connection makes `submit_async` start two jobs, of which the log knows one (`cc_client.py:447-454`).
- The share is "deliberately below the pool size" (`config.py:24-29`) in the blocking pool; the async pool ships with 2 permits and
  a share of 2, which `permits.py:53-56` accepts, so one tenant can fill it. `CrowdedOut` says what is true of both.
- A wait in flight puts back an entry `cancel_query` has dropped, if its job succeeded (`async_query.py:307`). Waiting again on
  a finished job captures its outcome again.
- A name redefined between the compile request and the run is read unchecked (`execute_query.py:97`).
- A compile answer with errors passes the authorization, since such a statement "reads nothing" (`tenant_policy.py:105-109`). The
  client does not raise on errors of a compile request (`cc_client.py:281-323`), so one that has gone by the time of the run leaves
  the statement unauthorized, and it reads whatever it names. `ReadsAreAuthorized` is about runs whose plan was seen (`judged`).
- Each page of `execute_query` runs the statement again. `PagesAreExact` has the same rows in the same order for as long as the
  definition stays; a statement without ORDER BY over data that change gives no such promise.
- With artifacts disabled (`config.py:246-250`, `artifacts.py:144`) a reply says that there is more and names no file.
- The LIMIT that is injected is the page's own limit, so a page at an offset beyond it is always empty.
- Gateways with different retentions on one directory: the one with the shorter retention removes the other's
  files before their time (`artifacts.py:202`); the date in a reply is good only up to the shortest.

*Memory.*

- A contradiction found later in a session re-opens a superseded row (`memory_notes.py:403`, `236-238`), and a usage bump
  from an older copy erases a suspect marker (`memory_notes.py:249`).
- An unproved replacement of a note keeps the old proof (`memory_write.py:490-503`), and the suspicion of the old text
  (`memory_write.py:494`).
- The marker "(unverified)" is put once before a note of several paragraphs (`memory_write.py:460`), whose blocks are told apart by
  blank lines from then on (`:268`, `:311`, `:509`): all but the first count as proved. A proved note that begins a longer block
  takes the marker from the rest of it as well (`:450-454`). The walk drops single lines, and with the first one the marker of
  what is left (`okf_walk.py:97-101`). So unproved text stands unmarked, and `OverlayHasEvidence` is about the lines that only
  begin notes.
- Decay archives a note whose use was counted after decay's read (`decay.py:70`).
- The walk closes a standalone note on a subject that appears in the catalog (`okf_walk.py:131`), and a walk or
  write cut off between its two rounds drops the overlay for good (`okf_walk.py:225`).
- `get_schema` (`server.py:768`) and the sample resource (`server.py:1400`) use a client bound to no tenant, and so never deliver
  notes (`server.py:663-667`).
- A note on a row of the shared tier makes the row its writer's.
- A standalone note that is written over with a query of its own keeps the digest of the old query (`memory_write.py:492-503`). The
  next `--revalidate` finds another result and closes the note (`okf_refresh.py:311-315`), although nothing refuted it.
  `LearnedKept` owes nothing of such a note.

*Events and learning.*

- A buffered event that is already stored blocks every later replay (`memory_capture.py:293`, against `266-268`); an event
  appended between the replay's read and its unlink is lost (`memory_capture.py:295`).
- The distillation loop uses a client bound to no tenant; reads of the store are refused to it, the refusal is caught, and the
  loop learns nothing (`http_app.py:161`, against `http_app.py:137` and `distill.py:21-23`). The pass at startup does bind one
  (`maintenance.py:134`).
- Buffered events become the deployment's when they are replayed, whoever's they were.
- Asynchronous waits pass no session on (`async_query.py:237-239`, `274-290`): all of them count for one session.
- A statement cut to 300 characters is kept as the query that grounds a note, and cannot run.

*Maintenance and sessions.*

- Two gateways can run maintenance at once without any crash (`maintenance.py:70`, against `12-13`); no property excludes it.
- A lock that cannot be removed (`maintenance.py:69`, `93`, the error passed over) stays until it is stale and its removal works.
- Maintenance runs before the settings are judged, so a gateway that refuses to start has done it.
- Overlapping first calls of a session may both be briefed (`briefing.py:117-123`); two calls at once can store one preference twice.
- Rows written in one mode of authentication are owned by somebody else in another; two gateways with different
  deployment principals adopt each other's old rows, whoever comes first.

*Index advice.*

- `recommend_indexes` with a dataverse sees neither indexes nor samples of other dataverses, of which its statements may speak
  (`recommend_indexes.py:112`, `147`). It advises what is there, on every run; and where the other tool finds the index so created
  redundant, the two go round for ever. `AdviceSettles` exempts datasets out of scope (`Strayed`).
- A dataset that a join scans gets a recommendation without DDL on every run, with the advice to look at the WHERE clause
  (`recommend_indexes.py:424-425`, `481-488`). `AdviceSettles` lets it stand.
- Two operators who follow one report may each keep a different one of two duplicates and lose both.
- Two key lists such as `a.b` and `a_b` make one index name; of nested paths only the first segment counts.

*Scripts.*

- `okf_bundle`'s import and `okf_consolidate` call `fetch_current` and `apply` without the principal they require, and end in a
  TypeError before they write (`okf_bundle.py:278`, `286`; `okf_consolidate.py:153`). `memory_distill` queries parameters it
  does not bind. The export of `okf_bundle` reads the rows of every tenant.
- Two refreshes that read the same rows without an owner both adopt them, the second from the first
  (`okf_refresh.py:152-162`, "idempotent by construction").
- Of two current rows of a subject a run sees one (`okf_refresh.py:176`), so a second row can stay, and a note can hide a concept that
  has vanished, for ever. `StoreSettles` asks for a row with the right core and for refreshes that have nothing to write, not
  for a single row.
- A grounded refresh and the ungrounded walk of a gateway supersede each other's cores; the scripts take no lock.
- `memory_migrate_labels` recognizes the markers of capture and distillation only, and marks proved notes of agents
  as unverified.

## 7. Not modelled, and what could come next

Not modelled because they hold no state or are the text they handle: which SQL++ text the statement guard refuses, the parsers of
jobs and profiles, the inventory and the catalog of functions, `check_index_usage`, introspection but for the health
check, resources, prompts, schemas, completions, configuration, the checks of tokens and headers, `memory_search` (a ranking, with
the usage bump that `MemoryStore` has), and scripts that are one pass by hand. Left out of modelled parts: the ranking and linking
of notes, the tokenising of claims, canonical names, caps on sizes, the matching of error texts, columnar findings of the index advice,
the DDL of the store. Some things are left out at the edges. A request that writes several rows is taken for one that writes all or none of them
(`Refresh`). Nobody writes with `memory_write` on the subject of a preference (`Sessions`), and one old row is adopted in the run,
so that an adoption that stops half way through several is covered by the theorems about rows, not by `LegacyIsAdopted`.
The run of `AsyncQuery` submits one id: that two submissions never mix is proved (`ResultsAreReal`). And one effect is left out: a request that takes effect after the gateway has given
up on it and another request of the same actor has been sent.

Next, in this order: the order of a maintenance pass as a composition of the lock and the passes, with its cap; `Learning` with
notes that `MemoryStore` reconciles; the walk of `MemoryStore` and `Refresh` on one store.
