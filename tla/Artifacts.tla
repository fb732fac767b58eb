------------------------------ MODULE Artifacts ------------------------------
(***************************************************************************)
(* The overflow artifacts of artifacts.py.  The rows that do not fit in a  *)
(* reply are written to a file, and the reply names it and the date until  *)
(* which it can be read.  Every write first removes the files it finds too *)
(* old.  The directory is one per machine when none is configured, so      *)
(* several gateways, each with its own retention, write, sweep and serve   *)
(* the same files; a gateway may be killed anywhere.                       *)
(***************************************************************************)
EXTENDS Integers

CONSTANTS
  Gateways,   \* processes that share the directory
  Ids,        \* artifact ids: random, so never given twice
  Readers,    \* clients that follow a reference
  TTL,        \* TTL[g]: artifacts_ttl_s of gateway g
  Shortest,   \* a retention that none of them goes below
  MaxTime,    \* bound of the model: the clock
  MaxFaults,  \* bound of the model: removals that fail
  None

ASSUME ArtifactsAssumption ==
  /\ TTL \in [Gateways -> Nat]
  /\ Shortest \in Nat /\ \A g \in Gateways : Shortest <= TTL[g]
  /\ MaxTime \in Nat /\ MaxFaults \in Nat
  /\ None \notin Ids

VARIABLES
  now,      \* the clock of the machine
  file,     \* file[a]: whether it is whole, and its mtime; its domain is the directory
  pen,      \* pen[g]: the write_overflow_artifact that gateway g is in
  given,    \* given[a]: for the artifacts a reply has named, the time the date in it counts from
  read,     \* read[r]: the artifact whose file a reader's request has found
  heard,    \* heard[r]: the artifact a reader asked for last, and the answer
  faults    \* removals that failed

vars == <<now, file, pen, given, read, heard, faults>>

Idle == [at |-> "idle", since |-> 0, todo |-> {}, of |-> None]

Init ==
  /\ now = 0
  /\ file = [a \in {} |-> [whole |-> TRUE, mtime |-> 0]]
  /\ pen = [g \in Gateways |-> Idle]
  /\ given = [a \in {} |-> 0]
  /\ read = [r \in Readers |-> None]
  /\ heard = [r \in Readers |-> None]
  /\ faults = 0

-----------------------------------------------------------------------------
(* Writing.                                                                *)

(* The date is taken first; the directory is listed.                       *)
WriteStart(g) ==
  /\ pen[g].at = "idle"
  /\ pen' = [pen EXCEPT ![g] = [Idle EXCEPT !.at = "sweep", !.since = now, !.todo = DOMAIN file]]
  /\ UNCHANGED <<now, file, given, read, heard, faults>>

(* Mutant of TooOld: the last unit of the retention is cut off.            *)
TooOldEarly(g, a) == pen[g].since - file[a].mtime >= TTL[g]

(* The test of purge_expired, with the date of the write.                  *)
TooOld(g, a) == pen[g].since - file[a].mtime > TTL[g]

(* A listed file is too old and cannot be removed: it is left, and the     *)
(* sweep goes on.                                                          *)
SweepFails(g, a) ==
  /\ faults < MaxFaults /\ faults' = faults + 1
  /\ pen[g].at = "sweep" /\ a \in pen[g].todo \cap DOMAIN file /\ TooOld(g, a)
  /\ pen' = [pen EXCEPT ![g].todo = @ \ {a}]
  /\ UNCHANGED <<now, file, given, read, heard>>

(* A listed file is removed if it is too old.  One that is younger, or     *)
(* that another gateway has removed since, is passed over.                 *)
Sweep(g, a) ==
  /\ pen[g].at = "sweep" /\ a \in pen[g].todo
  /\ pen' = [pen EXCEPT ![g].todo = @ \ {a}]
  /\ file' = IF a \in DOMAIN file /\ TooOld(g, a)
               THEN [x \in DOMAIN file \ {a} |-> file[x]] ELSE file
  /\ UNCHANGED <<now, given, read, heard, faults>>

Put(a, whole) ==
  file' = [x \in DOMAIN file \cup {a} |-> IF x = a THEN [whole |-> whole, mtime |-> now] ELSE file[x]]

(* write_bytes opens a new file, then fills it.                            *)
WriteOpen(g, a) ==
  /\ pen[g].at = "sweep" /\ pen[g].todo = {}
  /\ a \notin DOMAIN file \cup DOMAIN given \cup {pen[h].of : h \in Gateways}
  /\ Put(a, FALSE)
  /\ pen' = [pen EXCEPT ![g].at = "fill", ![g].of = a]
  /\ UNCHANGED <<now, given, read, heard, faults>>

(* A file that another gateway has removed under the writer stays removed; *)
(* the writer fills one that has no name any more.                         *)
WriteFill(g) ==
  /\ pen[g].at = "fill"
  /\ IF pen[g].of \in DOMAIN file THEN Put(pen[g].of, TRUE) ELSE UNCHANGED file
  /\ pen' = [pen EXCEPT ![g].at = "reply"]
  /\ UNCHANGED <<now, given, read, heard, faults>>

(* The time that the date in the reference counts from.                    *)
Date(g) == pen[g].since

(* Mutant of WriteReply: the writer goes on holding the id it gave out.    *)
WriteReplyKeepsId(g) ==
  /\ pen[g].at = "reply"
  /\ given' = [x \in DOMAIN given \cup {pen[g].of} |-> IF x = pen[g].of THEN Date(g) ELSE given[x]]
  /\ pen' = [pen EXCEPT ![g].at = "idle"]
  /\ UNCHANGED <<now, file, read, heard, faults>>

(* The reply names the artifact, and when it expires.                      *)
WriteReply(g) ==
  /\ pen[g].at = "reply"
  /\ given' = [x \in DOMAIN given \cup {pen[g].of} |-> IF x = pen[g].of THEN Date(g) ELSE given[x]]
  /\ pen' = [pen EXCEPT ![g] = Idle]
  /\ UNCHANGED <<now, file, read, heard, faults>>

(* A gateway that dies in a write leaves the file as it is, and no         *)
(* reference to it.                                                        *)
Crash(g) ==
  /\ pen[g].at # "idle"
  /\ pen' = [pen EXCEPT ![g] = Idle]
  /\ UNCHANGED <<now, file, given, read, heard, faults>>

-----------------------------------------------------------------------------
(* Reading, as a resource or by download, from any of the gateways.        *)

Hears(r, a, got) == heard' = [heard EXCEPT ![r] = [of |-> a, got |-> got]]

(* resolve_artifact_file: a file that is there, and not older than the     *)
(* retention of the gateway that was asked.                                *)
Resolves(g, a) == a \in DOMAIN file /\ now - file[a].mtime <= TTL[g]

ReadStart(r, g, a) ==
  /\ read[r] = None /\ a \in DOMAIN given
  /\ \/ Resolves(g, a) /\ read' = [read EXCEPT ![r] = a] /\ UNCHANGED heard
     \/ ~Resolves(g, a) /\ Hears(r, a, "none") /\ UNCHANGED read
  /\ UNCHANGED <<now, file, pen, given, faults>>

(* The file that was found is opened; it may have been removed since.      *)
ReadEnd(r) ==
  /\ read[r] # None
  /\ LET a == read[r] IN
     Hears(r, a, IF a \notin DOMAIN file THEN "none" ELSE IF file[a].whole THEN "whole" ELSE "part")
  /\ read' = [read EXCEPT ![r] = None]
  /\ UNCHANGED <<now, file, pen, given, faults>>

Tick == now < MaxTime /\ now' = now + 1 /\ UNCHANGED <<file, pen, given, read, heard, faults>>

-----------------------------------------------------------------------------

Write(g) ==
  \/ WriteStart(g) \/ WriteFill(g) \/ WriteReply(g) \/ Crash(g)
  \/ \E a \in Ids : Sweep(g, a) \/ SweepFails(g, a) \/ WriteOpen(g, a)

Read(r) == ReadEnd(r) \/ \E g \in Gateways, a \in Ids : ReadStart(r, g, a)

Next == Tick \/ (\E g \in Gateways : Write(g)) \/ (\E r \in Readers : Read(r))

Spec == Init /\ [][Next]_vars

-----------------------------------------------------------------------------

Answers == [of : Ids, got : {"whole", "part", "none"}]

(* A file is as old as its mtime; a date that counts from the start of a   *)
(* write is not after it.                                                  *)
TypeOK ==
  /\ now \in Nat
  /\ DOMAIN file \subseteq Ids /\ file \in [DOMAIN file -> [whole : BOOLEAN, mtime : 0..now]]
  /\ pen \in [Gateways -> [at : {"idle", "sweep", "fill", "reply"}, since : 0..now,
                           todo : SUBSET Ids, of : Ids \cup {None}]]
  /\ \A g \in Gateways : pen[g].at \in {"fill", "reply"} <=> pen[g].of # None
  /\ DOMAIN given \subseteq Ids /\ given \in [DOMAIN given -> 0..now]
  /\ read \in [Readers -> DOMAIN given \cup {None}]
  /\ heard \in [Readers -> Answers \cup {None}]
  /\ faults \in 0..MaxFaults

(* The dates that a reference is good until.                               *)
Dates == {t + Shortest : t \in 0..MaxTime}

(* The promise: among gateways that share a directory, a reference is good *)
(* for the shortest retention among them, counted from the date it names.  *)
(* Until then the file is there and whole, and every gateway serves it,    *)
(* whatever the others write and sweep, however long each step takes and   *)
(* wherever one of them dies.                                              *)
Shelf == INSTANCE ArtifactShelf WITH
           due  <- [a \in DOMAIN given |-> given[a] + Shortest],
           kept <- {a \in DOMAIN given \cap DOMAIN file : file[a].whole}

ShelfSpec == Shelf!Spec
=============================================================================
