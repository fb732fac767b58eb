--------------------------- MODULE ArtifactsProofs ---------------------------
(***************************************************************************)
(* Proofs about Artifacts, for any gateways, retentions, readers and bound *)
(* on the clock: gateways that share a directory keep the promise that     *)
(* ArtifactShelf states.                                                   *)
(***************************************************************************)
EXTENDS Artifacts, TLAPS

-----------------------------------------------------------------------------
(* Types.                                                                  *)

PenTypes == [at : {"idle", "sweep", "fill", "reply"}, since : 0..now,
             todo : SUBSET Ids, of : Ids \cup {None}]

FileTypes == [whole : BOOLEAN, mtime : 0..now]

(* An empty directory and idle gateways are well typed.                    *)
LEMMA TypeInit == Init => TypeOK
  BY ArtifactsAssumption DEF Init, TypeOK, Idle, Answers

(* A write that takes its next step.                                       *)
LEMMA PenStep ==
  ASSUME TypeOK, NEW g \in Gateways, NEW p \in PenTypes, UNCHANGED now,
         pen' = [pen EXCEPT ![g] = p], p.at \in {"fill", "reply"} <=> p.of # None
  PROVE  /\ pen' \in [Gateways -> [at : {"idle", "sweep", "fill", "reply"}, since : 0..now',
                                  todo : SUBSET Ids, of : Ids \cup {None}]]
         /\ \A h \in Gateways : pen'[h].at \in {"fill", "reply"} <=> pen'[h].of # None
BY DEF TypeOK, PenTypes

(* A file that is written.                                                 *)
LEMMA PutTypes ==
  ASSUME TypeOK, NEW a \in Ids, NEW w \in BOOLEAN, Put(a, w), UNCHANGED now
  PROVE  /\ DOMAIN file' = DOMAIN file \cup {a}
         /\ file' \in [DOMAIN file' -> [whole : BOOLEAN, mtime : 0..now']]
         /\ file'[a].mtime = now /\ file'[a].whole = w
         /\ \A x \in DOMAIN file \ {a} : file'[x] = file[x]
<1>1. [whole |-> w, mtime |-> now] \in FileTypes
  BY DEF TypeOK, FileTypes
<1>2. /\ DOMAIN file' = DOMAIN file \cup {a}
      /\ \A x \in DOMAIN file' : file'[x] = IF x = a THEN [whole |-> w, mtime |-> now] ELSE file[x]
  BY DEF Put
<1>3. \A x \in DOMAIN file' : file'[x] \in FileTypes
  BY <1>1, <1>2 DEF TypeOK, FileTypes
<1>4. file' = [x \in DOMAIN file' |-> file'[x]]
  BY <1>2 DEF Put
<1> QED
  BY <1>2, <1>3, <1>4 DEF FileTypes

(* A file that is removed, or not.                                         *)
LEMMA SweepTypes ==
  ASSUME TypeOK, NEW a \in Ids, UNCHANGED now,
         \/ file' = [x \in DOMAIN file \ {a} |-> file[x]]
         \/ file' = file
  PROVE  /\ DOMAIN file' \subseteq DOMAIN file
         /\ file' \in [DOMAIN file' -> [whole : BOOLEAN, mtime : 0..now']]
         /\ \A x \in DOMAIN file' : file'[x] = file[x]
BY DEF TypeOK

(* The pen of a write that starts.                                         *)
LEMMA StartPen ==
  ASSUME TypeOK, NEW r \in PenTypes, r.of = None,
         NEW p, p = [r EXCEPT !.at = "sweep", !.since = now, !.todo = DOMAIN file]
  PROVE  p \in PenTypes /\ p.at = "sweep" /\ p.of = None
<1> DEFINE p1 == [r EXCEPT !.at = "sweep"]
           p2 == [p1 EXCEPT !.since = now]
<1>1. p1 \in PenTypes /\ p1.of = None /\ p1.at = "sweep"
  BY DEF PenTypes
<1>2. p = [p2 EXCEPT !.todo = DOMAIN file]
  OBVIOUS
<1> HIDE DEF p1
<1>3. p2 \in PenTypes /\ p2.of = None /\ p2.at = "sweep"
  BY <1>1 DEF PenTypes, TypeOK
<1> HIDE DEF p2
<1> QED
  BY <1>2, <1>3 DEF PenTypes, TypeOK

(* A write, from its sweep to its reply, leaves the types.                 *)
LEMMA WriteTypes ==
  ASSUME TypeOK, NEW g \in Gateways, Write(g)
  PROVE  TypeOK'
<1> USE DEF TypeOK
<1>0. pen[g] \in PenTypes /\ (pen[g].at \in {"fill", "reply"} <=> pen[g].of # None)
  BY DEF PenTypes
<1>1. CASE WriteStart(g)
  <2> DEFINE p == [Idle EXCEPT !.at = "sweep", !.since = now, !.todo = DOMAIN file]
  <2>1. Idle \in PenTypes /\ Idle.of = None
    BY DEF Idle, PenTypes
  <2>2. p \in PenTypes /\ ~(p.at \in {"fill", "reply"}) /\ p.of = None
    BY <2>1, StartPen
  <2>3. pen' = [pen EXCEPT ![g] = p]
    BY <1>1 DEF WriteStart
  <2> HIDE DEF p
  <2> QED
    BY <1>1, <2>2, <2>3, PenStep DEF WriteStart
<1>2. ASSUME NEW a \in Ids, Sweep(g, a) \/ SweepFails(g, a)
      PROVE  TypeOK'
  <2> DEFINE p == [pen[g] EXCEPT !.todo = @ \ {a}]
  <2>1. p \in PenTypes /\ p.at = pen[g].at /\ p.of = pen[g].of
    BY <1>0 DEF PenTypes
  <2>2. pen' = [pen EXCEPT ![g] = p] /\ now' = now
    BY <1>2 DEF Sweep, SweepFails
  <2> HIDE DEF p
  <2>3. /\ pen' \in [Gateways -> [at : {"idle", "sweep", "fill", "reply"}, since : 0..now',
                                 todo : SUBSET Ids, of : Ids \cup {None}]]
        /\ \A h \in Gateways : pen'[h].at \in {"fill", "reply"} <=> pen'[h].of # None
    BY <1>0, <2>1, <2>2, PenStep
  <2>4. /\ DOMAIN file' \subseteq DOMAIN file
        /\ file' \in [DOMAIN file' -> [whole : BOOLEAN, mtime : 0..now']]
    BY <1>2, <2>2, SweepTypes DEF Sweep, SweepFails
  <2>5. faults' \in 0..MaxFaults
    BY <1>2, ArtifactsAssumption DEF Sweep, SweepFails
  <2> QED
    BY <1>2, <2>3, <2>4, <2>5 DEF Sweep, SweepFails
<1>3. ASSUME NEW a \in Ids, WriteOpen(g, a)
      PROVE  TypeOK'
  <2> DEFINE p == [pen[g] EXCEPT !.at = "fill", !.of = a]
  <2>1. p \in PenTypes /\ p.at = "fill" /\ p.of # None
    BY <1>0, ArtifactsAssumption DEF PenTypes
  <2>2. pen' = [pen EXCEPT ![g] = p] /\ now' = now
    BY <1>3 DEF WriteOpen
  <2> HIDE DEF p
  <2>3. /\ pen' \in [Gateways -> [at : {"idle", "sweep", "fill", "reply"}, since : 0..now',
                                 todo : SUBSET Ids, of : Ids \cup {None}]]
        /\ \A h \in Gateways : pen'[h].at \in {"fill", "reply"} <=> pen'[h].of # None
    BY <2>1, <2>2, PenStep
  <2>4. /\ DOMAIN file' \subseteq Ids
        /\ file' \in [DOMAIN file' -> [whole : BOOLEAN, mtime : 0..now']]
    BY <1>3, <2>2, PutTypes DEF WriteOpen
  <2> QED
    BY <1>3, <2>3, <2>4 DEF WriteOpen
<1>4. CASE WriteFill(g)
  <2> DEFINE p == [pen[g] EXCEPT !.at = "reply"]
  <2>1. p \in PenTypes /\ p.at = "reply" /\ p.of = pen[g].of /\ pen[g].of # None /\ pen[g].of \in Ids
    BY <1>0, <1>4 DEF WriteFill, PenTypes
  <2>2. pen' = [pen EXCEPT ![g] = p] /\ now' = now
    BY <1>4 DEF WriteFill
  <2> HIDE DEF p
  <2>3. /\ pen' \in [Gateways -> [at : {"idle", "sweep", "fill", "reply"}, since : 0..now',
                                 todo : SUBSET Ids, of : Ids \cup {None}]]
        /\ \A h \in Gateways : pen'[h].at \in {"fill", "reply"} <=> pen'[h].of # None
    BY <2>1, <2>2, PenStep
  <2>4. /\ DOMAIN file' \subseteq Ids
        /\ file' \in [DOMAIN file' -> [whole : BOOLEAN, mtime : 0..now']]
    BY <1>4, <2>1, <2>2, PutTypes DEF WriteFill
  <2> QED
    BY <1>4, <2>3, <2>4 DEF WriteFill
<1>5. CASE Crash(g) \/ WriteReply(g)
  <2>1. Idle \in PenTypes /\ Idle.at = "idle" /\ Idle.of = None
    BY DEF Idle, PenTypes
  <2>2. pen' = [pen EXCEPT ![g] = Idle] /\ now' = now /\ file' = file
    BY <1>5 DEF Crash, WriteReply
  <2>3. /\ pen' \in [Gateways -> [at : {"idle", "sweep", "fill", "reply"}, since : 0..now',
                                 todo : SUBSET Ids, of : Ids \cup {None}]]
        /\ \A h \in Gateways : pen'[h].at \in {"fill", "reply"} <=> pen'[h].of # None
    BY <2>1, <2>2, PenStep
  <2>4. CASE Crash(g)
    BY <2>2, <2>3, <2>4 DEF Crash
  <2>5. CASE WriteReply(g)
    <3>1. pen[g].of \in Ids /\ pen[g].since \in 0..now
      BY <1>0, <2>5 DEF WriteReply, PenTypes
    <3>2. DOMAIN given' = DOMAIN given \cup {pen[g].of} /\ given' \in [DOMAIN given' -> 0..now']
      BY <2>2, <2>5, <3>1 DEF WriteReply, Date
    <3>3. read' \in [Readers -> DOMAIN given' \cup {None}]
      BY <2>5, <3>2 DEF WriteReply
    <3> QED
      BY <2>2, <2>3, <2>5, <3>1, <3>2, <3>3 DEF WriteReply
  <2> QED
    BY <1>5, <2>4, <2>5
<1> QED
  BY <1>1, <1>2, <1>3, <1>4, <1>5 DEF Write

(* A reader holds a name and an answer.                                    *)
LEMMA ReadTypes ==
  ASSUME TypeOK, NEW r \in Readers, Read(r)
  PROVE  TypeOK'
<1>1. heard' \in [Readers -> Answers \cup {None}]
  BY DEF TypeOK, Read, ReadStart, ReadEnd, Hears, Answers
<1>2. read' \in [Readers -> DOMAIN given \cup {None}]
  BY DEF TypeOK, Read, ReadStart, ReadEnd
<1> QED
  BY <1>1, <1>2 DEF TypeOK, Read, ReadStart, ReadEnd

(* Every step leaves the types.                                            *)
LEMMA TypeStep == TypeOK /\ [Next]_vars => TypeOK'
<1> SUFFICES ASSUME TypeOK, [Next]_vars PROVE TypeOK'
  OBVIOUS
<1>1. CASE UNCHANGED vars
  BY <1>1 DEF vars, TypeOK
<1>2. CASE Tick
  BY <1>2 DEF Tick, TypeOK
<1> QED
  BY <1>1, <1>2, WriteTypes, ReadTypes DEF Next

-----------------------------------------------------------------------------
(* The promise.                                                            *)

(* A file that a reply has named is whole and no older than the date says; *)
(* one that is gone was kept for the shortest retention.                   *)
GivenKept ==
  \A a \in DOMAIN given :
    IF a \in DOMAIN file THEN file[a].whole /\ given[a] <= file[a].mtime
    ELSE given[a] + Shortest < now

(* The same of a file that is being written, and will be named.            *)
PenKept ==
  \A g \in Gateways : pen[g].of # None =>
    /\ pen[g].of \notin DOMAIN given
    /\ IF pen[g].of \in DOMAIN file
         THEN pen[g].since <= file[pen[g].of].mtime
              /\ (pen[g].at = "reply" => file[pen[g].of].whole)
         ELSE pen[g].since + Shortest < now

(* No two gateways write the same file.                                    *)
PensApart ==
  \A g, h \in Gateways : pen[g].of = pen[h].of /\ pen[g].of # None => g = h

PromiseInv == TypeOK /\ now <= MaxTime /\ GivenKept /\ PenKept /\ PensApart

(* At the start nothing has been promised.                                 *)
LEMMA PromiseInit == Init => PromiseInv
  BY TypeInit, ArtifactsAssumption DEF PromiseInv, Init, GivenKept, PenKept, PensApart, Idle

(* What is too old for a sweep is older than any promise.                  *)
LEMMA TooOldIsDue ==
  ASSUME TypeOK, NEW g \in Gateways, NEW a \in DOMAIN file, TooOld(g, a)
  PROVE  file[a].mtime + Shortest < now
<1>1. /\ pen[g].since \in 0..now /\ file[a].mtime \in 0..now /\ now \in Nat
      /\ TTL[g] \in Nat /\ Shortest \in Nat /\ Shortest <= TTL[g]
  BY ArtifactsAssumption DEF TypeOK
<1> QED
  BY <1>1 DEF TooOld

(* The same of a file that a gateway does not serve for its age.           *)
LEMMA UnservedIsDue ==
  ASSUME TypeOK, NEW g \in Gateways, NEW a \in DOMAIN file, ~Resolves(g, a)
  PROVE  file[a].mtime + Shortest < now
<1>1. /\ file[a].mtime \in 0..now /\ now \in Nat
      /\ TTL[g] \in Nat /\ Shortest \in Nat /\ Shortest <= TTL[g]
  BY ArtifactsAssumption DEF TypeOK
<1> QED
  BY <1>1 DEF Resolves

(* Numbers in the records.                                                 *)
LEMMA Ages ==
  ASSUME TypeOK
  PROVE  /\ now \in Nat /\ Shortest \in Nat
         /\ \A a \in DOMAIN file : file[a].mtime \in Nat /\ file[a].mtime <= now
         /\ \A a \in DOMAIN given : given[a] \in Nat /\ given[a] <= now
         /\ \A g \in Gateways : pen[g].since \in Nat /\ pen[g].since <= now
BY ArtifactsAssumption DEF TypeOK

(* A sweep of any gateway takes no file before its date.                   *)
LEMMA SweepKeeps ==
  ASSUME PromiseInv, NEW g \in Gateways, NEW a \in Ids, Sweep(g, a)
  PROVE  GivenKept' /\ PenKept' /\ PensApart'
<1>1. TypeOK
  BY DEF PromiseInv
<1>2. UNCHANGED <<now, given>>
  BY DEF Sweep
<1>3. \A h \in Gateways : pen'[h].of = pen[h].of /\ pen'[h].since = pen[h].since /\ pen'[h].at = pen[h].at
  BY <1>1 DEF Sweep, TypeOK
<1>4. \/ file' = file
      \/ /\ a \in DOMAIN file /\ TooOld(g, a)
         /\ file' = [x \in DOMAIN file \ {a} |-> file[x]]
  BY DEF Sweep
<1>5. \/ file' = file
      \/ /\ a \in DOMAIN file /\ file[a].mtime + Shortest < now
         /\ DOMAIN file' = DOMAIN file \ {a} /\ \A x \in DOMAIN file' : file'[x] = file[x]
  BY <1>1, <1>4, TooOldIsDue
<1>6. GivenKept'
  BY <1>1, <1>2, <1>5, Ages DEF PromiseInv, GivenKept
<1>7. PenKept'
  BY <1>1, <1>2, <1>3, <1>5, Ages DEF PromiseInv, PenKept
<1>8. PensApart'
  BY <1>3 DEF PromiseInv, PensApart
<1> QED
  BY <1>6, <1>7, <1>8

(* A file that is opened gets a name that nobody else writes.              *)
LEMMA WriteOpenKeeps ==
  ASSUME PromiseInv, NEW g \in Gateways, NEW a \in Ids, WriteOpen(g, a)
  PROVE  GivenKept' /\ PenKept' /\ PensApart'
<1>1. TypeOK
  BY DEF PromiseInv
<1>2. /\ UNCHANGED <<now, given>> /\ a \notin DOMAIN file /\ a \notin DOMAIN given
      /\ \A h \in Gateways : pen[h].of # a
      /\ Put(a, FALSE)
  BY DEF WriteOpen
<1>3. /\ DOMAIN file' = DOMAIN file \cup {a} /\ file'[a].mtime = now
      /\ \A x \in DOMAIN file : file'[x] = file[x]
  BY <1>1, <1>2, PutTypes
<1>4. /\ pen'[g].of = a /\ pen'[g].since = pen[g].since /\ pen'[g].at = "fill"
      /\ \A h \in Gateways \ {g} : pen'[h] = pen[h]
  BY <1>1 DEF WriteOpen, TypeOK
<1>5. GivenKept'
  BY <1>2, <1>3 DEF PromiseInv, GivenKept
<1>6. PenKept'
  BY <1>1, <1>2, <1>3, <1>4, Ages DEF PromiseInv, PenKept
<1>7. PensApart'
  BY <1>2, <1>4 DEF PromiseInv, PensApart
<1> QED
  BY <1>5, <1>6, <1>7

(* A file is whole when it is filled.                                      *)
LEMMA WriteFillKeeps ==
  ASSUME PromiseInv, NEW g \in Gateways, WriteFill(g)
  PROVE  GivenKept' /\ PenKept' /\ PensApart'
<1>1. TypeOK
  BY DEF PromiseInv
<1>2. pen[g].of # None /\ pen[g].of \in Ids /\ UNCHANGED <<now, given>> /\ pen[g].of \notin DOMAIN given
  BY DEF WriteFill, PromiseInv, TypeOK, PenKept
<1>3. /\ pen'[g].of = pen[g].of /\ pen'[g].since = pen[g].since
      /\ \A h \in Gateways \ {g} : pen'[h] = pen[h]
  BY <1>1 DEF WriteFill, TypeOK
<1>4. /\ DOMAIN file' = DOMAIN file
      /\ pen[g].of \in DOMAIN file => file'[pen[g].of].mtime = now /\ file'[pen[g].of].whole
      /\ \A x \in DOMAIN file \ {pen[g].of} : file'[x] = file[x]
  <2>1. CASE pen[g].of \in DOMAIN file
    BY <1>1, <1>2, <2>1, PutTypes DEF WriteFill
  <2>2. CASE pen[g].of \notin DOMAIN file
    BY <2>2 DEF WriteFill
  <2> QED
    BY <2>1, <2>2
<1>5. \A h \in Gateways \ {g} : pen[h].of # None => pen[h].of # pen[g].of
  BY DEF PromiseInv, PensApart
<1>6. GivenKept'
  BY <1>2, <1>4 DEF PromiseInv, GivenKept
<1>7. PenKept'
  BY <1>1, <1>2, <1>3, <1>4, <1>5, Ages DEF PromiseInv, PenKept
<1>8. PensApart'
  BY <1>3 DEF PromiseInv, PensApart
<1> QED
  BY <1>6, <1>7, <1>8

(* A reference is given for a file that is whole and not yet due.          *)
LEMMA WriteReplyKeeps ==
  ASSUME PromiseInv, NEW g \in Gateways, WriteReply(g)
  PROVE  GivenKept' /\ PenKept' /\ PensApart'
<1> DEFINE a == pen[g].of
<1>1. TypeOK
  BY DEF PromiseInv
<1>2. /\ a # None /\ UNCHANGED <<now, file>> /\ pen[g].at = "reply"
      /\ DOMAIN given' = DOMAIN given \cup {a} /\ given'[a] = pen[g].since
      /\ \A x \in DOMAIN given \ {a} : given'[x] = given[x]
  BY <1>1 DEF WriteReply, TypeOK, Date
<1>3. pen'[g].of = None /\ \A h \in Gateways \ {g} : pen'[h] = pen[h]
  BY <1>1 DEF WriteReply, TypeOK, Idle
<1>4. \A h \in Gateways \ {g} : pen[h].of # None => pen[h].of # a
  BY DEF PromiseInv, PensApart
<1>5. /\ a \notin DOMAIN given
      /\ IF a \in DOMAIN file THEN pen[g].since <= file[a].mtime /\ file[a].whole
         ELSE pen[g].since + Shortest < now
  BY <1>2 DEF PromiseInv, PenKept
<1> HIDE DEF a
<1>6. GivenKept'
  BY <1>2, <1>5 DEF PromiseInv, GivenKept
<1>7. PenKept'
  BY <1>2, <1>3, <1>4 DEF PromiseInv, PenKept
<1>8. PensApart'
  BY <1>3 DEF PromiseInv, PensApart
<1> QED
  BY <1>6, <1>7, <1>8

(* The steps that touch neither the files nor what was given.              *)
LEMMA PenAloneKeeps ==
  ASSUME PromiseInv, UNCHANGED <<now, file, given>>,
         \A h \in Gateways : \/ pen'[h].of = None
                             \/ /\ pen'[h].of = pen[h].of /\ pen'[h].since = pen[h].since
                                /\ pen'[h].at = pen[h].at
  PROVE  GivenKept' /\ PenKept' /\ PensApart'
BY DEF PromiseInv, GivenKept, PenKept, PensApart

(* Time passes; what is promised by then is what was promised before.      *)
LEMMA TickKeeps ==
  ASSUME PromiseInv, Tick
  PROVE  GivenKept' /\ PenKept' /\ PensApart' /\ now' <= MaxTime
<1>1. /\ TypeOK /\ now \in Nat /\ MaxTime \in Nat /\ now < MaxTime /\ now' = now + 1
      /\ UNCHANGED <<file, pen, given>>
  BY ArtifactsAssumption DEF PromiseInv, Tick, TypeOK
<1>2. GivenKept'
  BY <1>1, Ages DEF PromiseInv, GivenKept
<1>3. PenKept'
  BY <1>1, Ages DEF PromiseInv, PenKept
<1> QED
  BY <1>1, <1>2, <1>3 DEF PromiseInv, PensApart

(* Every step keeps the promises.                                          *)
LEMMA PromiseStep == PromiseInv /\ [Next]_vars => PromiseInv'
<1> SUFFICES ASSUME PromiseInv, [Next]_vars PROVE PromiseInv'
  OBVIOUS
<1>0. TypeOK /\ TypeOK'
  BY TypeStep DEF PromiseInv
<1>1. CASE Tick
  BY <1>0, <1>1, TickKeeps DEF PromiseInv
<1> SUFFICES ASSUME ~Tick PROVE GivenKept' /\ PenKept' /\ PensApart'
  <2>1. CASE ~Tick
    <3>1. now' = now
      BY <2>1 DEF Next, vars, Write, WriteStart, Sweep, SweepFails, WriteOpen, WriteFill, WriteReply, Crash,
                Read, ReadStart, ReadEnd
    <3> QED
      BY <1>0, <2>1, <3>1 DEF PromiseInv
  <2> QED
    BY <1>1, <2>1
<1>2. CASE UNCHANGED vars
  BY <1>2, PenAloneKeeps DEF vars
<1>3. ASSUME NEW r \in Readers, Read(r) PROVE GivenKept' /\ PenKept' /\ PensApart'
  BY <1>3, PenAloneKeeps DEF Read, ReadStart, ReadEnd
<1>4. ASSUME NEW g \in Gateways, WriteStart(g) \/ Crash(g)
      PROVE  GivenKept' /\ PenKept' /\ PensApart'
  <2>1. pen'[g].of = None /\ \A h \in Gateways \ {g} : pen'[h] = pen[h]
    <3>1. CASE WriteStart(g)
      <4> DEFINE p == [Idle EXCEPT !.at = "sweep", !.since = now, !.todo = DOMAIN file]
      <4>1. Idle \in PenTypes /\ Idle.of = None
        BY <1>0 DEF Idle, PenTypes, TypeOK
      <4>2. p.of = None
        BY <1>0, <4>1, StartPen
      <4>3. pen' = [pen EXCEPT ![g] = p]
        BY <3>1 DEF WriteStart
      <4> HIDE DEF p
      <4> QED
        BY <1>0, <4>2, <4>3 DEF TypeOK
    <3>2. CASE Crash(g)
      BY <1>0, <3>2 DEF Crash, Idle, TypeOK
    <3> QED
      BY <1>4, <3>1, <3>2
  <2> QED
    BY <1>4, <2>1, PenAloneKeeps DEF WriteStart, Crash
<1>5. ASSUME NEW g \in Gateways, NEW a \in Ids, SweepFails(g, a)
      PROVE  GivenKept' /\ PenKept' /\ PensApart'
  <2>1. \A h \in Gateways : pen'[h].of = pen[h].of /\ pen'[h].since = pen[h].since /\ pen'[h].at = pen[h].at
    BY <1>0, <1>5 DEF SweepFails, TypeOK
  <2> QED
    BY <1>5, <2>1, PenAloneKeeps DEF SweepFails
<1> QED
  BY <1>2, <1>3, <1>4, <1>5, SweepKeeps, WriteOpenKeeps, WriteFillKeeps, WriteReplyKeeps DEF Next, Write

-----------------------------------------------------------------------------
(* The refinement.                                                         *)

(* What the invariant says in the terms of ArtifactShelf.                  *)
LEMMA GoneIsDue ==
  ASSUME PromiseInv, NEW a \in DOMAIN given
  PROVE  IF a \in DOMAIN file THEN file[a].whole ELSE ~Shelf!Promised(a)
<1>1. /\ now \in Nat /\ Shortest \in Nat /\ given[a] \in Nat
      /\ a \notin DOMAIN file => given[a] + Shortest < now
  BY Ages DEF PromiseInv, GivenKept
<1> QED
  BY <1>1 DEF Shelf!Promised, PromiseInv, GivenKept

(* The directory starts as the empty shelf.                                *)
LEMMA ShelfInit == Init => Shelf!Init
  BY DEF Init, Shelf!Init

(* A sweep keeps a given file, or removes one that is due.                 *)
LEMMA SweepWithdraws ==
  ASSUME PromiseInv, NEW g \in Gateways, NEW a \in Ids, Sweep(g, a)
  PROVE  [Shelf!Next]_(Shelf!vars)
<1> DEFINE Kept == {x \in DOMAIN given \cap DOMAIN file : file[x].whole}
<1>1. TypeOK /\ UNCHANGED <<now, given, heard>>
  BY DEF PromiseInv, Sweep
<1>2. CASE file' = file
  BY <1>1, <1>2 DEF Shelf!vars
<1>3. CASE file' # file
  <2>1. /\ a \in DOMAIN file /\ file[a].mtime + Shortest < now
        /\ DOMAIN file' = DOMAIN file \ {a} /\ \A x \in DOMAIN file' : file'[x] = file[x]
    BY <1>1, <1>3, TooOldIsDue DEF Sweep
  <2>2. Kept' = Kept \ {a}
    BY <1>1, <2>1
  <2>3. CASE a \notin Kept
    <3>1. Kept' = Kept
      BY <2>2, <2>3
    <3> QED
      BY <1>1, <3>1 DEF Shelf!vars
  <2>4. CASE a \in Kept
    <3>1. a \in DOMAIN given /\ given[a] <= file[a].mtime
      BY <2>4 DEF PromiseInv, GivenKept
    <3>2. ~Shelf!Promised(a)
      BY <1>1, <2>1, <3>1, Ages DEF Shelf!Promised
    <3>3. Shelf!Withdraw(a)
      BY <1>1, <2>2, <2>4, <3>2 DEF Shelf!Withdraw
    <3> QED
      BY <3>3 DEF Shelf!Next
  <2> QED
    BY <2>3, <2>4
<1> QED
  BY <1>2, <1>3

(* Nothing is offered before the reply: the writer's file has no name.     *)
LEMMA WritingIsHidden ==
  ASSUME PromiseInv, NEW g \in Gateways,
         WriteFill(g) \/ \E a \in Ids : WriteOpen(g, a)
  PROVE  UNCHANGED Shelf!vars
<1>1. TypeOK /\ UNCHANGED <<now, given, heard>>
  BY DEF PromiseInv, WriteFill, WriteOpen
<1>2. \A x \in DOMAIN given :
        (x \in DOMAIN file <=> x \in DOMAIN file') /\ (x \in DOMAIN file => file'[x] = file[x])
  <2>1. CASE WriteFill(g)
    <3>1. pen[g].of # None /\ pen[g].of \in Ids /\ pen[g].of \notin DOMAIN given
      BY <2>1 DEF WriteFill, PromiseInv, TypeOK, PenKept
    <3>2. CASE Put(pen[g].of, TRUE)
      <4> DEFINE a == pen[g].of
      <4> HIDE DEF a
      <4>1. a \in Ids /\ a \notin DOMAIN given /\ Put(a, TRUE)
        BY <3>1, <3>2 DEF a
      <4> QED
        BY <1>1, <4>1, PutTypes
    <3>3. CASE file' = file
      BY <3>3
    <3> QED
      BY <2>1, <3>2, <3>3 DEF WriteFill
  <2>2. ASSUME NEW a \in Ids, WriteOpen(g, a)
        PROVE  \A x \in DOMAIN given :
          (x \in DOMAIN file <=> x \in DOMAIN file') /\ (x \in DOMAIN file => file'[x] = file[x])
    <3>1. a \notin DOMAIN given /\ Put(a, FALSE)
      BY <2>2 DEF WriteOpen
    <3> QED
      BY <1>1, <3>1, PutTypes
  <2> QED
    BY <2>1, <2>2
<1> QED
  BY <1>1, <1>2 DEF Shelf!vars

(* The reply is the offer.                                                 *)
LEMMA ReplyOffers ==
  ASSUME PromiseInv, NEW g \in Gateways, WriteReply(g)
  PROVE  Shelf!Next
<1> DEFINE a == pen[g].of
           d == pen[g].since + Shortest
           Kept == {x \in DOMAIN given \cap DOMAIN file : file[x].whole}
           Due  == [x \in DOMAIN given |-> given[x] + Shortest]
<1>1. TypeOK /\ UNCHANGED <<now, file, heard>> /\ pen[g].at = "reply" /\ a # None
  BY DEF PromiseInv, WriteReply, TypeOK
<1>2. /\ a \in Ids \ DOMAIN given
      /\ IF a \in DOMAIN file THEN file[a].whole ELSE d < now
  BY <1>1 DEF PromiseInv, PenKept, TypeOK
<1>3. given' = [x \in DOMAIN given \cup {a} |-> IF x = a THEN pen[g].since ELSE given[x]]
  BY DEF WriteReply, Date
<1>4. Due' = [x \in DOMAIN Due \cup {a} |-> IF x = a THEN d ELSE Due[x]]
  BY <1>2, <1>3
<1>5. Kept' = Kept \cup {a} \/ (d < now /\ Kept' = Kept)
  BY <1>1, <1>2, <1>3
<1>6. d \in Dates
  <2>1. pen[g].since \in 0..MaxTime
    BY <1>1, Ages, ArtifactsAssumption DEF PromiseInv
  <2> QED
    BY <2>1 DEF Dates
<1>7. DOMAIN Due = DOMAIN given
  OBVIOUS
<1>8. ASSUME NEW CONSTANT b \in Ids, NEW CONSTANT e \in Dates, b = a, e = d
      PROVE  Shelf!Offer(b, e)
  <2> HIDE DEF a, d
  <2> QED
    BY <1>1, <1>2, <1>4, <1>5, <1>7, <1>8 DEF Shelf!Offer
<1>9. a \in Ids
  BY <1>2
<1> HIDE DEF a, d
<1> QED
  BY <1>6, <1>8, <1>9 DEF Shelf!Next

(* A reader that is told there is nothing was told so when it was due.     *)
LEMMA ReadAnswers ==
  ASSUME PromiseInv, NEW r \in Readers, Read(r)
  PROVE  [Shelf!Next]_(Shelf!vars)
<1>1. TypeOK /\ UNCHANGED <<now, file, given>>
  BY DEF PromiseInv, Read, ReadStart, ReadEnd
<1>2. ASSUME heard' = heard PROVE UNCHANGED Shelf!vars
  BY <1>1, <1>2 DEF Shelf!vars
<1>3. ASSUME NEW a \in DOMAIN given, Hears(r, a, "none"), ~Shelf!Promised(a)
      PROVE  Shelf!Next
  <2>1. a \in Ids
    BY <1>1 DEF TypeOK
  <2>2. Shelf!Answer(r, a)
    BY <1>1, <1>3 DEF Shelf!Answer, Hears
  <2> QED
    BY <2>1, <2>2 DEF Shelf!Next
<1>4. ASSUME NEW a \in DOMAIN given, Hears(r, a, "whole"), a \in DOMAIN file, file[a].whole
      PROVE  Shelf!Next
  <2>1. a \in Ids
    BY <1>1 DEF TypeOK
  <2>2. Shelf!Answer(r, a)
    BY <1>1, <1>4 DEF Shelf!Answer, Hears
  <2> QED
    BY <2>1, <2>2 DEF Shelf!Next
<1>5. CASE ReadEnd(r)
  <2>1. read[r] \in DOMAIN given
    BY <1>1, <1>5 DEF ReadEnd, TypeOK
  <2>2. CASE read[r] \notin DOMAIN file
    BY <1>3, <1>5, <2>1, <2>2, GoneIsDue DEF ReadEnd
  <2>3. CASE read[r] \in DOMAIN file
    BY <1>4, <1>5, <2>1, <2>3, GoneIsDue DEF ReadEnd
  <2> QED
    BY <2>2, <2>3
<1>6. ASSUME NEW g \in Gateways, NEW a \in Ids, ReadStart(r, g, a)
      PROVE  [Shelf!Next]_(Shelf!vars)
  <2>1. CASE Resolves(g, a)
    BY <1>2, <1>6, <2>1 DEF ReadStart
  <2>2. CASE ~Resolves(g, a)
    <3>1. a \in DOMAIN given /\ Hears(r, a, "none")
      BY <1>6, <2>2 DEF ReadStart
    <3>2. ~Shelf!Promised(a)
      <4>1. CASE a \notin DOMAIN file
        BY <3>1, <4>1, GoneIsDue
      <4>2. CASE a \in DOMAIN file
        <5>1. file[a].mtime + Shortest < now /\ given[a] <= file[a].mtime
          BY <1>1, <2>2, <3>1, <4>2, UnservedIsDue DEF PromiseInv, GivenKept
        <5> QED
          BY <1>1, <3>1, <4>2, <5>1, Ages DEF Shelf!Promised
      <4> QED
        BY <4>1, <4>2
    <3> QED
      BY <1>3, <3>1, <3>2
  <2> QED
    BY <2>1, <2>2
<1> QED
  BY <1>5, <1>6 DEF Read

(* Every step of a gateway or a reader is one of the shelf, or none.       *)
LEMMA ShelfStep == PromiseInv /\ [Next]_vars => [Shelf!Next]_(Shelf!vars)
<1> SUFFICES ASSUME PromiseInv, [Next]_vars PROVE [Shelf!Next]_(Shelf!vars)
  OBVIOUS
<1>1. CASE UNCHANGED vars
  BY <1>1 DEF vars, Shelf!vars
<1>2. CASE Tick
  BY <1>2 DEF Tick, Shelf!Next, Shelf!Tick
<1>3. ASSUME NEW g \in Gateways, WriteStart(g) \/ Crash(g) \/ \E a \in Ids : SweepFails(g, a)
      PROVE  [Shelf!Next]_(Shelf!vars)
  <2>1. UNCHANGED <<now, file, given, heard>>
    BY <1>3 DEF WriteStart, Crash, SweepFails
  <2> QED
    BY <2>1 DEF Shelf!vars
<1> QED
  BY <1>1, <1>2, <1>3, SweepWithdraws, WritingIsHidden, ReplyOffers, ReadAnswers DEF Next, Write

(* The clock and the dates are numbers, a reference names an artifact and  *)
(* a gateway holds an id while it writes and no longer                     *)
(* (artifacts.write_overflow_artifact), for any gateways and retentions.   *)
THEOREM TypesHold == Spec => []TypeOK
<1> QED
  BY TypeInit, TypeStep, PTL DEF Spec

(* Whatever gateways share the directory (artifacts.py), a reference is    *)
(* good until the date it names plus the shortest retention among them:    *)
(* every behaviour of Artifacts is one of ArtifactShelf.                   *)
THEOREM ShelfIsKept == Spec => ShelfSpec
<1> QED
  BY PromiseInit, PromiseStep, ShelfInit, ShelfStep, PTL DEF Spec, ShelfSpec, Shelf!Spec
=============================================================================
