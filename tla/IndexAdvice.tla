----------------------------- MODULE IndexAdvice -----------------------------
(***************************************************************************)
(* What recommend_indexes and database_health_check say about the indexes  *)
(* of the catalog, and operators who do what they are told: one tool tells *)
(* them which to create, the other which to drop.  The tools read the      *)
(* catalog, study one statement after another and answer; the catalog goes *)
(* on changing meanwhile, and by the time the advice is followed.          *)
(***************************************************************************)
EXTENDS Naturals, FiniteSets, Sequences, SequencesExt

CONSTANTS
  Datasets,            \* pairs <<dataverse, name>>
  Fields,              \* field paths
  KeyLists,            \* lists of fields an index may be on
  Statements,
  Workload,            \* Workload[scope]: the statements submitted with that argument, in order
  Over, Filters,       \* Over[s]: the datasets s reads; Filters[s]: the fields its WHERE names
  Unfit,               \* statements the guard turns away
  OldIndexes,          \* indexes there may be at first
  Operators, Cleaners, \* who asks for advice; which of them run the health check too
  Scopes, ScopesOf,    \* the dataverse arguments there are; ScopesOf[o]: those o gives
  Everywhere,          \* the argument left out
  MaxRecommendations,
  MaxFaults            \* bound of the model: catalog reads that fail

(* A name is what it was made of: by whom, and the key list.  A statistics *)
(* sample (ANALYZE) is an index row too, of structure SAMPLE.              *)
Structures == {"BTREE", "RTREE", "SAMPLE"}
Index == [ds : Datasets, name : {"idx", "advised", "own", "copy", "sample"} \X (KeyLists \cup {<<>>}),
          structure : Structures, keys : KeyLists \cup {<<>>}]

ASSUME AdviceAssumption ==
  /\ {<<f>> : f \in Fields} \subseteq KeyLists /\ KeyLists \subseteq Seq(Fields) \ {<<>>}
  /\ Over \in [Statements -> SUBSET Datasets] /\ Filters \in [Statements -> SUBSET Fields]
  /\ Workload \in [Scopes -> Seq(Statements)] /\ ScopesOf \in [Operators -> SUBSET Scopes]
  /\ Unfit \subseteq Statements /\ OldIndexes \subseteq Index /\ Cleaners \subseteq Operators
  /\ IsFiniteSet(OldIndexes) /\ \A i, j \in OldIndexes : i.ds = j.ds /\ i.name = j.name => i = j
  /\ MaxRecommendations \in Nat \ {0} /\ MaxFaults \in Nat

VARIABLES
  catalog,  \* Metadata.Index: index rows, a name used once in a dataset
  task,     \* task[o]: the recommend_indexes run o waits for, or Idle
  hand,     \* hand[o]: the advice o has still to follow
  turn,     \* turn[o]: what o asks next
  faults

vars == <<catalog, task, hand, turn, faults>>

Idle == [scope |-> Everywhere, known |-> {}, left |-> <<>>, native |-> {}, seen |-> {}, busy |-> FALSE]

Create(i)     == [do |-> "create", index |-> i, names |-> {}]
Inspect(i)    == [do |-> "inspect", index |-> i, names |-> {}]
Drop(i)       == [do |-> "drop", index |-> i, names |-> {}]
KeepOne(i, n) == [do |-> "keepOne", index |-> i, names |-> n]

Init ==
  /\ catalog \in SUBSET OldIndexes
  /\ task = [o \in Operators |-> Idle] /\ hand = [o \in Operators |-> {}]
  /\ turn = [o \in Operators |-> "recommend"] /\ faults = 0

Fault == faults < MaxFaults /\ faults' = faults + 1
IsFree(o) == ~task[o].busy /\ hand[o] = {}

-----------------------------------------------------------------------------
(* The catalog reads: index_catalog.py, sample_stats.py.                   *)

InScope(ds, scope) == scope = Everywhere \/ ds[1] = scope
IsSample(i) == i.structure = "SAMPLE"

(* The SELECT of the tools: the samples are left out.                      *)
SecondaryIndexes(scope) == {i \in catalog : ~IsSample(i) /\ InScope(i.ds, scope)}
AnalyzedDatasets(scope) == {i.ds : i \in {j \in catalog : IsSample(j) /\ InScope(j.ds, scope)}}

-----------------------------------------------------------------------------
(* recommend_indexes.                                                      *)

(* Mutant of Covered: only an index on that field alone counts.            *)
CoveredExactly(known, ds) == {i.keys[1] : i \in {j \in known : j.ds = ds /\ Len(j.keys) = 1}}

(* _covered_first_keys: the fields that lead an index of the dataset.      *)
Covered(known, ds) == {i.keys[1] : i \in {j \in known : j.ds = ds /\ j.keys # <<>>}}

(* _observe: fields are attributed only when a statement reads one dataset.*)
Attributed(s) == IF Cardinality(Over[s]) = 1 THEN Filters[s] ELSE {}
Novel(known, s, ds) == Attributed(s) \ Covered(known, ds)

(* _aggregate: the candidates <<dataset, fields>>, one field or none, that *)
(* an observation <<statement, full scan>> supports.                       *)
Candidates(known, obs) ==
  UNION {LET s == obs[1] IN
         IF Novel(known, s, ds) # {} THEN {<<ds, {f}>> : f \in Novel(known, s, ds)}
         ELSE IF obs[2] /\ Attributed(s) = {} THEN {<<ds, {}>>} ELSE {} : ds \in Over[obs[1]]}

Supports(t, c) == {obs \in t.seen : c \in Candidates(t.known, obs)}
Score(t, c) == 2 * Cardinality({obs \in Supports(t, c) : obs[2]})
                 + Cardinality({obs \in Supports(t, c) : ~obs[2]})

(* The n best of a set; ties fall either way.                              *)
Best(S, weight, n) ==
  {T \in SUBSET S : /\ Cardinality(T) = IF Cardinality(S) < n THEN Cardinality(S) ELSE n
                    /\ \A x \in T, y \in S \ T : weight[y] <= weight[x]}

Btree(ds, kind, keys) == [ds |-> ds, name |-> <<kind, keys>>, structure |-> "BTREE", keys |-> keys]

Sample(ds) == [ds |-> ds, name |-> <<"sample", <<>> >>, structure |-> "SAMPLE", keys |-> <<>>]

(* _finalize: one index on the one field.  Without a field there is no DDL *)
(* to run: the advice is to look at the WHERE clause.                      *)
Finalized(cs) == {Btree(c[1], "idx", <<CHOOSE f \in Fields : c[2] = {f}>>) : c \in {d \in cs : d[2] # {}}}
Unnamed(cs)   == {Btree(c[1], "idx", <<>>) : c \in {d \in cs : d[2] = {}}}

(* _merge: the advisor's own first, by support, then the heuristic ones,   *)
(* up to the cap: the indexes advised, those that are for the caller to    *)
(* find, and the datasets all this is about.                               *)
Merged(t) ==
  LET advised    == {n[2] : n \in t.native}
      support    == [i \in advised |-> Cardinality({n \in t.native : n[2] = i})]
      heuristic  == UNION {Candidates(t.known, obs) : obs \in t.seen}
      score      == [c \in heuristic |-> Score(t, c)]
      room(T)    == MaxRecommendations - Cardinality(T)
  IN UNION {{[indexes |-> T \cup Finalized(H), unnamed |-> Unnamed(H),
              about |-> {i.ds : i \in T} \cup {c[1] : c \in H}] : H \in Best(heuristic, score, room(T))} : T \in Best(advised, support, MaxRecommendations)}

(* _guard: what neither path would take is skipped.                        *)
Fit(statements) == SelectSeq(statements, LAMBDA s : s \notin Unfit)

(* The run starts from the indexes the catalog has now, or from none if    *)
(* the read fails.                                                         *)
AskRecommend(o) ==
  /\ IsFree(o) /\ turn[o] = "recommend"
  /\ \E scope \in ScopesOf[o] : \E known \in {SecondaryIndexes(scope), {}} :
       /\ IF known = SecondaryIndexes(scope) THEN UNCHANGED faults ELSE Fault
       /\ task' = [task EXCEPT ![o] = [Idle EXCEPT !.busy = TRUE, !.scope = scope,
                                         !.left = Fit(Workload[scope]), !.known = known]]
  /\ UNCHANGED <<catalog, hand, turn>>

Studying(o) == task[o].left # <<>>

StartsWith(keys, prefix) == IsPrefix(prefix, keys)

(* The advisor of the cluster, over the catalog as it is now: it may know  *)
(* of a better index than there is, on fields the statement filters.       *)
Advisable(s) ==
  {Btree(ds, "advised", keys) : ds \in Over[s], keys \in {k \in KeyLists : ToSet(k) \subseteq Filters[s]}}
UsefulAdvice(s) == {i \in Advisable(s) : \A j \in catalog :
                      ~(j.ds = i.ds /\ j.structure = "BTREE" /\ StartsWith(j.keys, i.keys))}

Advise(o) ==
  /\ Studying(o)
  /\ \E advice \in {{}} \cup {{i} : i \in UsefulAdvice(Head(task[o].left))} :
       task' = [task EXCEPT ![o].left = Tail(@),
                            ![o].native = @ \cup {<<Head(task[o].left), i>> : i \in advice}]
  /\ UNCHANGED <<catalog, hand, turn, faults>>

(* The plan of a statement: without an index led by a field it filters, a  *)
(* full scan; with one, as the optimizer likes.                            *)
PlansScan(s) ==
  {TRUE} \cup {FALSE : i \in {j \in catalog : j.ds \in Over[s] /\ ~IsSample(j) /\ j.keys[1] \in Filters[s]}}

(* No advice from the cluster: the statement is compiled and its plan is   *)
(* read; or it does not compile, and is skipped.                           *)
AnalyzePlan(o) ==
  /\ Studying(o)
  /\ \/ \E scan \in PlansScan(Head(task[o].left)) :
          task' = [task EXCEPT ![o].left = Tail(@), ![o].seen = @ \cup {<<Head(task[o].left), scan>>}]
     \/ task' = [task EXCEPT ![o].left = Tail(@)]
  /\ UNCHANGED <<catalog, hand, turn, faults>>

(* The advice, and for each dataset it is about and that has no sample the *)
(* advice to analyze it: _mark_analyzed.  Reading the samples may fail.    *)
Recommend(o) ==
  /\ task[o].busy /\ task[o].left = <<>>
  /\ \E recommended \in Merged(task[o]), analyzed \in {AnalyzedDatasets(task[o].scope), {}} :
       /\ IF analyzed = AnalyzedDatasets(task[o].scope) THEN UNCHANGED faults ELSE Fault
       /\ hand' = [hand EXCEPT ![o] = {Create(i) : i \in recommended.indexes}
                                        \cup {Inspect(i) : i \in recommended.unnamed}
                                        \cup {Create(Sample(ds)) : ds \in recommended.about \ analyzed}]
  /\ task' = [task EXCEPT ![o] = Idle]
  /\ turn' = [turn EXCEPT ![o] = IF o \in Cleaners THEN "health" ELSE "recommend"]
  /\ UNCHANGED catalog

-----------------------------------------------------------------------------
(* database_health_check.                                                  *)

(* _group_secondary_indexes: same dataset, and keys to compare.            *)
Group(rows, ds) == {i \in rows : i.ds = ds /\ i.keys # <<>>}

(* Mutant of PrefixCover: an index of the same length covers, too.         *)
PrefixCoverLoosely(i, j) ==
  i.name # j.name /\ i.structure = j.structure /\ StartsWith(j.keys, i.keys)

PrefixCover(i, j) ==
  /\ i.name # j.name /\ i.structure = j.structure
  /\ Len(j.keys) > Len(i.keys) /\ StartsWith(j.keys, i.keys)

SameSignature(i, j) == i.structure = j.structure /\ i.keys = j.keys

FindDuplicates(rows) ==
  {KeepOne(i, {j.name : j \in {k \in Group(rows, i.ds) : SameSignature(i, k)}}) :
     i \in {k \in rows : k.keys # <<>> /\ \E j \in Group(rows, k.ds) : SameSignature(k, j) /\ j # k}}

FindRedundant(rows) ==
  {Drop(i) : i \in {k \in rows : k.keys # <<>> /\ \E j \in Group(rows, k.ds) : PrefixCover(k, j)}}

(* Both collections are read and scoped; an error of either is the answer. *)
CheckHealth(o) ==
  /\ IsFree(o) /\ turn[o] = "health"
  /\ \E scope \in ScopesOf[o] :
       \/ /\ hand' = [hand EXCEPT ![o] = FindDuplicates(SecondaryIndexes(scope))
                                           \cup FindRedundant(SecondaryIndexes(scope))]
          /\ UNCHANGED faults
       \/ Fault /\ UNCHANGED hand
  /\ turn' = [turn EXCEPT ![o] = "recommend"]
  /\ UNCHANGED <<catalog, task>>

-----------------------------------------------------------------------------
(* Following advice: statements the operator runs on the cluster, which    *)
(* fail if the name is taken or gone.                                      *)

Done(o, advice, more) == hand' = [hand EXCEPT ![o] = (@ \ {advice}) \cup more]

NameTaken(i) == \E j \in catalog : j.ds = i.ds /\ j.name = i.name

FollowCreate(o) ==
  /\ \E a \in hand[o] :
       /\ a.do = "create" /\ Done(o, a, {})
       /\ catalog' = IF NameTaken(a.index) THEN catalog ELSE catalog \cup {a.index}
  /\ UNCHANGED <<task, turn, faults>>

FollowDrop(o) ==
  /\ \E a \in hand[o] :
       /\ a.do = "drop" /\ Done(o, a, {})
       /\ catalog' = catalog \ {a.index}
  /\ UNCHANGED <<task, turn, faults>>

(* He looks, and leaves the catalog as it is.                              *)
FollowInspect(o) ==
  /\ \E a \in hand[o] : a.do = "inspect" /\ Done(o, a, {})
  /\ UNCHANGED <<catalog, task, turn, faults>>

(* Any one is kept; the same finding is in hand once for each of them.     *)
FollowKeepOne(o) ==
  /\ \E a \in hand[o] : \E kept \in a.names :
       /\ a.do = "keepOne"
       /\ hand' = [hand EXCEPT ![o] =
            {b \in @ : ~(b.do = "keepOne" /\ b.index.ds = a.index.ds /\ b.names = a.names)}
              \cup {Drop([a.index EXCEPT !.name = n]) : n \in a.names \ {kept}}]
  /\ UNCHANGED <<catalog, task, turn, faults>>

Follow(o) == FollowCreate(o) \/ FollowInspect(o) \/ FollowDrop(o) \/ FollowKeepOne(o)
Study(o)  == Advise(o) \/ AnalyzePlan(o) \/ Recommend(o)

Step(o)   == AskRecommend(o) \/ Study(o) \/ CheckHealth(o) \/ Follow(o)

Next == \E o \in Operators : Step(o)

Spec == Init /\ [][Next]_vars

(* The tools answer; and what is said of advice that settles is said of    *)
(* operators who keep asking and do what they are told.  Each always has   *)
(* something to do, so this is the weak fairness of Step(o).               *)
Acts(o) == task'[o] # task[o] \/ hand'[o] # hand[o] \/ turn'[o] # turn[o]
FairSpec == Spec /\ \A o \in Operators : []<><<Acts(o)>>_vars

-----------------------------------------------------------------------------

(* What database_health_check has dropped was dead weight: at the moment   *)
(* it goes, whatever else of the same report was followed before and       *)
(* whatever was created since, another index of its dataset and structure  *)
(* is there that starts with its keys.                                     *)
NoLookupLost ==
  [][\A i \in catalog \ catalog' : \E j \in catalog' :
       j.ds = i.ds /\ j.structure = i.structure /\ StartsWith(j.keys, i.keys)]_vars

(* A dataset a statement reads that was submitted with the name of another *)
(* dataverse: such a run does not see what indexes and sample it has, and  *)
(* advises what is there.                                                  *)
Strayed == {ds \in Datasets : \E o \in Operators : \E scope \in ScopesOf[o] :
              ~InScope(ds, scope) /\ \E n \in DOMAIN Workload[scope] : ds \in Over[Workload[scope][n]]}

(* The two tools do not contradict one another: following the advice of    *)
(* both, in any order and with reads that failed, comes to an end.  From   *)
(* then on neither of them says to create, analyze or drop anything; what  *)
(* is advised for ever is to look at a join that scans a dataset, and what *)
(* is about a dataset out of the scope its statements were submitted with. *)
AdviceSettles ==
  <>[](\A o \in Operators : \A a \in hand[o] : a.do = "inspect" \/ a.index.ds \in Strayed)
=============================================================================
