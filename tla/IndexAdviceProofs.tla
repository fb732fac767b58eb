------------------------- MODULE IndexAdviceProofs -------------------------
(***************************************************************************)
(* Proofs about IndexAdvice for any catalog, workload and operators: the   *)
(* report of database_health_check is sound when it is made, and stays so  *)
(* while it is followed, so that what it has dropped was dead weight.      *)
(***************************************************************************)
EXTENDS IndexAdvice, FiniteSetTheorems, WellFoundedInduction, TLAPS

-----------------------------------------------------------------------------
(* The catalog and what is in hand.                                        *)

RowOK(i) ==
  /\ i = [ds |-> i.ds, name |-> i.name, structure |-> i.structure, keys |-> i.keys]
  /\ Len(i.keys) \in Nat

(* Index rows: a name is used once in a dataset.                           *)
CatalogOK ==
  /\ IsFiniteSet(catalog)
  /\ \A i \in catalog : RowOK(i)
  /\ \A i, j \in catalog : i.ds = j.ds /\ i.name = j.name => i = j

(* The runs and the advice of each operator; only a cleaner is told to     *)
(* drop or to choose.                                                      *)
Shaped ==
  /\ task = [o \in Operators |-> task[o]]
  /\ hand = [o \in Operators |-> hand[o]]
  /\ turn = [o \in Operators |-> turn[o]]

TaskOK(t) == {"left", "native", "seen"} \subseteq DOMAIN t /\ \A n \in t.native : RowOK(n[2])

AdviceOK(o, a) == RowOK(a.index) /\ (a.do \in {"create", "inspect"} \/ o \in Cleaners)

HandsOK ==
  /\ Shaped
  /\ \A o \in Operators :
       /\ TaskOK(task[o])
       /\ turn[o] = "health" => o \in Cleaners
       /\ \A a \in hand[o] : AdviceOK(o, a)

-----------------------------------------------------------------------------
(* What a report leaves standing: of a catalog C, rows D that are to go    *)
(* and findings K of which one row each is to stay.                        *)

SameKind(i, j) == i.ds = j.ds /\ i.structure = j.structure

Doomed(h)   == {a.index : a \in {b \in h : b.do = "drop"}}
Choosing(h) == {a \in h : a.do = "keepOne"}

Renamed(i, n) == [i EXCEPT !.name = n]
Family(a)     == {Renamed(a.index, n) : n \in a.names}

(* All of the family are there, and none of it is to go but by the choice. *)
Intact(C, D, a) == Family(a) \subseteq C \ D

(* A row that stays, or of whose family one does.                          *)
Firm(C, D, K, j) == j \in C \ D /\ \A a \in K : j \in Family(a) => Intact(C, D, a)

(* j serves where i did.                                                   *)
Covers(j, i) == SameKind(i, j) /\ StartsWith(j.keys, i.keys)

(* What is to go is dead weight of a row that stays; a family is whole, or *)
(* is dead weight of a longer row that stays; no family is told in two     *)
(* ways.                                                                   *)
Sound(C, D, K) ==
  /\ \A i \in D : \E j \in C : Firm(C, D, K, j) /\ Covers(j, i)
  /\ \A a \in K : \/ Intact(C, D, a)
                  \/ \E j \in C : /\ Firm(C, D, K, j) /\ Covers(j, a.index)
                                  /\ j.keys # a.index.keys
  /\ \A a, b \in K :
       SameKind(a.index, b.index) /\ a.index.keys = b.index.keys => a.names = b.names

AdviceInv == \A o \in Operators : Sound(catalog, Doomed(hand[o]), Choosing(hand[o]))

(* Operators who follow two reports at once each keep another row of a     *)
(* family.                                                                 *)
OneCleaner == \A o, p \in Cleaners : o = p


-----------------------------------------------------------------------------
(* Key lists.                                                              *)

(* To start with a list that starts with another.                          *)
LEMMA StartsTwice ==
  ASSUME NEW s, NEW t, NEW u, Len(s) \in Nat, Len(t) \in Nat, Len(u) \in Nat,
         StartsWith(t, s), StartsWith(u, t)
  PROVE  StartsWith(u, s)
<1>1. Len(s) <= Len(t) /\ SubSeq(s, 1, Len(s)) = SubSeq(t, 1, Len(s))
  BY DEF StartsWith, IsPrefix
<1>2. Len(t) <= Len(u) /\ SubSeq(t, 1, Len(t)) = SubSeq(u, 1, Len(t))
  BY DEF StartsWith, IsPrefix
<1>3. ASSUME NEW i \in 1..Len(s) PROVE t[i] = u[i]
  <2>1. i \in 1..Len(t)
    BY <1>1
  <2>2. SubSeq(t, 1, Len(t))[i] = t[i] /\ SubSeq(u, 1, Len(t))[i] = u[i]
    BY <2>1
  <2> QED
    BY <1>2, <2>2
<1>4. SubSeq(t, 1, Len(s)) = SubSeq(u, 1, Len(s))
  BY <1>3
<1> QED
  BY <1>1, <1>2, <1>4 DEF StartsWith, IsPrefix

-----------------------------------------------------------------------------
(* A report.                                                               *)

(* The rows that make i redundant.                                         *)
Longer(rows, i) == {j \in Group(rows, i.ds) : PrefixCover(i, j)}

(* A row that is longer than a longer one is longer.                       *)
LEMMA LongerStill ==
  ASSUME CatalogOK, NEW rows \in SUBSET catalog, NEW i \in rows, NEW j \in Longer(rows, i)
  PROVE  Longer(rows, j) \subseteq Longer(rows, i) \ {j}
<1>1. j \in rows /\ j.ds = i.ds /\ PrefixCover(i, j) /\ i \in catalog /\ j \in catalog
  BY DEF Longer, Group
<1>2. ASSUME NEW k \in Longer(rows, j) PROVE k \in Longer(rows, i) \ {j}
  <2>1. k \in rows /\ k.ds = j.ds /\ k.keys # <<>> /\ PrefixCover(j, k) /\ k \in catalog
    BY DEF Longer, Group
  <2>2. Len(i.keys) \in Nat /\ Len(j.keys) \in Nat /\ Len(k.keys) \in Nat
    BY <1>1, <2>1 DEF CatalogOK, RowOK
  <2>3. Len(k.keys) > Len(j.keys) /\ Len(j.keys) > Len(i.keys)
    BY <1>1, <2>1 DEF PrefixCover
  <2>4. StartsWith(k.keys, i.keys)
    BY <1>1, <2>1, <2>2, StartsTwice DEF PrefixCover
  <2>5. k # i /\ k # j
    BY <2>2, <2>3
  <2>6. i.name # k.name
    BY <1>1, <2>1, <2>5 DEF CatalogOK
  <2> QED
    BY <1>1, <2>1, <2>2, <2>3, <2>4, <2>5, <2>6 DEF Longer, Group, PrefixCover
<1> QED
  BY <1>2

(* So one of the rows that make i redundant has none longer.               *)
LEMMA Longest ==
  ASSUME CatalogOK, NEW rows \in SUBSET catalog, NEW i \in rows, Longer(rows, i) # {}
  PROVE  \E j \in Longer(rows, i) : Longer(rows, j) = {}
<1> DEFINE f(j) == Cardinality(Longer(rows, j))
           N == {f(j) : j \in Longer(rows, i)}
           R == OpToRel(<, Nat)
<1>1. ASSUME NEW j \in rows PROVE IsFiniteSet(Longer(rows, j)) /\ f(j) \in Nat
  <2>1. Longer(rows, j) \in SUBSET catalog
    BY DEF Longer, Group
  <2> QED
    BY <2>1, FS_Subset, FS_CardinalityType DEF CatalogOK
<1>2. Longer(rows, i) \subseteq rows
  BY DEF Longer, Group
<1>3. N \subseteq Nat /\ N # {}
  BY <1>1, <1>2
<1>4. IsWellFoundedOn(R, Nat)
  BY NatLessThanWellFounded
<1> HIDE DEF R, N
<1>5. PICK n \in N : \A m \in N : ~(<<m, n>> \in R)
  BY <1>3, <1>4, WFMin
<1>6. \A m \in N : ~(m < n)
  BY <1>3, <1>5 DEF R, OpToRel
<1>7. PICK j \in Longer(rows, i) : n = f(j)
  BY DEF N
<1>8. ASSUME NEW k \in Longer(rows, j) PROVE FALSE
  <2>1. j \in rows /\ k \in Longer(rows, i)
    BY <1>2, LongerStill
  <2>2. k \in rows /\ Longer(rows, k) \subseteq Longer(rows, j) /\ k \notin Longer(rows, k)
    BY <1>2, <2>1, LongerStill
  <2>3. f(k) <= f(j) /\ f(k) # f(j)
    BY <1>1, <1>8, <2>1, <2>2, FS_Subset
  <2>4. f(k) \in Nat /\ f(j) \in Nat /\ f(k) \in N
    BY <1>1, <2>1, <2>2 DEF N
  <2> QED
    BY <1>6, <1>7, <2>3, <2>4
<1> QED
  BY <1>8

(* Rows of one kind and key list, of which one is redundant, all are.      *)
LEMMA LongerAlike ==
  ASSUME CatalogOK, NEW rows \in SUBSET catalog, NEW i \in rows, NEW j \in rows,
         SameKind(i, j), i.keys = j.keys
  PROVE  Longer(rows, i) = Longer(rows, j)
<1>1. ASSUME NEW a \in rows, NEW b \in rows, SameKind(a, b), a.keys = b.keys, NEW k \in Longer(rows, a)
      PROVE  k \in Longer(rows, b)
  <2>1. k \in rows /\ k.ds = a.ds /\ k.keys # <<>> /\ PrefixCover(a, k) /\ k \in catalog
    BY <1>1 DEF Longer, Group
  <2>2. Len(b.keys) \in Nat /\ Len(k.keys) \in Nat
    BY <1>1, <2>1 DEF CatalogOK, RowOK
  <2>3. k # b
    BY <1>1, <2>1, <2>2 DEF PrefixCover
  <2>4. k.name # b.name
    BY <1>1, <2>1, <2>3 DEF CatalogOK, SameKind
  <2> QED
    BY <1>1, <2>1, <2>4 DEF Longer, Group, PrefixCover, SameKind
<1>2. SameKind(j, i)
  BY DEF SameKind
<1>3. Longer(rows, i) \subseteq Longer(rows, j)
  BY <1>1
<1>4. Longer(rows, j) \subseteq Longer(rows, i)
  BY <1>1, <1>2
<1> QED
  BY <1>3, <1>4

(* The family of a duplicate are rows of the report.                       *)
LEMMA FamilyOf ==
  ASSUME CatalogOK, NEW rows \in SUBSET catalog, NEW a \in FindDuplicates(rows)
  PROVE  /\ a.do = "keepOne" /\ a.index \in rows /\ a.index.keys # <<>>
         /\ a.names = {j.name : j \in {k \in Group(rows, a.index.ds) : SameSignature(a.index, k)}}
         /\ \A g \in Family(a) : g \in rows /\ SameKind(a.index, g) /\ g.keys = a.index.keys
<1>1. PICK i \in rows :
        /\ i.keys # <<>>
        /\ a = KeepOne(i, {j.name : j \in {k \in Group(rows, i.ds) : SameSignature(i, k)}})
  BY DEF FindDuplicates
<1>2. /\ a.do = "keepOne" /\ a.index = i
      /\ a.names = {j.name : j \in {k \in Group(rows, i.ds) : SameSignature(i, k)}}
  BY <1>1 DEF KeepOne
<1>3. ASSUME NEW g \in Family(a) PROVE g \in rows /\ SameKind(i, g) /\ g.keys = i.keys
  <2>1. PICK k \in Group(rows, i.ds) : SameSignature(i, k) /\ g = Renamed(i, k.name)
    BY <1>2 DEF Family
  <2>2. k \in rows /\ k.ds = i.ds /\ k.structure = i.structure /\ k.keys = i.keys
    BY <2>1 DEF Group, SameSignature
  <2>3. RowOK(i) /\ RowOK(k)
    BY <2>2 DEF CatalogOK
  <2>4. g = [ds |-> i.ds, name |-> k.name, structure |-> i.structure, keys |-> i.keys]
    BY <2>1, <2>3 DEF Renamed, RowOK
  <2>5. g = k
    BY <2>2, <2>3, <2>4 DEF RowOK
  <2> QED
    BY <2>2, <2>5 DEF SameKind
<1> QED
  BY <1>1, <1>2, <1>3

(* The redundant rows of a report have a longer one.                       *)
LEMMA RedundantOf ==
  ASSUME NEW rows, NEW i \in Doomed(FindDuplicates(rows) \cup FindRedundant(rows))
  PROVE  i \in rows /\ Longer(rows, i) # {}
<1>1. PICK a \in FindDuplicates(rows) \cup FindRedundant(rows) : a.do = "drop" /\ i = a.index
  BY DEF Doomed
<1>2. a \in FindRedundant(rows)
  BY <1>1 DEF FindDuplicates, KeepOne
<1>3. PICK k \in rows : a = Drop(k) /\ \E j \in Group(rows, k.ds) : PrefixCover(k, j)
  BY <1>2 DEF FindRedundant
<1>4. i = k
  BY <1>1, <1>3 DEF Drop
<1> QED
  BY <1>3, <1>4 DEF Longer

(* A report is sound: the longest rows stay, and the families of which one *)
(* is redundant are redundant in one piece.                                *)
LEMMA ReportSound ==
  ASSUME CatalogOK, NEW rows \in SUBSET catalog,
         NEW h, h = FindDuplicates(rows) \cup FindRedundant(rows)
  PROVE  Sound(catalog, Doomed(h), Choosing(h))
<1> DEFINE D == Doomed(h)
           K == Choosing(h)
<1>1. \A i \in D : i \in rows /\ Longer(rows, i) # {}
  BY RedundantOf
<1>2. K \subseteq FindDuplicates(rows)
  BY DEF Choosing, FindRedundant, Drop
<1> HIDE DEF D, K
<1>3. ASSUME NEW a \in K, NEW j \in Family(a) \cup {a.index}, Longer(rows, j) = {}
      PROVE  Intact(catalog, D, a)
  <2>1. ASSUME NEW g \in Family(a) PROVE g \in catalog \ D
    <3>1. g \in rows /\ j \in rows /\ SameKind(j, g) /\ g.keys = j.keys
      BY <1>2, <1>3, <2>1, FamilyOf DEF SameKind
    <3>2. Longer(rows, j) = Longer(rows, g)
      BY <3>1, LongerAlike
    <3> QED
      BY <1>1, <1>3, <3>1, <3>2
  <2> QED
    BY <2>1 DEF Intact
<1>4. ASSUME NEW i \in rows, Longer(rows, i) # {}
      PROVE  \E j \in Longer(rows, i) : j \in catalog /\ Firm(catalog, D, K, j)
  <2>1. PICK j \in Longer(rows, i) : Longer(rows, j) = {}
    BY <1>4, Longest
  <2>2. j \in rows
    BY DEF Longer, Group
  <2>3. Firm(catalog, D, K, j)
    BY <1>1, <1>3, <2>1, <2>2 DEF Firm
  <2> QED
    BY <2>2, <2>3
<1>5. ASSUME NEW i \in rows, NEW j \in Longer(rows, i)
      PROVE  Covers(j, i) /\ j.keys # i.keys
  <2>1. j \in rows /\ j.ds = i.ds /\ PrefixCover(i, j)
    BY DEF Longer, Group
  <2>2. Len(i.keys) \in Nat
    BY DEF CatalogOK, RowOK
  <2> QED
    BY <2>1, <2>2 DEF PrefixCover, Covers, SameKind
<1>6. \A i \in D : \E j \in catalog : Firm(catalog, D, K, j) /\ Covers(j, i)
  BY <1>1, <1>4, <1>5
<1>7. ASSUME NEW a \in K
      PROVE  \/ Intact(catalog, D, a)
             \/ \E j \in catalog : /\ Firm(catalog, D, K, j) /\ Covers(j, a.index)
                                   /\ j.keys # a.index.keys
  <2>1. a.index \in rows
    BY <1>2, FamilyOf
  <2>2. CASE Longer(rows, a.index) = {}
    BY <1>3, <2>2
  <2>3. CASE Longer(rows, a.index) # {}
    BY <1>4, <1>5, <2>1, <2>3
  <2> QED
    BY <2>2, <2>3
<1>8. ASSUME NEW a \in K, NEW b \in K, SameKind(a.index, b.index), a.index.keys = b.index.keys
      PROVE  a.names = b.names
  <2>1. /\ a.names = {j.name : j \in {k \in Group(rows, a.index.ds) : SameSignature(a.index, k)}}
        /\ b.names = {j.name : j \in {k \in Group(rows, b.index.ds) : SameSignature(b.index, k)}}
    BY <1>2, FamilyOf
  <2>2. a.index.ds = b.index.ds /\ \A k : SameSignature(a.index, k) <=> SameSignature(b.index, k)
    BY <1>8 DEF SameKind, SameSignature
  <2> QED
    BY <2>1, <2>2
<1>9. Sound(catalog, D, K)
  BY <1>6, <1>7, <1>8 DEF Sound
<1> QED
  BY <1>9 DEF D, K

-----------------------------------------------------------------------------
(* Following a report.                                                     *)

(* A catalog that keeps the rows that stay keeps a report sound, while     *)
(* parts of it are done.                                                   *)
LEMMA SoundStays ==
  ASSUME NEW C, NEW D, NEW K, Sound(C, D, K),
         NEW C2, NEW D2, NEW K2, C \ D \subseteq C2, D2 \subseteq D, K2 \subseteq K
  PROVE  Sound(C2, D2, K2)
<1>1. ASSUME NEW a, Intact(C, D, a) PROVE Intact(C2, D2, a)
  BY <1>1 DEF Intact
<1>2. ASSUME NEW j, Firm(C, D, K, j) PROVE j \in C2 /\ Firm(C2, D2, K2, j)
  BY <1>1, <1>2 DEF Firm
<1>3. \A i \in D2 : \E j \in C2 : Firm(C2, D2, K2, j) /\ Covers(j, i)
  BY <1>2 DEF Sound
<1>4. \A a \in K2 : \/ Intact(C2, D2, a)
                    \/ \E j \in C2 : /\ Firm(C2, D2, K2, j) /\ Covers(j, a.index)
                                     /\ j.keys # a.index.keys
  BY <1>1, <1>2 DEF Sound
<1>5. \A a, b \in K2 :
        SameKind(a.index, b.index) /\ a.index.keys = b.index.keys => a.names = b.names
  BY DEF Sound
<1> QED
  BY <1>3, <1>4, <1>5 DEF Sound

(* The rows of a family differ in their names only.                        *)
LEMMA FamilyRow ==
  ASSUME NEW a, RowOK(a.index), NEW n
  PROVE  /\ SameKind(a.index, Renamed(a.index, n)) /\ Renamed(a.index, n).keys = a.index.keys
         /\ Renamed(a.index, n).name = n
         /\ RowOK(Renamed(a.index, n))
<1>1. PICK i : i = a.index /\ RowOK(i)
  OBVIOUS
<1>2. i = [ds |-> i.ds, name |-> i.name, structure |-> i.structure, keys |-> i.keys]
  BY <1>1 DEF RowOK
<1>3. [i EXCEPT !.name = n] = [ds |-> i.ds, name |-> n, structure |-> i.structure, keys |-> i.keys]
  BY <1>2
<1> QED
  BY <1>1, <1>3 DEF SameKind, Renamed, RowOK

(* A choice keeps a report sound: where a row of the family stood for      *)
(* another, the one kept stands.                                           *)
LEMMA SoundAfterChoice ==
  ASSUME NEW C, NEW D, NEW K, Sound(C, D, K), \A b \in K : RowOK(b.index),
         NEW a \in K, NEW kept \in a.names,
         NEW D2, D2 = D \cup {Renamed(a.index, n) : n \in a.names \ {kept}},
         NEW K2, K2 = {b \in K : ~(b.index.ds = a.index.ds /\ b.names = a.names)}
  PROVE  Sound(C, D2, K2)
<1> DEFINE g == Renamed(a.index, kept)
           N == {Renamed(a.index, n) : n \in a.names \ {kept}}
<1>1. /\ g \in Family(a) /\ g \notin N /\ N \subseteq Family(a)
      /\ \A m \in Family(a) : m = g \/ m \in N
  <2>1. RowOK(a.index)
    OBVIOUS
  <2>2. \A n : Renamed(a.index, n).name = n
    BY <2>1, FamilyRow
  <2>3. Family(a) = {Renamed(a.index, n) : n \in a.names}
    BY DEF Family
  <2>4. ASSUME NEW n \in a.names \ {kept} PROVE Renamed(a.index, n) # g
    BY <2>2
  <2> QED
    BY <2>3, <2>4
<1>2. ASSUME NEW b \in K, NEW m \in Family(b)
      PROVE  SameKind(b.index, m) /\ m.keys = b.index.keys
  <2>1. PICK n \in b.names : m = Renamed(b.index, n)
    BY DEF Family
  <2>2. RowOK(b.index)
    OBVIOUS
  <2> QED
    BY <2>1, <2>2, FamilyRow
<1> HIDE DEF g, N
<1>3. ASSUME NEW b \in K2, NEW m \in Family(b), m \in Family(a) PROVE FALSE
  <2>1. b \in K /\ SameKind(a.index, b.index) /\ a.index.keys = b.index.keys
    BY <1>2, <1>3 DEF SameKind
  <2>2. a.names = b.names /\ a.index.ds = b.index.ds
    BY <2>1 DEF Sound, SameKind
  <2> QED
    BY <2>2
<1>4. D2 = D \cup N
  BY DEF N
<1>5. ASSUME NEW b \in K2, Intact(C, D, b) PROVE Intact(C, D2, b)
  BY <1>1, <1>3, <1>4, <1>5 DEF Intact
<1>6. ASSUME NEW j, Firm(C, D, K, j), j \notin N PROVE Firm(C, D2, K2, j)
  BY <1>4, <1>5, <1>6 DEF Firm
<1>7. ASSUME Intact(C, D, a) PROVE g \in C /\ Firm(C, D2, K2, g)
  BY <1>1, <1>3, <1>4, <1>7 DEF Firm, Intact
<1>8. ASSUME NEW j, Firm(C, D, K, j)
      PROVE  \E f \in C : Firm(C, D2, K2, f) /\ SameKind(j, f) /\ f.keys = j.keys
  <2>1. CASE j \notin N
    BY <1>6, <1>8, <2>1 DEF Firm, SameKind
  <2>2. CASE j \in N
    <3>1. Intact(C, D, a)
      BY <1>1, <1>8, <2>2 DEF Firm
    <3>2. SameKind(j, g) /\ g.keys = j.keys
      BY <1>1, <1>2, <2>2 DEF SameKind
    <3> QED
      BY <1>7, <3>1, <3>2
  <2> QED
    BY <2>1, <2>2
<1>9. ASSUME NEW i, NEW j, Firm(C, D, K, j), Covers(j, i)
      PROVE  \E f \in C : Firm(C, D2, K2, f) /\ Covers(f, i) /\ f.keys = j.keys
  <2>1. PICK f \in C : Firm(C, D2, K2, f) /\ SameKind(j, f) /\ f.keys = j.keys
    BY <1>8, <1>9
  <2> QED
    BY <1>9, <2>1 DEF Covers, SameKind
<1>10. ASSUME NEW i \in D2 PROVE \E j \in C : Firm(C, D2, K2, j) /\ Covers(j, i)
  <2>1. CASE i \in D
    BY <1>9, <2>1 DEF Sound
  <2>2. CASE i \in N
    <3>1. SameKind(i, a.index) /\ SameKind(i, g) /\ i.keys = a.index.keys /\ g.keys = i.keys
      BY <1>1, <1>2, <2>2 DEF SameKind
    <3>2. Len(i.keys) \in Nat
      BY <3>1 DEF RowOK
    <3>3. StartsWith(g.keys, i.keys)
      BY <3>1, <3>2 DEF StartsWith, IsPrefix
    <3>4. CASE Intact(C, D, a)
      BY <1>7, <3>1, <3>3, <3>4 DEF Covers
    <3>5. CASE ~Intact(C, D, a)
      <4>1. PICK j \in C : Firm(C, D, K, j) /\ Covers(j, a.index)
        BY <3>5 DEF Sound
      <4>2. PICK f \in C : Firm(C, D2, K2, f) /\ Covers(f, a.index)
        BY <1>9, <4>1
      <4> QED
        BY <3>1, <4>2 DEF Covers, SameKind
    <3> QED
      BY <3>4, <3>5
  <2> QED
    BY <1>4, <2>1, <2>2
<1>11. ASSUME NEW b \in K2
       PROVE  \/ Intact(C, D2, b)
              \/ \E j \in C : /\ Firm(C, D2, K2, j) /\ Covers(j, b.index)
                              /\ j.keys # b.index.keys
  <2>1. CASE Intact(C, D, b)
    BY <1>5, <2>1
  <2>2. CASE ~Intact(C, D, b)
    <3>1. PICK i : i = b.index
      OBVIOUS
    <3>2. PICK j \in C : Firm(C, D, K, j) /\ Covers(j, i) /\ j.keys # i.keys
      BY <2>2, <3>1 DEF Sound
    <3>3. PICK f \in C : Firm(C, D2, K2, f) /\ Covers(f, i) /\ f.keys = j.keys
      BY <1>9, <3>2
    <3> QED
      BY <3>1, <3>2, <3>3
  <2> QED
    BY <2>1, <2>2
<1>12. \A b, c \in K2 :
         SameKind(b.index, c.index) /\ b.index.keys = c.index.keys => b.names = c.names
  BY DEF Sound
<1> QED
  BY <1>10, <1>11, <1>12 DEF Sound

-----------------------------------------------------------------------------
(* Types.                                                                  *)

(* The indexes that the tools think up are rows.                           *)
LEMMA MadeRows ==
  /\ \A ds, kind : \A keys \in KeyLists : RowOK(Btree(ds, kind, keys))
  /\ \A ds : RowOK(Sample(ds))
  /\ \A cs : \A i \in Finalized(cs) \cup Unnamed(cs) : RowOK(i)
<1>1. ASSUME NEW ds, NEW kind, NEW keys, Len(keys) \in Nat PROVE RowOK(Btree(ds, kind, keys))
  BY <1>1 DEF RowOK, Btree
<1>2. \A keys \in KeyLists : Len(keys) \in Nat
  BY AdviceAssumption DEF AdviceAssumption
<1>3. ASSUME NEW ds PROVE RowOK(Sample(ds))
  BY DEF RowOK, Sample
<1>4. ASSUME NEW cs, NEW i \in Finalized(cs) PROVE RowOK(i)
  <2>1. PICK c \in cs : i = Btree(c[1], "idx", <<CHOOSE f \in Fields : c[2] = {f}>>)
    BY <1>4 DEF Finalized
  <2>2. Len(<<CHOOSE f \in Fields : c[2] = {f}>>) = 1
    OBVIOUS
  <2> QED
    BY <1>1, <2>1, <2>2
<1>5. ASSUME NEW cs, NEW i \in Unnamed(cs) PROVE RowOK(i)
  <2>1. PICK c \in cs : i = Btree(c[1], "idx", <<>>)
    BY <1>5 DEF Unnamed
  <2>2. Len(<<>>) = 0
    OBVIOUS
  <2> QED
    BY <1>1, <2>1, <2>2
<1> QED
  BY <1>1, <1>2, <1>3, <1>4, <1>5

(* So is all that a run recommends, the advisor's own included.            *)
LEMMA MergedRows ==
  ASSUME NEW t, TaskOK(t), NEW m \in Merged(t)
  PROVE  \A i \in m.indexes \cup m.unnamed : RowOK(i)
<1> DEFINE advised == {n[2] : n \in t.native}
           support == [i \in advised |-> Cardinality({n \in t.native : n[2] = i})]
<1>0. PICK T \in Best(advised, support, MaxRecommendations) : \E H :
        m = [indexes |-> T \cup Finalized(H), unnamed |-> Unnamed(H),
             about |-> {i.ds : i \in T} \cup {c[1] : c \in H}]
  BY DEF Merged
<1>1. T \subseteq advised /\ \E H : m.indexes = T \cup Finalized(H) /\ m.unnamed = Unnamed(H)
  BY <1>0 DEF Best
<1>2. \A i \in T : RowOK(i)
  BY <1>1 DEF TaskOK
<1> QED
  BY <1>1, <1>2, MadeRows

(* What o does concerns its own run and hand.                              *)
OwnOnly(o) ==
  /\ Shaped'
  /\ \A p \in Operators \ {o} : task'[p] = task[p] /\ hand'[p] = hand[p] /\ turn'[p] = turn[p]

(* So what is in order stays in order if o's own does.                     *)
LEMMA OperatorActs ==
  ASSUME HandsOK, NEW o \in Operators, OwnOnly(o), TaskOK(task'[o]),
         turn'[o] = "health" => o \in Cleaners,
         \A a \in hand'[o] : AdviceOK(o, a)
  PROVE  HandsOK'
<1>1. ASSUME NEW p \in Operators
      PROVE  /\ TaskOK(task'[p]) /\ (turn'[p] = "health" => p \in Cleaners)
             /\ \A a \in hand'[p] : AdviceOK(p, a)
  <2>1. CASE p = o
    BY <2>1
  <2>2. CASE p # o
    <3>1. task'[p] = task[p] /\ hand'[p] = hand[p] /\ turn'[p] = turn[p]
      BY <2>2 DEF OwnOnly
    <3> QED
      BY <3>1 DEF HandsOK
  <2> QED
    BY <2>1, <2>2
<1>2. Shaped'
  BY DEF OwnOnly
<1> QED
  BY <1>1, <1>2 DEF HandsOK, TaskOK, AdviceOK, RowOK

(* Asking and studying.                                                    *)
LEMMA AskTyped ==
  ASSUME HandsOK, NEW o \in Operators, AskRecommend(o)
  PROVE  HandsOK' /\ OwnOnly(o) /\ hand'[o] = hand[o]
<1>1. PICK l, k, s : task' = [task EXCEPT ![o] = [Idle EXCEPT !.busy = TRUE, !.scope = s,
                                                    !.left = l, !.known = k]]
  BY DEF AskRecommend
<1>2. UNCHANGED <<hand, turn>>
  BY DEF AskRecommend
<1>3. PICK t : t = [Idle EXCEPT !.busy = TRUE, !.scope = s, !.left = l, !.known = k]
  OBVIOUS
<1>4. TaskOK(t)
  <2>1. {"left", "native", "seen"} \subseteq DOMAIN t /\ t.native = {}
    BY <1>3 DEF Idle
  <2> QED
    BY <2>1 DEF TaskOK
<1>5. OwnOnly(o) /\ task'[o] = t
  BY <1>1, <1>2, <1>3 DEF HandsOK, Shaped, OwnOnly
<1> QED
  BY <1>2, <1>4, <1>5, OperatorActs DEF HandsOK

(* A statement that was studied may have added an advised index.           *)
LEMMA StudyTyped ==
  ASSUME HandsOK, NEW o \in Operators, Advise(o) \/ AnalyzePlan(o)
  PROVE  HandsOK' /\ OwnOnly(o) /\ hand'[o] = hand[o]
<1>1. UNCHANGED <<hand, turn>>
  BY DEF Advise, AnalyzePlan
<1>2. TaskOK(task[o])
  BY DEF HandsOK
<1>3. CASE Advise(o)
  <2>1. PICK advice \in {{}} \cup {{i} : i \in UsefulAdvice(Head(task[o].left))} :
          task' = [task EXCEPT ![o].left = Tail(@),
                               ![o].native = @ \cup {<<Head(task[o].left), i>> : i \in advice}]
    BY <1>3 DEF Advise
  <2>2. \A i \in advice : RowOK(i)
    BY <2>1, MadeRows DEF UsefulAdvice, Advisable
  <2>3. PICK t : t = [task[o] EXCEPT !.left = Tail(task[o].left),
                                     !.native = task[o].native \cup {<<Head(task[o].left), i>> : i \in advice}]
    OBVIOUS
  <2>4. TaskOK(t)
    <3>1. /\ {"left", "native", "seen"} \subseteq DOMAIN t
          /\ t.native = task[o].native \cup {<<Head(task[o].left), i>> : i \in advice}
      BY <1>2, <2>3 DEF TaskOK
    <3> QED
      BY <1>2, <2>2, <3>1 DEF TaskOK
  <2>5. task' = [task EXCEPT ![o] = t]
    BY <2>1, <2>3, <1>2 DEF HandsOK, Shaped, TaskOK
  <2>6. OwnOnly(o) /\ task'[o] = t
    BY <1>1, <2>5 DEF HandsOK, Shaped, OwnOnly
  <2> QED
    BY <1>1, <2>4, <2>6, OperatorActs DEF HandsOK
<1>4. ASSUME NEW s, task' = [task EXCEPT ![o].left = Tail(@), ![o].seen = s]
      PROVE  HandsOK' /\ OwnOnly(o)
  <2>3. PICK t : t = [task[o] EXCEPT !.left = Tail(task[o].left), !.seen = s]
    OBVIOUS
  <2>4. TaskOK(t)
    <3>1. {"left", "native", "seen"} \subseteq DOMAIN t /\ t.native = task[o].native
      BY <1>2, <2>3 DEF TaskOK
    <3> QED
      BY <1>2, <3>1 DEF TaskOK
  <2>5. task' = [task EXCEPT ![o] = t]
    BY <1>4, <2>3, <1>2 DEF HandsOK, Shaped, TaskOK
  <2>6. OwnOnly(o) /\ task'[o] = t
    BY <1>1, <2>5 DEF HandsOK, Shaped, OwnOnly
  <2> QED
    BY <1>1, <2>4, <2>6, OperatorActs DEF HandsOK
<1>5. ASSUME task' = [task EXCEPT ![o].left = Tail(@)]
      PROVE  HandsOK' /\ OwnOnly(o)
  <2>3. PICK t : t = [task[o] EXCEPT !.left = Tail(task[o].left)]
    OBVIOUS
  <2>4. TaskOK(t)
    <3>1. {"left", "native", "seen"} \subseteq DOMAIN t /\ t.native = task[o].native
      BY <1>2, <2>3 DEF TaskOK
    <3> QED
      BY <1>2, <3>1 DEF TaskOK
  <2>5. task' = [task EXCEPT ![o] = t]
    BY <1>5, <2>3, <1>2 DEF HandsOK, Shaped, TaskOK
  <2>6. OwnOnly(o) /\ task'[o] = t
    BY <1>1, <2>5 DEF HandsOK, Shaped, OwnOnly
  <2> QED
    BY <1>1, <2>4, <2>6, OperatorActs DEF HandsOK
<1>6. CASE AnalyzePlan(o)
  <2>1. CASE task' = [task EXCEPT ![o].left = Tail(@)]
    BY <1>1, <1>5, <2>1
  <2>2. CASE \E scan \in PlansScan(Head(task[o].left)) :
               task' = [task EXCEPT ![o].left = Tail(@), ![o].seen = @ \cup {<<Head(task[o].left), scan>>}]
    <3>1. PICK scan \in PlansScan(Head(task[o].left)) :
            task' = [task EXCEPT ![o].left = Tail(@), ![o].seen = @ \cup {<<Head(task[o].left), scan>>}]
      BY <2>2
    <3>2. PICK s : s = task[o].seen \cup {<<Head(task[o].left), scan>>}
      OBVIOUS
    <3>3. task' = [task EXCEPT ![o].left = Tail(@), ![o].seen = s]
      BY <3>1, <3>2
    <3> QED
      BY <1>1, <1>4, <3>3
  <2> QED
    BY <1>6, <2>1, <2>2 DEF AnalyzePlan
<1> QED
  BY <1>1, <1>3, <1>6

(* What a run ends with is advice to create, or to look.                   *)
LEMMA RecommendTyped ==
  ASSUME HandsOK, NEW o \in Operators, Recommend(o)
  PROVE  HandsOK' /\ OwnOnly(o) /\ \A a \in hand'[o] : a.do \in {"create", "inspect"}
<1>1. PICK m \in Merged(task[o]), z \in {AnalyzedDatasets(task[o].scope), {}} :
        /\ IF z = AnalyzedDatasets(task[o].scope) THEN UNCHANGED faults ELSE Fault
        /\ hand' = [hand EXCEPT ![o] = {Create(i) : i \in m.indexes}
                                         \cup {Inspect(i) : i \in m.unnamed}
                                         \cup {Create(Sample(ds)) : ds \in m.about \ z}]
  BY Zenon DEF Recommend
<1>2. PICK h : h = {Create(i) : i \in m.indexes} \cup {Inspect(i) : i \in m.unnamed}
                     \cup {Create(Sample(ds)) : ds \in m.about \ z}
  OBVIOUS
<1>3. ASSUME NEW a \in h PROVE a.do \in {"create", "inspect"} /\ RowOK(a.index)
  <2>1. \A i \in m.indexes \cup m.unnamed : RowOK(i)
    BY MergedRows DEF HandsOK
  <2>2. PICK i : (a = Create(i) \/ a = Inspect(i)) /\ RowOK(i)
    BY <1>2, <1>3, <2>1, MadeRows
  <2> QED
    BY <2>2 DEF Create, Inspect
<1>4. PICK u : u = IF o \in Cleaners THEN "health" ELSE "recommend"
  OBVIOUS
<1>5. /\ task' = [task EXCEPT ![o] = Idle] /\ hand' = [hand EXCEPT ![o] = h]
      /\ turn' = [turn EXCEPT ![o] = u] /\ (u = "health" => o \in Cleaners)
  BY <1>1, <1>2, <1>4 DEF Recommend
<1>6. OwnOnly(o) /\ task'[o] = Idle /\ hand'[o] = h /\ turn'[o] = u
  BY <1>5 DEF HandsOK, Shaped, OwnOnly
<1>7. TaskOK(Idle)
  BY DEF TaskOK, Idle
<1> QED
  BY <1>3, <1>5, <1>6, <1>7, OperatorActs DEF AdviceOK

(* A report is about rows of the catalog; or the read failed.              *)
LEMMA HealthTyped ==
  ASSUME CatalogOK, HandsOK, NEW o \in Operators, CheckHealth(o)
  PROVE  /\ HandsOK' /\ OwnOnly(o)
         /\ \/ hand'[o] = hand[o]
            \/ \E rows \in SUBSET catalog : hand'[o] = FindDuplicates(rows) \cup FindRedundant(rows)
<1>1. o \in Cleaners /\ turn' = [turn EXCEPT ![o] = "recommend"] /\ task' = task
  BY DEF CheckHealth, HandsOK
<1>2. CASE hand' = hand
  <2>1. OwnOnly(o) /\ turn'[o] = "recommend" /\ task'[o] = task[o] /\ hand'[o] = hand[o]
    BY <1>1, <1>2 DEF HandsOK, Shaped, OwnOnly
  <2> QED
    BY <2>1, OperatorActs DEF HandsOK
<1>3. ASSUME NEW rows \in SUBSET catalog, hand' = [hand EXCEPT ![o] = FindDuplicates(rows) \cup FindRedundant(rows)]
      PROVE  HandsOK' /\ OwnOnly(o) /\ hand'[o] = FindDuplicates(rows) \cup FindRedundant(rows)
  <2>1. PICK h : h = FindDuplicates(rows) \cup FindRedundant(rows)
    OBVIOUS
  <2>2. hand' = [hand EXCEPT ![o] = h]
    BY <1>3, <2>1
  <2>3. OwnOnly(o) /\ turn'[o] = "recommend" /\ task'[o] = task[o] /\ hand'[o] = h
    BY <1>1, <2>2 DEF HandsOK, Shaped, OwnOnly
  <2>4. ASSUME NEW a \in h PROVE RowOK(a.index)
    <3>1. a.index \in rows
      BY <2>1, <2>4 DEF FindDuplicates, FindRedundant, KeepOne, Drop
    <3> QED
      BY <3>1 DEF CatalogOK
  <2> QED
    BY <1>1, <2>1, <2>3, <2>4, OperatorActs DEF AdviceOK, HandsOK
<1>4. PICK scope : \/ hand' = [hand EXCEPT ![o] = FindDuplicates(SecondaryIndexes(scope))
                                                    \cup FindRedundant(SecondaryIndexes(scope))]
                   \/ hand' = hand
  BY DEF CheckHealth
<1>5. SecondaryIndexes(scope) \subseteq catalog
  BY DEF SecondaryIndexes
<1> QED
  BY <1>2, <1>3, <1>4, <1>5

(* An advice that is followed leaves the hand, and those that replace it   *)
(* come in.                                                                *)
LEMMA HandTyped ==
  ASSUME HandsOK, NEW o \in Operators, NEW h, hand' = [hand EXCEPT ![o] = h],
         UNCHANGED <<task, turn>>, \A a \in h : AdviceOK(o, a)
  PROVE  HandsOK' /\ OwnOnly(o) /\ hand'[o] = h
<1>1. OwnOnly(o) /\ turn'[o] = turn[o] /\ task'[o] = task[o] /\ hand'[o] = h
  BY DEF HandsOK, Shaped, OwnOnly
<1> QED
  BY <1>1, OperatorActs DEF HandsOK

(* The catalog keeps its names apart.                                      *)
LEMMA CreateTyped ==
  ASSUME CatalogOK, HandsOK, NEW o \in Operators, FollowCreate(o)
  PROVE  /\ CatalogOK' /\ HandsOK' /\ OwnOnly(o)
         /\ catalog \subseteq catalog'
         /\ Doomed(hand'[o]) = Doomed(hand[o]) /\ Choosing(hand'[o]) = Choosing(hand[o])
<1>1. PICK a \in hand[o] :
        /\ a.do = "create" /\ hand' = [hand EXCEPT ![o] = (@ \ {a}) \cup {}]
        /\ catalog' = IF NameTaken(a.index) THEN catalog ELSE catalog \cup {a.index}
  BY DEF FollowCreate, Done
<1>2. hand' = [hand EXCEPT ![o] = hand[o] \ {a}] /\ UNCHANGED <<task, turn>>
  BY <1>1 DEF FollowCreate
<1>3. \A b \in hand[o] \ {a} : AdviceOK(o, b)
  BY DEF HandsOK
<1>4. HandsOK' /\ OwnOnly(o) /\ hand'[o] = hand[o] \ {a}
  BY <1>2, <1>3, HandTyped
<1>5. Doomed(hand'[o]) = Doomed(hand[o]) /\ Choosing(hand'[o]) = Choosing(hand[o])
  BY <1>1, <1>4 DEF Doomed, Choosing
<1>6. CatalogOK'
  <2>1. CASE NameTaken(a.index)
    BY <1>1, <2>1 DEF CatalogOK
  <2>2. CASE ~NameTaken(a.index)
    <3>1. catalog' = catalog \cup {a.index} /\ RowOK(a.index)
      BY <1>1, <2>2 DEF HandsOK, AdviceOK
    <3>2. IsFiniteSet(catalog')
      BY <3>1, FS_AddElement DEF CatalogOK
    <3>3. \A i, j \in catalog' : i.ds = j.ds /\ i.name = j.name => i = j
      BY <2>2, <3>1 DEF CatalogOK, NameTaken
    <3> QED
      BY <3>1, <3>2, <3>3 DEF CatalogOK
  <2> QED
    BY <2>1, <2>2
<1> QED
  BY <1>1, <1>4, <1>5, <1>6

(* Advice to look is about nothing that is to go.                          *)
LEMMA InspectTyped ==
  ASSUME CatalogOK, HandsOK, NEW o \in Operators, FollowInspect(o)
  PROVE  /\ CatalogOK' /\ HandsOK' /\ OwnOnly(o) /\ catalog' = catalog
         /\ Doomed(hand'[o]) = Doomed(hand[o]) /\ Choosing(hand'[o]) = Choosing(hand[o])
<1>1. PICK a \in hand[o] : a.do = "inspect" /\ hand' = [hand EXCEPT ![o] = (@ \ {a}) \cup {}]
  BY DEF FollowInspect, Done
<1>2. hand' = [hand EXCEPT ![o] = hand[o] \ {a}] /\ UNCHANGED <<catalog, task, turn>>
  BY <1>1 DEF FollowInspect
<1>3. \A b \in hand[o] \ {a} : AdviceOK(o, b)
  BY DEF HandsOK
<1>4. HandsOK' /\ OwnOnly(o) /\ hand'[o] = hand[o] \ {a}
  BY <1>2, <1>3, HandTyped
<1>5. Doomed(hand'[o]) = Doomed(hand[o]) /\ Choosing(hand'[o]) = Choosing(hand[o])
  BY <1>1, <1>4 DEF Doomed, Choosing
<1> QED
  BY <1>2, <1>4, <1>5 DEF CatalogOK, RowOK

(* A row that is dropped was to go.                                        *)
LEMMA DropTyped ==
  ASSUME CatalogOK, HandsOK, NEW o \in Operators, FollowDrop(o)
  PROVE  /\ CatalogOK' /\ HandsOK' /\ OwnOnly(o) /\ o \in Cleaners
         /\ catalog \ Doomed(hand[o]) \subseteq catalog'
         /\ Doomed(hand'[o]) \subseteq Doomed(hand[o]) /\ Choosing(hand'[o]) \subseteq Choosing(hand[o])
<1>1. PICK a \in hand[o] :
        /\ a.do = "drop" /\ hand' = [hand EXCEPT ![o] = (@ \ {a}) \cup {}]
        /\ catalog' = catalog \ {a.index}
  BY DEF FollowDrop, Done
<1>2. hand' = [hand EXCEPT ![o] = hand[o] \ {a}] /\ UNCHANGED <<task, turn>>
  BY <1>1 DEF FollowDrop
<1>3. \A b \in hand[o] : AdviceOK(o, b)
  BY DEF HandsOK
<1>4. HandsOK' /\ OwnOnly(o) /\ hand'[o] = hand[o] \ {a}
  BY <1>2, <1>3, HandTyped
<1>5. /\ Doomed(hand'[o]) \subseteq Doomed(hand[o]) /\ Choosing(hand'[o]) \subseteq Choosing(hand[o])
      /\ a.index \in Doomed(hand[o])
  BY <1>1, <1>4 DEF Doomed, Choosing
<1>6. IsFiniteSet(catalog')
  BY <1>1, FS_Subset DEF CatalogOK
<1>7. CatalogOK'
  BY <1>1, <1>6 DEF CatalogOK
<1>8. o \in Cleaners
  BY <1>1, <1>3 DEF AdviceOK
<1> QED
  BY <1>1, <1>4, <1>5, <1>7, <1>8

(* A choice names the rows of the family that are to go.                   *)
LEMMA KeepOneTyped ==
  ASSUME CatalogOK, HandsOK, NEW o \in Operators, FollowKeepOne(o)
  PROVE  /\ CatalogOK' /\ HandsOK' /\ OwnOnly(o) /\ catalog' = catalog
         /\ \E a \in Choosing(hand[o]) : \E kept \in a.names :
              /\ Doomed(hand'[o]) = Doomed(hand[o]) \cup {Renamed(a.index, n) : n \in a.names \ {kept}}
              /\ Choosing(hand'[o]) = {b \in Choosing(hand[o]) : ~(b.index.ds = a.index.ds /\ b.names = a.names)}
<1>1. PICK a \in hand[o] : \E kept \in a.names :
       /\ a.do = "keepOne"
       /\ hand' = [hand EXCEPT ![o] =
            {b \in @ : ~(b.do = "keepOne" /\ b.index.ds = a.index.ds /\ b.names = a.names)}
              \cup {Drop([a.index EXCEPT !.name = n]) : n \in a.names \ {kept}}]
  BY DEF FollowKeepOne
<1>2. PICK kept \in a.names :
       hand' = [hand EXCEPT ![o] =
            {b \in hand[o] : ~(b.do = "keepOne" /\ b.index.ds = a.index.ds /\ b.names = a.names)}
              \cup {Drop([a.index EXCEPT !.name = n]) : n \in a.names \ {kept}}]
  BY <1>1
<1>3. PICK h : h = {b \in hand[o] : ~(b.do = "keepOne" /\ b.index.ds = a.index.ds /\ b.names = a.names)}
              \cup {Drop(Renamed(a.index, n)) : n \in a.names \ {kept}}
  OBVIOUS
<1>4. hand' = [hand EXCEPT ![o] = h]
  BY <1>2, <1>3 DEF Renamed
<1>5. \A b \in hand[o] : AdviceOK(o, b)
  BY DEF HandsOK
<1>6. RowOK(a.index) /\ o \in Cleaners
  BY <1>1, <1>5 DEF AdviceOK
<1>7. ASSUME NEW b \in h PROVE AdviceOK(o, b)
  <2>1. CASE b \in hand[o]
    BY <1>5, <2>1
  <2>2. CASE b \notin hand[o]
    <3>1. PICK n : b = Drop(Renamed(a.index, n))
      BY <1>3, <1>7, <2>2
    <3>2. b.index = Renamed(a.index, n)
      BY <3>1 DEF Drop
    <3>3. RowOK(b.index)
      BY <1>6, <3>2, FamilyRow
    <3> QED
      BY <1>6, <3>3 DEF AdviceOK
  <2> QED
    BY <2>1, <2>2
<1>8. UNCHANGED <<task, turn>> /\ catalog' = catalog
  BY DEF FollowKeepOne
<1>9. HandsOK' /\ OwnOnly(o) /\ hand'[o] = h
  BY <1>4, <1>7, <1>8, HandTyped
<1>10. \A n : Drop(Renamed(a.index, n)).do = "drop" /\ Drop(Renamed(a.index, n)).index = Renamed(a.index, n)
  BY DEF Drop
<1>11. Doomed(h) = Doomed(hand[o]) \cup {Renamed(a.index, n) : n \in a.names \ {kept}}
  BY <1>3, <1>10 DEF Doomed
<1>12. Choosing(h) = {b \in Choosing(hand[o]) : ~(b.index.ds = a.index.ds /\ b.names = a.names)}
  BY <1>3, <1>10 DEF Choosing
<1>13. a \in Choosing(hand[o])
  BY <1>1 DEF Choosing
<1>14. CatalogOK'
  BY <1>8 DEF CatalogOK
<1> QED
  BY <1>8, <1>9, <1>11, <1>12, <1>13, <1>14

(* Each step of an operator is one of these.                               *)
LEMMA StepCases ==
  ASSUME NEW o \in Operators, Step(o)
  PROVE  \/ AskRecommend(o) \/ Advise(o) \/ AnalyzePlan(o)
         \/ Recommend(o) \/ CheckHealth(o)
         \/ FollowCreate(o) \/ FollowInspect(o) \/ FollowDrop(o) \/ FollowKeepOne(o)
BY DEF Step, Study, Follow

(* The catalog changes as advice is followed, only.                        *)
LEMMA CatalogStays ==
  ASSUME NEW o \in Operators,
         AskRecommend(o) \/ Advise(o) \/ AnalyzePlan(o) \/ Recommend(o) \/ CheckHealth(o)
  PROVE  catalog' = catalog
BY DEF AskRecommend, Advise, AnalyzePlan, Recommend, CheckHealth

(* Every step keeps the catalog and the advice in order.                   *)
LEMMA TypedStep ==
  ASSUME CatalogOK, HandsOK, NEW o \in Operators, Step(o)
  PROVE  CatalogOK' /\ HandsOK' /\ OwnOnly(o)
<1>1. CASE AskRecommend(o) \/ Advise(o) \/ AnalyzePlan(o) \/ Recommend(o) \/ CheckHealth(o)
  <2>1. catalog' = catalog
    BY <1>1, CatalogStays
  <2>2. CatalogOK'
    BY <2>1 DEF CatalogOK
  <2>3. HandsOK' /\ OwnOnly(o)
    BY <1>1, AskTyped, StudyTyped, RecommendTyped, HealthTyped
  <2> QED
    BY <2>2, <2>3
<1>2. CASE FollowCreate(o)
  BY <1>2, CreateTyped
<1>3. CASE FollowDrop(o)
  BY <1>3, DropTyped
<1>4. CASE FollowKeepOne(o)
  BY <1>4, KeepOneTyped
<1>5. CASE FollowInspect(o)
  BY <1>5, InspectTyped
<1> QED
  BY <1>1, <1>2, <1>3, <1>4, <1>5, StepCases

(* At first the catalog is what was there, and there is no advice.         *)
LEMMA TypedInit == Init => CatalogOK /\ HandsOK
<1> SUFFICES ASSUME Init PROVE CatalogOK /\ HandsOK
  OBVIOUS
<1>1. ASSUME NEW i \in Index PROVE RowOK(i)
  <2>1. i.keys \in KeyLists \cup {<<>>}
    BY DEF Index
  <2>2. Len(i.keys) \in Nat
    BY <2>1, AdviceAssumption DEF AdviceAssumption
  <2>3. i = [ds |-> i.ds, name |-> i.name, structure |-> i.structure, keys |-> i.keys]
    BY DEF Index
  <2> QED
    BY <2>2, <2>3 DEF RowOK
<1>2. catalog \subseteq OldIndexes /\ OldIndexes \subseteq Index
  BY AdviceAssumption DEF Init, AdviceAssumption
<1>3. CatalogOK
  BY <1>1, <1>2, FS_Subset, AdviceAssumption DEF CatalogOK, AdviceAssumption
<1>4. TaskOK(Idle)
  BY DEF TaskOK, Idle
<1>5. HandsOK
  BY <1>4 DEF Init, HandsOK, Shaped
<1> QED
  BY <1>3, <1>5

(* database_health_check and recommend_indexes keep the catalog and the    *)
(* advice in order: index rows of distinct names in a dataset, and a row   *)
(* in every advice, told to drop to nobody who did not ask.                *)
THEOREM AdviceIsTyped == Spec => [](CatalogOK /\ HandsOK)
<1>1. CatalogOK /\ HandsOK /\ [Next]_vars => (CatalogOK /\ HandsOK)'
  <2> SUFFICES ASSUME CatalogOK, HandsOK, [Next]_vars PROVE (CatalogOK /\ HandsOK)'
    OBVIOUS
  <2>1. CASE Next
    BY <2>1, TypedStep DEF Next
  <2>2. CASE UNCHANGED vars
    BY <2>2 DEF vars, CatalogOK, HandsOK, Shaped, TaskOK, AdviceOK, RowOK
  <2> QED
    BY <2>1, <2>2
<1> QED
  BY <1>1, TypedInit, PTL DEF Spec

-----------------------------------------------------------------------------
(* Nothing is lost.                                                        *)

(* Who is no cleaner is told to drop nothing.                              *)
LEMMA NothingToDrop ==
  ASSUME HandsOK, NEW o \in Operators, o \notin Cleaners
  PROVE  Doomed(hand[o]) = {} /\ Choosing(hand[o]) = {}
<1>1. \A a \in hand[o] : a.do \in {"create", "inspect"}
  BY DEF HandsOK, AdviceOK
<1> QED
  BY <1>1 DEF Doomed, Choosing

(* Of no advice nothing can be wrong.                                      *)
LEMMA NothingIsSound == \A C : Sound(C, {}, {})
BY DEF Sound

(* A report that o follows stays sound as o acts: only o drops.            *)
LEMMA OwnStepSound ==
  ASSUME CatalogOK, HandsOK, AdviceInv, NEW o \in Operators, Step(o)
  PROVE  Sound(catalog', Doomed(hand'[o]), Choosing(hand'[o]))
<1>0. Sound(catalog, Doomed(hand[o]), Choosing(hand[o]))
  BY DEF AdviceInv
<1>1. ASSUME catalog' = catalog, hand'[o] = hand[o]
      PROVE  Sound(catalog', Doomed(hand'[o]), Choosing(hand'[o]))
  BY <1>0, <1>1
<1>2. CASE AskRecommend(o) \/ Advise(o) \/ AnalyzePlan(o)
  BY <1>1, <1>2, CatalogStays, AskTyped, StudyTyped
<1>3. CASE Recommend(o)
  <2>1. \A a \in hand'[o] : a.do \in {"create", "inspect"}
    BY <1>3, RecommendTyped
  <2>2. Doomed(hand'[o]) = {} /\ Choosing(hand'[o]) = {}
    BY <2>1 DEF Doomed, Choosing
  <2> QED
    BY <2>2, NothingIsSound
<1>4. CASE CheckHealth(o)
  <2>1. CASE hand'[o] = hand[o]
    BY <1>1, <1>4, <2>1, CatalogStays
  <2>2. ASSUME NEW rows \in SUBSET catalog, hand'[o] = FindDuplicates(rows) \cup FindRedundant(rows)
        PROVE  Sound(catalog', Doomed(hand'[o]), Choosing(hand'[o]))
    <3>1. PICK h : h = hand'[o]
      OBVIOUS
    <3>2. Sound(catalog, Doomed(h), Choosing(h))
      BY <2>2, <3>1, ReportSound
    <3> QED
      BY <1>4, <3>1, <3>2, CatalogStays
  <2> QED
    BY <1>4, <2>1, <2>2, HealthTyped
<1>5. ASSUME NEW D, NEW K, NEW C, catalog \ Doomed(hand[o]) \subseteq C,
             D \subseteq Doomed(hand[o]), K \subseteq Choosing(hand[o])
      PROVE  Sound(C, D, K)
  <2> DEFINE E == Doomed(hand[o])
             L == Choosing(hand[o])
  <2>1. Sound(catalog, E, L) /\ catalog \ E \subseteq C /\ D \subseteq E /\ K \subseteq L
    BY <1>0, <1>5
  <2> HIDE DEF E, L
  <2> QED
    BY <2>1, SoundStays
<1>6. CASE FollowCreate(o)
  <2>1. PICK D, K, C : D = Doomed(hand'[o]) /\ K = Choosing(hand'[o]) /\ C = catalog'
    OBVIOUS
  <2>2. catalog \subseteq C /\ D = Doomed(hand[o]) /\ K = Choosing(hand[o])
    BY <1>6, <2>1, CreateTyped
  <2> QED
    BY <1>5, <2>1, <2>2
<1>7. CASE FollowDrop(o)
  <2>1. PICK D, K, C : D = Doomed(hand'[o]) /\ K = Choosing(hand'[o]) /\ C = catalog'
    OBVIOUS
  <2>2. catalog \ Doomed(hand[o]) \subseteq C /\ D \subseteq Doomed(hand[o]) /\ K \subseteq Choosing(hand[o])
    BY <1>7, <2>1, DropTyped
  <2> QED
    BY <1>5, <2>1, <2>2
<1>8. CASE FollowKeepOne(o)
  <2>1. PICK D, K : D = Doomed(hand'[o]) /\ K = Choosing(hand'[o])
    OBVIOUS
  <2>2. PICK E, L : E = Doomed(hand[o]) /\ L = Choosing(hand[o])
    OBVIOUS
  <2>3. PICK a \in L : \E kept \in a.names :
              /\ D = E \cup {Renamed(a.index, n) : n \in a.names \ {kept}}
              /\ K = {b \in L : ~(b.index.ds = a.index.ds /\ b.names = a.names)}
    BY <1>8, <2>1, <2>2, KeepOneTyped
  <2>4. PICK kept \in a.names :
              /\ D = E \cup {Renamed(a.index, n) : n \in a.names \ {kept}}
              /\ K = {b \in L : ~(b.index.ds = a.index.ds /\ b.names = a.names)}
    BY <2>3
  <2>5. Sound(catalog, E, L) /\ \A b \in L : RowOK(b.index)
    BY <1>0, <2>2 DEF Choosing, HandsOK, AdviceOK
  <2>6. Sound(catalog, D, K)
    BY <2>4, <2>5, SoundAfterChoice
  <2> QED
    BY <1>8, <2>1, <2>6, KeepOneTyped
<1>9. CASE FollowInspect(o)
  <2>1. PICK D, K, C : D = Doomed(hand'[o]) /\ K = Choosing(hand'[o]) /\ C = catalog'
    OBVIOUS
  <2>2. C = catalog /\ D = Doomed(hand[o]) /\ K = Choosing(hand[o])
    BY <1>9, <2>1, InspectTyped
  <2> QED
    BY <1>5, <2>1, <2>2
<1> QED
  BY <1>2, <1>3, <1>4, <1>6, <1>7, <1>8, <1>9, StepCases

(* The rows that a step drops were to go.                                  *)
LEMMA DroppedWereDoomed ==
  ASSUME CatalogOK, HandsOK, NEW o \in Operators, Step(o), ~(catalog \subseteq catalog')
  PROVE  o \in Cleaners /\ catalog \ Doomed(hand[o]) \subseteq catalog'
<1>1. FollowDrop(o)
  BY StepCases, CatalogStays, CreateTyped, InspectTyped, KeepOneTyped
<1> QED
  BY <1>1, DropTyped

(* Of the others' reports, nothing changes but that the catalog grows.     *)
LEMMA AdviceStep ==
  ASSUME OneCleaner, CatalogOK, HandsOK, AdviceInv, NEW o \in Operators, Step(o)
  PROVE  AdviceInv'
<1>1. HandsOK' /\ OwnOnly(o)
  BY TypedStep
<1>2. ASSUME NEW p \in Operators
      PROVE  Sound(catalog', Doomed(hand'[p]), Choosing(hand'[p]))
  <2>1. CASE p = o
    BY <2>1, OwnStepSound
  <2>2. CASE p # o /\ p \notin Cleaners
    <3>1. hand'[p] = hand[p]
      BY <1>1, <2>2 DEF OwnOnly
    <3> QED
      BY <2>2, <3>1, NothingToDrop, NothingIsSound
  <2>3. CASE p # o /\ p \in Cleaners
    <3>1. hand'[p] = hand[p] /\ o \notin Cleaners
      BY <1>1, <2>3 DEF OwnOnly, OneCleaner
    <3>2. catalog \subseteq catalog'
      BY <3>1, DroppedWereDoomed
    <3>3. PICK C, D, K : C = catalog' /\ D = Doomed(hand[p]) /\ K = Choosing(hand[p])
      OBVIOUS
    <3>4. Sound(catalog, D, K) /\ catalog \ D \subseteq C
      BY <3>2, <3>3 DEF AdviceInv
    <3>5. Sound(C, D, K)
      BY <3>4, SoundStays
    <3> QED
      BY <3>1, <3>3, <3>5
  <2> QED
    BY <2>1, <2>2, <2>3
<1> QED
  BY <1>2 DEF AdviceInv, Sound, Firm, Intact, Covers, Doomed, Choosing

(* It is sound from the first, and while nothing happens.                  *)
LEMMA AdviceInitStutter ==
  /\ Init => AdviceInv
  /\ AdviceInv /\ UNCHANGED vars => AdviceInv'
<1>1. ASSUME Init PROVE AdviceInv
  <2>1. ASSUME NEW o \in Operators PROVE Doomed(hand[o]) = {} /\ Choosing(hand[o]) = {}
    BY <1>1 DEF Init, Doomed, Choosing
  <2> QED
    BY <2>1, NothingIsSound DEF AdviceInv
<1>2. AdviceInv /\ UNCHANGED vars => AdviceInv'
  BY DEF vars, AdviceInv
<1> QED
  BY <1>1, <1>2

(* NoLookupLost: what database_health_check has dropped is dead weight     *)
(* when it goes, whatever others create meanwhile, in whatever order its   *)
(* report is followed and whichever rows are kept, if it is one operator   *)
(* who follows its reports.                                                *)
THEOREM NothingIsLost == OneCleaner => (Spec => NoLookupLost)
<1> SUFFICES ASSUME OneCleaner PROVE Spec => NoLookupLost
  OBVIOUS
<1> DEFINE Kept == \A i \in catalog \ catalog' : \E j \in catalog' :
                     j.ds = i.ds /\ j.structure = i.structure /\ StartsWith(j.keys, i.keys)
<1>1. CatalogOK /\ HandsOK /\ AdviceInv /\ [Next]_vars => AdviceInv'
  BY AdviceStep, AdviceInitStutter DEF Next
<1>2. CatalogOK /\ HandsOK /\ AdviceInv /\ [Next]_vars => [Kept]_vars
  <2> SUFFICES ASSUME CatalogOK, HandsOK, AdviceInv, Next, NEW i \in catalog \ catalog'
               PROVE  \E j \in catalog' :
                        j.ds = i.ds /\ j.structure = i.structure /\ StartsWith(j.keys, i.keys)
    OBVIOUS
  <2>1. PICK o \in Operators : Step(o)
    BY DEF Next
  <2>2. catalog \ Doomed(hand[o]) \subseteq catalog'
    BY <2>1, DroppedWereDoomed
  <2>3. PICK D, K : D = Doomed(hand[o]) /\ K = Choosing(hand[o])
    OBVIOUS
  <2>4. Sound(catalog, D, K) /\ i \in D
    BY <2>2, <2>3 DEF AdviceInv
  <2>5. PICK j \in catalog \ D : Covers(j, i)
    BY <2>4 DEF Sound, Firm
  <2> QED
    BY <2>2, <2>3, <2>5 DEF Covers, SameKind
<1>3. Init => AdviceInv
  BY AdviceInitStutter
<1> QED
  BY <1>1, <1>2, <1>3, AdviceIsTyped, PTL DEF Spec, NoLookupLost
=============================================================================
