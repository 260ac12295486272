---------------------------- MODULE QDedup_proofs ----------------------------
(***************************************************************************)
(* Proofs about QDedup, for any names, files, contents and paths: the      *)
(* inductive invariant and, from it, that no content is lost; and the walk *)
(* over the sorted list, from which a finished run has reported every name *)
(* that it should and counted what it should.                              *)
(***************************************************************************)
EXTENDS QDedup, FiniteSetTheorems, FunctionTheorems, TLAPS

USE QDedupAssumption DEF QDedupAssumption

LEMMA Bounds ==
  /\ Cardinality(Name) \in Nat
  /\ \A names \in SUBSET Name : IsFiniteSet(names) /\ Cardinality(names) \in Index
<1>1. IsFiniteSet(Name)
  OBVIOUS
<1>2. Cardinality(Name) \in Nat
  BY <1>1, FS_CardinalityType
<1>3. ASSUME NEW names \in SUBSET Name
      PROVE  IsFiniteSet(names) /\ Cardinality(names) \in Index
  <2>1. IsFiniteSet(names) /\ Cardinality(names) <= Cardinality(Name)
    BY <1>1, FS_Subset
  <2>2. Cardinality(names) \in Nat
    BY <2>1, FS_CardinalityType
  <2>3. QED
    BY <1>2, <2>1, <2>2 DEF Index
<1>4. QED
  BY <1>2, <1>3

LEMMA InitInv == Init => QDedupInv
<1> SUFFICES ASSUME Init PROVE QDedupInv
  OBVIOUS
<1>1. TypeOK
  <2>1. 0 \in Index /\ MaxRuns \in 0..MaxRuns /\ MaxEdits \in 0..MaxEdits
    BY Bounds DEF Index
  <2>2. recs \in [0..(count - 1) -> Name]
    BY DEF Init
  <2>3. disk \in [File -> Content \cup {NoFile}] /\ list \in [Name -> Content \cup {NoFile}]
    BY DEF Init
  <2>4. dups \in [num : Nat, cumulative : Nat]
    BY DEF Init
  <2>5. QED
    BY <2>1, <2>2, <2>3, <2>4 DEF Init, TypeOK
<1>2. InGroup /\ ListHolds
  BY DEF Init, InGroup, ListHolds
<1>3. QED
  BY <1>1, <1>2 DEF QDedupInv

\* The end of a group: the next one begins at hi + 1, within the list.
LEMMA Next1 ==
  ASSUME TypeOK, hi < count, NextGroup, UNCHANGED count
  PROVE  /\ lo' = hi' /\ lo' \in Index /\ hi' \in Index
         /\ pc' \in {"scan", "done"}
         /\ pc' = "scan" => hi' < count'
  BY Bounds DEF TypeOK, Index, NextGroup, MoreGroups

LEMMA TypeStep ==
  ASSUME TypeOK, InGroup, [Next]_vars
  PROVE  TypeOK'
<1> USE DEF world, scan
<1>1. CASE MakeList
  <2>1. list' \in [Name -> Content \cup {NoFile}] /\ fresh' \in BOOLEAN
    BY <1>1 DEF MakeList, TypeOK, File
  <2>2. QED
    BY <1>1, <2>1 DEF MakeList, TypeOK
<1>2. CASE Edit
  <2>1. disk' \in [File -> Content \cup {NoFile}]
    BY <1>2 DEF Edit, TypeOK
  <2>2. edits' \in 0..MaxEdits
    BY <1>2 DEF Edit, TypeOK
  <2>3. QED
    BY <1>2, <2>1, <2>2 DEF Edit, TypeOK
<1>3. ASSUME NEW o \in {"ndups", "filterdups", "dedup", "dryrun"}, Start(o)
      PROVE  TypeOK'
  <2>1. count' = Cardinality(Listed) /\ Listed \in SUBSET Name
    BY <1>3 DEF Start, Listed
  <2>2. count' \in Index /\ 0 \in Index
    BY <2>1, Bounds DEF Index
  <2>3. recs' \in [0..(count' - 1) -> Name]
    BY <1>3, <2>1 DEF Start
  <2>4. path' \in SUBSET Name
    BY <1>3 DEF Start
  <2>5. runs' \in 0..MaxRuns
    BY <1>3 DEF Start, TypeOK
  <2>6. QED
    BY <1>3, <2>2, <2>3, <2>4, <2>5 DEF Start, TypeOK
<1>4. CASE FindGroup
  <2>1. hi' \in Index
    BY <1>4, Bounds DEF FindGroup, TypeOK, Index
  <2>2. QED
    BY <1>4, <2>1 DEF FindGroup, TypeOK
<1>5. CASE Single
  BY <1>5, Next1 DEF Single, TypeOK, InGroup
<1>6. CASE Count
  <2>1. dups' \in [num : Nat, cumulative : Nat]
    BY <1>6 DEF Count, TypeOK, InGroup, Index
  <2>2. QED
    BY <1>6, <2>1, Next1 DEF Count, TypeOK, InGroup
<1>7. CASE PrintGroup
  <2>1. told' \in SUBSET Name
    BY <1>7 DEF PrintGroup, Group, TypeOK, InGroup, Index
  <2>2. QED
    BY <1>7, <2>1, Next1 DEF PrintGroup, TypeOK, InGroup
<1>8. CASE Decide
  BY <1>8, Next1 DEF Decide, TypeOK, InGroup
<1>9. CASE Delete
  <2>1. recs[ui] \in Name /\ Place[recs[ui]] \in File
    BY <1>9 DEF Delete, TypeOK, InGroup, Index, File
  <2>2. disk' \in [File -> Content \cup {NoFile}] /\ told' \in SUBSET Name
    BY <1>9, <2>1 DEF Delete, TypeOK
  <2>3. lo' \in Index /\ hi' \in Index /\ ui' \in Index /\ pc' \in {"scan", "delete", "done"}
    <3>1. CASE ui < hi
      BY <1>9, <3>1, Bounds DEF Delete, TypeOK, InGroup, Index
    <3>2. CASE ~(ui < hi)
      BY <1>9, <3>2, Next1 DEF Delete, TypeOK, InGroup
    <3>3. QED
      BY <3>1, <3>2
  <2>4. QED
    BY <1>9, <2>2, <2>3 DEF Delete, TypeOK
<1>10. CASE Ends
  BY <1>10 DEF Ends, TypeOK
<1>11. CASE UNCHANGED vars
  BY <1>11 DEF vars, TypeOK
<1>12. QED
  BY <1>1, <1>2, <1>3, <1>4, <1>5, <1>6, <1>7, <1>8, <1>9, <1>10, <1>11 DEF Next

LEMMA GroupStep ==
  ASSUME TypeOK, InGroup, [Next]_vars
  PROVE  InGroup'
<1> USE DEF world, scan
<1>1. CASE MakeList \/ Edit
  <2>1. CASE MakeList
    BY <2>1 DEF MakeList, InGroup
  <2>2. CASE Edit
    BY <2>2 DEF Edit, InGroup, Listed, WithinPath, Group
  <2>3. QED
    BY <1>1, <2>1, <2>2
<1>2. ASSUME NEW o \in {"ndups", "filterdups", "dedup", "dryrun"}, Start(o)
      PROVE  InGroup'
  <2>1. Listed' = Listed /\ count' = Cardinality(Listed)
    BY <1>2 DEF Start, Listed
  <2>2. count' > 0
    <3>1. IsFiniteSet(Listed) /\ Listed # {}
      BY <1>2, Bounds DEF Start, Listed
    <3>2. QED
      BY <2>1, <3>1, FS_CardinalityType, FS_EmptySet
  <2>3. recs' \in [0..(count' - 1) -> Listed]
    BY <1>2, <2>1 DEF Start
  <2>4. QED
    BY <1>2, <2>1, <2>2, <2>3 DEF Start, InGroup
<1>3. CASE FindGroup
  <2>1. hi' \in hi..(count - 1) /\ lo = hi /\ option # "none"
    BY <1>3 DEF FindGroup, InGroup, TypeOK, Index
  <2>2. lo <= hi' /\ hi' < count
    BY <2>1 DEF TypeOK, Index
  <2>3. \A k \in lo..hi' : list[recs[k]] = list[recs[lo]]
    BY <1>3, <2>1 DEF FindGroup
  <2>4. QED
    BY <1>3, <2>1, <2>2, <2>3 DEF FindGroup, InGroup, Listed
<1>4. CASE Single \/ Count \/ PrintGroup
  <2>1. NextGroup /\ UNCHANGED count /\ hi < count
    BY <1>4 DEF Single, Count, PrintGroup, InGroup
  <2>2. QED
    BY <1>4, <2>1, Next1 DEF Single, Count, PrintGroup, InGroup, Listed
<1>5. CASE Decide
  <2>1. CASE NextGroup /\ UNCHANGED ui
    BY <1>5, <2>1, Next1 DEF Decide, InGroup, Listed
  <2>2. CASE WithinPath /\ pc' = "delete" /\ ui' = lo /\ UNCHANGED <<lo, hi>>
    BY <1>5, <2>2 DEF Decide, InGroup, Listed, WithinPath, Group, TypeOK, Index
  <2>3. QED
    BY <1>5, <2>1, <2>2 DEF Decide
<1>6. CASE Delete
  <2>1. CASE ui < hi
    <3>1. ui' = ui + 1 /\ ui' \in lo..hi
      BY <1>6, <2>1 DEF Delete, InGroup, TypeOK, Index
    <3>2. QED
      BY <1>6, <2>1, <3>1 DEF Delete, InGroup, Listed, WithinPath, Group
  <2>2. CASE ~(ui < hi)
    BY <1>6, <2>2, Next1 DEF Delete, InGroup, Listed
  <2>3. QED
    BY <2>1, <2>2
<1>7. CASE Ends
  BY <1>7 DEF Ends, InGroup
<1>8. CASE UNCHANGED vars
  BY <1>8 DEF vars, InGroup, Listed, WithinPath, Group
<1>9. QED
  BY <1>1, <1>2, <1>3, <1>4, <1>5, <1>6, <1>7, <1>8 DEF Next

\* The step that could lose something: the file unlinked is no other name's,
\* and a name within the path keeps its content.
LEMMA HoldsStep ==
  ASSUME TypeOK, InGroup, ListHolds, [Next]_vars
  PROVE  ListHolds'
<1> USE DEF world, scan
<1>1. CASE MakeList
  <2>1. PICK names \in SUBSET Name :
          /\ list' = [n \in Name |-> IF n \in names THEN disk[Place[n]] ELSE NoFile]
          /\ fresh' => \A n, m \in names : n # m => Place[n] # Place[m]
    BY <1>1, Zenon DEF MakeList
  <2>2. \A n \in Listed' : n \in names /\ Kept(n)'
    BY <1>1, <2>1 DEF MakeList, Listed, Kept
  <2>3. Listed' \subseteq names
    BY <2>2
  <2>4. fresh' => \A n, m \in Listed' : n # m => Place[n] # Place[m]
    BY <2>1, <2>3
  <2>5. \A n \in Listed' : Kept(n)'
    BY <2>2
  <2>6. QED
    BY <2>4, <2>5, Zenon DEF ListHolds
<1>2. CASE Edit
  BY <1>2 DEF Edit, ListHolds
<1>3. ASSUME NEW o \in {"ndups", "filterdups", "dedup", "dryrun"}, Start(o)
      PROVE  ListHolds'
  BY <1>3 DEF Start, ListHolds, Listed, Kept
<1>4. CASE FindGroup \/ Single \/ Count \/ PrintGroup \/ Decide
  <2>1. UNCHANGED <<disk, list, fresh, option, path>>
    BY <1>4 DEF FindGroup, Single, Count, PrintGroup, Decide
  <2>2. QED
    BY <2>1 DEF ListHolds, Listed, Kept
<1>5. CASE Delete
  <2>1. CASE UNCHANGED disk
    BY <1>5, <2>1 DEF Delete, ListHolds, Listed, Kept
  <2>2. CASE disk' # disk
    <3> DEFINE r == recs[ui]
    <3>1. disk' = [disk EXCEPT ![Place[r]] = NoFile] /\ r \notin path
          /\ UNCHANGED <<list, fresh, option, path>>
      BY <1>5, <2>2 DEF Delete, Doomed
    <3>2. option # "none" /\ ui \in lo..hi /\ lo <= hi /\ hi < count /\ ui \in 0..(count - 1)
      BY <1>5, <3>1 DEF Delete, InGroup, Doomed, TypeOK, Index
    <3>3. r \in Listed /\ list[r] = list[recs[lo]]
      BY <1>5, <3>2 DEF Delete, InGroup
    <3>4. PICK m \in Listed \cap path : list[m] = list[r]
      <4>1. PICK k \in lo..hi : recs[k] \in path
        BY <1>5, <3>2 DEF Delete, InGroup, WithinPath, Group
      <4>2. recs[k] \in Listed /\ list[recs[k]] = list[recs[lo]]
        BY SMTT(30), <1>5, <3>2, <4>1 DEF Delete, InGroup, TypeOK, Index
      <4>3. QED
        BY <4>1, <4>2, <3>3
    <3> SUFFICES ASSUME fresh
                 PROVE  /\ \A n, x \in Listed : n # x => Place[n] # Place[x]
                        /\ \A n \in Listed \cap path : Kept(n)'
                        /\ \A n \in Listed :
                             \/ Kept(n)'
                             \/ /\ disk'[Place[n]] = NoFile
                                /\ \E x \in Listed \cap path : list[x] = list[n]
      BY <3>1, <3>2 DEF ListHolds, Listed
    <3>5. \A n \in Listed : n # r => Place[n] # Place[r] /\ Place[n] \in File
      BY <3>3 DEF ListHolds, Listed, File
    <3>6. \A n \in Listed : n # r => disk'[Place[n]] = disk[Place[n]]
      BY <3>1, <3>5 DEF TypeOK
    <3>7. disk'[Place[r]] = NoFile
      BY <3>1, <3>3 DEF TypeOK, File, Listed
    <3>8. QED
      BY <3>1, <3>3, <3>4, <3>6, <3>7 DEF ListHolds, Kept
  <2>3. QED
    BY <2>1, <2>2
<1>6. CASE Ends
  <2> SUFFICES ASSUME fresh' PROVE ListHolds'
    BY DEF ListHolds
  <2>1. fresh /\ \A n \in Listed : disk[Place[n]] # NoFile
    BY <1>6 DEF Ends
  <2>2. \A n \in Listed : Kept(n)
    BY <1>6, <2>1 DEF Ends, ListHolds, Kept
  <2>3. QED
    BY <1>6, <2>1, <2>2 DEF Ends, ListHolds, Listed, Kept
<1>7. CASE UNCHANGED vars
  BY <1>7 DEF vars, ListHolds, Listed, Kept
<1>8. QED
  BY <1>1, <1>2, <1>3, <1>4, <1>5, <1>6, <1>7 DEF Next

\* The inductive invariant: at every point of a run the list, if it was true,
\* still tells where each of its contents is.
THEOREM QDedupInvHolds == Spec => []QDedupInv
<1>1. QDedupInv /\ [Next]_vars => QDedupInv'
  BY TypeStep, GroupStep, HoldsStep DEF QDedupInv
<1>2. QED
  BY InitInv, <1>1, PTL DEF Spec

\* No content of a list that was true is lost.
THEOREM NoLastCopyDeleted == Spec => []NothingLost
<1>1. QDedupInv => NothingLost
  BY DEF QDedupInv, ListHolds, NothingLost
<1>2. QED
  BY QDedupInvHolds, <1>1, PTL
-----------------------------------------------------------------------------
\* The names with a twin among the first k records, and how many records the
\* run has dealt with.
Seen(k) == {n \in Name : HasTwin(n) /\ \E j \in 0..(k - 1) : recs[j] = n}
Done == CASE pc = "delete" -> ui [] pc = "done" -> count [] OTHER -> lo

\* The walk: the group in hand is a maximal run of the sorted list, what is
\* told is what is to be told of the records dealt with, and so are the counts.
Walk ==
  option # "none" =>
    /\ Sorted(recs, count)
    /\ pc # "done" /\ lo > 0 => list[recs[lo - 1]] < list[recs[lo]]
    /\ pc \in {"group", "delete"} /\ hi < count - 1 => list[recs[hi]] < list[recs[hi + 1]]
    /\ pc = "delete" => lo # hi /\ option \in {"dedup", "dryrun"}
    /\ told = {n \in Seen(Done) : Reports(n)}
    /\ option = "ndups" =>
         /\ dups.num = Cardinality({list[n] : n \in Seen(Done)})
         /\ dups.cumulative = Cardinality(Seen(Done))

\* The records are in the order of their hashes, and each name is there once.
LEMMA InOrder ==
  ASSUME TypeOK, option # "none", Walk
  PROVE  /\ \A i \in 0..(count - 1) : recs[i] \in Listed /\ recs[i] \in Name /\ list[recs[i]] \in Int
         /\ \A n \in Listed : \E i \in 0..(count - 1) : recs[i] = n
         /\ \A i, j \in 0..(count - 1) :
              i < j => list[recs[i]] <= list[recs[j]] /\ recs[i] # recs[j]
<1>1. Sorted(recs, count)
  BY DEF Walk
<1>2. \A n \in Listed : n \in Int /\ n \in Name /\ list[n] \in Int
  BY DEF Listed, TypeOK
<1>3. \A i \in 0..(count - 1) : recs[i] \in Listed
  BY <1>1 DEF Sorted
<1>4. \A i, j \in 0..(count - 1) : i < j => Before(recs[i], recs[j])
  BY <1>1 DEF Sorted
<1>5. ASSUME NEW i \in 0..(count - 1), NEW j \in 0..(count - 1), i < j
      PROVE  list[recs[i]] <= list[recs[j]] /\ recs[i] # recs[j]
  <2>1. recs[i] \in Int /\ recs[j] \in Int /\ list[recs[i]] \in Int /\ list[recs[j]] \in Int
    BY <1>2, <1>3
  <2>2. Before(recs[i], recs[j])
    BY <1>4, <1>5
  <2>3. QED
    BY <2>1, <2>2 DEF Before
<1>6. \A n \in Listed : \E i \in 0..(count - 1) : recs[i] = n
  BY <1>1 DEF Sorted
<1>7. QED
  BY <1>2, <1>3, <1>5, <1>6

\* The group in hand is all of its hash.
LEMMA GroupWhole ==
  ASSUME TypeOK, InGroup, Walk, pc \in {"group", "delete"}
  PROVE  \A k \in lo..hi : Twins(recs[k]) = Group /\ recs[k] \in Listed
<1>1. option # "none" /\ lo <= hi /\ hi < count /\ count \in Nat /\ lo \in Nat /\ hi \in Nat
  BY Bounds DEF InGroup, TypeOK, Index
<1>2. \A k \in lo..hi : k \in 0..(count - 1) /\ list[recs[k]] = list[recs[lo]]
  BY <1>1 DEF InGroup
<1>3. ASSUME NEW j \in 0..(count - 1), list[recs[j]] = list[recs[lo]]
      PROVE  j \in lo..hi
  <2>1. CASE j < lo
    <3>1. lo - 1 \in 0..(count - 1) /\ (j = lo - 1 \/ j < lo - 1)
      BY <1>1, <2>1
    <3>2. list[recs[j]] <= list[recs[lo - 1]]
      BY <1>1, <3>1, InOrder
    <3>3. list[recs[lo - 1]] < list[recs[lo]]
      BY <1>1, <2>1 DEF Walk
    <3>4. QED
      BY <1>1, <1>3, <3>1, <3>2, <3>3, InOrder
  <2>2. CASE j > hi
    <3>1. hi < count - 1 /\ hi + 1 \in 0..(count - 1) /\ hi \in 0..(count - 1)
          /\ hi \in lo..hi /\ (j = hi + 1 \/ hi + 1 < j)
      BY <1>1, <2>2
    <3>2. list[recs[hi + 1]] <= list[recs[j]]
      BY <1>1, <3>1, InOrder
    <3>3. list[recs[hi]] < list[recs[hi + 1]]
      BY <1>1, <3>1 DEF Walk
    <3>4. list[recs[hi]] = list[recs[lo]]
      BY <1>2, <3>1
    <3>5. QED
      BY <1>1, <1>3, <3>1, <3>2, <3>3, <3>4, InOrder
  <2>3. QED
    BY <1>1, <2>1, <2>2
<1>4. ASSUME NEW k \in lo..hi
      PROVE  Twins(recs[k]) = Group /\ recs[k] \in Listed
  <2>1. recs[k] \in Listed /\ list[recs[k]] = list[recs[lo]]
    BY <1>1, <1>2, InOrder
  <2>2. Twins(recs[k]) \subseteq Group
    BY <1>1, <1>3, <2>1, InOrder DEF Twins, Group
  <2>3. Group \subseteq Twins(recs[k])
    BY <1>1, <1>2, <2>1, InOrder DEF Twins, Group
  <2>4. QED
    BY <2>1, <2>2, <2>3
<1>5. QED
  BY <1>4

\* What the records of the group add to what was seen.
LEMMA GroupSeen ==
  ASSUME TypeOK, InGroup, Walk, pc \in {"group", "delete"}
  PROVE  /\ lo = hi => Seen(hi + 1) = Seen(lo)
         /\ lo # hi => /\ Seen(hi + 1) = Seen(lo) \cup Group
                       /\ Group \cap Seen(lo) = {}
                       /\ \A n \in Seen(lo) : list[n] # list[recs[lo]]
                       /\ \A k \in lo..hi : Seen(k + 1) = Seen(k) \cup {recs[k]}
<1>1. option # "none" /\ lo <= hi /\ hi < count /\ count \in Nat /\ lo \in Nat /\ hi \in Nat
  BY Bounds DEF InGroup, TypeOK, Index
<1>2. \A k \in lo..hi : k \in 0..(count - 1)
  BY <1>1
<1>3. ASSUME lo = hi PROVE Seen(hi + 1) = Seen(lo)
  <2>1. Group = {recs[lo]}
    BY <1>1, <1>3 DEF Group
  <2>2. ~HasTwin(recs[lo])
    BY <1>1, <2>1, GroupWhole DEF HasTwin
  <2>3. \A n : (\E j \in 0..((hi + 1) - 1) : recs[j] = n)
                 <=> (n = recs[lo] \/ \E j \in 0..(lo - 1) : recs[j] = n)
    BY <1>1, <1>3
  <2>4. QED
    BY <2>2, <2>3 DEF Seen
<1>4. ASSUME lo # hi PROVE \A k \in lo..hi : HasTwin(recs[k]) /\ recs[k] \in Name
  <2>1. recs[lo] # recs[hi] /\ recs[lo] \in Group /\ recs[hi] \in Group
    BY <1>1, <1>2, <1>4, InOrder DEF Group
  <2>2. QED
    BY <1>1, <1>2, <2>1, GroupWhole, InOrder DEF HasTwin
<1>5. ASSUME lo # hi, NEW k \in lo..hi
      PROVE  Seen(k + 1) = Seen(k) \cup {recs[k]}
  <2>1. k \in Nat
    BY <1>1
  <2>2. \A n : (\E j \in 0..((k + 1) - 1) : recs[j] = n)
                 <=> (n = recs[k] \/ \E j \in 0..(k - 1) : recs[j] = n)
    BY <2>1
  <2>3. QED
    BY <1>4, <1>5, <2>2 DEF Seen
<1>6. ASSUME lo # hi PROVE Seen(hi + 1) = Seen(lo) \cup Group
  <2>1. \A n : (\E j \in 0..((hi + 1) - 1) : recs[j] = n)
                 <=> (n \in Group \/ \E j \in 0..(lo - 1) : recs[j] = n)
    <3>1. \A j : j \in 0..((hi + 1) - 1) <=> j \in 0..(lo - 1) \/ j \in lo..hi
      BY <1>1
    <3>2. QED
      BY <3>1 DEF Group
  <2>2. \A n \in Group : n \in Name /\ HasTwin(n)
    BY <1>4, <1>6 DEF Group
  <2>3. QED
    BY <2>1, <2>2 DEF Seen
<1>7. ASSUME NEW n \in Seen(lo) PROVE list[n] # list[recs[lo]]
  <2>1. PICK j \in 0..(lo - 1) : recs[j] = n
    BY DEF Seen
  <2>2. lo > 0 /\ lo - 1 \in 0..(count - 1) /\ j \in 0..(count - 1) /\ (j = lo - 1 \/ j < lo - 1)
        /\ lo \in 0..(count - 1)
    BY <1>1, <2>1
  <2>3. list[recs[j]] <= list[recs[lo - 1]]
    BY <1>1, <2>2, InOrder
  <2>4. list[recs[lo - 1]] < list[recs[lo]]
    BY <1>1, <2>2 DEF Walk
  <2>5. QED
    BY <1>1, <2>1, <2>2, <2>3, <2>4, InOrder
<1>8. Group \cap Seen(lo) = {}
  <2>1. \A n \in Group : list[n] = list[recs[lo]]
    BY <1>1 DEF Group, InGroup
  <2>2. QED
    BY <1>7, <2>1
<1>9. QED
  BY <1>3, <1>5, <1>6, <1>7, <1>8

\* Past the end of a group, nothing that has a twin is left out, and the next
\* record begins a group.
LEMMA GroupPassed ==
  ASSUME TypeOK, InGroup, Walk, pc \in {"group", "delete"}, NextGroup,
         UNCHANGED <<list, recs, count>>
  PROVE  /\ Seen(Done)' = Seen(hi + 1)
         /\ pc' # "done" => list'[recs'[lo' - 1]] < list'[recs'[lo']]
         /\ pc' \in {"scan", "done"}
<1>1. option # "none" /\ lo <= hi /\ hi < count /\ count \in Nat /\ lo \in Nat /\ hi \in Nat
  BY Bounds DEF InGroup, TypeOK, Index
<1>2. lo' = hi + 1 /\ pc' \in {"scan", "done"} /\ (pc' = "scan" <=> hi + 1 < count - 1)
  BY DEF NextGroup, MoreGroups
<1>3. \A k : Seen(k)' = Seen(k)
  BY Zenon DEF Seen, HasTwin, Twins, Listed
<1>4. Done' = IF pc' = "done" THEN count ELSE hi + 1
  BY <1>2 DEF Done
<1>5. CASE pc' = "scan"
  <2>1. list[recs[hi]] < list[recs[hi + 1]]
    BY <1>1, <1>2, <1>5 DEF Walk
  <2>2. lo' - 1 = hi
    BY <1>1, <1>2
  <2>3. Seen(Done)' = Seen(hi + 1)
    BY <1>3, <1>4, <1>5
  <2>4. QED
    BY <1>2, <1>5, <2>1, <2>2, <2>3
<1>6. CASE pc' = "done"
  <2>1. count = hi + 1 \/ count = hi + 2
    BY <1>1, <1>2, <1>6
  <2>2. Seen(count) = Seen(hi + 1)
    <3>1. CASE count = hi + 1
      BY <3>1
    <3>2. CASE count = hi + 2
      <4>1. hi \in 0..(count - 1) /\ hi + 1 \in 0..(count - 1) /\ hi < count - 1
        BY <1>1, <3>2
      <4>2. list[recs[hi]] < list[recs[hi + 1]]
        BY <1>1, <4>1 DEF Walk
      <4>3. ASSUME NEW j \in 0..(count - 1), list[recs[j]] = list[recs[hi + 1]]
            PROVE  j = hi + 1
        <5>1. CASE j <= hi
          <6>1. list[recs[j]] <= list[recs[hi]]
            BY <1>1, <4>1, <5>1, InOrder
          <6>2. QED
            BY <1>1, <4>1, <4>2, <4>3, <6>1, InOrder
        <5>2. QED
          BY <1>1, <3>2, <5>1
      <4>4. ~HasTwin(recs[hi + 1])
        BY <1>1, <4>1, <4>3, InOrder DEF HasTwin, Twins
      <4>5. \A n : (\E j \in 0..(count - 1) : recs[j] = n)
                     <=> (n = recs[hi + 1] \/ \E j \in 0..((hi + 1) - 1) : recs[j] = n)
        BY <1>1, <3>2
      <4>6. QED
        BY <4>4, <4>5 DEF Seen
    <3>3. QED
      BY <2>1, <3>1, <3>2
  <2>3. QED
    BY <1>2, <1>3, <1>4, <1>6, <2>2
<1>7. QED
  BY <1>2, <1>5, <1>6

\* What a step that only moves on leaves as it was.
LEMMA Same ==
  ASSUME UNCHANGED <<list, recs, option, path>>
  PROVE  /\ \A k : Seen(k)' = Seen(k)
         /\ \A n : Reports(n)' <=> Reports(n)
BY Zenon DEF Seen, HasTwin, Twins, Listed, Reports, Doomed

\* The counts of a group that ndups adds.
LEMMA Counted ==
  ASSUME TypeOK, InGroup, Walk, Count
  PROVE  /\ Cardinality(Seen(hi + 1)) = Cardinality(Seen(lo)) + (hi - lo + 1)
         /\ Cardinality({list[n] : n \in Seen(hi + 1)}) = Cardinality({list[n] : n \in Seen(lo)}) + 1
<1>1. option # "none" /\ lo <= hi /\ lo # hi /\ hi < count /\ count \in Nat /\ lo \in Nat /\ hi \in Nat
      /\ pc = "group"
  BY Bounds DEF InGroup, TypeOK, Index, Count
<1>2. Seen(hi + 1) = Seen(lo) \cup Group /\ Group \cap Seen(lo) = {}
      /\ \A n \in Seen(lo) : list[n] # list[recs[lo]]
  BY <1>1, GroupSeen
<1>3. IsFiniteSet(Seen(lo)) /\ IsFiniteSet(Group)
  <2>1. Group \subseteq Name /\ Seen(lo) \subseteq Name
    BY <1>1, InOrder DEF Group, Seen
  <2>2. QED
    BY <2>1, Bounds
<1>4. Cardinality(Group) = hi - lo + 1
  <2> DEFINE f == [k \in lo..hi |-> recs[k]]
  <2>1. f \in [lo..hi -> Group]
    BY DEF Group
  <2>2. \A i, j \in lo..hi : f[i] = f[j] => i = j
    <3> SUFFICES ASSUME NEW i \in lo..hi, NEW j \in lo..hi, i # j PROVE f[i] # f[j]
      OBVIOUS
    <3>1. i \in 0..(count - 1) /\ j \in 0..(count - 1) /\ (i < j \/ j < i)
      BY <1>1
    <3>2. QED
      BY <1>1, <3>1, InOrder
  <2>3. \A n \in Group : \E k \in lo..hi : f[k] = n
    BY DEF Group
  <2>4. f \in Bijection(lo..hi, Group)
    BY <2>1, <2>2, <2>3, Fun_IsBij
  <2>5. ExistsBijection(lo..hi, Group)
    BY <2>4 DEF ExistsBijection
  <2>6. IsFiniteSet(lo..hi) /\ Cardinality(lo..hi) = hi - lo + 1
    <3>1. lo \in Int /\ hi \in Int
      BY <1>1
    <3>2. QED
      BY <1>1, <3>1, FS_Interval
  <2>7. QED
    BY <2>5, <2>6, <1>3, FS_Bijection
<1>5. Cardinality(Seen(hi + 1)) = Cardinality(Seen(lo)) + (hi - lo + 1)
  <2>1. Cardinality(Seen(lo)) \in Nat /\ Seen(lo) \cap Group = {} /\ Cardinality({}) = 0
    BY <1>2, <1>3, FS_CardinalityType, FS_EmptySet
  <2>2. Cardinality(Seen(lo) \cup Group)
          = Cardinality(Seen(lo)) + Cardinality(Group) - Cardinality(Seen(lo) \cap Group)
    BY <1>3, FS_Union, Zenon
  <2>3. Cardinality(Seen(lo) \cap Group) = 0 /\ Seen(hi + 1) = Seen(lo) \cup Group
    BY <1>2, <2>1
  <2>4. Cardinality(Seen(hi + 1))
          = Cardinality(Seen(lo)) + Cardinality(Group) - Cardinality(Seen(lo) \cap Group)
    BY <2>2, <2>3, Zenon
  <2>5. Cardinality(Seen(hi + 1)) = Cardinality(Seen(lo)) + (hi - lo + 1) - 0
    BY <1>4, <2>3, <2>4, Zenon
  <2>6. QED
    BY <1>1, <2>1, <2>5
<1>6. Cardinality({list[n] : n \in Seen(hi + 1)}) = Cardinality({list[n] : n \in Seen(lo)}) + 1
  <2> DEFINE V == {list[n] : n \in Seen(lo)}
  <2>1. \A n \in Group : list[n] = list[recs[lo]]
    BY <1>1 DEF Group, InGroup
  <2>2. recs[lo] \in Group
    BY <1>1 DEF Group
  <2>3. {list[n] : n \in Seen(hi + 1)} = V \cup {list[recs[lo]]}
    BY <1>2, <2>1, <2>2
  <2>4. list[recs[lo]] \notin V
    BY <1>2
  <2>5. IsFiniteSet(V)
    <3> DEFINE g == [n \in Seen(lo) |-> list[n]]
    <3>1. g \in [Seen(lo) -> V] /\ \A v \in V : \E n \in Seen(lo) : g[n] = v
      OBVIOUS
    <3>2. g \in Surjection(Seen(lo), V)
      BY <3>1, Fun_IsSurj
    <3>3. QED
      BY <1>3, <3>2, FS_Surjection
  <2>6. QED
    BY <2>3, <2>4, <2>5, FS_AddElement
<1>7. QED
  BY <1>5, <1>6

LEMMA WalkStep ==
  ASSUME TypeOK, InGroup, Walk, [Next]_vars
  PROVE  Walk'
<1> USE DEF world, scan
<1>1. CASE MakeList
  BY <1>1 DEF MakeList, Walk
<1>2. CASE Ends
  BY <1>2 DEF Ends, Walk
<1>3. ASSUME NEW o \in {"ndups", "filterdups", "dedup", "dryrun"}, Start(o)
      PROVE  Walk'
  <2>1. Sorted(recs, count)'
    BY SMTT(30), <1>3 DEF Start, Sorted, Before, Listed
  <2>2. Seen(Done)' = {}
    BY <1>3 DEF Start, Seen, Done
  <2>3. Cardinality({}) = 0
    BY FS_EmptySet
  <2>4. QED
    <3>1. pc' = "scan" /\ lo' = 0 /\ told' = {} /\ dups' = [num |-> 0, cumulative |-> 0]
      BY <1>3 DEF Start
    <3>2. {list'[n] : n \in Seen(Done)'} = {} /\ {n \in Seen(Done)' : Reports(n)'} = {}
      BY <2>2
    <3>3. told' = {n \in Seen(Done)' : Reports(n)'}
      BY <3>1, <3>2
    <3>4. /\ dups'.num = Cardinality({list'[n] : n \in Seen(Done)'})
          /\ dups'.cumulative = Cardinality(Seen(Done)')
      BY <2>2, <2>3, <3>1, <3>2
    <3>5. pc' # "done" /\ ~(lo' > 0) /\ pc' \notin {"group", "delete"} /\ pc' # "delete"
      BY <3>1
    <3>6. QED
      BY <2>1, <3>3, <3>4, <3>5, Zenon DEF Walk
<1> SUFFICES ASSUME option # "none", option' # "none",
                    UNCHANGED <<list, recs, count, option, path>>
             PROVE  Walk'
  <2>1. CASE Edit \/ FindGroup \/ Single \/ Count \/ PrintGroup \/ Decide \/ Delete \/ UNCHANGED vars
    <3>1. UNCHANGED <<list, recs, count, option, path>>
      BY <2>1 DEF Edit, FindGroup, Single, Count, PrintGroup, Decide, Delete, vars
    <3>2. QED
      BY <3>1 DEF Walk
  <2>2. QED
    BY <1>1, <1>2, <1>3, <2>1 DEF Next
<1>4. Sorted(recs, count)'
  BY DEF Walk, Sorted, Before, Listed
<1>5. CASE Edit \/ UNCHANGED vars
  <2>1. UNCHANGED <<pc, lo, hi, ui, told, dups>> /\ Done' = Done
    BY <1>5 DEF Edit, vars, Done
  <2>2. QED
    BY <1>4, <2>1, Same DEF Walk
<1>6. CASE FindGroup
  <2>1. pc = "scan" /\ pc' = "group" /\ UNCHANGED <<lo, told, dups>> /\ Done' = Done
    BY <1>6 DEF FindGroup, Done
  <2>2. ASSUME hi' < count - 1 PROVE list[recs[hi']] < list[recs[hi' + 1]]
    <3>1. list[recs[hi']] = list[recs[lo]] /\ list[recs[hi' + 1]] # list[recs[lo]]
      <4>1. hi' \in hi..(count - 1) /\ hi' \in hi..hi'
        BY <1>6 DEF FindGroup, TypeOK, Index
      <4>2. QED
        BY <1>6, <2>2, <4>1 DEF FindGroup
    <3>2. hi' \in 0..(count - 1) /\ hi' + 1 \in 0..(count - 1) /\ hi' < hi' + 1
      BY SMTT(30), <1>6, <2>2, Bounds DEF FindGroup, TypeOK, Index
    <3>3. list[recs[hi']] <= list[recs[hi' + 1]]
      BY <3>2, InOrder
    <3>4. QED
      BY <3>1, <3>2, <3>3, InOrder
  <2>3. QED
    BY <1>4, <2>1, <2>2, Same DEF Walk
<1>7. CASE Single
  <2>1. NextGroup /\ pc = "group" /\ lo = hi /\ UNCHANGED <<told, dups>> /\ Done = lo
    BY <1>7 DEF Single, Done
  <2>2. Seen(Done)' = Seen(Done)
    BY <2>1, GroupPassed, GroupSeen
  <2>3. QED
    BY <1>4, <2>1, <2>2, GroupPassed, Same DEF Walk
<1>8. CASE Count
  <2>1. NextGroup /\ pc = "group" /\ option = "ndups" /\ UNCHANGED told /\ Done = lo
        /\ dups' = [num |-> dups.num + 1, cumulative |-> dups.cumulative + (hi - lo + 1)]
    BY <1>8 DEF Count, Done
  <2>2. Seen(Done)' = Seen(hi + 1)
    BY <2>1, GroupPassed
  <2>3. told' = {n \in Seen(Done)' : Reports(n)'}
    BY <2>1 DEF Walk, Reports
  <2>4. /\ dups'.num = Cardinality({list'[n] : n \in Seen(Done)'})
        /\ dups'.cumulative = Cardinality(Seen(Done)')
    BY <1>8, <2>1, <2>2, Counted DEF Walk
  <2>5. QED
    BY <1>4, <2>1, <2>3, <2>4, GroupPassed DEF Walk
<1>9. CASE PrintGroup
  <2>1. NextGroup /\ pc = "group" /\ option = "filterdups" /\ lo # hi /\ told' = told \cup Group
        /\ Done = lo
    BY <1>9 DEF PrintGroup, Done
  <2>2. Seen(Done)' = Seen(Done) \cup Group
    BY <2>1, GroupPassed, GroupSeen
  <2>3. told' = {n \in Seen(Done)' : Reports(n)'}
    BY <2>1, <2>2 DEF Walk, Reports
  <2>4. QED
    BY <1>4, <2>1, <2>3, GroupPassed DEF Walk
<1>10. CASE Decide
  <2>1. pc = "group" /\ option \in {"dedup", "dryrun"} /\ lo # hi /\ UNCHANGED told /\ Done = lo
    BY <1>10 DEF Decide, Done
  <2>2. CASE WithinPath /\ pc' = "delete" /\ ui' = lo /\ UNCHANGED <<lo, hi>>
    <3>1. Done' = Done
      BY <2>1, <2>2 DEF Done
    <3>2. QED
      BY <1>4, <2>1, <2>2, <3>1, Same DEF Walk
  <2>3. CASE ~WithinPath /\ NextGroup
    <3>1. Seen(Done)' = Seen(Done) \cup Group
      BY <2>1, <2>3, GroupPassed, GroupSeen
    <3>2. \A n \in Group : ~Reports(n)
      <4>1. \A n \in Group : Twins(n) = Group
        BY <2>1, GroupWhole DEF Group
      <4>2. QED
        BY <2>1, <2>3, <4>1 DEF Reports, WithinPath
    <3>3. told' = {n \in Seen(Done)' : Reports(n)'}
      BY <2>1, <3>1, <3>2, Same DEF Walk
    <3>4. QED
      BY <1>4, <2>1, <2>3, <3>3, GroupPassed DEF Walk
  <2>4. QED
    BY <1>10, <2>2, <2>3 DEF Decide
<1>11. CASE Delete
  <2> DEFINE r == recs[ui]
  <2>1. pc = "delete" /\ option \in {"dedup", "dryrun"} /\ lo # hi /\ Done = ui /\ ui \in lo..hi
        /\ told' = told \cup {n \in {r} : Doomed(n)}
    BY <1>11 DEF Delete, Done, Walk, InGroup
  <2>2. Seen(ui + 1) = Seen(ui) \cup {r}
    BY <2>1, GroupSeen
  <2>3. Reports(r) <=> Doomed(r)
    <3>1. Twins(r) \cap path # {}
      BY <2>1, GroupWhole DEF InGroup, WithinPath
    <3>2. QED
      BY <2>1, <3>1 DEF Reports
  <2>4. told' = {n \in Seen(ui + 1) : Reports(n)}
    BY <2>1, <2>2, <2>3 DEF Walk
  <2>5. CASE ui < hi
    <3>1. ui' = ui + 1 /\ UNCHANGED <<lo, hi, pc>> /\ Done' = ui + 1
      BY <1>11, <2>1, <2>5 DEF Delete, Done
    <3>2. QED
      BY <1>4, <2>1, <2>4, <3>1, Same DEF Walk
  <2>6. CASE ~(ui < hi)
    <3>1. NextGroup /\ ui = hi
      BY <1>11, <2>1, <2>6, Bounds DEF Delete, TypeOK, Index
    <3>2. Seen(Done)' = Seen(ui + 1)
      BY <2>1, <3>1, GroupPassed
    <3>3. told' = {n \in Seen(Done)' : Reports(n)'}
      BY <2>4, <3>2, Same
    <3>4. QED
      BY <1>4, <2>1, <3>1, <3>3, GroupPassed DEF Walk
  <2>7. QED
    BY <2>5, <2>6
<1>12. QED
  BY <1>1, <1>2, <1>3, <1>5, <1>6, <1>7, <1>8, <1>9, <1>10, <1>11 DEF Next

THEOREM WalkHolds == Spec => []Walk
<1>1. Init => Walk
  BY DEF Init, Walk
<1>2. QDedupInv /\ Walk /\ [Next]_vars => Walk'
  BY WalkStep DEF QDedupInv
<1>3. QED
  BY <1>1, <1>2, QDedupInvHolds, PTL DEF Spec

\* All the records of a finished run were dealt with.
LEMMA AllSeen ==
  ASSUME TypeOK, Walk, option # "none", pc = "done"
  PROVE  Seen(Done) = {n \in Name : HasTwin(n)}
<1>1. \A n \in Name : HasTwin(n) => \E j \in 0..(count - 1) : recs[j] = n
  BY InOrder DEF HasTwin
<1>2. QED
  BY <1>1 DEF Seen, Done

\* A finished run has reported exactly what its option promises.
THEOREM NoGroupMissed == Spec => []ToldAll
<1>1. QDedupInv /\ Walk => ToldAll
  BY AllSeen DEF QDedupInv, Walk, ToldAll
<1>2. QED
  BY QDedupInvHolds, WalkHolds, <1>1, PTL

\* What ndups prints is what its words say.
THEOREM CountsAreRight == Spec => []StatsRight
<1>1. QDedupInv /\ Walk => StatsRight
  BY AllSeen DEF QDedupInv, Walk, StatsRight
<1>2. QED
  BY QDedupInvHolds, WalkHolds, <1>1, PTL

=============================================================================
