------------------------------- MODULE QDedup --------------------------------
(***************************************************************************)
(* qdedup.c, which removes duplicate files from a file tree by a list of   *)
(* SHA-512 hashes that "find -exec sha512sum" made before.  Each           *)
(* invocation reads the list, sorts it by hash and, in a group of equal    *)
(* hashes, by name, and walks over the groups; dedup_preserve_inside       *)
(* unlinks the names of a group that do not begin with a path, provided    *)
(* that some name of the group does.  The program may be stopped at any    *)
(* moment (its pauses are there for that), an unlink may fail, files are   *)
(* changed by others, and nothing makes the user renew the list.           *)
(*                                                                         *)
(* A hash stands for the content it was made of.  A malformed list, a path *)
(* without its final slash and exhausted memory end the program before it  *)
(* touches a file, as does a build in which the missing return statements  *)
(* of w_malloc and w_realloc matter; like a stop at that point.            *)
(***************************************************************************)
EXTENDS Integers, FiniteSets

CONSTANTS
  Name,     \* file names as they stand in a list, in strcmp's order
  Place,    \* the file each of them denotes: a file may have several names
  Content,  \* contents, in the order of their hashes
  Path,     \* path arguments, each given as the set of names that begin with it
  NoFile,   \* no content
  MaxRuns,  \* bound: invocations
  MaxEdits  \* bound: changes that others make

File == {Place[n] : n \in Name}

ASSUME QDedupAssumption ==
  /\ Name \subseteq Int /\ IsFiniteSet(Name)
  /\ Content \subseteq Int
  /\ Place = [n \in Name |-> Place[n]]
  /\ Path \subseteq SUBSET Name
  /\ NoFile \notin Content
  /\ MaxRuns \in Nat
  /\ MaxEdits \in Nat

VARIABLES
  disk,   \* the content of each file, or NoFile
  list,   \* the SHA-512 file: the content each name had, NoFile if it is not listed
  fresh,  \* history: the list tells of different files, and nothing but the run
          \* that is going on has changed any of them since
  option, \* what the program does: "ndups", "filterdups", "dedup" or "dryrun"
          \* (..._preserve_inside), "none" when it does not run
  pc,     \* where it is
  path,   \* its path argument
  recs,   \* parsed_recs, as the names in it
  count,  \* how many they are
  lo, hi, \* i_group_min, i_group_max
  ui,     \* the record of the group it has come to
  told,   \* the names it printed as duplicates or as being deleted
  dups,   \* *out_num_dups and *out_cumulative_dups
  runs,   \* what is left of MaxRuns
  edits   \* what is left of MaxEdits

world == <<disk, list, fresh>>
scan == <<lo, hi, ui, told, dups>>
vars == <<world, option, pc, path, recs, count, scan, runs, edits>>

Listed == {n \in Name : list[n] # NoFile}

Init ==
  /\ disk \in [File -> Content]
  /\ list = [n \in Name |-> NoFile]
  /\ fresh = FALSE
  /\ option = "none"
  /\ pc = "done"
  /\ path = {}
  /\ recs = <<>>
  /\ count = 0
  /\ lo = 0 /\ hi = 0 /\ ui = 0
  /\ told = {}
  /\ dups = [num |-> 0, cumulative |-> 0]
  /\ runs = MaxRuns
  /\ edits = MaxEdits
-----------------------------------------------------------------------------
\* find and sha512sum make a list of some of the files that exist; when several
\* trees are searched, a file may be listed under more than one name.
MakeList ==
  /\ option = "none"
  /\ \E names \in SUBSET {n \in Name : disk[Place[n]] # NoFile} :
       /\ list' = [n \in Name |-> IF n \in names THEN disk[Place[n]] ELSE NoFile]
       /\ fresh' = \A n, m \in names : n # m => Place[n] # Place[m]
  /\ UNCHANGED <<disk, option, pc, path, recs, count, scan, runs, edits>>

\* Somebody changes, adds or removes a file.
Edit ==
  /\ edits > 0
  /\ edits' = edits - 1
  /\ \E f \in File, c \in Content \cup {NoFile} : disk' = [disk EXCEPT ![f] = c]
  /\ fresh' = FALSE
  /\ UNCHANGED <<list, option, pc, path, recs, count, scan, runs>>
-----------------------------------------------------------------------------
\* Mutant: the list is sorted by name alone.
ByName(n, m) == n < m
\* sortcmpascendinghash, and sortcmpascendingfname for equal hashes.
Before(n, m) == list[n] < list[m] \/ (list[n] = list[m] /\ n < m)

\* sortinternaldsbyhash and sortinternalgroupfname.
Sorted(r, k) ==
  /\ r \in [0..(k - 1) -> Listed]
  /\ \A n \in Listed : \E i \in 0..(k - 1) : r[i] = n
  /\ \A i, j \in 0..(k - 1) : i < j => Before(r[i], r[j])

Start(o) ==
  /\ option = "none"
  /\ runs > 0
  /\ Listed # {}
  /\ runs' = runs - 1
  /\ option' = o
  /\ path' \in IF o \in {"dedup", "dryrun"} THEN Path ELSE {{}}
  /\ count' = Cardinality(Listed)
  /\ recs' \in {r \in [0..(count' - 1) -> Listed] : Sorted(r, count')}
  /\ pc' = "scan"
  /\ lo' = 0 /\ hi' = 0 /\ ui' = 0
  /\ told' = {}
  /\ dups' = [num |-> 0, cumulative |-> 0]
  /\ UNCHANGED <<world, edits>>

\* The loop that advances i_group_max to the end of the group.
FindGroup ==
  /\ pc = "scan"
  /\ hi' \in hi..(count - 1)
  /\ \A k \in hi..hi' : list[recs[k]] = list[recs[lo]]
  /\ hi' < count - 1 => list[recs[hi' + 1]] # list[recs[lo]]
  /\ pc' = "group"
  /\ UNCHANGED <<world, option, path, recs, count, lo, ui, told, dups, runs, edits>>

Group == {recs[k] : k \in lo..hi}

\* Mutant: the last group is not looked at.
StopsEarly == hi + 2 < count - 1
MoreGroups == hi + 1 < count - 1

\* On to the next group.
NextGroup ==
  /\ lo' = hi + 1
  /\ hi' = hi + 1
  /\ pc' = IF MoreGroups THEN "scan" ELSE "done"

\* A record of its own.
Single ==
  /\ pc = "group"
  /\ lo = hi
  /\ NextGroup
  /\ UNCHANGED <<world, option, path, recs, count, ui, told, dups, runs, edits>>

\* gather_dup_stats, for ndups.
Count ==
  /\ pc = "group"
  /\ lo # hi
  /\ option = "ndups"
  /\ dups' = [num |-> dups.num + 1, cumulative |-> dups.cumulative + (hi - lo + 1)]
  /\ NextGroup
  /\ UNCHANGED <<world, option, path, recs, count, ui, told, runs, edits>>

\* option_filterdups.
PrintGroup ==
  /\ pc = "group"
  /\ lo # hi
  /\ option = "filterdups"
  /\ told' = told \cup Group
  /\ NextGroup
  /\ UNCHANGED <<world, option, path, recs, count, ui, dups, runs, edits>>

\* Mutant: the path is not asked for.
AnyGroup == TRUE
WithinPath == Group \cap path # {}

\* option_dedup counts the names within the path: with none, nothing is deleted.
Decide ==
  /\ pc = "group"
  /\ lo # hi
  /\ option \in {"dedup", "dryrun"}
  /\ \/ /\ WithinPath
        /\ pc' = "delete"
        /\ ui' = lo
        /\ UNCHANGED <<lo, hi>>
     \/ /\ ~WithinPath
        /\ NextGroup
        /\ UNCHANGED ui
  /\ UNCHANGED <<world, option, path, recs, count, told, dups, runs, edits>>

Doomed(n) == n \notin path

\* One record of the group: a name within the path is left alone, the others
\* are unlinked, which may fail and always does when the file is gone.
Delete ==
  /\ pc = "delete"
  /\ IF Doomed(recs[ui])
     THEN /\ told' = told \cup {recs[ui]}
          /\ \/ option = "dedup" /\ disk' = [disk EXCEPT ![Place[recs[ui]]] = NoFile]
             \/ UNCHANGED disk
     ELSE UNCHANGED <<told, disk>>
  /\ IF ui < hi
     THEN ui' = ui + 1 /\ UNCHANGED <<lo, hi, pc>>
     ELSE NextGroup /\ UNCHANGED ui
  /\ UNCHANGED <<list, fresh, option, path, recs, count, dups, runs, edits>>

\* The program ends, or is stopped; a list of which it deleted a file is stale.
Ends ==
  /\ option # "none"
  /\ option' = "none"
  /\ pc' = "done"
  /\ fresh' = (fresh /\ \A n \in Listed : disk[Place[n]] # NoFile)
  /\ UNCHANGED <<disk, list, path, recs, count, scan, runs, edits>>

Next ==
  \/ MakeList \/ Edit
  \/ \E o \in {"ndups", "filterdups", "dedup", "dryrun"} : Start(o)
  \/ FindGroup \/ Single \/ Count \/ PrintGroup \/ Decide \/ Delete
  \/ Ends

Spec == Init /\ [][Next]_vars
-----------------------------------------------------------------------------
Index == 0..Cardinality(Name)

TypeOK ==
  /\ disk \in [File -> Content \cup {NoFile}]
  /\ list \in [Name -> Content \cup {NoFile}]
  /\ fresh \in BOOLEAN
  /\ option \in {"none", "ndups", "filterdups", "dedup", "dryrun"}
  /\ pc \in {"scan", "group", "delete", "done"}
  /\ path \in SUBSET Name
  /\ count \in Index
  /\ recs \in [0..(count - 1) -> Name]
  /\ lo \in Index /\ hi \in Index /\ ui \in Index
  /\ told \in SUBSET Name
  /\ dups \in [num : Nat, cumulative : Nat]
  /\ runs \in 0..MaxRuns
  /\ edits \in 0..MaxEdits

\* A run that acts on a list that is still true takes nothing from the files
\* within the path, and from the others only what a file within the path holds.
Kept(n) == disk[Place[n]] = list[n]
ListHolds ==
  fresh =>
    /\ \A n, m \in Listed : n # m => Place[n] # Place[m]
    /\ option = "none" => \A n \in Listed : Kept(n)
    /\ \A n \in Listed \cap path : Kept(n)
    /\ \A n \in Listed :
         \/ Kept(n)
         \/ disk[Place[n]] = NoFile /\ \E m \in Listed \cap path : list[m] = list[n]

\* While the records are deleted, they are the names of one hash, and one of
\* them is within the path.
InGroup ==
  /\ option = "none" => pc = "done"
  /\ option # "none" =>
      /\ recs \in [0..(count - 1) -> Listed]
      /\ pc = "scan" => lo = hi /\ hi < count
      /\ pc \in {"group", "delete"} =>
           /\ lo <= hi /\ hi < count
           /\ \A k \in lo..hi : list[recs[k]] = list[recs[lo]]
      /\ pc = "delete" => ui \in lo..hi /\ WithinPath

\* The type and the inductive invariant.
QDedupInv == TypeOK /\ InGroup /\ ListHolds

\* "The program will never knowingly delete the last copy of a file": as long
\* as the list was true when the run began, there is still a file for every
\* content in it, wherever the run is stopped and whichever unlinks fail.
NothingLost ==
  fresh => \A n \in Listed : \E m \in Listed : list[m] = list[n] /\ Kept(m)

Twins(n) == {m \in Listed : list[m] = list[n]}
HasTwin(n) == n \in Listed /\ Twins(n) # {n}

\* The options' promises for a name with a twin.
Reports(n) ==
  \/ option = "filterdups"
  \/ option \in {"dedup", "dryrun"} /\ Doomed(n) /\ Twins(n) \cap path # {}

\* A run that gets to the end of its list has reported, and tried to delete,
\* exactly the names that it should: no group is skipped, none is split.
ToldAll ==
  option # "none" /\ pc = "done" => told = {n \in Name : HasTwin(n) /\ Reports(n)}

\* What ndups prints are the numbers of contents with several names and of the
\* names that have them.
StatsRight ==
  option = "ndups" /\ pc = "done" =>
    /\ dups.num = Cardinality({list[n] : n \in {m \in Name : HasTwin(m)}})
    /\ dups.cumulative = Cardinality({n \in Name : HasTwin(n)})
=============================================================================
