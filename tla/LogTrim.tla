------------------------------- MODULE LogTrim -------------------------------
(***************************************************************************)
(* The log of FBO-Prime: LOG_log (phplib/log.inc), which every page calls, *)
(* and trim_log_file (standalone/mainthot.php), the half of the daily      *)
(* script that keeps the newest CONFIG_LOG_MAX_ENTRIES entries.  (The      *)
(* other half, the reaping of sessions, is in Sessions.)                   *)
(*                                                                         *)
(* The trim is a sequence of statements with nothing held between them:    *)
(* pages append meanwhile, a second run of the script may be at work, the  *)
(* script may be killed and the server restarted.  An entry is the index   *)
(* that MySQL gives it.                                                    *)
(***************************************************************************)
EXTENDS Integers, FiniteSets

CONSTANTS
  Script,      \* runs of mainthot.php that may overlap
  MaxEntries,  \* CONFIG_LOG_MAX_ENTRIES
  MaxIdx       \* bound: indices given

ASSUME LogTrimAssumption ==
  /\ MaxEntries \in Nat \ {0}
  /\ MaxIdx \in Nat

VARIABLES
  loge,      \* the table: indices of its rows
  last,      \* MySQL: the last index of the table's AUTO_INCREMENT
  pc,        \* per script: the statement of trim_log_file it comes to
  loge_max,  \* per script: $loge_max, 0 before it is known
  cut,       \* history, per script: its last DELETE succeeded
  written    \* history: indices of all rows there have been

server == <<loge, last>>
trim == <<pc, loge_max, cut>>
logVars == <<server, trim, written>>

LogInit ==
  /\ loge = {} /\ last = 0
  /\ pc = [s \in Script |-> "idle"]
  /\ loge_max = [s \in Script |-> 0]
  /\ cut = [s \in Script |-> FALSE]
  /\ written = {}
-----------------------------------------------------------------------------
\* An INSERT with the next index.  LOG_log ignores its result: if it fails it
\* may have used up an index all the same.
Insert ==
  /\ last < MaxIdx
  /\ last' = last + 1
  /\ loge' = loge \cup {last + 1}
  /\ written' = written \cup {last + 1}
InsertFails ==
  /\ last' \in {last} \cup {i \in {last + 1} : i <= MaxIdx}
  /\ UNCHANGED <<loge, written>>
LOG_log == Insert \/ InsertFails

\* Any page, and the entries of the script that are not about the trim.
Append == Insert /\ UNCHANGED trim
AppendFails == InsertFails /\ last' # last /\ UNCHANGED trim

\* The entries that trim_log_file writes between its queries.
Say(s, from, to) ==
  /\ pc[s] = from
  /\ LOG_log
  /\ pc' = [pc EXCEPT ![s] = to]
  /\ UNCHANGED <<loge_max, cut>>

Begin(s) ==
  /\ pc[s] = "idle"
  /\ LOG_log
  /\ pc' = [pc EXCEPT ![s] = "count"]
  /\ loge_max' = [loge_max EXCEPT ![s] = 0]
  /\ cut' = [cut EXCEPT ![s] = FALSE]

\* SELECT COUNT(*): an empty log, or a query that fails, ends the trim.
Count(s) ==
  /\ pc[s] = "count"
  /\ \E answered \in BOOLEAN :
       pc' = [pc EXCEPT ![s] = IF answered /\ loge # {} THEN "counted" ELSE "unexpected"]
  /\ UNCHANGED <<server, loge_max, cut, written>>

Highest == CHOOSE i \in loge : \A j \in loge : j <= i

\* SELECT MAX(idx).
Highmost(s) ==
  /\ pc[s] = "max"
  /\ \E answered \in BOOLEAN :
       IF answered /\ loge # {}
       THEN /\ loge_max' = [loge_max EXCEPT ![s] = Highest]
            /\ pc' = [pc EXCEPT ![s] = "highest"]
       ELSE /\ pc' = [pc EXCEPT ![s] = "unexpected"]
            /\ UNCHANGED loge_max
  /\ UNCHANGED <<server, cut, written>>

\* Mutants: the bound is one too high or one too low, or does not heed the limit.
OneTooFew(s) == loge_max[s] - MaxEntries + 2
OneTooMany(s) == loge_max[s] - MaxEntries
NoLimit(s) == loge_max[s] + 1
max_index(s) == loge_max[s] - MaxEntries + 1

Few(s) == max_index(s) < 2 /\ Say(s, "trim", "end")

\* DELETE FROM loge WHERE idx<...; whether it failed is not asked.
DeleteOld(s) ==
  /\ pc[s] = "trim" /\ max_index(s) >= 2
  /\ \/ /\ loge' = {i \in loge : i >= max_index(s)}
        /\ cut' = [cut EXCEPT ![s] = TRUE]
     \/ UNCHANGED <<loge, cut>>
  /\ pc' = [pc EXCEPT ![s] = "deleted"]
  /\ UNCHANGED <<last, loge_max, written>>

Step(s) ==
  \/ Begin(s)
  \/ Count(s) \/ Say(s, "counted", "max")
  \/ Highmost(s) \/ Say(s, "highest", "trim")
  \/ Few(s) \/ DeleteOld(s) \/ Say(s, "deleted", "end")
  \/ Say(s, "unexpected", "end")
  \/ Say(s, "end", "idle")

\* The script is killed.
Kill(s) ==
  /\ pc[s] # "idle"
  /\ pc' = [pc EXCEPT ![s] = "idle"]
  /\ UNCHANGED <<server, loge_max, cut, written>>

\* The server restarts: the connections of the scripts are gone, and the next
\* index is the one after the highest row.
Restart ==
  /\ last' = IF loge = {} THEN 0 ELSE Highest
  /\ pc' = [s \in Script |-> "idle"]
  /\ UNCHANGED <<loge, loge_max, cut, written>>

LogNext == Append \/ AppendFails \/ Restart \/ \E s \in Script : Step(s) \/ Kill(s)

LogSpec == LogInit /\ [][LogNext]_logVars
-----------------------------------------------------------------------------
\* An entry goes only when MaxEntries indices have been given after it, the
\* highest of them to a row that is still there, however stale the maximum is
\* that a script deletes by, and whether one script or two are at work.
RecentKept ==
  \A i \in written \ loge : \E j \in loge : i + MaxEntries <= j

\* After a DELETE that succeeded, the log is down to the limit but for what has
\* been written since the script asked for the maximum.  It stays so: no other
\* run, and no restart, brings anything back.
TrimmedToLimit ==
  \A s \in Script : cut[s] => Cardinality({i \in loge : i <= loge_max[s]}) <= MaxEntries

\* No index is given twice, not even after a restart of the server: the trim
\* always leaves the highest row.
IndexNotReused == [][(loge' \ loge) \cap written = {}]_logVars

BeforeDelete == {"count", "counted", "max", "highest", "trim"}
Place == BeforeDelete \cup {"idle", "deleted", "unexpected", "end"}

LogTypeOK ==
  /\ loge \subseteq 1 .. last /\ last \in 0 .. MaxIdx
  /\ pc \in [Script -> Place]
  /\ loge_max \in [Script -> 0 .. MaxIdx]
  /\ cut \in [Script -> BOOLEAN]
  /\ written \subseteq 1 .. MaxIdx
-----------------------------------------------------------------------------
\* The argument, as an inductive invariant.
Given == loge \subseteq written /\ written \subseteq 1 .. last

\* The maximum that a script works with was once the index of a row, stale as
\* it may be; 0 makes it delete nothing.
MaximumGiven == \A s \in Script : loge_max[s] # 0 => loge_max[s] \in written

\* What a successful DELETE has left of the rows up to that maximum.
CutHolds ==
  \A s \in Script :
    /\ pc[s] \in BeforeDelete => ~cut[s]
    /\ cut[s] => \A i \in loge : i <= loge_max[s] => i >= max_index(s)

LogInv == LogTypeOK /\ Given /\ MaximumGiven /\ CutHolds /\ RecentKept
=============================================================================
