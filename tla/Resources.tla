------------------------------ MODULE Resources ------------------------------
(***************************************************************************)
(* The resource table rscs and the pages that change it: resourceedit.php  *)
(* over RSCS_modify_record, resourceadd.php over RSCS_insert and           *)
(* resourcerenumber.php over RSCS_renumber_disporder_autointerval          *)
(* (phplib/rscs.inc, phplib/rscsx.inc).                                    *)
(*                                                                         *)
(* An editing page shows a row with its crmodsguid in a hidden field; the  *)
(* commit comes later, or twice, or after others have changed the row.  A  *)
(* process is one browser and the httpd process that serves it, which may  *)
(* die at any point; the browser then still has its form.  The lock is the *)
(* abstract one that DbLock implements, an SGUID a number never handed out *)
(* before (FreshIds, which Sguid implements).                              *)
(***************************************************************************)
EXTENDS Integers, Sequences, FiniteSets

CONSTANTS
  Proc,         \* browsers with the processes that serve them
  None,         \* no process
  Text,         \* descriptions, restrictions and the other fields without order
  Edits,        \* field values users type; disporder is any non-negative number
  FirstRows,    \* the fields of the rows there are at the start
  Interval,     \* renumber_interval (100 in the code)
  MaxRows,      \* bound: rows in the table
  MaxSguid      \* bound: SGUIDs handed out

Status == 0..1
Fields == [disporder : Nat, status : Status, text : Text]

ASSUME ResourcesAssumption ==
  /\ None \notin Proc
  /\ Edits \subseteq Fields
  /\ Interval \in Nat \ {0}
  /\ MaxRows \in Nat
  /\ MaxSguid \in Nat
  /\ FirstRows \in Seq(Fields)
  /\ Len(FirstRows) \in 1..MaxRows

VARIABLES
  rscs,    \* the table: per idx, its fields and its crmodsguid
  size,    \* how many rows it has; no code deletes one
  owner,   \* the process in the critical section
  sguids,  \* how many SGUIDs have been handed out
  pc,      \* per process: where it is
  idx,     \* per process: the row its form or its renumbering is at
  hidden,  \* per process: crmodsguid in the form
  shown,   \* history: the row as it was when the form was displayed
  posted,  \* per process: the fields posted
  new,     \* per process: $new_sguid
  indices  \* per process: the rows in display order, as the renumbering read them

form == <<idx, hidden, shown, posted>>
vars == <<rscs, size, owner, sguids, pc, form, new, indices>>

Lock == INSTANCE Mutex WITH holder <- owner

Record == [fields : Fields, crmodsguid : Nat]

\* ORDER BY disporder ASC, status DESC, idx ASC
Precedes(r, s) ==
  LET a == rscs[r].fields
      b == rscs[s].fields
  IN  \/ a.disporder < b.disporder
      \/ a.disporder = b.disporder /\ a.status > b.status
      \/ a.disporder = b.disporder /\ a.status = b.status /\ r < s

Rank(r) == 1 + Cardinality({s \in 1..size : Precedes(s, r)})

InDisplayOrder == [k \in 1..size |-> CHOOSE r \in 1..size : Rank(r) = k]

Init ==
  /\ size = Len(FirstRows)
  /\ rscs = [r \in 1..size |-> [fields |-> FirstRows[r], crmodsguid |-> r]]
  /\ owner = None
  /\ sguids = size
  /\ pc = [p \in Proc |-> "idle"]
  /\ idx = [p \in Proc |-> 1]
  /\ hidden = [p \in Proc |-> 0]
  /\ shown = [p \in Proc |-> rscs[1]]
  /\ posted = [p \in Proc |-> FirstRows[1]]
  /\ new = [p \in Proc |-> 0]
  /\ indices = [p \in Proc |-> <<>>]

\* Where a commit and a renumbering may be.
Editing == {"posted", "compare", "update", "leave"}
Renumbering == {"select", "loop", "renumbered"}

\* MySQL lets a statement pass unless another process holds the lock.
MayQuery(p) == owner \in {None, p}

GoTo(p, label) == pc' = [pc EXCEPT ![p] = label]

\* The variables of a script go with it; a form stays in its browser.
ForgetScript(p) ==
  /\ posted' = [posted EXCEPT ![p] = FirstRows[1]]
  /\ new' = [new EXCEPT ![p] = 0]
  /\ indices' = [indices EXCEPT ![p] = <<>>]
  /\ idx' = [idx EXCEPT ![p] = IF pc[p] \in Editing THEN @ ELSE 1]
  /\ UNCHANGED <<hidden, shown>>
-----------------------------------------------------------------------------
\* resourceedit.php without the commit button: show the row and its crmodsguid.
Display(p) ==
  /\ pc[p] \in {"idle", "form"}
  /\ MayQuery(p)
  /\ \E r \in 1..size :
       /\ idx' = [idx EXCEPT ![p] = r]
       /\ hidden' = [hidden EXCEPT ![p] = rscs[r].crmodsguid]
       /\ shown' = [shown EXCEPT ![p] = rscs[r]]
  /\ GoTo(p, "form")
  /\ UNCHANGED <<rscs, size, owner, sguids, posted, new, indices>>

\* A commit that the field checks reject: the form comes back.  Mutant: with the
\* crmodsguid of the row the page has just read.
FreshStamp(p) == rscs[idx[p]].crmodsguid
RedisplayedStamp(p) == hidden[p]

Redisplay(p) ==
  /\ pc[p] = "form"
  /\ MayQuery(p)
  /\ hidden' = [hidden EXCEPT ![p] = RedisplayedStamp(p)]
  /\ UNCHANGED <<rscs, size, owner, sguids, pc, idx, shown, posted, new, indices>>

\* A commit that they accept; RSCS_modify_record gets its SGUID before the lock.
Post(p) ==
  /\ pc[p] = "form"
  /\ sguids < MaxSguid
  /\ \E f \in Edits : posted' = [posted EXCEPT ![p] = f]
  /\ sguids' = sguids + 1
  /\ new' = [new EXCEPT ![p] = sguids + 1]
  /\ GoTo(p, "posted")
  /\ UNCHANGED <<rscs, size, owner, idx, hidden, shown, indices>>

EnterModify(p) ==
  /\ pc[p] = "posted"
  /\ Lock!Acquire(p)
  /\ GoTo(p, "compare")
  /\ UNCHANGED <<rscs, size, sguids, form, new, indices>>

\* The test for an editing collision.  Mutant: no test.
NeverCollides(p) == FALSE
Collides(p) == rscs[idx[p]].crmodsguid # hidden[p]

Compare(p) ==
  /\ pc[p] = "compare"
  /\ GoTo(p, IF Collides(p) THEN "leave" ELSE "update")
  /\ UNCHANGED <<rscs, size, owner, sguids, form, new, indices>>

CommitStamp(p) == new[p]

Update(p) ==
  /\ pc[p] = "update"
  /\ rscs' = [rscs EXCEPT ![idx[p]] =
                [fields |-> posted[p], crmodsguid |-> CommitStamp(p)]]
  /\ GoTo(p, "leave")
  /\ UNCHANGED <<size, owner, sguids, form, new, indices>>

\* The end of either critical section.
Leave(p) ==
  /\ pc[p] \in {"leave", "renumbered"}
  /\ Lock!Release(p)
  /\ GoTo(p, IF pc[p] = "leave" THEN "form" ELSE "idle")
  /\ ForgetScript(p)
  /\ UNCHANGED <<rscs, size, sguids>>
-----------------------------------------------------------------------------
\* resourceadd.php: one INSERT, outside any critical section.
Insert(p) ==
  /\ pc[p] = "idle"
  /\ MayQuery(p)
  /\ size < MaxRows
  /\ sguids < MaxSguid
  /\ \E f \in Edits :
       rscs' = [r \in 1..(size + 1) |->
                  IF r <= size THEN rscs[r]
                  ELSE [fields |-> f, crmodsguid |-> sguids + 1]]
  /\ size' = size + 1
  /\ sguids' = sguids + 1
  /\ UNCHANGED <<owner, pc, form, new, indices>>
-----------------------------------------------------------------------------
\* resourcerenumber.php.  Mutant: without the lock.
EnterUnlocked(p) == UNCHANGED owner
EnterRenumber(p) == Lock!Acquire(p)

BeginRenumber(p) ==
  /\ pc[p] = "idle"
  /\ EnterRenumber(p)
  /\ GoTo(p, "select")
  /\ UNCHANGED <<rscs, size, sguids, form, new, indices>>

SelectIndices(p) ==
  /\ pc[p] = "select"
  /\ indices' = [indices EXCEPT ![p] = InDisplayOrder]
  /\ idx' = [idx EXCEPT ![p] = size]
  /\ GoTo(p, "loop")
  /\ UNCHANGED <<rscs, size, owner, sguids, hidden, shown, posted, new>>

RenumberStamp(p) == sguids + 1

\* Mutant: numbers one too low.
FromZero(k) == (k - 1) * Interval
NewNumber(k) == k * Interval

\* One turn of the loop, from the last row to the first.
RenumberRow(p) ==
  /\ pc[p] = "loop"
  /\ idx[p] > 0
  /\ sguids < MaxSguid
  /\ rscs' = [rscs EXCEPT ![indices[p][idx[p]]] =
                [fields |-> [@.fields EXCEPT !.disporder = NewNumber(idx[p])],
                 crmodsguid |-> RenumberStamp(p)]]
  /\ sguids' = sguids + 1
  /\ idx' = [idx EXCEPT ![p] = @ - 1]
  /\ UNCHANGED <<size, owner, pc, hidden, shown, posted, new, indices>>

EndRenumber(p) ==
  /\ pc[p] = "loop"
  /\ idx[p] = 0
  /\ GoTo(p, "renumbered")
  /\ UNCHANGED <<rscs, size, owner, sguids, form, new, indices>>

\* The process dies, in a critical section or before it; MySQL gives up its lock.
Die(p) ==
  /\ pc[p] \in Editing \cup Renumbering
  /\ GoTo(p, IF pc[p] \in Editing THEN "form" ELSE "idle")
  /\ owner' = IF owner = p THEN None ELSE owner
  /\ ForgetScript(p)
  /\ UNCHANGED <<rscs, size, sguids>>

Next == \E p \in Proc :
  \/ Display(p) \/ Redisplay(p) \/ Post(p) \/ EnterModify(p) \/ Compare(p)
  \/ Update(p) \/ Leave(p) \/ Insert(p) \/ BeginRenumber(p) \/ SelectIndices(p)
  \/ RenumberRow(p) \/ EndRenumber(p) \/ Die(p)

Spec == Init /\ [][Next]_vars
-----------------------------------------------------------------------------
InSection(p) == pc[p] \in {"compare", "update", "leave"} \cup Renumbering
HasForm(p) == pc[p] \in {"form"} \cup Editing

TypeOK ==
  /\ size \in 1..MaxRows
  /\ rscs \in [1..size -> Record]
  /\ owner \in Proc \cup {None}
  /\ sguids \in Nat
  /\ pc \in [Proc -> {"idle", "form"} \cup Editing \cup Renumbering]
  /\ idx \in [Proc -> 0..MaxRows]
  /\ hidden \in [Proc -> Nat]
  /\ shown \in [Proc -> Record]
  /\ posted \in [Proc -> Fields]
  /\ new \in [Proc -> Nat]

\* No HTTP editing collision goes unnoticed (manual, "Mutual Exclusion and
\* Database and Table Locking"): a commit replaces exactly the row its user was
\* shown, never one that another commit or a renumbering has changed since.
NoLostUpdate ==
  [][\A p \in Proc : pc[p] = "update" /\ pc'[p] = "leave" =>
       rscs[idx[p]] = shown[p]]_vars

\* A row changes only in a critical section, and its crmodsguid then grows,
\* although a commit gets its SGUID before it gets the lock.
StampsGrow ==
  [][\A r \in 1..size : rscs'[r] # rscs[r] =>
       owner # None /\ rscs'[r].crmodsguid > rscs[r].crmodsguid]_vars

\* A renumbering that reaches its end has numbered every row of the table by
\* its interval, in the display order the table had when it began: no row was
\* inserted or edited on the way.
RenumberComplete ==
  \A p \in Proc : pc[p] = "renumbered" =>
    /\ DOMAIN indices[p] = 1..size
    /\ \A k \in 1..size : rscs[indices[p][k]].fields.disporder = k * Interval
    /\ InDisplayOrder = indices[p]

\* rscsx.inc:1271, "We loop backwards to avoid changing resource order in the
\* event that the httpd process dies in the middle of this": no turn of the loop
\* changes the display order.
OrderSurvivesDeath ==
  [][(\E p \in Proc : RenumberRow(p)) => InDisplayOrder' = InDisplayOrder]_vars
-----------------------------------------------------------------------------
\* Strengthening of NoLostUpdate and StampsGrow that every step preserves: equal
\* stamps mean equal rows, and what a commit is about to do is still justified.
OneInSection == \A p \in Proc : InSection(p) => owner = p

StampTellsRow ==
  \A p \in Proc : HasForm(p) =>
    /\ idx[p] \in 1..size
    /\ hidden[p] = shown[p].crmodsguid
    /\ rscs[idx[p]].crmodsguid >= hidden[p]
    /\ rscs[idx[p]].crmodsguid = hidden[p] => rscs[idx[p]] = shown[p]

StampsHandedOut ==
  /\ \A r \in 1..size : rscs[r].crmodsguid <= sguids
  /\ \A p \in Proc : pc[p] \in Editing =>
       new[p] <= sguids /\ hidden[p] < new[p]

UpdateJustified ==
  \A p \in Proc : pc[p] = "update" => rscs[idx[p]].crmodsguid = hidden[p]

ResourcesInv ==
  /\ TypeOK
  /\ OneInSection
  /\ StampTellsRow
  /\ StampsHandedOut
  /\ UpdateJustified
=============================================================================
