-------------------------------- MODULE Users --------------------------------
(***************************************************************************)
(* The accounts of FBO-Prime: USRS_record_add_modify (phplib/usrsx.inc),   *)
(* the one function that adds rows to the table usrs, as a client of the   *)
(* database lock: each of its queries is a statement of DbLock, and its    *)
(* callers may be in a critical section of their own already.              *)
(*                                                                         *)
(* Any of its queries may fail while the script goes on.  The functions    *)
(* of usrs.inc answer FALSE both when a query fails and when there is no   *)
(* such row.  Modification, which is unfinished, always ends in an error.  *)
(***************************************************************************)
EXTENDS DbLock, Sequences

CONSTANTS
  Userid,   \* userids, as they are after lower-casing and trimming
  Absent,   \* no userid in the record passed
  Record,   \* records passed that are legal, with the action
  MaxRows   \* bound: rows of the table

\* Whether there is an idx, whose value makes no difference, and the userid if there
\* is one.
ASSUME UsersAssumption ==
  /\ Absent \notin Userid /\ MaxRows \in Nat
  /\ Record \subseteq [action : {"A", "M"}, idx : BOOLEAN, userid : {Absent} \cup Userid]

VARIABLES
  usrs,     \* the table: the userid of each row, in the order of idx
  own,      \* per process: sections of the page's own that it is in
  stage,    \* per process: the query of USRS_record_add_modify it comes to
  rec,      \* per process: $action_in and $rec_in
  result,   \* per process: $result_code_out
  errors,   \* per process: $errors_out_local is set
  lastId,   \* MySQL, per process: LAST_INSERT_ID of its connection
  blind     \* history: a LOCK TABLES or a test for a userid has failed

call == <<stage, rec, result, errors, lastId>>
usersVars == <<vars, usrs, own, call, blind>>

NoRecord == [action |-> "A", idx |-> FALSE, userid |-> Absent]

UsersInit ==
  /\ Init
  /\ usrs = <<>>
  /\ own = [p \in Proc |-> 0]
  /\ stage = [p \in Proc |-> "none"]
  /\ rec = [p \in Proc |-> NoRecord]
  /\ result = [p \in Proc |-> 0]
  /\ errors = [p \in Proc |-> FALSE]
  /\ lastId = [p \in Proc |-> 0]
  /\ blind = FALSE
-----------------------------------------------------------------------------
Goto(p, s) == stage' = [stage EXCEPT ![p] = s]
Fails(p) == errors' = [errors EXCEPT ![p] = TRUE]

Exists(u) == \E i \in 1 .. Len(usrs) : usrs[i] = u

\* Mutant: the test that the userid is free is made before the lock is asked for.
CallTestsFirst(p, r) ==
  /\ stage[p] = "none" /\ steps[p] >= 3
  /\ EnterSection(p)
  /\ Goto(p, IF Exists(r.userid) THEN "leave" ELSE "insert")
  /\ r.userid # Absent
  /\ rec' = [rec EXCEPT ![p] = r]
  /\ UNCHANGED <<usrs, own, result, errors, lastId, blind>>
\* A call past the first checks, which refuse an illegal action, idx or userid and
\* touch nothing.  A script has steps left for the statements of a call (a bound).
Call(p, r) ==
  /\ stage[p] = "none" /\ steps[p] >= 3
  /\ EnterSection(p)
  /\ Goto(p, "test")
  /\ rec' = [rec EXCEPT ![p] = r]
  /\ UNCHANGED <<usrs, own, result, errors, lastId, blind>>

\* Errors that need no query: an idx or no userid for an account to be added,
\* neither for one to be modified.
Incomplete(p) ==
  /\ script[p] = "run" /\ stage[p] = "test"
  /\ IF rec[p].action = "A" THEN rec[p].idx \/ rec[p].userid = Absent
                            ELSE ~rec[p].idx /\ rec[p].userid = Absent
  /\ Fails(p) /\ Goto(p, "leave")
  /\ UNCHANGED <<vars, usrs, own, rec, result, lastId, blind>>

\* The test that the userid of a new account is free.
TestFree(p) ==
  /\ stage[p] = "test"
  /\ rec[p].action = "A" /\ ~rec[p].idx /\ rec[p].userid # Absent
  /\ Statement(p)
  /\ \E answered \in BOOLEAN :
       /\ blind' = (blind \/ ~answered)
       /\ IF answered /\ Exists(rec[p].userid)
          THEN Fails(p) /\ Goto(p, "leave")
          ELSE Goto(p, "insert") /\ UNCHANGED errors
  /\ UNCHANGED <<usrs, own, rec, result, lastId>>

\* A modification, which never finds what it looks for.  Given an idx, the code
\* searches the userids, which begin with a letter, for it; given a userid, it takes
\* the idx it gets, a string, for the record, and a digit of it for the stamp.
FindModified(p) ==
  /\ stage[p] = "test"
  /\ rec[p].action = "M" /\ (rec[p].idx \/ rec[p].userid # Absent)
  /\ Statement(p)
  /\ Fails(p) /\ Goto(p, "leave")
  /\ UNCHANGED <<usrs, own, rec, result, lastId, blind>>

InsertUser(p) ==
  /\ stage[p] = "insert"
  /\ Statement(p)
  /\ \E inserted \in BOOLEAN :
       IF inserted /\ Len(usrs) < MaxRows
       THEN /\ usrs' = Append(usrs, rec[p].userid)
            /\ lastId' = [lastId EXCEPT ![p] = Len(usrs) + 1]
            /\ Goto(p, "index") /\ UNCHANGED result
       ELSE /\ result' = [result EXCEPT ![p] = 0]
            /\ Goto(p, "leave") /\ UNCHANGED <<usrs, lastId>>
  /\ UNCHANGED <<own, rec, errors, blind>>

\* Mutant: SELECT MAX(idx).
HighestIdx(p) ==
  /\ script[p] = "run" /\ stage[p] = "index"
  /\ result' = [result EXCEPT ![p] = Len(usrs)]
  /\ Goto(p, "leave")
  /\ UNCHANGED <<vars, usrs, own, rec, errors, lastId, blind>>
\* SELECT LAST_INSERT_ID() of its own connection.
LastInsertId(p) ==
  /\ script[p] = "run" /\ stage[p] = "index"
  /\ \E answered \in BOOLEAN :
       result' = [result EXCEPT ![p] = IF answered THEN lastId[p] ELSE 0]
  /\ Goto(p, "leave")
  /\ UNCHANGED <<vars, usrs, own, rec, errors, lastId, blind>>

\* The answer is given to the caller, and the variables of the call are gone.
Answer(p) == IF errors[p] THEN 0 ELSE result[p]
Forget(p) ==
  /\ rec' = [rec EXCEPT ![p] = NoRecord]
  /\ result' = [result EXCEPT ![p] = 0]
  /\ errors' = [errors EXCEPT ![p] = FALSE]

\* Mutant: the database is not unlocked after an error.
ReturnEarly(p) ==
  /\ stage[p] = "leave"
  /\ IF errors[p] THEN script[p] = "run" /\ UNCHANGED vars ELSE LeaveSection(p)
  /\ Goto(p, "none") /\ Forget(p)
  /\ UNCHANGED <<usrs, own, lastId, blind>>
Return(p) ==
  /\ stage[p] = "leave"
  /\ LeaveSection(p)
  /\ Goto(p, "none") /\ Forget(p)
  /\ UNCHANGED <<usrs, own, lastId, blind>>
-----------------------------------------------------------------------------
\* LOCK TABLES fails; the flag is set all the same.
LockFails(p) ==
  /\ script[p] = "wait" /\ owner # p
  /\ script' = [script EXCEPT ![p] = "run"]
  /\ dblocked' = [dblocked EXCEPT ![p] = TRUE]
  /\ touched' = [touched EXCEPT ![p] = @ /\ depth[p] > 1]
  /\ LeaveQueue(p)
  /\ blind' = TRUE
  /\ UNCHANGED <<dbhandle, saved, depth, steps, owner, usrs, own, call>>

\* What the script does outside the function: the page, with sections of its own.
Page(p) ==
  /\ stage[p] = "none"
  /\ \/ EnterSection(p) /\ own' = [own EXCEPT ![p] = @ + 1]
     \/ own[p] > 0 /\ LeaveSection(p) /\ own' = [own EXCEPT ![p] = @ - 1]
     \/ (StartScript(p) \/ Connect(p) \/ Close(p)) /\ UNCHANGED own
  /\ UNCHANGED <<usrs, call, blind>>

\* The steps of MySQL, of the end of a script and of the wait for the lock.
Lock(p) ==
  /\ Locked(p) \/ Grant(p)
  /\ UNCHANGED <<usrs, own, call, blind>>
Stop(p) ==
  /\ Abort(p) \/ Kill(p) \/ Finish(p)
  /\ Goto(p, "none") /\ Forget(p)
  /\ lastId' = [lastId EXCEPT ![p] = 0]
  /\ own' = [own EXCEPT ![p] = 0]
  /\ UNCHANGED <<usrs, blind>>

Query(p) ==
  \/ Incomplete(p) \/ TestFree(p) \/ FindModified(p)
  \/ InsertUser(p) \/ LastInsertId(p) \/ Return(p)

UsersNext ==
  \E p \in Proc :
    \/ \E r \in Record : Call(p, r)
    \/ Query(p) \/ Lock(p) \/ LockFails(p) \/ Page(p) \/ Stop(p)

UsersSpec == UsersInit /\ [][UsersNext]_usersVars
-----------------------------------------------------------------------------
\* "Must be globally unique, otherwise an error will be returned and the record
\* won't be added" (usrsx.inc:969), whatever fails.
UseridsUnique == \A i, j \in 1 .. Len(usrs) : usrs[i] = usrs[j] => i = j

\* What the code does give: no userid has two accounts unless a LOCK TABLES or the
\* test for a userid has failed.  The lock makes one step of the test and the
\* INSERT, from within a larger section, too.
UniqueUnlessBlind == ~blind => UseridsUnique

\* The index returned for an account that was to be added is that of an account
\* with its userid, and not one left from an earlier call over the connection.
IndexIsMine ==
  \A p \in Proc :
    stage[p] = "leave" /\ rec[p].action = "A" /\ Answer(p) > 0 =>
      usrs[Answer(p)] = rec[p].userid

\* Every path through a call leaves the one section that it entered, and no other:
\* a call that finds an error does not keep the lock, nor one made from within a
\* section give it up.
SectionsBalanced ==
  \A p \in Proc : script[p] = "run" =>
    depth[p] = own[p] + IF stage[p] = "none" THEN 0 ELSE 1
=============================================================================
