------------------------------- MODULE DbLock --------------------------------
(***************************************************************************)
(* Locking of the whole database (phplib/db.inc) and the protocol of       *)
(* critical sections within critical sections that its callers follow      *)
(* (global.inc, GLOBAL_dblocked; the same lines stand in resvx.inc,        *)
(* rscsx.inc, usrsx.inc, dbx.inc, userloginrecovery.php and                *)
(* viewresschedlog.php):                                                   *)
(*                                                                         *)
(*     $db_was_locked = $GLOBAL_dblocked;                                  *)
(*     if (! $GLOBAL_dblocked) { DB_db_lock(); $GLOBAL_dblocked = TRUE; }  *)
(*     ...                                                                 *)
(*     if (! $db_was_locked) { DB_db_unlock(); $GLOBAL_dblocked = FALSE; } *)
(*                                                                         *)
(* A process is an httpd child: it serves one script after another, each   *)
(* on a connection of its own, and may be killed at any point.  MySQL is   *)
(* modelled by what the code asks of it: LOCK TABLES releases the locks of *)
(* its connection and then waits its turn, a statement waits while another *)
(* connection holds the lock, and a closed connection holds nothing.       *)
(***************************************************************************)
EXTENDS Naturals

CONSTANTS
  Proc,      \* httpd children
  None,      \* no process
  MaxDepth,  \* bound: critical sections nested in one another
  MaxSteps   \* bound: sections entered and statements sent by one script

ASSUME DbLockAssumption ==
  /\ None \notin Proc
  /\ MaxDepth \in Nat
  /\ MaxSteps \in Nat

VARIABLES
  script,    \* per process: where its script is
  dbhandle,  \* per process: $GLOBAL_dbhandle !== FALSE
  dblocked,  \* per process: $GLOBAL_dblocked
  saved,     \* per process: $db_was_locked of each section it is in
  depth,     \* per process: how many sections it is in
  steps,     \* per process: what is left of MaxSteps
  owner,     \* MySQL: the connection that holds the table locks
  queue,     \* MySQL: connections waiting in LOCK TABLES
  ahead,     \* MySQL: for each of them, those that came before it
  touched    \* history: another process has written since p entered its section

client == <<script, dbhandle, dblocked, saved, depth, steps>>
server == <<owner, queue, ahead>>
vars == <<client, server, touched>>

Init ==
  /\ script = [p \in Proc |-> "idle"]
  /\ dbhandle = [p \in Proc |-> FALSE]
  /\ dblocked = [p \in Proc |-> FALSE]
  /\ saved = [p \in Proc |-> [i \in 1..MaxDepth |-> FALSE]]
  /\ depth = [p \in Proc |-> 0]
  /\ steps = [p \in Proc |-> 0]
  /\ owner = None
  /\ queue = {}
  /\ ahead = [p \in Proc |-> {}]
  /\ touched = [p \in Proc |-> FALSE]

\* p has passed the entry of its outermost section and not yet its exit; it is
\* still there while it waits for a lock inside that section.
InSection(p) ==
  \/ script[p] = "run" /\ depth[p] > 0
  \/ script[p] = "wait" /\ depth[p] > 1
-----------------------------------------------------------------------------
\* UNLOCK TABLES, LOCK TABLES and the end of a connection all give up the lock.
ReleaseLock(p) == owner' = IF owner = p THEN None ELSE owner

LeaveQueue(p) ==
  /\ queue' = queue \ {p}
  /\ ahead' = [q \in Proc |-> IF q = p THEN {} ELSE ahead[q] \ {p}]

\* The connection ends: MySQL forgets everything about it.
CloseConnection(p) == ReleaseLock(p) /\ LeaveQueue(p)

\* MySQL serves LOCK TABLES ... WRITE requests in the order they came.
\* Mutant: LOCK TABLES ... LOW_PRIORITY WRITE.
LowPriority == {}
CameBefore == queue

Grant(p) ==
  /\ p \in queue
  /\ ahead[p] = {}
  /\ owner = None
  /\ owner' = p
  /\ LeaveQueue(p)
  /\ UNCHANGED <<client, touched>>
-----------------------------------------------------------------------------
\* A page begins with GLOBAL_init ...
StartScript(p) ==
  /\ script[p] = "idle"
  /\ script' = [script EXCEPT ![p] = "init"]
  /\ dbhandle' = [dbhandle EXCEPT ![p] = FALSE]
  /\ dblocked' = [dblocked EXCEPT ![p] = FALSE]
  /\ steps' = [steps EXCEPT ![p] = MaxSteps]
  /\ UNCHANGED <<saved, depth, server, touched>>

\* ... connects, and registers its shutdown function; or shows an error page.
Connect(p) ==
  /\ script[p] = "init"
  /\ \/ /\ script' = [script EXCEPT ![p] = "run"]
        /\ dbhandle' = [dbhandle EXCEPT ![p] = TRUE]
     \/ /\ script' = [script EXCEPT ![p] = "end"]
        /\ UNCHANGED dbhandle
  /\ UNCHANGED <<dblocked, saved, depth, steps, server, touched>>

\* Mutant: the manual's pseudo-code, which locks whether or not it holds the lock.
AlwaysLock(p) == TRUE
NeedsLock(p) == ~dblocked[p]

\* The entry of a critical section.
EnterSection(p) ==
  /\ script[p] = "run"
  /\ depth[p] < MaxDepth
  /\ steps[p] > 0
  /\ steps' = [steps EXCEPT ![p] = @ - 1]
  /\ depth' = [depth EXCEPT ![p] = @ + 1]
  /\ saved' = [saved EXCEPT ![p][depth[p] + 1] = dblocked[p]]
  /\ \/ /\ NeedsLock(p)
        /\ script' = [script EXCEPT ![p] = "wait"]
        /\ ReleaseLock(p)
        /\ queue' = queue \cup {p}
        /\ ahead' = [ahead EXCEPT ![p] = CameBefore]
     \/ /\ ~NeedsLock(p)
        /\ UNCHANGED <<script, server>>
  /\ UNCHANGED <<dbhandle, dblocked, touched>>

\* DB_db_lock returns, and the flag is set; nothing looks at its result.
Locked(p) ==
  /\ script[p] = "wait"
  /\ owner = p
  /\ script' = [script EXCEPT ![p] = "run"]
  /\ dblocked' = [dblocked EXCEPT ![p] = TRUE]
  /\ touched' = [touched EXCEPT ![p] = @ /\ depth[p] > 1]
  /\ UNCHANGED <<dbhandle, saved, depth, steps, server>>

\* One statement that changes the database, in a section or, like those on
\* sessions and the log, outside any: MySQL holds it back while another
\* connection has the tables locked.
Statement(p) ==
  /\ script[p] = "run"
  /\ steps[p] > 0
  /\ owner \in {None, p}
  /\ steps' = [steps EXCEPT ![p] = @ - 1]
  /\ touched' = [q \in Proc |-> touched[q] \/ (q # p /\ InSection(q))]
  /\ UNCHANGED <<script, dbhandle, dblocked, saved, depth, server>>

\* Mutant: the exit of any section unlocks.
AlwaysUnlock(p) == TRUE
Unlocks(p) == ~saved[p][depth[p]]

\* The exit of a critical section.
LeaveSection(p) ==
  /\ script[p] = "run"
  /\ depth[p] > 0
  /\ depth' = [depth EXCEPT ![p] = @ - 1]
  /\ \/ /\ Unlocks(p)
        /\ ReleaseLock(p)
        /\ dblocked' = [dblocked EXCEPT ![p] = FALSE]
     \/ /\ ~Unlocks(p)
        /\ UNCHANGED <<owner, dblocked>>
  /\ UNCHANGED <<script, dbhandle, saved, steps, queue, ahead, touched>>

\* The page's last act: mysql_close, and $GLOBAL_dbhandle = FALSE (if mysql_close
\* fails, the script ends as in Abort).
Close(p) ==
  /\ script[p] = "run"
  /\ depth[p] = 0
  /\ script' = [script EXCEPT ![p] = "end"]
  /\ dbhandle' = [dbhandle EXCEPT ![p] = FALSE]
  /\ CloseConnection(p)
  /\ UNCHANGED <<dblocked, saved, depth, steps, touched>>

\* The script stops early (exit, a fatal error, the time limit), in a critical
\* section or not: DB_db_shutdown_func unlocks the tables.
Abort(p) ==
  /\ script[p] = "run"
  /\ script' = [script EXCEPT ![p] = "end"]
  /\ IF dbhandle[p] THEN ReleaseLock(p) ELSE UNCHANGED owner
  /\ UNCHANGED <<dbhandle, dblocked, saved, depth, steps, queue, ahead, touched>>

\* The child is killed.  Nothing of the script runs any more, but MySQL has yet
\* to notice that the connection is gone.
Kill(p) ==
  /\ script[p] \in {"init", "run", "wait"}
  /\ script' = [script EXCEPT ![p] = "dead"]
  /\ UNCHANGED <<dbhandle, dblocked, saved, depth, steps, server, touched>>

\* A script that ended, or whose connection MySQL found broken, leaves nothing.
Finish(p) ==
  /\ script[p] \in {"end", "dead"}
  /\ script' = [script EXCEPT ![p] = "idle"]
  /\ dbhandle' = [dbhandle EXCEPT ![p] = FALSE]
  /\ depth' = [depth EXCEPT ![p] = 0]
  /\ CloseConnection(p)
  /\ UNCHANGED <<dblocked, saved, steps, touched>>

\* What a running script does next, and what befalls it.
Run(p) ==
  \/ Connect(p) \/ EnterSection(p) \/ Locked(p) \/ Statement(p)
  \/ LeaveSection(p) \/ Close(p) \/ Finish(p)

Next == \E p \in Proc : StartScript(p) \/ Run(p) \/ Grant(p) \/ Abort(p) \/ Kill(p)

Spec == Init /\ [][Next]_vars

\* A script that runs goes on (PHP stops it at a time limit otherwise), and MySQL
\* answers; nothing says that a child ever starts another script.
FairSpec == Spec /\ \A p \in Proc : WF_vars(Run(p)) /\ WF_vars(Grant(p))
-----------------------------------------------------------------------------
ScriptState == {"idle", "init", "run", "wait", "end", "dead"}

TypeOK ==
  /\ script \in [Proc -> ScriptState]
  /\ dbhandle \in [Proc -> BOOLEAN]
  /\ dblocked \in [Proc -> BOOLEAN]
  /\ saved \in [Proc -> [1..MaxDepth -> BOOLEAN]]
  /\ depth \in [Proc -> 0..MaxDepth]
  /\ steps \in [Proc -> 0..MaxSteps]
  /\ owner \in Proc \cup {None}
  /\ queue \subseteq Proc
  /\ ahead \in [Proc -> SUBSET Proc]
  /\ touched \in [Proc -> BOOLEAN]

\* The flag $GLOBAL_dblocked, which every section relies on instead of asking
\* MySQL, agrees with MySQL: the tables are locked from the entry of the
\* outermost section to its exit, never unlocked prematurely (global.inc:719)
\* and never left locked outside.
FlagAgrees ==
  \A p \in Proc : script[p] = "run" =>
    /\ dblocked[p] <=> owner = p
    /\ dblocked[p] <=> depth[p] > 0

\* What a process reads at the start of a section still holds at its end: no
\* statement of another process, locked or not, falls inside it.
Undisturbed == \A p \in Proc : InSection(p) => ~touched[p]

\* "No process should block indefinitely" (manual): whoever waits for the lock
\* gets it, although processes die while they hold it or wait for it.
EveryoneIsServed == \A p \in Proc : script[p] = "wait" ~> script[p] # "wait"

\* The protocol implements mutual exclusion between critical sections.
Section == INSTANCE Mutex WITH
  holder <- IF \E p \in Proc : InSection(p)
            THEN CHOOSE p \in Proc : InSection(p) ELSE None

MutexSpec == Section!Spec
-----------------------------------------------------------------------------
\* Strengthening of the invariants that every step preserves.
WaitersHoldNothing ==
  \A p \in Proc : script[p] = "wait" =>
    /\ depth[p] = 1
    /\ ~dblocked[p]
    /\ ~saved[p][1]
    /\ p \in queue <=> owner # p

OnlyOutermostUnlocks ==
  \A p \in Proc : script[p] = "run" =>
    \A i \in 1..depth[p] : saved[p][i] <=> i > 1

ServerKnows ==
  /\ \A p \in queue : script[p] \in {"wait", "dead"} /\ owner # p
  /\ \A p \in Proc : owner = p => script[p] \in {"run", "wait", "dead"}

Rested ==
  \A p \in Proc :
    /\ script[p] \in {"idle", "init"} => depth[p] = 0
    /\ script[p] = "init" => ~dblocked[p]

Connected ==
  \A p \in Proc : script[p] \in {"run", "wait"} => dbhandle[p]

LockInv ==
  /\ TypeOK
  /\ FlagAgrees
  /\ Undisturbed
  /\ WaitersHoldNothing
  /\ OnlyOutermostUnlocks
  /\ ServerKnows
  /\ Rested
  /\ Connected
=============================================================================
