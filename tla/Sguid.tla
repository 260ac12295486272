-------------------------------- MODULE Sguid --------------------------------
(***************************************************************************)
(* The generator of server globally-unique identifiers, SGUID_sguid_raw    *)
(* (phplib/sguid.inc) over TIMERAW_time_precision_mixed_array_2            *)
(* (phplib/timeraw.inc), run by many httpd processes at once.              *)
(*                                                                         *)
(* The server's clock counts microseconds.  An identifier is the pair      *)
(* (time stamp, PID): the code pads both to a fixed width and concatenates *)
(* them, so two identifiers are equal exactly when the pairs are, and sort *)
(* first by time stamp.                                                    *)
(***************************************************************************)
EXTENDS Naturals

CONSTANTS
  Pid,              \* the process identifiers the operating system hands out
  MaxClock,         \* bound: the last microsecond of the model
  Short             \* microseconds that (int)($usec*1000000.0) renders one less

ASSUME SguidAssumption ==
  /\ MaxClock \in Nat
  /\ Short \subseteq 1..MaxClock

VARIABLES
  clock,    \* the server's clock, in microseconds
  pc,       \* per PID: no process, a process at rest, or one inside SGUID_sguid_raw
  reftime,  \* per PID: $reftime of the call in progress
  since,    \* history: how many identifiers had been returned when the call began
  count,    \* history: how many identifiers have been returned
  issued    \* history: every identifier returned, with its place in the order

vars == <<clock, pc, reftime, since, count, issued>>

\* Mutant: the seconds are left out.
FractionOnly(c) == c % 3

\* The value microtime() becomes: a product of floats, truncated, may lose one.
Reading(c) == IF c \in Short THEN c - 1 ELSE c

\* Time stamps, and the history records of the identifiers returned.
Stamp == 0..MaxClock
Ident == [time : Stamp, pid : Pid, serial : Nat, since : Nat]

Init ==
  /\ clock = 0
  /\ pc = [p \in Pid |-> "none"]
  /\ reftime = [p \in Pid |-> 0]
  /\ since = [p \in Pid |-> 0]
  /\ count = 0
  /\ issued = {}
-----------------------------------------------------------------------------
\* The environment: time passes (a clock set back is outside of the model: the spin
\* leaves at it, and the time stamp may recur), processes start and die at any point.
Tick ==
  /\ clock < MaxClock
  /\ clock' = clock + 1
  /\ UNCHANGED <<pc, reftime, since, count, issued>>

Start(p) ==
  /\ pc[p] = "none"
  /\ pc' = [pc EXCEPT ![p] = "rest"]
  /\ UNCHANGED <<clock, reftime, since, count, issued>>

Die(p) ==
  /\ pc[p] # "none"
  /\ pc' = [pc EXCEPT ![p] = "none"]
  /\ UNCHANGED <<clock, reftime, since, count, issued>>

\* $reftime is read and the identifier formed from it and from the PID.
ReadRefTime(p) ==
  /\ pc[p] = "rest"
  /\ pc' = [pc EXCEPT ![p] = "spin"]
  /\ reftime' = [reftime EXCEPT ![p] = Reading(clock)]
  /\ since' = [since EXCEPT ![p] = count]
  /\ UNCHANGED <<clock, count, issued>>

\* Mutants of SpinExit: no spin loop; a loop that waits for one change too many.
NoSpin(p) == TRUE
SpinTwice(p) == Reading(clock) > reftime[p] + 1

\* The spin loop leaves, and the call returns, at the first $comptime that
\* differs from $reftime; a reading that does not differ changes nothing.
SpinExit(p) == Reading(clock) # reftime[p]

Return(p) ==
  /\ pc[p] = "spin"
  /\ SpinExit(p)
  /\ pc' = [pc EXCEPT ![p] = "rest"]
  /\ count' = count + 1
  /\ issued' = issued \cup
       {[time |-> reftime[p], pid |-> p, serial |-> count, since |-> since[p]]}
  /\ UNCHANGED <<clock, reftime, since>>

Next ==
  \/ Tick
  \/ \E p \in Pid : Start(p) \/ Die(p) \/ ReadRefTime(p) \/ Return(p)

Spec == Init /\ [][Next]_vars

\* The hardware clock advances, and the scheduler runs every spinning process.
FairSpec == Spec /\ WF_vars(Tick) /\ \A p \in Pid : WF_vars(Return(p))
-----------------------------------------------------------------------------
TypeOK ==
  /\ clock \in 0..MaxClock
  /\ pc \in [Pid -> {"none", "rest", "spin"}]
  /\ reftime \in [Pid -> Stamp]
  /\ since \in [Pid -> Nat]
  /\ count \in Nat
  /\ issued \subseteq Ident

\* No identifier recurs in the lifetime of the server (sguid.inc, header;
\* manual, "no more often than once"): two calls, of one process or of two that
\* had the same PID one after the other, never return the same pair.
Unique ==
  \A a, b \in issued : a.time = b.time /\ a.pid = b.pid => a = b

\* The sort order of identifiers is the time order (manual; standby
\* reservations are ranked by it): one returned before another call began has
\* an earlier time stamp, whichever processes made the two calls.
SortsByTime ==
  \A a, b \in issued : a.serial < b.since => a.time < b.time

\* The spin always ends: a call in progress returns, or its process dies, while
\* the clock still has a later reading to show.
SpinEnds ==
  \A p \in Pid :
    (pc[p] = "spin" /\ reftime[p] < Reading(MaxClock)) ~> pc[p] # "spin"

\* The generator implements the identifier service.
Fresh == INSTANCE FreshIds WITH
           Id <- Stamp \X Pid,
           ids <- {<<s.time, s.pid>> : s \in issued},
           handouts <- count

FreshSpec == Fresh!Spec
-----------------------------------------------------------------------------
\* Strengthening of Unique and SortsByTime that every step preserves: the clock
\* has passed every identifier returned, and every call that is under way began
\* after the identifiers it counts.
Passed ==
  /\ \A s \in issued :
       s.time < Reading(clock) /\ s.since <= s.serial /\ s.serial < count
  /\ \A p \in Pid : pc[p] = "spin" =>
       /\ reftime[p] <= Reading(clock)
       /\ since[p] <= count
       /\ \A s \in issued : s.serial < since[p] => s.time < reftime[p]
       /\ \A s \in issued : s.pid = p => s.time < reftime[p]

SguidInv == TypeOK /\ Passed /\ Unique /\ SortsByTime
=============================================================================
