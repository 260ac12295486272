---------------------------- MODULE Sguid_proofs ----------------------------
(***************************************************************************)
(* Proofs about Sguid for every set of PIDs, every clock bound and every   *)
(* pattern of truncated readings, of a clock that is never set back.       *)
(***************************************************************************)
EXTENDS Sguid, TLAPS

USE SguidAssumption DEF Stamp

\* A reading is a time stamp, and readings never decrease as the clock advances,
\* although two different clock values may give the same one.
LEMMA ReadingRange ==
  ASSUME NEW c \in 0..MaxClock
  PROVE  Reading(c) \in Stamp
BY DEF Reading

LEMMA ReadingMonotone ==
  ASSUME NEW c \in 0..MaxClock, NEW d \in 0..MaxClock, c <= d
  PROVE  Reading(c) <= Reading(d)
BY DEF Reading

\* The type invariant is inductive.
LEMMA TypeInit == Init => TypeOK
BY DEF Init, TypeOK

LEMMA TypeStep ==
  ASSUME TypeOK, [Next]_vars
  PROVE  TypeOK'
<1> USE DEF TypeOK
<1>1. CASE Tick
  BY <1>1 DEF Tick
<1>2. ASSUME NEW p \in Pid, Start(p) PROVE TypeOK'
  BY <1>2 DEF Start
<1>3. ASSUME NEW p \in Pid, Die(p) PROVE TypeOK'
  BY <1>3 DEF Die
<1>4. ASSUME NEW p \in Pid, ReadRefTime(p) PROVE TypeOK'
  BY <1>4, ReadingRange DEF ReadRefTime
<1>5. ASSUME NEW p \in Pid, Return(p) PROVE TypeOK'
  <2>1. [time |-> reftime[p], pid |-> p, serial |-> count, since |-> since[p]]
          \in Ident
    BY DEF Ident
  <2>2. issued' \subseteq Ident
    BY <1>5, <2>1 DEF Return
  <2>3. QED BY <1>5, <2>2 DEF Return
<1>6. CASE UNCHANGED vars
  BY <1>6 DEF vars
<1>7. QED
  BY <1>1, <1>2, <1>3, <1>4, <1>5, <1>6 DEF Next

\* Every variable stays in its type (SGUID_sguid_raw at any point of any
\* interleaving, with processes dying in the spin loop and PIDs being reused).
THEOREM TypeCorrect == Spec => []TypeOK
<1>1. TypeOK /\ [Next]_vars => TypeOK'
  BY TypeStep
<1>2. QED
  BY <1>1, TypeInit, PTL DEF Spec
-----------------------------------------------------------------------------
LEMMA InvInit == Init => SguidInv
<1> SUFFICES ASSUME Init PROVE SguidInv
  OBVIOUS
<1>1. TypeOK
  BY TypeInit
<1>2. Passed /\ Unique /\ SortsByTime
  BY DEF Init, Passed, Unique, SortsByTime
<1>3. QED
  BY <1>1, <1>2 DEF SguidInv

\* Steps that change neither the clock nor what has been returned, and begin no
\* call, leave the strengthened invariant alone.
LEMMA InvQuietStep ==
  ASSUME SguidInv, TypeOK',
         UNCHANGED <<clock, reftime, since, count, issued>>,
         \A p \in Pid : pc'[p] = "spin" => pc[p] = "spin"
  PROVE  SguidInv'
<1>1. Passed'
  BY DEF SguidInv, Passed, Reading
<1>2. (Unique /\ SortsByTime)'
  BY DEF SguidInv, Unique, SortsByTime
<1>3. QED
  BY <1>1, <1>2 DEF SguidInv

\* The heart of the matter: when the spin loop leaves, the reading has passed
\* the identifier about to be returned and every identifier of its PID.
LEMMA InvReturn ==
  ASSUME SguidInv, TypeOK', NEW p \in Pid, Return(p)
  PROVE  SguidInv'
<1> DEFINE new == [time |-> reftime[p], pid |-> p,
                   serial |-> count, since |-> since[p]]
<1> USE DEF SguidInv, TypeOK
<1>1. issued' = issued \cup {new} /\ count' = count + 1 /\ clock' = clock
      /\ reftime' = reftime /\ since' = since /\ pc' = [pc EXCEPT ![p] = "rest"]
  BY DEF Return
<1>2. pc[p] = "spin" /\ reftime[p] < Reading(clock)
  BY ReadingRange DEF Return, SpinExit, Passed
<1>3. \A s \in issued : s \in Ident
  OBVIOUS
<1>4. new.time = reftime[p] /\ new.pid = p /\ new.serial = count
      /\ new.since = since[p]
  OBVIOUS
<1> HIDE DEF new
<1>5. Passed'
  <2>1. Reading(clock') = Reading(clock)
    BY <1>1
  <2>2. (\A s \in issued :
           s.time < Reading(clock) /\ s.since <= s.serial /\ s.serial < count)'
    BY <1>1, <1>2, <1>3, <1>4, <2>1 DEF Passed, Ident
  <2>3. ASSUME NEW q \in Pid, pc'[q] = "spin"
        PROVE  /\ reftime'[q] <= Reading(clock') /\ since'[q] <= count'
               /\ \A s \in issued' : s.serial < since'[q] => s.time < reftime'[q]
               /\ \A s \in issued' : s.pid = q => s.time < reftime'[q]
    <3>1. q # p /\ pc[q] = "spin"
      BY <1>1, <2>3
    <3>2. QED
      BY <1>1, <1>2, <1>3, <1>4, <2>1, <3>1 DEF Passed, Ident
  <2>4. QED
    BY <2>2, <2>3 DEF Passed
<1>6. Unique'
  BY <1>1, <1>2, <1>3, <1>4 DEF Unique, Passed, Ident
<1>7. SortsByTime'
  BY <1>1, <1>2, <1>3, <1>4 DEF SortsByTime, Passed, Ident
<1>8. QED
  BY <1>5, <1>6, <1>7

LEMMA InvStep ==
  ASSUME SguidInv, [Next]_vars
  PROVE  SguidInv'
<1>0. TypeOK'
  BY TypeStep DEF SguidInv
<1>1. CASE Tick
  <2>1. clock \in 0..MaxClock /\ clock' \in 0..MaxClock /\ clock <= clock'
    BY <1>1 DEF Tick, SguidInv, TypeOK
  <2>2. Reading(clock) <= Reading(clock')
        /\ Reading(clock) \in Nat /\ Reading(clock') \in Nat
    BY <2>1, ReadingMonotone, ReadingRange
  <2>3. Passed'
    BY <1>1, <2>2 DEF Tick, SguidInv, Passed, TypeOK, Ident
  <2>4. (Unique /\ SortsByTime)'
    BY <1>1 DEF Tick, SguidInv, Unique, SortsByTime
  <2>5. QED
    BY <1>0, <2>3, <2>4 DEF SguidInv
<1>2. ASSUME NEW p \in Pid, Start(p) PROVE SguidInv'
  BY <1>0, <1>2, InvQuietStep DEF Start, SguidInv, TypeOK
<1>3. ASSUME NEW p \in Pid, Die(p) PROVE SguidInv'
  BY <1>0, <1>3, InvQuietStep DEF Die, SguidInv, TypeOK
<1>4. ASSUME NEW p \in Pid, ReadRefTime(p) PROVE SguidInv'
  <2>1. Reading(clock) \in Nat
    BY ReadingRange DEF SguidInv, TypeOK
  <2>2. Passed'
    BY <1>4, <2>1 DEF ReadRefTime, SguidInv, Passed, TypeOK, Ident, Reading
  <2>3. (Unique /\ SortsByTime)'
    BY <1>4 DEF ReadRefTime, SguidInv, Unique, SortsByTime
  <2>4. QED
    BY <1>0, <2>2, <2>3 DEF SguidInv
<1>5. ASSUME NEW p \in Pid, Return(p) PROVE SguidInv'
  BY <1>0, <1>5, InvReturn
<1>6. CASE UNCHANGED vars
  BY <1>0, <1>6, InvQuietStep DEF vars
<1>7. QED
  BY <1>1, <1>2, <1>3, <1>4, <1>5, <1>6 DEF Next

\* The strengthened invariant holds in every state of every behaviour.
THEOREM InvHolds == Spec => []SguidInv
<1>1. SguidInv /\ [Next]_vars => SguidInv'
  BY InvStep
<1>2. QED
  BY <1>1, InvInit, PTL DEF Spec

\* No identifier recurs (SGUID_sguid_raw, header comment of sguid.inc).
THEOREM NeverRecurs == Spec => []Unique
<1>1. SguidInv => Unique
  BY DEF SguidInv
<1>2. QED
  BY <1>1, InvHolds, PTL

\* The sort order of identifiers is the time order of the calls that made them.
THEOREM SortOrderIsTimeOrder == Spec => []SortsByTime
<1>1. SguidInv => SortsByTime
  BY DEF SguidInv
<1>2. QED
  BY <1>1, InvHolds, PTL
-----------------------------------------------------------------------------
\* The generator implements the service of FreshIds: every step that returns
\* hands out an identifier not handed out before, every other is a stutter.
THEOREM ImplementsFreshIds == Spec => FreshSpec
<1> DEFINE handed == {<<s.time, s.pid>> : s \in issued}
<1>1. Init => Fresh!Init
  BY DEF Init, Fresh!Init
<1>2. ASSUME SguidInv, [Next]_vars PROVE [Fresh!Next]_<<handed, count>>
  <2>1. ASSUME NEW p \in Pid, Return(p) PROVE Fresh!Next
    <3> DEFINE id == <<reftime[p], p>>
    <3>1. id \in Stamp \X Pid
      BY <1>2, <2>1 DEF SguidInv, TypeOK
    <3>2. id \notin handed
      BY <1>2, <2>1, ReadingRange DEF Return, SguidInv, Passed, TypeOK, Ident
    <3>3. handed' = handed \cup {id}
      <4> DEFINE new == [time |-> reftime[p], pid |-> p,
                         serial |-> count, since |-> since[p]]
      <4>1. issued' = issued \cup {new}
        BY <2>1 DEF Return
      <4>2. id = <<new.time, new.pid>>
        OBVIOUS
      <4> HIDE DEF new, id
      <4>3. QED
        BY <4>1, <4>2
    <3>4. QED
      BY <2>1, <3>1, <3>2, <3>3 DEF Return, Fresh!Next, Fresh!HandOut
  <2>2. CASE UNCHANGED <<issued, count>>
    BY <2>2
  <2>3. QED
    BY <1>2, <2>1, <2>2
       DEF Next, vars, Tick, Start, Die, ReadRefTime
<1>3. QED
  BY <1>1, <1>2, InvHolds, PTL DEF Spec, FreshSpec, Fresh!Spec
=============================================================================
