---------------------------- MODULE DbLock_proofs ----------------------------
(***************************************************************************)
(* Proofs about DbLock for every set of processes and every nesting bound: *)
(* LockInv is inductive, and the lock protocol's safety follows from it.   *)
(* Then proofs about its client Users, which rest on LockInv.              *)
(***************************************************************************)
EXTENDS Users, TLAPS

USE DbLockAssumption DEF ScriptState

LEMMA TypeInit == Init => TypeOK
BY DEF Init, TypeOK

LEMMA TypeStep ==
  ASSUME TypeOK, NEW p \in Proc,
         StartScript(p) \/ Run(p) \/ Grant(p) \/ Abort(p) \/ Kill(p)
  PROVE  TypeOK'
<1> USE DEF TypeOK
<1>1. CASE StartScript(p)
  BY <1>1 DEF StartScript, server
<1>2. CASE Connect(p)
  BY <1>2 DEF Connect, server
<1>3. CASE EnterSection(p)
  <2>1. depth[p] + 1 \in 1..MaxDepth
    BY <1>3 DEF EnterSection
  <2>2. /\ depth' \in [Proc -> 0..MaxDepth]
        /\ steps' \in [Proc -> 0..MaxSteps]
    BY <1>3 DEF EnterSection
  <2>3. saved' \in [Proc -> [1..MaxDepth -> BOOLEAN]]
    BY <1>3, <2>1 DEF EnterSection
  <2>4. /\ script' \in [Proc -> ScriptState]
        /\ owner' \in Proc \cup {None}
        /\ queue' \subseteq Proc
        /\ ahead' \in [Proc -> SUBSET Proc]
    BY <1>3 DEF EnterSection, ReleaseLock, CameBefore, server
  <2>5. QED
    BY <1>3, <2>2, <2>3, <2>4 DEF EnterSection
<1>4. CASE Locked(p)
  BY <1>4 DEF Locked, server
<1>5. CASE Statement(p)
  <2>1. touched' \in [Proc -> BOOLEAN]
    BY <1>5, Zenon DEF Statement, InSection
  <2>2. QED
    BY <1>5, <2>1 DEF Statement, server
<1>6. CASE LeaveSection(p)
  <2>1. depth' \in [Proc -> 0..MaxDepth]
    BY <1>6 DEF LeaveSection
  <2>2. owner' \in Proc \cup {None} /\ dblocked' \in [Proc -> BOOLEAN]
    <3>1. CASE Unlocks(p)
      BY <1>6, <3>1 DEF LeaveSection, ReleaseLock
    <3>2. CASE ~Unlocks(p)
      BY <1>6, <3>2 DEF LeaveSection
    <3>3. QED
      BY <3>1, <3>2
  <2>3. QED
    BY <1>6, <2>1, <2>2 DEF LeaveSection
<1>7. CASE Close(p)
  BY <1>7 DEF Close, CloseConnection, ReleaseLock, LeaveQueue
<1>8. CASE Finish(p)
  BY <1>8 DEF Finish, CloseConnection, ReleaseLock, LeaveQueue
<1>9. CASE Grant(p)
  BY <1>9 DEF Grant, LeaveQueue, client
<1>10. CASE Abort(p)
  BY <1>10 DEF Abort, ReleaseLock
<1>11. CASE Kill(p)
  BY <1>11 DEF Kill, server
<1>12. QED
  BY <1>1, <1>2, <1>3, <1>4, <1>5, <1>6, <1>7, <1>8, <1>9, <1>10, <1>11 DEF Run

LEMMA InvInit == Init => LockInv
<1> SUFFICES ASSUME Init PROVE LockInv
  OBVIOUS
<1>1. TypeOK
  BY TypeInit
<1>2. FlagAgrees /\ WaitersHoldNothing /\ OnlyOutermostUnlocks /\ Rested
      /\ Connected
  BY DEF Init, FlagAgrees, WaitersHoldNothing, OnlyOutermostUnlocks, Rested,
         Connected
<1>3. ServerKnows /\ Undisturbed
  BY DEF Init, ServerKnows, Undisturbed, InSection
<1>4. QED
  BY <1>1, <1>2, <1>3 DEF LockInv

\* A section is open only while its process owns the tables.
LEMMA SectionOwns ==
  ASSUME LockInv, NEW p \in Proc, InSection(p)
  PROVE  owner = p
BY DEF LockInv, FlagAgrees, WaitersHoldNothing, InSection

LEMMA InvStep ==
  ASSUME LockInv, TypeOK', NEW p \in Proc,
         StartScript(p) \/ Run(p) \/ Grant(p) \/ Abort(p) \/ Kill(p)
  PROVE  LockInv'
<1> USE DEF LockInv, TypeOK, FlagAgrees, Undisturbed, WaitersHoldNothing,
            OnlyOutermostUnlocks, ServerKnows, Rested, Connected, InSection
<1>1. CASE StartScript(p)
  BY <1>1 DEF StartScript, server
<1>2. CASE Connect(p)
  <2>1. script[p] = "init" /\ depth[p] = 0 /\ ~dblocked[p] /\ owner # p
        /\ p \notin queue
    BY <1>2 DEF Connect
  <2>2. UNCHANGED <<dblocked, saved, depth, owner, queue, touched>>
    BY <1>2 DEF Connect, server
  <2>3. CASE script' = [script EXCEPT ![p] = "end"] /\ UNCHANGED dbhandle
    BY <2>1, <2>2, <2>3
  <2>4. CASE /\ script' = [script EXCEPT ![p] = "run"]
             /\ dbhandle' = [dbhandle EXCEPT ![p] = TRUE]
    <3>1. OnlyOutermostUnlocks'
      <4> SUFFICES ASSUME NEW q \in Proc, script'[q] = "run", NEW i \in 1..depth[q]
                   PROVE  saved[q][i] <=> i > 1
        BY <2>2
      <4>1. q # p /\ script[q] = "run"
        BY <2>1, <2>4
      <4>2. QED
        BY <4>1
    <3>2. FlagAgrees' /\ WaitersHoldNothing' /\ Undisturbed'
      BY <2>1, <2>2, <2>4
    <3>3. ServerKnows' /\ Rested' /\ Connected'
      BY <2>1, <2>2, <2>4
    <3>4. QED
      BY <3>1, <3>2, <3>3
  <2>5. QED
    BY <1>2, <2>3, <2>4 DEF Connect
<1>3. CASE EnterSection(p)
  <2>1. CASE dblocked[p]
    BY <1>3, <2>1 DEF EnterSection, NeedsLock, server
  <2>2. CASE ~dblocked[p]
    <3>1. /\ script[p] = "run" /\ depth[p] = 0 /\ owner # p
          /\ script' = [script EXCEPT ![p] = "wait"]
          /\ depth' = [depth EXCEPT ![p] = 1]
          /\ saved' = [saved EXCEPT ![p][1] = FALSE]
          /\ queue' = queue \cup {p}
          /\ UNCHANGED <<dbhandle, dblocked, owner, touched>>
      <4>1. dblocked[p] = FALSE /\ depth[p] = 0 /\ owner # p
        BY <1>3, <2>2 DEF EnterSection
      <4>2. NeedsLock(p) /\ depth[p] + 1 = 1
        BY <4>1 DEF NeedsLock
      <4>3. /\ script' = [script EXCEPT ![p] = "wait"] /\ owner' = owner
            /\ queue' = queue \cup {p}
        BY <1>3, <4>1, <4>2 DEF EnterSection, ReleaseLock
      <4>4. saved' = [saved EXCEPT ![p][1] = FALSE]
        BY <1>3, <4>1, <4>2 DEF EnterSection
      <4>5. depth' = [depth EXCEPT ![p] = 1]
        BY <1>3, <4>1 DEF EnterSection
      <4>6. script[p] = "run" /\ UNCHANGED <<dbhandle, dblocked, touched>>
        BY <1>3 DEF EnterSection
      <4>7. QED
        BY <4>1, <4>3, <4>4, <4>5, <4>6
    <3>2. 1 \in 1..MaxDepth
      BY <1>3, <3>1 DEF EnterSection
    <3>3. ~saved'[p][1] /\ \A q \in Proc : q # p => saved'[q] = saved[q]
      BY <3>1, <3>2
    <3>4. FlagAgrees' /\ Undisturbed' /\ ServerKnows' /\ Rested' /\ Connected'
      BY <3>1
    <3>5. WaitersHoldNothing' /\ OnlyOutermostUnlocks'
      BY <3>1, <3>3
    <3>6. QED
      BY <3>4, <3>5
  <2>3. QED
    BY <2>1, <2>2
<1>4. CASE Locked(p)
  <2>1. depth[p] = 1 /\ ~saved[p][1] /\ p \notin queue /\ owner = p
    BY <1>4 DEF Locked
  <2>2. /\ dblocked' = [dblocked EXCEPT ![p] = TRUE]
        /\ script' = [script EXCEPT ![p] = "run"]
        /\ UNCHANGED <<dbhandle, depth, saved, owner, queue>>
    BY <1>4 DEF Locked, server
  <2>3. ~touched'[p] /\ \A q \in Proc : q # p => touched'[q] = touched[q]
    BY <1>4, <2>1 DEF Locked
  <2>4. FlagAgrees'
    BY <2>1, <2>2
  <2>5. WaitersHoldNothing' /\ OnlyOutermostUnlocks'
    BY <2>1, <2>2
  <2>6. ServerKnows' /\ Rested' /\ Connected'
    <3>1. ServerKnows'
      BY <2>1, <2>2
    <3>2. Rested' /\ Connected'
      BY <1>4, <2>2 DEF Locked
    <3>3. QED
      BY <3>1, <3>2
  <2>7. Undisturbed'
    BY <2>2, <2>3
  <2>8. QED
    BY <2>4, <2>5, <2>6, <2>7
<1>5. CASE Statement(p)
  BY SMTT(30), <1>5, SectionOwns DEF Statement, server
<1>6. CASE LeaveSection(p)
  <2>1. saved[p][depth[p]] <=> depth[p] > 1
    BY <1>6 DEF LeaveSection
  <2>2. QED
    BY SMTT(30), <1>6, <2>1 DEF LeaveSection, Unlocks, ReleaseLock
<1>7. CASE Close(p)
  BY <1>7 DEF Close, CloseConnection, ReleaseLock, LeaveQueue
<1>8. CASE Finish(p)
  BY <1>8 DEF Finish, CloseConnection, ReleaseLock, LeaveQueue
<1>9. CASE Grant(p)
  BY <1>9 DEF Grant, LeaveQueue, client
<1>10. CASE Abort(p)
  <2>1. /\ script[p] = "run" /\ script' = [script EXCEPT ![p] = "end"]
        /\ owner' \in {owner, None} /\ owner' # p
        /\ owner # p => owner' = owner
        /\ UNCHANGED <<dbhandle, dblocked, saved, depth, queue, touched>>
    BY <1>10 DEF Abort, ReleaseLock
  <2>2. FlagAgrees' /\ Undisturbed' /\ WaitersHoldNothing'
    BY <2>1
  <2>3. OnlyOutermostUnlocks' /\ ServerKnows' /\ Rested' /\ Connected'
    BY <2>1
  <2>4. QED
    BY <2>2, <2>3
<1>11. CASE Kill(p)
  BY <1>11 DEF Kill, server
<1>12. QED
  BY <1>1, <1>2, <1>3, <1>4, <1>5, <1>6, <1>7, <1>8, <1>9, <1>10, <1>11 DEF Run

LEMMA NextInv == LockInv /\ [Next]_vars => LockInv'
<1> SUFFICES ASSUME LockInv, [Next]_vars PROVE LockInv'
  OBVIOUS
<1>1. CASE UNCHANGED vars
  BY <1>1 DEF vars, client, server, LockInv, TypeOK, FlagAgrees, Undisturbed,
     WaitersHoldNothing, OnlyOutermostUnlocks, ServerKnows, Rested, Connected, InSection
<1>2. ASSUME NEW p \in Proc,
             StartScript(p) \/ Run(p) \/ Grant(p) \/ Abort(p) \/ Kill(p)
      PROVE  LockInv'
  <2>1. TypeOK
    BY DEF LockInv
  <2>2. TypeOK'
    BY <1>2, <2>1, TypeStep
  <2>3. QED
    BY <1>2, <2>2, InvStep
<1>3. QED
  BY <1>1, <1>2 DEF Next

\* The inductive invariant holds: types, the agreement of flag and server, and
\* the shape of the saved $db_was_locked values.
THEOREM LockInvHolds == Spec => []LockInv
<1>1. QED
  BY InvInit, NextInv, PTL DEF Spec

\* $GLOBAL_dblocked agrees with MySQL: no premature unlock, no forgotten one.
THEOREM FlagAlwaysAgrees == Spec => []FlagAgrees
<1>1. LockInv => FlagAgrees
  BY DEF LockInv
<1>2. QED
  BY <1>1, LockInvHolds, PTL

\* No statement of another process falls inside a critical section.
THEOREM SectionsUndisturbed == Spec => []Undisturbed
<1>1. LockInv => Undisturbed
  BY DEF LockInv
<1>2. QED
  BY <1>1, LockInvHolds, PTL
-----------------------------------------------------------------------------
\* Two processes are never in critical sections at once ...
LEMMA OneInside ==
  ASSUME LockInv, NEW p \in Proc, NEW q \in Proc, InSection(p), InSection(q)
  PROVE  p = q
BY SectionOwns

\* ... and a section is not handed over in one step.
LEMMA NoHandOver ==
  ASSUME LockInv, LockInv', [Next]_vars,
         NEW p \in Proc, NEW q \in Proc, InSection(p), InSection(q)'
  PROVE  p = q
<1>1. owner = p
  BY SectionOwns
<1>2. owner' = q
  BY DEF LockInv, FlagAgrees, WaitersHoldNothing, InSection
<1>3. ASSUME NEW r \in Proc,
             StartScript(r) \/ Run(r) \/ Grant(r) \/ Abort(r) \/ Kill(r)
      PROVE  owner' \in {owner, None}
  BY <1>1, <1>3
     DEF StartScript, Run, Grant, Abort, Kill, Connect, EnterSection, Locked,
         Statement, LeaveSection, Close, Finish, CloseConnection, ReleaseLock, server
<1>4. owner' \in {owner, None}
  BY <1>3 DEF Next, vars, server
<1>5. QED
  BY <1>1, <1>2, <1>4

Holder == IF \E p \in Proc : InSection(p)
          THEN CHOOSE p \in Proc : InSection(p) ELSE None

LEMMA HolderInside ==
  ASSUME LockInv, NEW p \in Proc, InSection(p)
  PROVE  Holder = p
BY OneInside DEF Holder

\* The protocol implements mutual exclusion (Mutex): every step enters a section
\* that nobody holds, leaves one, or is a stutter.
THEOREM ImplementsMutex == Spec => MutexSpec
<1>1. Init => Section!Init
  BY DEF Init, Section!Init, InSection
<1>2. ASSUME LockInv, LockInv', [Next]_vars PROVE [Section!Next]_Holder
  <2>1. CASE \E p \in Proc : InSection(p)
    <3>1. PICK p \in Proc : InSection(p)
      BY <2>1
    <3>2. Holder = p
      BY <1>2, <3>1, HolderInside
    <3>3. CASE \E q \in Proc : InSection(q)'
      <4>1. PICK q \in Proc : InSection(q)'
        BY <3>3
      <4>2. q = p
        BY <1>2, <3>1, <4>1, NoHandOver
      <4>3. \A r \in Proc : InSection(r)' => r = p
        BY <1>2, <3>1, NoHandOver
      <4>4. Holder' = p
        BY <4>1, <4>2, <4>3 DEF Holder
      <4>5. QED
        BY <3>2, <4>4
    <3>4. CASE ~\E q \in Proc : InSection(q)'
      <4>1. Holder' = None
        BY <3>4 DEF Holder
      <4>2. QED
        BY <3>2, <4>1 DEF Section!Next, Section!Release, Holder
    <3>5. QED
      BY <3>3, <3>4
  <2>2. CASE ~\E p \in Proc : InSection(p)
    <3>1. Holder = None
      BY <2>2 DEF Holder
    <3>2. Holder' = None \/ Holder' \in Proc
      BY DEF Holder
    <3>3. QED
      BY <3>1, <3>2 DEF Section!Next, Section!Acquire, Holder
  <2>3. QED
    BY <2>1, <2>2
<1>3. QED
  BY <1>1, <1>2, LockInvHolds, PTL DEF Spec, MutexSpec, Section!Spec, Holder
-----------------------------------------------------------------------------
\* The accounts (Users).  The invariant has three parts: what a call in progress
\* may count on, the nesting of its section, and, as long as no LOCK TABLES and no
\* test has failed, that the userid of an account about to be inserted is free.
Stage == {"none", "test", "insert", "index", "leave"}

UsersTypeOK ==
  /\ TypeOK
  /\ usrs \in Seq(Userid)
  /\ own \in [Proc -> Nat]
  /\ stage \in [Proc -> Stage]
  /\ rec \in [Proc -> Record \cup {NoRecord}]
  /\ result \in [Proc -> Nat]
  /\ errors \in [Proc -> BOOLEAN]
  /\ lastId \in [Proc -> Nat]
  /\ blind \in BOOLEAN

NestedAt(p) ==
  /\ stage[p] # "none" => script[p] \in {"run", "wait"}
  /\ stage[p] \in {"insert", "index", "leave"} => script[p] = "run"
  /\ script[p] \in {"run", "wait"} =>
       depth[p] = own[p] + IF stage[p] = "none" THEN 0 ELSE 1
  /\ script[p] \in {"idle", "init"} => depth[p] = 0 /\ own[p] = 0

AnsweredAt(p) ==
  /\ stage[p] # "leave" => result[p] = 0 /\ ~errors[p]
  /\ stage[p] = "insert" => rec[p].userid \in Userid
  /\ stage[p] = "index" =>
       lastId[p] \in 1 .. Len(usrs) /\ usrs[lastId[p]] = rec[p].userid
  /\ stage[p] = "leave" /\ Answer(p) > 0 =>
       Answer(p) <= Len(usrs) /\ usrs[Answer(p)] = rec[p].userid

Nested == \A p \in Proc : NestedAt(p)
Answered == \A p \in Proc : AnsweredAt(p)

Guarded ==
  ~blind => /\ LockInv
            /\ UseridsUnique
            /\ \A p \in Proc : stage[p] = "insert" => ~Exists(rec[p].userid)

UsersInv == UsersTypeOK /\ Nested /\ Answered /\ Guarded

\* One step of process p.
UserStep(p) ==
  \/ \E r \in Record : Call(p, r)
  \/ Query(p) \/ Lock(p) \/ LockFails(p) \/ Page(p) \/ Stop(p)

LEMMA UsersInvInit == UsersInit => UsersInv
<1> SUFFICES ASSUME UsersInit PROVE UsersInv
  OBVIOUS
<1>1. UsersTypeOK
  <2>1. usrs \in Seq(Userid)
    BY DEF UsersInit
  <2>2. rec \in [Proc -> Record \cup {NoRecord}]
    BY DEF UsersInit
  <2>3. QED
    BY <2>1, <2>2, TypeInit DEF UsersInit, UsersTypeOK, Stage
<1>2. Nested /\ Answered
  BY DEF UsersInit, Init, Nested, NestedAt, Answered, AnsweredAt
<1>3. Guarded
  BY InvInit DEF UsersInit, Guarded, UseridsUnique
<1>4. QED
  BY <1>1, <1>2, <1>3 DEF UsersInv

\* Except for LOCK TABLES that fails, a step of Users is a step of DbLock or leaves
\* its variables alone.
LEMMA LockSteps ==
  ASSUME NEW p \in Proc, UserStep(p), ~LockFails(p)
  PROVE  \/ StartScript(p) \/ Run(p) \/ Grant(p) \/ Abort(p) \/ Kill(p)
         \/ UNCHANGED vars
BY DEF UserStep, Call, Query, Incomplete, TestFree, FindModified, InsertUser,
       LastInsertId, Return, Lock, Page, Stop, Run

LEMMA UsersLockType ==
  ASSUME TypeOK, NEW p \in Proc, UserStep(p)
  PROVE  TypeOK'
<1>1. CASE LockFails(p)
  BY <1>1 DEF LockFails, LeaveQueue, TypeOK
<1>2. CASE UNCHANGED vars
  BY <1>2 DEF vars, client, server, TypeOK
<1>3. QED
  BY <1>1, <1>2, LockSteps, TypeStep

\* No step touches what another process is doing.
LEMMA OthersWait ==
  ASSUME UsersTypeOK, NEW p \in Proc, UserStep(p), NEW q \in Proc, q # p
  PROVE  /\ script'[q] = script[q] /\ depth'[q] = depth[q] /\ own'[q] = own[q]
         /\ stage'[q] = stage[q] /\ rec'[q] = rec[q] /\ result'[q] = result[q]
         /\ errors'[q] = errors[q] /\ lastId'[q] = lastId[q]
<1> USE DEF UsersTypeOK, TypeOK
<1>1. script'[q] = script[q] /\ depth'[q] = depth[q]
  BY DEF UserStep, Call, Query, Incomplete, TestFree, FindModified, InsertUser,
         LastInsertId, Return, Lock, LockFails, Page, Stop, vars, client, StartScript,
         Connect, EnterSection, Locked, Statement, LeaveSection, Close, Finish, Grant,
         Abort, Kill
<1>2. own'[q] = own[q]
  BY DEF UserStep, Call, Query, Incomplete, TestFree, FindModified, InsertUser,
         LastInsertId, Return, Lock, LockFails, Page, Stop
<1>3. stage'[q] = stage[q] /\ rec'[q] = rec[q] /\ result'[q] = result[q]
      /\ errors'[q] = errors[q] /\ lastId'[q] = lastId[q]
  BY DEF UserStep, Call, Query, Incomplete, TestFree, FindModified, InsertUser,
         LastInsertId, Return, Lock, LockFails, Page, Stop, call, Goto, Fails, Forget
<1>4. QED
  BY <1>1, <1>2, <1>3

LEMMA UsersTypeStep ==
  ASSUME UsersTypeOK, Answered, NEW p \in Proc, UserStep(p)
  PROVE  UsersTypeOK'
<1> USE UsersAssumption DEF Stage
<1>1. TypeOK'
  BY UsersLockType DEF UsersTypeOK
<1>2. usrs' \in Seq(Userid)
  <2>1. CASE InsertUser(p)
    <3>1. rec[p].userid \in Userid /\ usrs \in Seq(Userid)
      BY <2>1 DEF InsertUser, Answered, AnsweredAt, UsersTypeOK
    <3>2. usrs' = usrs \/ usrs' = Append(usrs, rec[p].userid)
      BY <2>1 DEF InsertUser
    <3>3. QED
      BY <3>1, <3>2
  <2>2. CASE ~InsertUser(p)
    <3>1. usrs' = usrs
      BY <2>2 DEF UserStep, Call, Query, Incomplete, TestFree, FindModified,
             LastInsertId, Return, Lock, LockFails, Page, Stop
    <3>2. QED
      BY <3>1 DEF UsersTypeOK
  <2>3. QED
    BY <2>1, <2>2
<1>3. own' \in [Proc -> Nat]
  BY DEF UserStep, Call, Query, Incomplete, TestFree, FindModified, InsertUser,
         LastInsertId, Return, Lock, LockFails, Page, Stop, UsersTypeOK
<1>4. stage' \in [Proc -> Stage] /\ rec' \in [Proc -> Record \cup {NoRecord}]
      /\ errors' \in [Proc -> BOOLEAN] /\ blind' \in BOOLEAN
      /\ result' \in [Proc -> Nat] /\ lastId' \in [Proc -> Nat]
  <2> USE DEF UsersTypeOK, Goto, Fails, Forget, call
  <2>1. ASSUME NEW r \in Record, Call(p, r) PROVE <1>4
    BY <2>1 DEF Call
  <2>2. CASE Incomplete(p) \/ FindModified(p)
    BY <2>2 DEF Incomplete, FindModified
  <2>3. CASE TestFree(p)
    BY <2>3 DEF TestFree
  <2>4. CASE InsertUser(p)
    <3>1. lastId' \in [Proc -> Nat] /\ result' \in [Proc -> Nat]
      <4>1. Len(usrs) + 1 \in Nat
        OBVIOUS
      <4>2. \/ lastId' = lastId \/ lastId' = [lastId EXCEPT ![p] = Len(usrs) + 1]
        BY <2>4 DEF InsertUser
      <4>3. \/ result' = result \/ result' = [result EXCEPT ![p] = 0]
        BY <2>4 DEF InsertUser
      <4>4. lastId \in [Proc -> Nat] /\ result \in [Proc -> Nat]
        OBVIOUS
      <4> HIDE DEF UsersTypeOK, Stage
      <4>5. lastId' \in [Proc -> Nat]
        BY <4>1, <4>2, <4>4
      <4>6. result' \in [Proc -> Nat]
        BY <4>3, <4>4
      <4>7. QED
        BY <4>5, <4>6
    <3>2. stage' \in [Proc -> Stage]
      BY <2>4 DEF InsertUser
    <3>3. QED
      BY <2>4, <3>1, <3>2 DEF InsertUser
  <2>5. CASE LastInsertId(p)
    BY <2>5 DEF LastInsertId
  <2>6. CASE Return(p)
    BY <2>6 DEF Return
  <2>7. CASE Lock(p) \/ LockFails(p) \/ Page(p)
    BY <2>7 DEF Lock, LockFails, Page
  <2>8. CASE Stop(p)
    BY <2>8 DEF Stop
  <2>9. QED
    BY <2>1, <2>2, <2>3, <2>4, <2>5, <2>6, <2>7, <2>8 DEF UserStep, Query
<1>5. QED
  BY <1>1, <1>2, <1>3, <1>4 DEF UsersTypeOK

LEMMA NestedStep ==
  ASSUME UsersTypeOK, UsersTypeOK', Nested, NEW p \in Proc, UserStep(p)
  PROVE  Nested'
<1> SUFFICES NestedAt(p)'
  BY OthersWait DEF Nested, NestedAt
<1> USE DEF UsersTypeOK, TypeOK, Nested, NestedAt, Goto
<1>1. ASSUME NEW r \in Record, Call(p, r) PROVE NestedAt(p)'
  BY <1>1 DEF Call, EnterSection
<1>2. CASE Incomplete(p)
  BY <1>2 DEF Incomplete, vars, client
<1>3. CASE TestFree(p) \/ FindModified(p)
  BY SMTT(30), <1>3 DEF TestFree, FindModified, Statement
<1>4. CASE InsertUser(p)
  BY ZenonT(60), <1>4 DEF InsertUser, Statement
<1>5. CASE LastInsertId(p)
  BY <1>5 DEF LastInsertId, vars, client
<1>6. CASE Return(p)
  <2>1. /\ script[p] = "run" /\ script'[p] = "run" /\ stage[p] = "leave"
        /\ stage'[p] = "none" /\ own'[p] = own[p] /\ depth'[p] = depth[p] - 1
    BY <1>6 DEF Return, LeaveSection
  <2>2. depth[p] = own[p] + 1
    BY <2>1
  <2>3. QED
    BY <2>1, <2>2
<1>7. CASE Lock(p)
  BY <1>7 DEF Lock, Locked, Grant, client, call
<1>8. CASE LockFails(p)
  BY <1>8 DEF LockFails, call
<1>9. CASE Page(p)
  <2>1. stage[p] = "none" /\ UNCHANGED stage
    BY <1>9 DEF Page, call
  <2>2. CASE EnterSection(p) /\ own' = [own EXCEPT ![p] = @ + 1]
    BY <2>1, <2>2 DEF EnterSection
  <2>3. CASE own[p] > 0 /\ LeaveSection(p) /\ own' = [own EXCEPT ![p] = @ - 1]
    BY <2>1, <2>3 DEF LeaveSection
  <2>4. CASE (StartScript(p) \/ Connect(p) \/ Close(p)) /\ UNCHANGED own
    BY <2>1, <2>4 DEF StartScript, Connect, Close
  <2>5. QED
    BY <1>9, <2>2, <2>3, <2>4 DEF Page
<1>10. CASE Stop(p)
  BY <1>10 DEF Stop, Abort, Kill, Finish
<1>11. QED
  BY <1>1, <1>2, <1>3, <1>4, <1>5, <1>6, <1>7, <1>8, <1>9, <1>10 DEF UserStep, Query

\* What a call answers is an account's index, and rows keep theirs.
LEMMA AnsweredStep ==
  ASSUME UsersTypeOK, UsersTypeOK', Answered, NEW p \in Proc, UserStep(p)
  PROVE  Answered'
<1> USE DEF UsersTypeOK, Answer
<1>1. /\ Len(usrs) <= Len(usrs')
      /\ \A i \in 1 .. Len(usrs) : usrs'[i] = usrs[i]
  <2>1. CASE usrs' = usrs
    BY <2>1
  <2>2. CASE InsertUser(p) /\ usrs' # usrs
    <3>1. usrs' = Append(usrs, rec[p].userid) /\ rec[p].userid \in Userid
      BY <2>2 DEF InsertUser, Answered, AnsweredAt
    <3>2. QED
      BY <3>1
  <2>3. usrs' = usrs \/ InsertUser(p)
    BY DEF UserStep, Call, Query, Incomplete, TestFree, FindModified,
           LastInsertId, Return, Lock, LockFails, Page, Stop
  <2>4. QED
    BY <2>1, <2>2, <2>3
<1>2. ASSUME NEW q \in Proc, UNCHANGED <<stage[q], rec[q], result[q], errors[q], lastId[q]>>
      PROVE  AnsweredAt(q)'
  <2>1. AnsweredAt(q) /\ Answer(q)' = Answer(q) /\ Answer(q) \in Nat
    BY <1>2 DEF Answered
  <2>2. stage[q] = "index" =>
          lastId[q] \in 1 .. Len(usrs') /\ usrs'[lastId[q]] = rec[q].userid
    BY SMTT(30), <1>1, <2>1 DEF AnsweredAt
  <2>3. stage[q] = "leave" /\ Answer(q) > 0 =>
          Answer(q) <= Len(usrs') /\ usrs'[Answer(q)] = rec[q].userid
    <3>1. SUFFICES ASSUME stage[q] = "leave", Answer(q) > 0
                   PROVE  Answer(q) <= Len(usrs') /\ usrs'[Answer(q)] = rec[q].userid
      OBVIOUS
    <3>2. Answer(q) \in 1 .. Len(usrs) /\ usrs[Answer(q)] = rec[q].userid
      BY <2>1, <3>1 DEF AnsweredAt
    <3>3. QED
      BY SMTT(30), <1>1, <2>1, <3>2
  <2>4. QED
    BY <1>2, <2>1, <2>2, <2>3 DEF AnsweredAt
<1>3. SUFFICES AnsweredAt(p)'
  BY <1>2, OthersWait DEF Answered
<1> USE DEF Answered, AnsweredAt, Goto, Fails, Forget
<1>4. ASSUME NEW r \in Record, Call(p, r) PROVE AnsweredAt(p)'
  BY <1>4 DEF Call
<1>5. CASE Incomplete(p) \/ FindModified(p)
  BY <1>5 DEF Incomplete, FindModified
<1>6. CASE TestFree(p)
  <2>1. rec[p].userid \in Userid
    BY <1>6, UsersAssumption DEF TestFree, NoRecord
  <2>2. QED
    BY <1>6, <2>1 DEF TestFree
<1>7. CASE InsertUser(p)
  BY <1>7 DEF InsertUser
<1>8. CASE LastInsertId(p)
  BY <1>8 DEF LastInsertId
<1>9. CASE Return(p)
  BY <1>9 DEF Return
<1>10. CASE Lock(p) \/ LockFails(p) \/ Page(p)
  BY <1>2, <1>10 DEF Lock, LockFails, Page, call
<1>11. CASE Stop(p)
  BY <1>11 DEF Stop
<1>12. QED
  BY <1>4, <1>5, <1>6, <1>7, <1>8, <1>9, <1>10, <1>11 DEF UserStep, Query

\* From the test to the INSERT a call is in its section, so that nobody else inserts.
LEMMA GuardedStep ==
  ASSUME UsersInv, NEW p \in Proc, UserStep(p)
  PROVE  Guarded'
<1> SUFFICES ASSUME ~blind'
             PROVE  /\ LockInv' /\ UseridsUnique'
                    /\ \A q \in Proc : stage'[q] = "insert" => ~Exists(rec[q].userid)'
  BY DEF Guarded
<1> USE DEF UsersInv, UsersTypeOK
<1>1. ~blind /\ ~LockFails(p)
  BY DEF UserStep, Call, Query, Incomplete, TestFree, FindModified, InsertUser,
         LastInsertId, Return, Lock, LockFails, Page, Stop
<1>2. LockInv /\ UseridsUnique
      /\ \A q \in Proc : stage[q] = "insert" => ~Exists(rec[q].userid)
  BY <1>1 DEF Guarded
<1>3. LockInv'
  BY <1>1, <1>2, LockSteps, NextInv DEF Next
<1>4. CASE InsertUser(p) /\ usrs' # usrs
  <2>1. /\ stage[p] = "insert" /\ ~Exists(rec[p].userid)
        /\ usrs' = Append(usrs, rec[p].userid) /\ rec' = rec
        /\ stage' = [stage EXCEPT ![p] = "index"]
    BY <1>2, <1>4 DEF InsertUser, Goto
  <2>2. rec[p].userid \in Userid
    BY <2>1 DEF Answered, AnsweredAt
  <2>3. UseridsUnique'
    BY <1>2, <2>1, <2>2 DEF UseridsUnique, Exists
  <2>4. ASSUME NEW q \in Proc, q # p PROVE stage[q] # "insert"
    <3>1. ASSUME NEW r \in Proc, stage[r] = "insert" PROVE owner = r
      <4>1. script[r] = "run" /\ depth[r] = own[r] + 1
        BY <3>1 DEF Nested, NestedAt
      <4>2. depth[r] > 0
        BY <4>1
      <4>3. QED
        BY <1>2, <4>1, <4>2, SectionOwns DEF InSection
    <3>2. QED
      BY <2>1, <2>4, <3>1
  <2>5. QED
    BY <1>3, <2>1, <2>3, <2>4
<1>5. CASE TestFree(p)
  <2>1. usrs' = usrs /\ rec' = rec /\ \A q \in Proc : q # p => stage'[q] = stage[q]
    BY <1>5 DEF TestFree, Goto
  <2>2. stage'[p] = "insert" => ~Exists(rec[p].userid)
    BY <1>1, <1>5 DEF TestFree, Goto, Fails
  <2>3. QED
    BY <1>2, <1>3, <2>1, <2>2 DEF UseridsUnique, Exists
<1>6. CASE usrs' = usrs /\ ~TestFree(p)
  <2>1. ASSUME NEW q \in Proc, stage'[q] = "insert"
        PROVE  stage[q] = "insert" /\ rec'[q] = rec[q]
    <3>1. CASE q = p
      BY <1>6, <2>1, <3>1
         DEF UserStep, Call, Query, Incomplete, FindModified, InsertUser,
             LastInsertId, Return, Lock, LockFails, Page, Stop, Goto, call, Forget
    <3>2. CASE q # p
      BY <2>1, <3>2, OthersWait
    <3>3. QED
      BY <3>1, <3>2
  <2>2. QED
    BY <1>2, <1>3, <1>6, <2>1 DEF UseridsUnique, Exists
<1>7. usrs' = usrs \/ InsertUser(p)
  BY DEF UserStep, Call, Query, Incomplete, TestFree, FindModified, InsertUser,
         LastInsertId, Return, Lock, LockFails, Page, Stop
<1>8. QED
  BY <1>4, <1>5, <1>6, <1>7

LEMMA UsersInvStep == UsersInv /\ [UsersNext]_usersVars => UsersInv'
<1> SUFFICES ASSUME UsersInv, [UsersNext]_usersVars PROVE UsersInv'
  OBVIOUS
<1>1. ASSUME NEW p \in Proc, UserStep(p) PROVE UsersInv'
  <2>1. UsersTypeOK'
    BY <1>1, UsersTypeStep DEF UsersInv
  <2>2. QED
    BY <1>1, <2>1, NestedStep, AnsweredStep, GuardedStep DEF UsersInv
<1>2. CASE UNCHANGED usersVars
  <2>1. UsersTypeOK' /\ Nested' /\ Answered'
    BY <1>2 DEF UsersInv, UsersTypeOK, TypeOK, Nested, NestedAt, Answered, AnsweredAt,
       Answer, usersVars, vars, client, server, call
  <2>2. LockInv => LockInv'
    BY <1>2, NextInv DEF usersVars
  <2>3. Guarded'
    BY <1>2, <2>2 DEF UsersInv, Guarded, UseridsUnique, Exists, usersVars, call
  <2>4. QED
    BY <2>1, <2>3 DEF UsersInv
<1>3. QED
  BY <1>1, <1>2 DEF UsersNext, UserStep

THEOREM UsersInvHolds == UsersSpec => []UsersInv
<1>1. QED
  BY UsersInvInit, UsersInvStep, PTL DEF UsersSpec

\* No userid has two accounts unless a LOCK TABLES or a test has failed.
THEOREM AccountsUnique == UsersSpec => []UniqueUnlessBlind
<1>1. UsersInv => UniqueUnlessBlind
  BY DEF UsersInv, Guarded, UniqueUnlessBlind
<1>2. QED
  BY <1>1, UsersInvHolds, PTL

\* The index answered is that of an account with the userid asked for.
THEOREM IndexIsRight == UsersSpec => []IndexIsMine
<1>1. UsersInv => IndexIsMine
  BY DEF UsersInv, Answered, AnsweredAt, IndexIsMine
<1>2. QED
  BY <1>1, UsersInvHolds, PTL

\* A call leaves the one section that it entered, whatever it ends with.
THEOREM CallsBalanced == UsersSpec => []SectionsBalanced
<1>1. UsersInv => SectionsBalanced
  BY DEF UsersInv, Nested, NestedAt, SectionsBalanced
<1>2. QED
  BY <1>1, UsersInvHolds, PTL
=============================================================================
