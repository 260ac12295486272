------------------------- MODULE TempPassword_proofs -------------------------
(***************************************************************************)
(* Proofs about TempPassword for every number of processes and passwords   *)
(* and every lifetime.  TempInv is inductive: a process in the critical    *)
(* section relies on the row it has read because nobody else may query,    *)
(* and so overwrites only a temporary password whose lifetime has passed.  *)
(***************************************************************************)
EXTENDS TempPassword, TLAPS

USE TempPasswordAssumption

LEMMA IdleIsPage == Idle \in PageState
BY DEF Idle, PageState

LEMMA InvInit == Init => TempInv
<1> SUFFICES ASSUME Init PROVE TempInv
  OBVIOUS
<1>1. PICK w \in Password :
        /\ usr = [pwhash |-> w, lostpwhash |-> NoPassword, lostpwgentime |-> NoTime]
        /\ made = {w}
  BY DEF Init
<1>2. TypeOK
  BY <1>1, IdleIsPage DEF Init, TypeOK, UserRow
<1>3. \A p \in Page : page[p] = Idle
  BY DEF Init
<1>4. OneRecovery /\ ChangeFinal
  BY <1>3 DEF Init, OneRecovery, ChangeFinal, Idle
<1>5. RowInForce
  BY <1>1 DEF Init, RowInForce
<1>6. HistoryAgrees
  BY <1>3 DEF Init, HistoryAgrees, Idle
<1>7. StoredWorks
  BY DEF Init, StoredWorks
<1>8. QED
  BY <1>2, <1>4, <1>5, <1>6, <1>7 DEF TempInv
-----------------------------------------------------------------------------
\* Steps of a page that touch neither the row, nor what is remembered of passwords.
PageMoves(p) ==
  /\ UNCHANGED <<now, usr, made, gentime, revoked>>
  /\ \/ mailed' = mailed
     \/ page[p].pc = "mail" /\ mailed' = mailed \cup {page[p].temp}
  /\ page'[p] \in PageState
  /\ page' = [page EXCEPT ![p] = page'[p]]
  /\ owner' \in {owner, p, None}
  /\ owner' # owner => owner \in {p, None}
  /\ page'[p].pc \in {"retrieve", "store", "leave"} <=> owner' = p
  /\ page'[p].pc = "store" => usr.lostpwgentime = NoTime \/ Elapsed(usr, page'[p].began)
  /\ page'[p].began <= now
  /\ page'[p].dead \subseteq revoked
  /\ page'[p].temp \in {page[p].temp, NoPassword}
  /\ page'[p].pc = "mail" => page'[p].temp # NoPassword
  /\ page'[p].pc \in {"stuff", "accepted"} => page'[p].tried \notin page'[p].dead

LEMMA PageOnly ==
  ASSUME TempInv, NEW p \in Page, PageMoves(p)
  PROVE  TempInv'
<1> USE DEF PageMoves
<1>0. TypeOK /\ OneRecovery /\ RowInForce /\ HistoryAgrees /\ StoredWorks /\ ChangeFinal
  BY DEF TempInv
<1>1. \A q \in Page \ {p} : page'[q] = page[q]
  BY <1>0 DEF TypeOK
<1>2. TypeOK'
  <2>1. page[p].pc = "mail" => page[p].temp \in Password
    BY <1>0 DEF TypeOK, PageState, HistoryAgrees
  <2>2. page' \in [Page -> PageState]
    BY <1>0 DEF TypeOK
  <2>3. QED
    BY <1>0, <2>1, <2>2 DEF TypeOK
<1>3. OneRecovery'
  BY <1>0, <1>1 DEF OneRecovery, Elapsed
<1>4. RowInForce' /\ StoredWorks'
  BY <1>0 DEF RowInForce, StoredWorks
<1>5. HistoryAgrees'
  BY <1>0, <1>1 DEF HistoryAgrees
<1>6. ChangeFinal'
  BY <1>0, <1>1 DEF ChangeFinal
<1>7. QED
  BY <1>2, <1>3, <1>4, <1>5, <1>6 DEF TempInv

LEMMA PageOnlySteps ==
  ASSUME TempInv, NEW p \in Page,
         \/ Request(p) \/ EnterRecovery(p) \/ Retrieve(p) \/ LeaveRecovery(p) \/ Mail(p)
         \/ NextClue(p) \/ Authenticate(p) \/ Finish(p) \/ Die(p)
  PROVE  TempInv'
<1>0. TypeOK /\ OneRecovery /\ RowInForce /\ HistoryAgrees /\ StoredWorks /\ ChangeFinal
  BY DEF TempInv
<1>t. /\ page[p] \in PageState /\ page[p].began \in Nat /\ now \in Nat
      /\ page[p].began <= now /\ page[p].dead \subseteq revoked
      /\ owner \in Page \cup {None}
      /\ page[p].pc \in {"retrieve", "store", "leave"} <=> owner = p
  BY <1>0 DEF TypeOK, PageState, HistoryAgrees, OneRecovery
<1> USE DEF Goes, history
<1>1. CASE Request(p)
  <2>1. PICK first \in {"lock", "login", "change"}, w \in made \cup {NoPassword} :
       page' = [page EXCEPT ![p] = [Idle EXCEPT !.pc = first, !.began = now,
                                                   !.tried = w, !.dead = revoked]]
    BY <1>1 DEF Request
  <2>2. /\ page'[p].pc = first /\ page'[p].began = now /\ page'[p].dead = revoked
        /\ page'[p].temp = NoPassword /\ page'[p] \in PageState
        /\ page' = [page EXCEPT ![p] = page'[p]]
    BY <1>0, <2>1 DEF Idle, PageState, TypeOK
  <2>3. page[p].pc = "idle" /\ UNCHANGED <<now, usr, owner, made, mailed, gentime, revoked>>
    BY <1>1 DEF Request
  <2>4. PageMoves(p)
    BY <1>t, <2>2, <2>3 DEF PageMoves
  <2>5. QED
    BY <2>4, PageOnly
<1>2. CASE EnterRecovery(p)
  <2>1. /\ page[p].pc = "lock" /\ owner = None /\ owner' = p
        /\ UNCHANGED <<now, usr, made, mailed, gentime, revoked>>
        /\ page' = [page EXCEPT ![p].pc = "retrieve"]
    BY <1>2 DEF EnterRecovery, Locks, Lock!Acquire
  <2>2. /\ page'[p].pc = "retrieve" /\ page'[p].began = page[p].began
        /\ page'[p].dead = page[p].dead /\ page'[p].temp = page[p].temp
        /\ page'[p] \in PageState /\ page' = [page EXCEPT ![p] = page'[p]]
    BY <1>0, <1>t, <2>1 DEF PageState, TypeOK
  <2>3. PageMoves(p)
    BY <1>t, <2>1, <2>2 DEF PageMoves
  <2>4. QED
    BY <2>3, PageOnly
<1>3. CASE Retrieve(p)
  <2>1. /\ page[p].pc = "retrieve"
        /\ UNCHANGED <<now, usr, owner, made, mailed, gentime, revoked>>
        /\ page' = [page EXCEPT ![p].pc =
             IF usr.lostpwgentime = NoTime \/ Elapsed(usr, page[p].began)
             THEN "store" ELSE "leave"]
    BY <1>3 DEF Retrieve
  <2>2. /\ page'[p].pc \in {"store", "leave"} /\ page'[p].began = page[p].began
        /\ page'[p].pc = "store" => usr.lostpwgentime = NoTime \/ Elapsed(usr, page[p].began)
        /\ page'[p].dead = page[p].dead /\ page'[p].temp = page[p].temp
        /\ page'[p] \in PageState /\ page' = [page EXCEPT ![p] = page'[p]]
    BY <1>0, <1>t, <2>1 DEF PageState, TypeOK
  <2>3. PageMoves(p)
    BY <1>t, <2>1, <2>2 DEF PageMoves
  <2>4. QED
    BY <2>3, PageOnly
<1>4. CASE LeaveRecovery(p)
  <2>1. /\ page[p].pc = "leave" /\ owner = p /\ owner' = None
        /\ UNCHANGED <<now, usr, made, mailed, gentime, revoked>>
        /\ page' = [page EXCEPT ![p].pc = IF page[p].temp # NoPassword THEN "mail" ELSE "next"]
    BY <1>t, <1>4 DEF LeaveRecovery
  <2>2. /\ page'[p].pc \in {"mail", "next"} /\ page'[p].began = page[p].began
        /\ page'[p].pc = "mail" => page[p].temp # NoPassword
        /\ page'[p].dead = page[p].dead /\ page'[p].temp = page[p].temp
        /\ page'[p] \in PageState /\ page' = [page EXCEPT ![p] = page'[p]]
    BY <1>0, <1>t, <2>1 DEF PageState, TypeOK
  <2>3. PageMoves(p)
    BY <1>t, <2>1, <2>2 DEF PageMoves
  <2>4. QED
    BY <2>3, PageOnly
<1>5. CASE Mail(p)
  <2>1. /\ page[p].pc = "mail" /\ mailed' = mailed \cup {page[p].temp}
        /\ UNCHANGED <<now, usr, owner, made, gentime, revoked>>
        /\ page' = [page EXCEPT ![p].pc = "next", ![p].temp = NoPassword]
    BY <1>5 DEF Mail
  <2>2. /\ page'[p].pc = "next" /\ page'[p].began = page[p].began
        /\ page'[p].dead = page[p].dead /\ page'[p].temp = NoPassword
        /\ page'[p] \in PageState /\ page' = [page EXCEPT ![p] = page'[p]]
    BY <1>0, <1>t, <2>1 DEF PageState, TypeOK
  <2>3. PageMoves(p)
    BY <1>t, <2>1, <2>2 DEF PageMoves
  <2>4. QED
    BY <2>3, PageOnly
<1>6. CASE NextClue(p)
  <2>1. PICK label \in {"lock", "announced"} : page' = [page EXCEPT ![p].pc = label]
    BY <1>6 DEF NextClue
  <2>2. page[p].pc = "next" /\ UNCHANGED <<now, usr, owner, made, mailed, gentime, revoked>>
    BY <1>6 DEF NextClue
  <2>3. /\ page'[p].pc = label /\ page'[p].began = page[p].began
        /\ page'[p].dead = page[p].dead /\ page'[p].temp = page[p].temp
        /\ page'[p] \in PageState /\ page' = [page EXCEPT ![p] = page'[p]]
    BY <1>0, <1>t, <2>1 DEF PageState, TypeOK
  <2>4. PageMoves(p)
    BY <1>t, <2>2, <2>3 DEF PageMoves
  <2>5. QED
    BY <2>4, PageOnly
<1>7. CASE Authenticate(p)
  <2>1. /\ page[p].pc \in {"login", "change"}
        /\ UNCHANGED <<now, usr, owner, made, mailed, gentime, revoked>>
        /\ \E next \in IF ~Accepts(usr, page[p].began, page[p].tried) THEN {"refused"}
                      ELSE IF page[p].pc = "login" THEN {"accepted"} ELSE {"stuff", "refused"} :
             page' = [page EXCEPT ![p].pc = next]
    BY <1>7 DEF Authenticate
  <2>2. /\ page'[p].pc \in {"refused", "accepted", "stuff"} /\ page'[p].began = page[p].began
        /\ page'[p].pc # "refused" => Accepts(usr, page[p].began, page[p].tried)
        /\ page'[p].dead = page[p].dead /\ page'[p].temp = page[p].temp
        /\ page'[p].tried = page[p].tried
        /\ page'[p] \in PageState /\ page' = [page EXCEPT ![p] = page'[p]]
    BY <1>0, <1>t, <2>1 DEF PageState, TypeOK
  <2>3. Accepts(usr, page[p].began, page[p].tried) => page[p].tried \notin page[p].dead
    BY <1>0, <1>t DEF Accepts, RowInForce
  <2>4. PageMoves(p)
    BY <1>t, <2>1, <2>2, <2>3 DEF PageMoves
  <2>5. QED
    BY <2>4, PageOnly
<1>8. CASE Finish(p)
  <2>1. /\ page[p].pc \notin {"retrieve", "store", "leave"}
        /\ UNCHANGED <<now, usr, owner, made, mailed, gentime, revoked>>
        /\ page' = [page EXCEPT ![p] = Idle]
    BY <1>8 DEF Finish
  <2>2. page'[p] = Idle /\ page' = [page EXCEPT ![p] = page'[p]]
    BY <1>0, <2>1 DEF TypeOK
  <2>i. /\ page'[p] \in PageState /\ page'[p].pc = "idle" /\ page'[p].began = 0
        /\ page'[p].temp = NoPassword /\ page'[p].dead = {}
    BY <2>2, IdleIsPage DEF Idle
  <2>3. PageMoves(p)
    BY <1>t, <2>1, <2>2, <2>i DEF PageMoves
  <2>4. QED
    BY <2>3, PageOnly
<1>9. CASE Die(p)
  <2>1. /\ UNCHANGED <<now, usr, made, mailed, gentime, revoked>>
        /\ page' = [page EXCEPT ![p] = Idle]
        /\ owner' = IF owner = p THEN None ELSE owner
    BY <1>9 DEF Die
  <2>2. page'[p] = Idle /\ page' = [page EXCEPT ![p] = page'[p]]
    BY <1>0, <2>1 DEF TypeOK
  <2>i. /\ page'[p] \in PageState /\ page'[p].pc = "idle" /\ page'[p].began = 0
        /\ page'[p].temp = NoPassword /\ page'[p].dead = {}
    BY <2>2, IdleIsPage DEF Idle
  <2>3. PageMoves(p)
    BY <1>t, <2>1, <2>2, <2>i DEF PageMoves
  <2>4. QED
    BY <2>3, PageOnly
<1>10. QED
  BY <1>1, <1>2, <1>3, <1>4, <1>5, <1>6, <1>7, <1>8, <1>9
-----------------------------------------------------------------------------
LEMMA StoreStep ==
  ASSUME TempInv, NEW p \in Page, Store(p)
  PROVE  TempInv'
<1>0. TypeOK /\ OneRecovery /\ RowInForce /\ HistoryAgrees /\ StoredWorks /\ ChangeFinal
  BY DEF TempInv
<1>1. PICK w \in Password \ made :
       /\ usr' = [usr EXCEPT !.lostpwhash = w, !.lostpwgentime = page[p].began]
       /\ page' = [page EXCEPT ![p].pc = "leave", ![p].temp = w]
       /\ made' = made \cup {w}
       /\ gentime' = [gentime EXCEPT ![w] = page[p].began]
  BY DEF Store
<1>2. page[p].pc = "store" /\ UNCHANGED <<now, owner, mailed, revoked>>
  BY DEF Store
<1>3. /\ page[p] \in PageState /\ page[p].began \in Nat /\ now \in Nat /\ page[p].began <= now
      /\ usr \in UserRow
  BY <1>0 DEF TypeOK, PageState, HistoryAgrees
<1>4. /\ page'[p].pc = "leave" /\ page'[p].temp = w /\ page'[p].began = page[p].began
      /\ page'[p].dead = page[p].dead /\ page'[p] \in PageState
      /\ \A q \in Page \ {p} : page'[q] = page[q]
      /\ page' \in [Page -> PageState]
  BY <1>0, <1>1, <1>3 DEF PageState, TypeOK
<1>5. /\ usr'.pwhash = usr.pwhash /\ usr'.lostpwhash = w /\ usr'.lostpwgentime = page[p].began
      /\ usr' \in UserRow
  BY <1>1, <1>3 DEF UserRow
<1>6. /\ gentime'[w] = page[p].began /\ \A v \in Password \ {w} : gentime'[v] = gentime[v]
      /\ gentime' \in [Password -> Nat \cup {NoTime}]
  BY <1>0, <1>1, <1>3 DEF TypeOK
<1>7. TypeOK'
  BY <1>0, <1>1, <1>2, <1>4, <1>5, <1>6 DEF TypeOK
<1>8. OneRecovery'
  BY <1>0, <1>2, <1>4 DEF OneRecovery
<1>9. RowInForce'
  BY <1>0, <1>1, <1>2, <1>3, <1>5, <1>6 DEF RowInForce, HistoryAgrees, NoTime
<1>10. HistoryAgrees'
  <2>1. \A v \in Password : gentime'[v] # NoTime => v \in made'
    BY <1>0, <1>1, <1>6 DEF HistoryAgrees
  <2>2. page[p].began # NoTime
    BY <1>3 DEF NoTime
  <2>3. \A v \in Password : gentime[v] # NoTime => gentime'[v] # NoTime
    BY <1>6, <2>2
  <2>4. \A v \in mailed : gentime'[v] # NoTime
    BY <1>0, <2>3 DEF HistoryAgrees, TypeOK
  <2>5. ASSUME NEW q \in Page
        PROVE  /\ page'[q].began <= now /\ page'[q].dead \subseteq revoked
               /\ page'[q].pc = "mail" => page'[q].temp # NoPassword
               /\ page'[q].temp # NoPassword => gentime'[page'[q].temp] # NoTime
    <3>1. CASE q = p
      BY <1>0, <1>3, <1>4, <1>6, <2>2, <3>1 DEF HistoryAgrees
    <3>2. CASE q # p
      <4>1. page[q].temp \in Password \cup {NoPassword}
        BY <1>0 DEF TypeOK, PageState
      <4>2. QED
        BY <1>0, <1>4, <2>3, <3>2, <4>1 DEF HistoryAgrees
    <3>3. QED
      BY <3>1, <3>2
  <2>6. revoked \subseteq made'
    BY <1>0, <1>1 DEF HistoryAgrees
  <2>7. QED
    BY <1>2, <2>1, <2>4, <2>5, <2>6 DEF HistoryAgrees
<1>11. StoredWorks'
  <2> SUFFICES ASSUME NEW v \in Password, gentime'[v] # NoTime, v \notin revoked,
                      now <= gentime'[v] + TempLifetime
               PROVE  v = w
    BY <1>2, <1>5 DEF StoredWorks
  <2>1. CASE v # w
    <3>1. gentime[v] # NoTime /\ now <= gentime[v] + TempLifetime /\ gentime[v] \in Nat
      BY <1>0, <1>6, <2>1 DEF TypeOK
    <3>2. usr.lostpwhash = v
      BY <1>0, <3>1 DEF StoredWorks
    <3>3. usr.lostpwgentime = gentime[v]
      BY <1>0, <3>2 DEF RowInForce
    <3>4. Elapsed(usr, page[p].began)
      BY <1>0, <1>2, <3>1, <3>3 DEF OneRecovery
    <3>5. QED
      BY <1>3, <3>1, <3>3, <3>4 DEF Elapsed
  <2>2. QED
    BY <2>1
<1>12. ChangeFinal'
  BY <1>0, <1>4 DEF ChangeFinal
<1>13. QED
  BY <1>7, <1>8, <1>9, <1>10, <1>11, <1>12 DEF TempInv

LEMMA StuffStep ==
  ASSUME TempInv, NEW p \in Page, Stuff(p)
  PROVE  TempInv'
<1>0. TypeOK /\ OneRecovery /\ RowInForce /\ HistoryAgrees /\ StoredWorks /\ ChangeFinal
  BY DEF TempInv
<1>1. PICK w \in Password \ made :
        usr' = Stuffed(usr, w) /\ made' = made \cup {w}
  BY DEF Stuff
<1>2. /\ page[p].pc = "stuff" /\ UNCHANGED <<now, owner, mailed, gentime>>
      /\ revoked' = revoked \cup ({usr.pwhash, usr.lostpwhash} \ {NoPassword})
      /\ page' = [page EXCEPT ![p].pc = "accepted"]
  BY DEF Stuff, Goes
<1>3. page[p] \in PageState /\ usr \in UserRow /\ owner # p
  BY <1>0, <1>2 DEF TypeOK, OneRecovery
<1>4. /\ page'[p].pc = "accepted" /\ page'[p].temp = page[p].temp
      /\ page'[p].began = page[p].began /\ page'[p].tried = page[p].tried
      /\ page'[p].dead = page[p].dead
      /\ \A q \in Page \ {p} : page'[q] = page[q]
      /\ page' \in [Page -> PageState]
  BY <1>0, <1>2, <1>3 DEF PageState, TypeOK
<1>5. /\ usr'.pwhash = w /\ usr'.lostpwhash = NoPassword /\ usr'.lostpwgentime = NoTime
      /\ usr' \in UserRow
  BY <1>1, <1>3 DEF UserRow, Stuffed
<1>6. owner = None
  BY <1>3 DEF Stuff, MayQuery
<1>7. revoked' \subseteq made /\ revoked \subseteq revoked'
  BY <1>0, <1>2 DEF RowInForce, HistoryAgrees
<1>8. TypeOK'
  BY <1>0, <1>1, <1>2, <1>4, <1>5, <1>7 DEF TypeOK
<1>9. OneRecovery'
  BY <1>0, <1>2, <1>4, <1>5 DEF OneRecovery
<1>10. RowInForce'
  BY <1>1, <1>5, <1>7 DEF RowInForce
<1>11. HistoryAgrees'
  BY <1>0, <1>1, <1>2, <1>4, <1>7 DEF HistoryAgrees
<1>12. StoredWorks'
  BY <1>0, <1>2 DEF StoredWorks
<1>13. ChangeFinal'
  BY <1>0, <1>2, <1>4 DEF ChangeFinal
<1>14. QED
  BY <1>8, <1>9, <1>10, <1>11, <1>12, <1>13 DEF TempInv

LEMMA TickStep == TempInv /\ Tick => TempInv'
<1> SUFFICES ASSUME TempInv, Tick PROVE TempInv'
  OBVIOUS
<1>0. TypeOK /\ OneRecovery /\ RowInForce /\ HistoryAgrees /\ StoredWorks /\ ChangeFinal
  BY DEF TempInv
<1>1. now' = now + 1 /\ UNCHANGED <<usr, owner, page, made, mailed, gentime, revoked>>
  BY DEF Tick, history
<1>2. /\ now \in Nat /\ \A p \in Page : page[p].began \in Nat
      /\ \A w \in Password : gentime[w] # NoTime => gentime[w] \in Nat
  BY <1>0 DEF TypeOK, PageState
<1>3. HistoryAgrees'
  BY <1>0, <1>1, <1>2 DEF HistoryAgrees
<1>4. StoredWorks'
  BY <1>0, <1>1, <1>2 DEF StoredWorks
<1>5. TypeOK' /\ OneRecovery' /\ RowInForce' /\ ChangeFinal'
  BY <1>0, <1>1 DEF TypeOK, OneRecovery, RowInForce, ChangeFinal, Elapsed
<1>6. QED
  BY <1>3, <1>4, <1>5 DEF TempInv

LEMMA InvStep == TempInv /\ [Next]_vars => TempInv'
<1> SUFFICES ASSUME TempInv, [Next]_vars PROVE TempInv'
  OBVIOUS
<1>1. CASE UNCHANGED vars
  BY <1>1 DEF vars, history, TempInv, TypeOK, OneRecovery, RowInForce, HistoryAgrees,
              StoredWorks, ChangeFinal, Elapsed
<1>2. QED
  BY <1>1, TickStep, PageOnlySteps, StoreStep, StuffStep DEF Next

\* The inductive invariant holds: types, one recovery at a time, and how the row,
\* the passwords made, stored and revoked, and the pages hang together.
THEOREM TempInvHolds == Spec => []TempInv
BY InvInit, InvStep, PTL DEF Spec
-----------------------------------------------------------------------------
\* A mailed temporary password lets its user in for its whole lifetime, unless a
\* password change revokes it (set_temp_password_and_email_login_info).
THEOREM MailedPasswordsWork == Spec => []MailedWorks
<1>1. TempInv => MailedWorks
  <2> SUFFICES ASSUME TempInv, NEW w \in mailed \ revoked, now <= gentime[w] + TempLifetime
               PROVE  Accepts(usr, now, w)
    BY DEF MailedWorks
  <2>0. TypeOK /\ RowInForce /\ HistoryAgrees /\ StoredWorks
    BY DEF TempInv
  <2>1. w \in Password /\ gentime[w] # NoTime /\ gentime[w] \in Nat /\ now \in Nat
    BY <2>0 DEF TypeOK, HistoryAgrees
  <2>2. usr.lostpwhash = w
    BY <2>0, <2>1 DEF StoredWorks
  <2>3. usr.lostpwhash # NoPassword /\ usr.lostpwgentime = gentime[w]
    BY <2>0, <2>1, <2>2 DEF RowInForce
  <2>4. QED
    BY <2>1, <2>2, <2>3 DEF Accepts, Elapsed
<1>2. QED
  BY <1>1, TempInvHolds, PTL

\* No page that begins after a password change (USRS_pwhash_stuff) gets in, or
\* changes the password, with a password from before it.
THEOREM ChangesAreFinal == Spec => []ChangeFinal
<1>1. TempInv => ChangeFinal
  BY DEF TempInv
<1>2. QED
  BY <1>1, TempInvHolds, PTL
-----------------------------------------------------------------------------
\* Why AnnouncedIsMailed fails, and when it holds.  A temporary password in the row
\* has been mailed or some process is about to mail it.
OnItsWay ==
  \/ usr.lostpwhash \in mailed \cup {NoPassword}
  \/ \E q \in Page : page[q].temp = usr.lostpwhash

\* The process that is to mail a password dies.
MailerDies == \E p \in Page : Die(p) /\ page[p].temp # NoPassword

\* Who carries a password has stored it and is on the way to the mail.
Carried == \A p \in Page : page[p].temp # NoPassword => page[p].pc \in {"leave", "mail"}

LEMMA CarriedStep ==
  ASSUME TypeOK, Carried, [Next]_vars
  PROVE  Carried'
<1>1. CASE UNCHANGED page
  BY <1>1 DEF Carried
<1>2. ASSUME NEW p \in Page,
             \/ Request(p) \/ EnterRecovery(p) \/ Retrieve(p) \/ Store(p) \/ LeaveRecovery(p)
             \/ Mail(p) \/ NextClue(p) \/ Authenticate(p) \/ Stuff(p) \/ Finish(p) \/ Die(p)
      PROVE  Carried'
  <2>1. page \in [Page -> PageState] /\ page[p] \in PageState
    BY DEF TypeOK
  <2>2. CASE Request(p) \/ Finish(p) \/ Die(p)
    <3>1. page'[p].temp = NoPassword /\ \A q \in Page \ {p} : page'[q] = page[q]
      <4>1. CASE Request(p)
        <5>1. PICK first \in {"lock", "login", "change"}, w \in made \cup {NoPassword} :
                page' = [page EXCEPT ![p] = [Idle EXCEPT !.pc = first, !.began = now,
                                                         !.tried = w, !.dead = revoked]]
          BY <4>1 DEF Request
        <5>2. QED
          BY <2>1, <5>1 DEF Idle
      <4>2. CASE Finish(p) \/ Die(p)
        <5>1. page' = [page EXCEPT ![p] = Idle]
          BY <4>2 DEF Finish, Die
        <5>2. QED
          BY <2>1, <5>1 DEF Idle
      <4>3. QED
        BY <2>2, <4>1, <4>2
    <3>2. QED
      BY <3>1 DEF Carried
  <2>3. CASE EnterRecovery(p) \/ Retrieve(p) \/ NextClue(p) \/ Authenticate(p) \/ Stuff(p)
    <3>1. /\ page[p].pc \notin {"leave", "mail"}
          /\ \E label \in {"retrieve", "store", "leave", "lock", "announced", "refused",
                           "accepted", "stuff"} : page' = [page EXCEPT ![p].pc = label]
      BY <2>3 DEF EnterRecovery, Retrieve, NextClue, Authenticate, Stuff, Goes
    <3>2. page[p].temp = NoPassword
      BY <3>1 DEF Carried
    <3>3. PICK label : page' = [page EXCEPT ![p].pc = label]
      BY <3>1
    <3>4. page'[p].temp = page[p].temp /\ \A q \in Page \ {p} : page'[q] = page[q]
      BY <2>1, <3>3 DEF PageState
    <3>5. QED
      BY <3>2, <3>4 DEF Carried
  <2>4. CASE Store(p)
    <3>1. page'[p].pc = "leave" /\ \A q \in Page \ {p} : page'[q] = page[q]
      BY <2>1, <2>4 DEF Store, PageState
    <3>2. QED
      BY <3>1 DEF Carried
  <2>5. CASE LeaveRecovery(p)
    <3>1. /\ page'[p].temp # NoPassword => page'[p].pc = "mail"
          /\ \A q \in Page \ {p} : page'[q] = page[q]
      BY <2>1, <2>5 DEF LeaveRecovery, Goes, PageState
    <3>2. QED
      BY <3>1 DEF Carried
  <2>6. CASE Mail(p)
    <3>1. page'[p].temp = NoPassword /\ \A q \in Page \ {p} : page'[q] = page[q]
      BY <2>1, <2>6 DEF Mail, PageState
    <3>2. QED
      BY <3>1 DEF Carried
  <2>7. QED
    BY <1>2, <2>2, <2>3, <2>4, <2>5, <2>6
<1>3. QED
  BY <1>1, <1>2 DEF Next, vars, Tick

\* No step but the death of the mailer takes a password off its way.
LEMMA OnItsWayStep ==
  ASSUME TypeOK, Carried, OnItsWay, [Next]_vars, ~MailerDies
  PROVE  OnItsWay'
<1>0. page \in [Page -> PageState] /\ usr \in UserRow
  BY DEF TypeOK
<1>1. CASE UNCHANGED <<usr, page, mailed>>
  BY <1>1 DEF OnItsWay
<1>2. ASSUME NEW p \in Page,
             \/ Request(p) \/ EnterRecovery(p) \/ Retrieve(p) \/ LeaveRecovery(p)
             \/ NextClue(p) \/ Authenticate(p) \/ Finish(p) \/ Die(p)
      PROVE  OnItsWay'
  <2>1. /\ UNCHANGED <<usr, mailed>>
        /\ \A q \in Page \ {p} : page'[q] = page[q]
    BY <1>0, <1>2 DEF Request, EnterRecovery, Retrieve, LeaveRecovery, NextClue, Authenticate,
                      Finish, Die, Goes, history
  <2>2. page[p].temp = NoPassword \/ page'[p].temp = page[p].temp
    <3>1. CASE Request(p) \/ Finish(p)
      BY <3>1 DEF Request, Finish, Carried
    <3>2. CASE Die(p)
      BY <3>2 DEF MailerDies
    <3>3. CASE EnterRecovery(p) \/ Retrieve(p) \/ LeaveRecovery(p) \/ NextClue(p) \/ Authenticate(p)
      <4>1. page[p] \in PageState
        BY <1>0
      <4>2. PICK label : page' = [page EXCEPT ![p].pc = label]
        BY <3>3 DEF EnterRecovery, Retrieve, LeaveRecovery, NextClue, Authenticate, Goes
      <4>3. QED
        BY <1>0, <4>1, <4>2 DEF PageState
    <3>4. QED
      BY <1>2, <3>1, <3>2, <3>3
  <2>3. QED
    BY <2>1, <2>2 DEF OnItsWay
<1>3. ASSUME NEW p \in Page, Store(p) PROVE OnItsWay'
  <2>1. PICK w \in Password \ made :
          /\ usr' = [usr EXCEPT !.lostpwhash = w, !.lostpwgentime = page[p].began]
          /\ page' = [page EXCEPT ![p].pc = "leave", ![p].temp = w]
    BY <1>3 DEF Store
  <2>2. usr'.lostpwhash = w
    BY <1>0, <2>1 DEF UserRow
  <2>3. page'[p].temp = w
    BY <1>0, <2>1 DEF PageState
  <2>4. QED
    BY <2>2, <2>3 DEF OnItsWay
<1>4. ASSUME NEW p \in Page, Mail(p) PROVE OnItsWay'
  <2>1. /\ usr' = usr /\ mailed' = mailed \cup {page[p].temp}
        /\ \A q \in Page \ {p} : page'[q] = page[q]
    BY <1>0, <1>4 DEF Mail
  <2>2. QED
    BY <2>1 DEF OnItsWay
<1>5. ASSUME NEW p \in Page, Stuff(p) PROVE OnItsWay'
  <2>1. usr'.lostpwhash = NoPassword
    BY <1>0, <1>5 DEF Stuff, Stuffed, UserRow
  <2>2. QED
    BY <2>1 DEF OnItsWay
<1>6. QED
  BY <1>1, <1>2, <1>3, <1>4, <1>5 DEF Next, vars, history, Tick

\* The only step after which the temporary password in force is neither mailed nor
\* about to be is the death of the process that was to mail it.
THEOREM LostOnlyByDeath == Spec => [][OnItsWay => OnItsWay' \/ MailerDies]_vars
<1>1. Init => Carried
  BY DEF Init, Carried, Idle
<1>2. TempInv /\ Carried /\ [Next]_vars => Carried'
  BY CarriedStep DEF TempInv
<1>3. TempInv /\ Carried /\ [Next]_vars => [OnItsWay => OnItsWay' \/ MailerDies]_vars
  BY OnItsWayStep DEF TempInv
<1>4. QED
  BY <1>1, <1>2, <1>3, TempInvHolds, PTL DEF Spec

\* The recovery page keeps its word ("will be sent to your e-mail account") as long as no
\* process dies between storing a password and mailing it, whatever other processes do,
\* deaths among them.
THEOREM AnnouncedUnlessMailerDies ==
  Spec /\ [][~MailerDies]_vars => []AnnouncedIsMailed
<1>1. Init => OnItsWay
  BY DEF Init, OnItsWay
<1>2. OnItsWay /\ [~MailerDies]_vars /\ [OnItsWay => OnItsWay' \/ MailerDies]_vars => OnItsWay'
  BY DEF OnItsWay, vars, history
<1>3. OnItsWay => AnnouncedIsMailed
  BY DEF OnItsWay, AnnouncedIsMailed
<1>4. QED
  BY <1>1, <1>2, <1>3, LostOnlyByDeath, PTL DEF Spec
=============================================================================
