---------------------------- MODULE TempPassword -----------------------------
(***************************************************************************)
(* Lost login recovery: the temporary password of one user, as             *)
(* userloginrecovery.php sets and mails it, logins accept it (sess.inc)    *)
(* and userpwchange.php destroys it with the password it replaces.         *)
(*                                                                         *)
(* Recovery works inside the database lock (the abstract one that DbLock   *)
(* implements); logins and password changes do not take it, but MySQL      *)
(* keeps their statements out of the section.  A page reads the clock      *)
(* once, when it begins, and its process may die at any point.  The user's *)
(* row stays; whether the account is active is the business of Sessions.   *)
(***************************************************************************)
EXTENDS Integers

CONSTANTS
  Page,          \* httpd processes
  None,          \* no process
  Password,      \* bound: passwords generated or chosen, never twice the same
  NoPassword,    \* the empty lostpwhash
  TempLifetime,  \* CONFIG_LOGIN_REC_TEMP_PW_LIFETIME, in the unit of the clock
  MaxPage,       \* how long a page may run
  MaxTime        \* bound: the clock

ASSUME TempPasswordAssumption ==
  /\ None \notin Page
  /\ NoPassword \notin Password
  /\ TempLifetime \in Nat /\ MaxPage \in Nat /\ MaxTime \in Nat

VARIABLES
  now,      \* the server's clock
  usr,      \* the user's row: pwhash, lostpwhash and lostpwgentime
  owner,    \* the process in the critical section
  page,     \* per process: the page it is serving
  made,     \* passwords that have been generated or chosen
  mailed,   \* temporary passwords that have been mailed
  gentime,  \* history: per password, the lostpwgentime it was stored with
  revoked   \* history: passwords that a password change has destroyed

history == <<made, mailed, gentime, revoked>>
vars == <<now, usr, owner, page, history>>

Lock == INSTANCE Mutex WITH Proc <- Page, holder <- owner

NoTime == -1

UserRow == [pwhash : Password, lostpwhash : Password \cup {NoPassword},
            lostpwgentime : Nat \cup {NoTime}]

\* Of a page: the password tried, the temporary one it has generated, and as
\* history the passwords that were revoked when it began.
Idle == [pc |-> "idle", began |-> 0, tried |-> NoPassword, temp |-> NoPassword, dead |-> {}]

Init ==
  /\ now = 0
  /\ \E w \in Password :
       /\ usr = [pwhash |-> w, lostpwhash |-> NoPassword, lostpwgentime |-> NoTime]
       /\ made = {w}
  /\ owner = None
  /\ page = [p \in Page |-> Idle]
  /\ mailed = {}
  /\ gentime = [w \in Password |-> NoTime]
  /\ revoked = {}

\* MySQL lets a statement pass unless another process holds the lock.
MayQuery(p) == owner \in {None, p}

Goes(p, label) == page' = [page EXCEPT ![p].pc = label]

\* The temporary password is no longer good at time t.
Elapsed(r, t) == t - r.lostpwgentime > TempLifetime
-----------------------------------------------------------------------------
Tick ==
  /\ now < MaxTime
  /\ \A p \in Page : page[p].pc # "idle" => now < page[p].began + MaxPage
  /\ now' = now + 1
  /\ UNCHANGED <<usr, owner, page, history>>

\* Somebody asks for a recovery, or logs in or changes the password with one of
\* the passwords there have been.
Request(p) ==
  /\ page[p].pc = "idle"
  /\ \E first \in {"lock", "login", "change"}, w \in made \cup {NoPassword} :
       /\ first = "lock" <=> w = NoPassword
       /\ page' = [page EXCEPT ![p] = [Idle EXCEPT !.pc = first, !.began = now,
                                                   !.tried = w, !.dead = revoked]]
  /\ UNCHANGED <<now, usr, owner, history>>
-----------------------------------------------------------------------------
\* set_temp_password_and_email_login_info: lock the database.  Mutant: do not.
DoesNotLock(p) == UNCHANGED owner
Locks(p) == Lock!Acquire(p)

EnterRecovery(p) ==
  /\ page[p].pc = "lock"
  /\ Locks(p)
  /\ Goes(p, "retrieve")
  /\ UNCHANGED <<now, usr, history>>

\* ... read the row: is there a temporary password that is still good?
Retrieve(p) ==
  /\ page[p].pc = "retrieve"
  /\ MayQuery(p)
  /\ Goes(p, IF usr.lostpwgentime = NoTime \/ Elapsed(usr, page[p].began)
             THEN "store" ELSE "leave")
  /\ UNCHANGED <<now, usr, owner, history>>

\* ... if not, generate one and store it,
Store(p) ==
  /\ page[p].pc = "store"
  /\ MayQuery(p)
  /\ \E w \in Password \ made :
       /\ usr' = [usr EXCEPT !.lostpwhash = w, !.lostpwgentime = page[p].began]
       /\ page' = [page EXCEPT ![p].pc = "leave", ![p].temp = w]
       /\ made' = made \cup {w}
       /\ gentime' = [gentime EXCEPT ![w] = page[p].began]
  /\ UNCHANGED <<now, owner, mailed, revoked>>

LeaveRecovery(p) ==
  /\ page[p].pc = "leave"
  /\ owner' = None
  /\ Goes(p, IF page[p].temp # NoPassword THEN "mail" ELSE "next")
  /\ UNCHANGED <<now, usr, history>>

\* ... and mail it, outside the critical section.
Mail(p) ==
  /\ page[p].pc = "mail"
  /\ mailed' = mailed \cup {page[p].temp}
  /\ page' = [page EXCEPT ![p].pc = "next", ![p].temp = NoPassword]
  /\ UNCHANGED <<now, usr, owner, made, gentime, revoked>>

\* login_recovery: another clue may name the user again; at last the success screen.
NextClue(p) ==
  /\ page[p].pc = "next"
  /\ \E label \in {"lock", "announced"} : Goes(p, label)
  /\ UNCHANGED <<now, usr, owner, history>>
-----------------------------------------------------------------------------
\* SESS_nontemppwauth, SESS_temppwauth
Accepts(r, t, w) ==
  \/ w = r.pwhash
  \/ r.lostpwhash # NoPassword /\ r.lostpwgentime # NoTime /\ ~Elapsed(r, t) /\ w = r.lostpwhash

\* A page reads the user's row once, and a password change goes by what it read
\* then; it may still be refused for the new password.
Authenticate(p) ==
  /\ page[p].pc \in {"login", "change"}
  /\ MayQuery(p)
  /\ \E next \in IF ~Accepts(usr, page[p].began, page[p].tried) THEN {"refused"}
                ELSE IF page[p].pc = "login" THEN {"accepted"} ELSE {"stuff", "refused"} :
       Goes(p, next)
  /\ UNCHANGED <<now, usr, owner, history>>

\* USRS_pwhash_stuff.  Mutant: the temporary password stays.
StuffOnly(r, w) == [r EXCEPT !.pwhash = w]
Stuffed(r, w) == [r EXCEPT !.pwhash = w, !.lostpwhash = NoPassword, !.lostpwgentime = NoTime]

Stuff(p) ==
  /\ page[p].pc = "stuff"
  /\ MayQuery(p)
  /\ \E w \in Password \ made :
       /\ usr' = Stuffed(usr, w)
       /\ made' = made \cup {w}
  /\ revoked' = revoked \cup ({usr.pwhash, usr.lostpwhash} \ {NoPassword})
  /\ Goes(p, "accepted")
  /\ UNCHANGED <<now, owner, mailed, gentime>>

Finish(p) ==
  /\ page[p].pc \in {"announced", "accepted", "refused"}
  /\ page' = [page EXCEPT ![p] = Idle]
  /\ UNCHANGED <<now, usr, owner, history>>

\* The process is killed; MySQL takes its lock away.
Die(p) ==
  /\ page[p].pc # "idle"
  /\ page' = [page EXCEPT ![p] = Idle]
  /\ owner' = IF owner = p THEN None ELSE owner
  /\ UNCHANGED <<now, usr, history>>

Next ==
  \/ Tick
  \/ \E p \in Page :
       \/ Request(p) \/ EnterRecovery(p) \/ Retrieve(p) \/ Store(p) \/ LeaveRecovery(p)
       \/ Mail(p) \/ NextClue(p) \/ Authenticate(p) \/ Stuff(p) \/ Finish(p) \/ Die(p)

Spec == Init /\ [][Next]_vars
-----------------------------------------------------------------------------
PageState == [
  pc : {"idle", "lock", "retrieve", "store", "leave", "mail", "next", "announced",
        "login", "change", "stuff", "accepted", "refused"},
  began : Nat, tried : Password \cup {NoPassword}, temp : Password \cup {NoPassword},
  dead : SUBSET Password]

TypeOK ==
  /\ now \in Nat
  /\ usr \in UserRow
  /\ owner \in Page \cup {None}
  /\ page \in [Page -> PageState]
  /\ made \in SUBSET Password
  /\ mailed \in SUBSET Password
  /\ gentime \in [Password -> Nat \cup {NoTime}]
  /\ revoked \in SUBSET Password

\* One recovery at a time, and what it read is what it writes over.
OneRecovery ==
  \A p \in Page :
    /\ page[p].pc \in {"retrieve", "store", "leave"} <=> owner = p
    /\ page[p].pc = "store" => usr.lostpwgentime = NoTime \/ Elapsed(usr, page[p].began)

\* The row holds nothing that was revoked, and the gentime of what it holds.
RowInForce ==
  /\ usr.pwhash \in made \ revoked
  /\ usr.lostpwhash = NoPassword <=> usr.lostpwgentime = NoTime
  /\ usr.lostpwhash # NoPassword =>
       usr.lostpwhash \in made \ revoked /\ gentime[usr.lostpwhash] = usr.lostpwgentime

\* What was generated, stored and revoked hangs together.
HistoryAgrees ==
  /\ revoked \subseteq made
  /\ \A w \in Password : gentime[w] # NoTime => w \in made
  /\ \A w \in mailed : gentime[w] # NoTime
  /\ \A p \in Page :
       /\ page[p].began <= now
       /\ page[p].dead \subseteq revoked
       /\ page[p].pc = "mail" => page[p].temp # NoPassword
       /\ page[p].temp # NoPassword => gentime[page[p].temp] # NoTime

\* A temporary password stays in the row for its lifetime, unless revoked.
StoredWorks ==
  \A w \in Password :
    gentime[w] # NoTime /\ w \notin revoked /\ now <= gentime[w] + TempLifetime =>
      usr.lostpwhash = w

\* A page that began after a password change is not let in, and changes nothing,
\* with a password from before it, be it the regular or the temporary one.
ChangeFinal ==
  \A p \in Page : page[p].pc \in {"stuff", "accepted"} => page[p].tried \notin page[p].dead

\* The inductive invariant.
TempInv ==
  /\ TypeOK /\ OneRecovery /\ RowInForce /\ HistoryAgrees /\ StoredWorks /\ ChangeFinal

\* A temporary password that was mailed lets its user in for all of its lifetime:
\* no other recovery overwrites it, however requests, mails and deaths interleave,
\* unless the password has been changed meanwhile (userloginrecovery.php:795).
MailedWorks ==
  \A w \in mailed \ revoked : now <= gentime[w] + TempLifetime => Accepts(usr, now, w)

\* The recovery page: "A temporary password will be sent to your e-mail account".
\* When the success screen appears, the temporary password there is has been
\* mailed, or some process is about to.
AnnouncedIsMailed ==
  (\E p \in Page : page[p].pc = "announced") =>
    \/ usr.lostpwhash \in mailed \cup {NoPassword}
    \/ \E q \in Page : page[q].temp = usr.lostpwhash
=============================================================================
