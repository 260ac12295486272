------------------------------ MODULE Sessions -------------------------------
(***************************************************************************)
(* Sessions: logging in, logging out and revalidating (phplib/sess.inc),   *)
(* as index.php and every other page call them, and the reaping of old     *)
(* sessions (age_out_old_sessions, standalone/mainthot.php).               *)
(*                                                                         *)
(* A browser keeps one cookie, fbopsid, and may have several pages under   *)
(* way at once.  A page runs in an httpd process; it reads the clock once, *)
(* when it begins (GLOBAL_init), and then sends its statements one by one: *)
(* none of this code takes the database lock, so those of different pages  *)
(* interleave.  The cookie that a page sets or eats reaches the browser    *)
(* with its response.  A session identifier is never issued twice (Sguid). *)
(***************************************************************************)
EXTENDS Integers, FiniteSets

CONSTANTS
  Browser,
  User,
  Ip,        \* addresses browsers connect from
  Page,      \* httpd processes that serve pages
  Sid,       \* bound: as many sessions are opened as there are identifiers
  NoSid,     \* no fbopsid cookie
  Lifetime,  \* what a session's row holds: "sesslifetimedefault" or the default
  ReapTime,  \* SESS_REAP_INACTIVE_TIME
  MaxPage,   \* how long a page, or the maintenance script, may run
  MaxTime    \* bound: the clock

ASSUME SessionsAssumption ==
  /\ Lifetime \in Nat /\ ReapTime \in Nat /\ MaxPage \in Nat /\ MaxTime \in Nat
  /\ Lifetime + MaxPage <= ReapTime
  /\ MaxPage <= Lifetime
  /\ NoSid \notin Sid
  /\ Browser # {} /\ User # {} /\ Ip # {}

VARIABLES
  now,       \* the server's clock
  status,    \* usrs: per user "active", "inactive", or "gone" (no such row)
  sess,      \* sess: per open session its usrsidx, ip and revaltime
  opened,    \* sessions opened so far
  cookie,    \* per browser: its fbopsid
  address,   \* per browser: where it connects from
  page,      \* per process: the page it is serving
  script,    \* when the maintenance script began, or NotRunning
  lastSeen   \* history: when the last page served to each session began

env == <<status, address>>
vars == <<now, status, sess, opened, cookie, address, page, script, lastSeen>>

NotRunning == -1

Row == [usrsidx : User, ip : Ip, revaltime : Nat]

\* A process that serves no page.  Of a page: sid is $PAR_fbopsid, session the
\* sid it opened or revalidates, row the session's row as it was read.  Two fields
\* are history: the sessions ended, and when this one was seen, as the page began.
NoRow == [usrsidx |-> CHOOSE u \in User : TRUE, ip |-> CHOOSE i \in Ip : TRUE, revaltime |-> 0]

Idle == [pc |-> "idle", browser |-> CHOOSE b \in Browser : TRUE, user |-> NoRow.usrsidx,
         sid |-> NoSid, session |-> NoSid, ip |-> NoRow.ip, began |-> 0, row |-> NoRow,
         reply |-> "keep", ended |-> {}, seen |-> 0]

Ended == opened \ DOMAIN sess

Init ==
  /\ now = 0
  /\ status = [u \in User |-> "active"]
  /\ sess = [s \in {} |-> NoRow]
  /\ opened = {}
  /\ cookie = [b \in Browser |-> NoSid]
  /\ address \in [Browser -> Ip]
  /\ page = [p \in Page |-> Idle]
  /\ script = NotRunning
  /\ lastSeen = [s \in Sid \cup {NoSid} |-> 0]

Goes(p, label) == page' = [page EXCEPT ![p].pc = label]
Replies(p, label, reply) == page' = [page EXCEPT ![p].pc = label, ![p].reply = reply]

\* DELETE FROM sess WHERE ...: sessions that are not there are no error.
Delete(S) == sess' = [s \in DOMAIN sess \ S |-> sess[s]]
-----------------------------------------------------------------------------
\* The world outside: time, the keeper of the user table, the network.
Tick ==
  /\ now < MaxTime
  /\ \A p \in Page : page[p].pc # "idle" => now < page[p].began + MaxPage
  /\ script # NotRunning => now < script + MaxPage
  /\ now' = now + 1
  /\ UNCHANGED <<env, sess, opened, cookie, page, script, lastSeen>>

ChangeStatus(u) ==
  /\ status[u] = "active"
  /\ \E s \in {"inactive", "gone"} : status' = [status EXCEPT ![u] = s]
  /\ UNCHANGED <<now, sess, opened, cookie, address, page, script, lastSeen>>

Move(b) ==
  /\ \E i \in Ip \ {address[b]} : address' = [address EXCEPT ![b] = i]
  /\ UNCHANGED <<now, status, sess, opened, cookie, page, script, lastSeen>>

LoginsUnderWay == {p \in Page : page[p].pc \in {"authenticate", "open"}}

\* A browser asks for a page; the logout parameter comes first, then a userid,
\* then the cookie (index.php).  Without any of them there is nothing to do.
Request(p, b) ==
  /\ page[p].pc = "idle"
  /\ \E first \in {"delete", "authenticate", "revalidate"}, u \in User :
       /\ first = "revalidate" => cookie[b] # NoSid
       /\ first = "authenticate" =>
            Cardinality(opened) + Cardinality(LoginsUnderWay) < Cardinality(Sid)
       /\ first # "authenticate" => u = NoRow.usrsidx
       /\ page' = [page EXCEPT ![p] =
            [Idle EXCEPT !.pc = first, !.browser = b, !.user = u, !.sid = cookie[b],
                         !.session = cookie[b], !.ip = address[b], !.began = now,
                         !.ended = Ended, !.seen = lastSeen[cookie[b]]]]
  /\ UNCHANGED <<now, env, sess, opened, cookie, script, lastSeen>>
-----------------------------------------------------------------------------
\* SESS_logout, and the end of a session that SESS_revalidate or a failed login
\* refuses: the row is deleted and the cookie eaten.
EndSession(p) ==
  /\ page[p].pc = "delete"
  /\ Delete({page[p].sid})
  /\ Replies(p, "done", "eat")
  /\ UNCHANGED <<now, env, opened, cookie, script, lastSeen>>

\* SESS_userid_pwd_authenticate_open_session: read the user, check the password.
Authenticate(p) ==
  /\ page[p].pc = "authenticate"
  /\ \E password \in {"right", "wrong"} :
       Goes(p, IF status[page[p].user] = "active" /\ password = "right"
               THEN "open" ELSE "delete")
  /\ UNCHANGED <<now, env, sess, opened, cookie, script, lastSeen>>

\* SESS_open_new_uinfo.  The session of the cookie sent, if any, is left alone.
OpenSession(p) ==
  /\ page[p].pc = "open"
  /\ \E s \in Sid \ opened :
       /\ sess' = [t \in DOMAIN sess \cup {s} |-> IF t # s THEN sess[t] ELSE
                    [usrsidx |-> page[p].user, ip |-> page[p].ip, revaltime |-> page[p].began]]
       /\ opened' = opened \cup {s}
       /\ lastSeen' = [lastSeen EXCEPT ![s] = page[p].began]
       /\ page' = [page EXCEPT ![p].pc = "reread", ![p].session = s, ![p].reply = "issue"]
  /\ UNCHANGED <<now, env, cookie, script>>

\* SESS_retrieve_by_sid after the login: $cursessioninfo for the rest of the page.
RereadSession(p) ==
  /\ page[p].pc = "reread"
  /\ Goes(p, IF page[p].session \in DOMAIN sess THEN "served" ELSE "lost")
  /\ UNCHANGED <<now, env, sess, opened, cookie, script, lastSeen>>
-----------------------------------------------------------------------------
\* SESS_revalidate: read the session.  If it is not there, only the log hears.
ReadSession(p) ==
  /\ page[p].pc = "revalidate"
  /\ IF page[p].session \in DOMAIN sess
     THEN page' = [page EXCEPT ![p].pc = "check", ![p].row = sess[page[p].session]]
     ELSE Goes(p, "done")
  /\ UNCHANGED <<now, env, sess, opened, cookie, script, lastSeen>>

\* Mutant: the two times are swapped.
ExpiredSwapped(p) == page[p].row.revaltime - page[p].began > Lifetime
Expired(p) == page[p].began - page[p].row.revaltime > Lifetime

\* Mutant: the address is not compared.
NeverMoved(p) == FALSE
Moved(p) == page[p].row.ip # page[p].ip

\* ... then the user, and decide.
CheckUser(p) ==
  /\ page[p].pc = "check"
  /\ LET user == status[page[p].row.usrsidx]
     IN  Goes(p, IF user = "gone" THEN "done"
                 ELSE IF user = "inactive" \/ Expired(p) \/ Moved(p)
                      THEN "delete" ELSE "touch")
  /\ UNCHANGED <<now, env, sess, opened, cookie, script, lastSeen>>

\* UPDATE sess SET revaltime WHERE sid: no row, no effect.  Mutants: the statement
\* is a REPLACE, which inserts a row that is not there; the time read is kept.
Replaced(p) == DOMAIN sess \cup {page[p].session}
Updated(p) == DOMAIN sess
NotRenewed(p) == page[p].row.revaltime
RenewedTo(p) == page[p].began

Touch(p) ==
  /\ page[p].pc = "touch"
  /\ sess' = [s \in Updated(p) |->
                IF s = page[p].session THEN [page[p].row EXCEPT !.revaltime = RenewedTo(p)]
                ELSE sess[s]]
  /\ lastSeen' = [lastSeen EXCEPT ![page[p].session] =
                    IF @ < page[p].began THEN page[p].began ELSE @]
  /\ Goes(p, "served")
  /\ UNCHANGED <<now, env, opened, cookie, script>>

\* The response reaches the browser, with the cookie it sets or eats, or is lost.
Respond(p) ==
  /\ page[p].pc \in {"done", "served", "lost"}
  /\ \/ page[p].reply = "eat" /\ cookie' = [cookie EXCEPT ![page[p].browser] = NoSid]
     \/ page[p].reply = "issue"
        /\ cookie' = [cookie EXCEPT ![page[p].browser] = page[p].session]
     \/ UNCHANGED cookie
  /\ page' = [page EXCEPT ![p] = Idle]
  /\ UNCHANGED <<now, env, sess, opened, script, lastSeen>>
-----------------------------------------------------------------------------
\* Mutant: maintenance takes the lifetime, and forgets that pages take time.
ReapAtLifetime == Lifetime - MaxPage
ReapAge == ReapTime

\* age_out_old_sessions: the cutoff counts from the time the script began.
BeginReap ==
  /\ script = NotRunning
  /\ script' = now
  /\ UNCHANGED <<now, env, sess, opened, cookie, page, lastSeen>>

Reap ==
  /\ script # NotRunning
  /\ Delete({s \in DOMAIN sess : sess[s].revaltime < script - ReapAge})
  /\ script' = NotRunning
  /\ UNCHANGED <<now, env, opened, cookie, page, lastSeen>>

Next ==
  \/ Tick \/ BeginReap \/ Reap
  \/ \E u \in User : ChangeStatus(u)
  \/ \E b \in Browser : Move(b)
  \/ \E p \in Page :
       \/ \E b \in Browser : Request(p, b)
       \/ EndSession(p) \/ Authenticate(p) \/ OpenSession(p) \/ RereadSession(p)
       \/ ReadSession(p) \/ CheckUser(p) \/ Touch(p) \/ Respond(p)

Spec == Init /\ [][Next]_vars
-----------------------------------------------------------------------------
PageState == [
  pc : {"idle", "delete", "authenticate", "open", "reread", "revalidate", "check",
        "touch", "done", "served", "lost"},
  browser : Browser, user : User, sid : Sid \cup {NoSid}, session : Sid \cup {NoSid},
  ip : Ip, began : Nat, row : Row, reply : {"keep", "eat", "issue"},
  ended : SUBSET Sid, seen : Nat]

\* The type invariant.
TypeOK ==
  /\ now \in Nat
  /\ status \in [User -> {"active", "inactive", "gone"}]
  /\ opened \in SUBSET Sid
  /\ DOMAIN sess \subseteq opened
  /\ sess \in [DOMAIN sess -> Row]
  /\ cookie \in [Browser -> Sid \cup {NoSid}]
  /\ address \in [Browser -> Ip]
  /\ page \in [Page -> PageState]
  /\ script \in Nat \cup {NotRunning}
  /\ lastSeen \in [Sid \cup {NoSid} -> Nat]

InService == {"reread", "check", "touch", "served"}

\* Ended sessions stay ended, and no page is in the service of one that had ended
\* when it began.
EndedForGood ==
  \A p \in Page :
    /\ page[p].ended \subseteq Ended
    /\ page[p].pc \in InService =>
         page[p].session \in opened /\ page[p].session \notin page[p].ended

\* What the clock, the pages and the script say of each other.
ClocksAgree ==
  /\ script <= now
  /\ \A p \in Page : page[p].pc # "idle" => page[p].began <= now /\ now <= page[p].began + MaxPage
  /\ \A s \in Sid \cup {NoSid} : lastSeen[s] <= now /\ (s \notin opened => lastSeen[s] = 0)

\* revaltime is behind the latest page served by no more than a page takes.
RevaltimeRecent ==
  \A s \in DOMAIN sess :
    sess[s].revaltime <= lastSeen[s] /\ lastSeen[s] <= sess[s].revaltime + MaxPage

\* The row a page has read may be stale, but not in a way that matters.
RowsRecent ==
  \A p \in Page :
    /\ page[p].pc = "revalidate" => page[p].seen <= lastSeen[page[p].session]
    /\ page[p].pc = "reread" => page[p].began <= lastSeen[page[p].session]
    /\ page[p].pc = "touch" => page[p].began - page[p].row.revaltime <= Lifetime
    /\ page[p].pc \in {"check", "touch"} =>
         /\ page[p].row.revaltime <= lastSeen[page[p].session]
         /\ page[p].seen <= page[p].row.revaltime + MaxPage
         /\ page[p].session \in DOMAIN sess =>
              \/ page[p].row.revaltime <= sess[page[p].session].revaltime
              \/ page[p].began <= sess[page[p].session].revaltime + MaxPage

\* The inductive invariant.
SessionsInv == TypeOK /\ EndedForGood /\ ClocksAgree /\ RevaltimeRecent /\ RowsRecent

\* A page that began after its session had ended - by a logout, a refusal or the
\* reaper, whatever the pages still under way then did - is never served in it.
LogoutFinal ==
  \A p \in Page : page[p].pc = "served" => page[p].session \notin page[p].ended

\* What SessionLife promises: an identifier is opened once and ended once, and the
\* UPDATE of a page that still believes in its session does not bring it back.
Life == INSTANCE SessionLife WITH opened <- opened, ended <- Ended
LifeSpec == Life!Spec

\* Pages served in the same session are served to the same address, also when the
\* browser moves between a page's request and another page's statements.
HomeOnly ==
  \A p \in Page, q \in Page :
    (page[p].pc = "served" /\ page[q].pc = "served" /\ page[p].session = page[q].session)
      => page[p].ip = page[q].ip

\* Strengthening of HomeOnly that every step preserves: the pages in the service of
\* a session and its row, as long as there is one, agree on its address.
Home(p) == IF page[p].pc = "check" THEN page[p].row.ip ELSE page[p].ip

HomeKept ==
  \A p \in Page : page[p].pc \in InService =>
    /\ page[p].pc = "touch" => page[p].row.ip = page[p].ip
    /\ page[p].session \in DOMAIN sess => sess[page[p].session].ip = Home(p)
    /\ \A q \in Page :
         page[q].pc \in InService /\ page[q].session = page[p].session => Home(q) = Home(p)

\* SESS_revalidate never serves a page in a session that has been idle, that is
\* served no page, for longer than its lifetime, though other pages of the session
\* may renew it between this page's statements.
IdleLimit ==
  [][\A p \in Page : page[p].pc = "touch" /\ page'[p].pc = "served" =>
       page[p].began - lastSeen[page[p].session] <= Lifetime]_vars

\* ... and it never finds a session expired that was still in use when the page
\* began: revaltime may go back, but by no more than a page takes.
InUseNotExpired ==
  \A p \in Page : page[p].pc = "check" /\ Expired(p) =>
    page[p].began - page[p].seen > Lifetime - MaxPage

\* Maintenance takes away only sessions that any page would find expired, and
\* none that a page under way has just opened or is about to renew.
ReapHarmless ==
  [][Reap => \A s \in DOMAIN sess \ DOMAIN sess' :
       /\ now - lastSeen[s] > Lifetime
       /\ \A p \in Page : page[p].session = s => page[p].pc \notin {"reread", "touch"}]_vars
=============================================================================
