--------------------------- MODULE Sessions_proofs ---------------------------
(***************************************************************************)
(* Proofs about Sessions for every set of browsers, pages and users and    *)
(* every lifetime, reap time and page duration that SessionsAssumption     *)
(* allows.  SessionsInv is inductive; what is said of each page, PageOK,   *)
(* is preserved by the steps of the other pages because those change the   *)
(* table only in the ways that TableMoves describes.                       *)
(*                                                                         *)
(* The last section is about LogTrim, the other half of the daily script.  *)
(***************************************************************************)
EXTENDS Sessions, LogTrim, TLAPS, FiniteSetTheorems

USE SessionsAssumption

PageOK(p) ==
  /\ page[p].ended \subseteq Ended
  /\ page[p].pc \in InService =>
       page[p].session \in opened /\ page[p].session \notin page[p].ended
  /\ page[p].pc # "idle" => page[p].began <= now /\ now <= page[p].began + MaxPage
  /\ page[p].pc = "revalidate" => page[p].seen <= lastSeen[page[p].session]
  /\ page[p].pc = "reread" => page[p].began <= lastSeen[page[p].session]
  /\ page[p].pc = "touch" => page[p].began - page[p].row.revaltime <= Lifetime
  /\ page[p].pc \in {"check", "touch"} =>
       /\ page[p].row.revaltime <= lastSeen[page[p].session]
       /\ page[p].seen <= page[p].row.revaltime + MaxPage
       /\ page[p].session \in DOMAIN sess =>
            \/ page[p].row.revaltime <= sess[page[p].session].revaltime
            \/ page[p].began <= sess[page[p].session].revaltime + MaxPage

LastSeenOK ==
  \A s \in Sid \cup {NoSid} : lastSeen[s] <= now /\ (s \notin opened => lastSeen[s] = 0)

TableOK == script <= now /\ LastSeenOK /\ RevaltimeRecent

LEMMA Parts == SessionsInv <=> TypeOK /\ TableOK /\ \A p \in Page : PageOK(p)
BY DEF SessionsInv, EndedForGood, ClocksAgree, RowsRecent, TableOK, LastSeenOK, PageOK

LEMMA IdleIsPage == Idle \in PageState
BY DEF Idle, NoRow, PageState, Row

LEMMA IdleOK ==
  ASSUME NEW p \in Page, page[p] = Idle
  PROVE  PageOK(p)
BY DEF PageOK, Idle, InService

LEMMA InvInit == Init => SessionsInv
<1> SUFFICES ASSUME Init PROVE SessionsInv
  OBVIOUS
<1>1. DOMAIN sess = {} /\ sess \in [DOMAIN sess -> Row]
  BY DEF Init
<1>2. TypeOK
  BY <1>1, IdleIsPage DEF Init, TypeOK
<1>3. TableOK
  BY <1>1 DEF Init, TableOK, LastSeenOK, RevaltimeRecent, NotRunning
<1>4. \A p \in Page : PageOK(p)
  BY IdleOK DEF Init
<1>5. QED
  BY <1>2, <1>3, <1>4, Parts
-----------------------------------------------------------------------------
\* How the steps that take no time change the table and its history.
TableMoves ==
  /\ now' = now
  /\ opened \subseteq opened'
  /\ Ended \subseteq Ended'
  /\ \A s \in Sid \cup {NoSid} : lastSeen[s] <= lastSeen'[s]
  /\ \A s \in DOMAIN sess' :
       \/ s \in DOMAIN sess /\ sess[s].revaltime <= sess'[s].revaltime
       \/ now <= sess'[s].revaltime + MaxPage

LEMMA PageFrame ==
  ASSUME TypeOK, TypeOK', TableMoves, NEW p \in Page, PageOK(p), page'[p] = page[p]
  PROVE  PageOK(p)'
<1> DEFINE pg == page[p]
           s  == page[p].session
<1>1. /\ pg \in PageState /\ s \in Sid \cup {NoSid}
      /\ pg.began \in Nat /\ pg.seen \in Nat /\ pg.row.revaltime \in Nat
      /\ now \in Nat /\ lastSeen[s] \in Nat /\ lastSeen'[s] \in Nat
      /\ lastSeen[s] <= lastSeen'[s]
  BY DEF TypeOK, PageState, Row, TableMoves
<1>2. s \in DOMAIN sess' => sess'[s].revaltime \in Nat
  BY DEF TypeOK, Row
<1>3. s \in DOMAIN sess => sess[s].revaltime \in Nat
  BY DEF TypeOK, Row
<1>4. (pg.ended \subseteq Ended)' /\ (pg.pc \in InService => s \in opened /\ s \notin pg.ended)'
  BY DEF PageOK, TableMoves, InService
<1>5. ASSUME pg.pc \in {"check", "touch"}, s \in DOMAIN sess'
      PROVE  \/ pg.row.revaltime <= sess'[s].revaltime
             \/ pg.began <= sess'[s].revaltime + MaxPage
  <2>1. CASE s \in DOMAIN sess /\ sess[s].revaltime <= sess'[s].revaltime
    BY <1>1, <1>2, <1>3, <1>5, <2>1 DEF PageOK
  <2>2. CASE now <= sess'[s].revaltime + MaxPage
    BY <1>1, <1>2, <1>5, <2>2 DEF PageOK
  <2>3. QED
    BY <1>5, <2>1, <2>2 DEF TableMoves
<1>6. QED
  BY <1>1, <1>4, <1>5 DEF PageOK, TableMoves

\* A step of one page: what is left to show of it.
LEMMA OnePage ==
  ASSUME TypeOK, TypeOK', TableMoves, TableOK', \A q \in Page : PageOK(q),
         NEW p \in Page, PageOK(p)', \A q \in Page \ {p} : page'[q] = page[q]
  PROVE  SessionsInv'
<1>1. \A q \in Page \ {p} : PageOK(q)'
  BY PageFrame
<1>2. EndedForGood' /\ ClocksAgree' /\ RevaltimeRecent' /\ RowsRecent'
  BY <1>1 DEF EndedForGood, ClocksAgree, RowsRecent, TableOK, LastSeenOK, PageOK
<1>3. QED
  BY <1>2 DEF SessionsInv
-----------------------------------------------------------------------------
\* Types, action by action.
LEMMA TypeStep ==
  ASSUME SessionsInv, NEW p \in Page, NEW b \in Browser
  PROVE  /\ Request(p, b) => TypeOK'
         /\ EndSession(p) \/ Authenticate(p) \/ RereadSession(p) \/ ReadSession(p)
            \/ CheckUser(p) \/ Respond(p) => TypeOK'
         /\ OpenSession(p) \/ Touch(p) => TypeOK'
<1> USE DEF SessionsInv, TypeOK, Goes, Replies, env
<1>0. page[p] \in PageState
  OBVIOUS
<1>1. CASE Request(p, b)
  <2>1. PICK first \in {"delete", "authenticate", "revalidate"}, u \in User :
          page' = [page EXCEPT ![p] =
            [Idle EXCEPT !.pc = first, !.browser = b, !.user = u, !.sid = cookie[b],
                         !.session = cookie[b], !.ip = address[b], !.began = now,
                         !.ended = Ended, !.seen = lastSeen[cookie[b]]]]
    BY <1>1 DEF Request
  <2>2. cookie[b] \in Sid \cup {NoSid} /\ lastSeen[cookie[b]] \in Nat
        /\ address[b] \in Ip /\ Ended \in SUBSET Sid /\ now \in Nat
    BY DEF Ended
  <2>3. page'[p] \in PageState
    BY ZenonT(60), <2>1, <2>2 DEF Idle, NoRow, PageState, Row
  <2>4. page' \in [Page -> PageState]
    BY <2>1, <2>3
  <2>5. QED
    BY <1>1, <2>4 DEF Request
<1>2. CASE EndSession(p)
  <2>1. page'[p] \in PageState
    BY <1>0, <1>2 DEF EndSession, PageState
  <2>2. page' \in [Page -> PageState]
    BY <1>2, <2>1 DEF EndSession
  <2>3. QED
    BY <1>2, <2>2 DEF EndSession, Delete
<1>3. CASE Authenticate(p) \/ RereadSession(p) \/ CheckUser(p)
  <2>1. page'[p] \in PageState
    BY <1>0, <1>3 DEF Authenticate, RereadSession, CheckUser, PageState
  <2>2. page' \in [Page -> PageState]
    BY <1>3, <2>1 DEF Authenticate, RereadSession, CheckUser
  <2>3. QED
    BY <1>3, <2>2 DEF Authenticate, RereadSession, CheckUser
<1>4. CASE ReadSession(p)
  <2>1. page'[p] \in PageState
    BY <1>0, <1>4 DEF ReadSession, PageState
  <2>2. page' \in [Page -> PageState]
    BY <1>4, <2>1 DEF ReadSession
  <2>3. QED
    BY <1>4, <2>2 DEF ReadSession
<1>5. CASE Respond(p)
  <2>1. page[p].browser \in Browser /\ page[p].session \in Sid \cup {NoSid}
    BY <1>0 DEF PageState
  <2>2. cookie' \in [Browser -> Sid \cup {NoSid}]
    BY <1>5, <2>1 DEF Respond
  <2>3. page' \in [Page -> PageState]
    BY <1>5, IdleIsPage DEF Respond
  <2>4. QED
    BY <1>5, <2>2, <2>3 DEF Respond
<1>6. CASE OpenSession(p)
  <2>1. PICK s \in Sid \ opened :
       /\ sess' = [t \in DOMAIN sess \cup {s} |-> IF t # s THEN sess[t] ELSE
                    [usrsidx |-> page[p].user, ip |-> page[p].ip, revaltime |-> page[p].began]]
       /\ opened' = opened \cup {s}
       /\ lastSeen' = [lastSeen EXCEPT ![s] = page[p].began]
       /\ page' = [page EXCEPT ![p].pc = "reread", ![p].session = s, ![p].reply = "issue"]
    BY <1>6 DEF OpenSession
  <2>2. page'[p] \in PageState
    BY <1>0, <2>1 DEF PageState
  <2>3. page' \in [Page -> PageState]
    BY <2>1, <2>2
  <2>4. [usrsidx |-> page[p].user, ip |-> page[p].ip, revaltime |-> page[p].began] \in Row
    BY <1>0 DEF PageState, Row
  <2>5. sess' \in [DOMAIN sess' -> Row] /\ DOMAIN sess' \subseteq opened'
    BY <2>1, <2>4
  <2>6. lastSeen' \in [Sid \cup {NoSid} -> Nat]
    BY <1>0, <2>1 DEF PageState
  <2>7. QED
    BY ZenonT(60), <1>6, <2>1, <2>3, <2>5, <2>6 DEF OpenSession
<1>7. CASE Touch(p)
  <2>1. page'[p] \in PageState
    BY <1>0, <1>7 DEF Touch, PageState
  <2>2. page' \in [Page -> PageState]
    BY <1>7, <2>1 DEF Touch
  <2>3. [page[p].row EXCEPT !.revaltime = RenewedTo(p)] \in Row
    BY <1>0 DEF PageState, Row, RenewedTo
  <2>4. sess' \in [DOMAIN sess' -> Row] /\ DOMAIN sess' \subseteq opened'
    BY <1>7, <2>3 DEF Touch, Updated
  <2>5. lastSeen' \in [Sid \cup {NoSid} -> Nat]
    BY <1>0, <1>7 DEF Touch, PageState
  <2>6. QED
    BY <1>7, <2>2, <2>4, <2>5 DEF Touch
<1>8. QED
  BY <1>1, <1>2, <1>3, <1>4, <1>5, <1>6, <1>7
-----------------------------------------------------------------------------
\* Steps that leave the table, the history and the clock alone.
LEMMA QuietTable ==
  ASSUME SessionsInv, UNCHANGED <<now, sess, opened, lastSeen>>,
         script' = script \/ script' = NotRunning \/ script' = now
  PROVE  TableMoves /\ TableOK'
<1>1. TypeOK /\ TableOK
  BY Parts
<1>2. TableMoves
  <2>1. \A s \in DOMAIN sess : sess[s].revaltime \in Nat
    BY <1>1 DEF TypeOK, Row
  <2>2. \A s \in Sid \cup {NoSid} : lastSeen[s] \in Nat
    BY <1>1 DEF TypeOK
  <2>3. QED
    BY <2>1, <2>2 DEF TableMoves, Ended
<1>3. TableOK'
  BY <1>1 DEF TableOK, LastSeenOK, RevaltimeRecent, TypeOK, NotRunning
<1>4. QED
  BY <1>2, <1>3

LEMMA DeleteTable ==
  ASSUME SessionsInv, NEW S, Delete(S), UNCHANGED <<now, opened, lastSeen>>,
         script' = script \/ script' = NotRunning
  PROVE  TableMoves /\ TableOK'
<1>1. TypeOK /\ TableOK
  BY Parts
<1>2. DOMAIN sess' = DOMAIN sess \ S /\ \A s \in DOMAIN sess' : sess'[s] = sess[s]
  BY DEF Delete
<1>3. TableMoves
  <2>1. \A s \in DOMAIN sess : sess[s].revaltime \in Nat
    BY <1>1 DEF TypeOK, Row
  <2>2. \A s \in Sid \cup {NoSid} : lastSeen[s] \in Nat
    BY <1>1 DEF TypeOK
  <2>3. QED
    BY <1>2, <2>1, <2>2 DEF TableMoves, Ended
<1>4. TableOK'
  BY <1>1, <1>2 DEF TableOK, LastSeenOK, RevaltimeRecent, TypeOK, NotRunning
<1>5. QED
  BY <1>3, <1>4

\* The page's own part, for the steps that only move it on.
LEMMA PageStep ==
  ASSUME SessionsInv, TypeOK', NEW p \in Page, NEW b \in Browser,
         \/ Request(p, b) \/ EndSession(p) \/ Authenticate(p) \/ RereadSession(p)
         \/ ReadSession(p) \/ CheckUser(p) \/ Respond(p)
  PROVE  SessionsInv'
<1>0. TypeOK /\ TableOK /\ \A q \in Page : PageOK(q)
  BY Parts
<1>t. page[p] \in PageState /\ now \in Nat
  BY <1>0 DEF TypeOK
<1> USE DEF Goes, Replies, env
<1>1. CASE Request(p, b)
  <2>1. PICK first \in {"delete", "authenticate", "revalidate"}, u \in User :
          page' = [page EXCEPT ![p] =
            [Idle EXCEPT !.pc = first, !.browser = b, !.user = u, !.sid = cookie[b],
                         !.session = cookie[b], !.ip = address[b], !.began = now,
                         !.ended = Ended, !.seen = lastSeen[cookie[b]]]]
    BY <1>1 DEF Request
  <2>2. /\ page'[p].pc = first /\ page'[p].session = cookie[b] /\ page'[p].began = now
        /\ page'[p].ended = Ended /\ page'[p].seen = lastSeen[cookie[b]]
    BY <1>0, <2>1 DEF TypeOK, Idle
  <2>3. UNCHANGED <<now, sess, opened, lastSeen, script>>
    BY <1>1 DEF Request
  <2>4. cookie[b] \in Sid \cup {NoSid} /\ lastSeen[cookie[b]] \in Nat
    BY <1>0 DEF TypeOK
  <2>5. PageOK(p)'
    BY <1>t, <2>2, <2>3, <2>4 DEF PageOK, InService, Ended
  <2>6. \A q \in Page \ {p} : page'[q] = page[q]
    BY <1>0, <2>1 DEF TypeOK
  <2>7. QED
    BY <1>0, <2>3, <2>5, <2>6, QuietTable, OnePage
<1>2. CASE EndSession(p)
  <2>1. TableMoves /\ TableOK'
    BY <1>2, DeleteTable DEF EndSession
  <2>2. /\ page'[p].pc = "done" /\ page'[p].ended = page[p].ended
        /\ page'[p].began = page[p].began
        /\ page[p].pc = "delete"
        /\ \A q \in Page \ {p} : page'[q] = page[q]
    BY <1>0, <1>t, <1>2 DEF EndSession, TypeOK, PageState
  <2>3. PageOK(p)'
    BY <1>0, <2>1, <2>2 DEF PageOK, TableMoves, InService
  <2>4. QED
    BY <1>0, <2>1, <2>2, <2>3, OnePage
<1>3. CASE Authenticate(p) \/ RereadSession(p)
  <2>1. UNCHANGED <<now, sess, opened, lastSeen, script>>
    BY <1>3 DEF Authenticate, RereadSession
  <2>2. /\ page[p].pc \in {"authenticate", "reread"}
        /\ page'[p].pc \in {"open", "delete", "served", "lost"}
        /\ page'[p].pc \in {"served", "lost"} => page[p].pc = "reread"
        /\ page'[p].ended = page[p].ended /\ page'[p].session = page[p].session
        /\ page'[p].began = page[p].began
        /\ \A q \in Page \ {p} : page'[q] = page[q]
    BY <1>0, <1>t, <1>3 DEF Authenticate, RereadSession, TypeOK, PageState
  <2>3. PageOK(p)'
    BY <1>0, <2>1, <2>2 DEF PageOK, InService, Ended
  <2>4. QED
    BY <1>0, <2>1, <2>2, <2>3, QuietTable, OnePage
<1>4. CASE ReadSession(p)
  <2>1. UNCHANGED <<now, sess, opened, lastSeen, script>>
    BY <1>4 DEF ReadSession
  <2>2. /\ page[p].pc = "revalidate"
        /\ \/ /\ page'[p].pc = "check" /\ page[p].session \in DOMAIN sess
              /\ page'[p].row = sess[page[p].session]
           \/ page'[p].pc = "done"
        /\ page'[p].ended = page[p].ended /\ page'[p].session = page[p].session
        /\ page'[p].began = page[p].began /\ page'[p].seen = page[p].seen
        /\ \A q \in Page \ {p} : page'[q] = page[q]
    BY <1>0, <1>t, <1>4 DEF ReadSession, TypeOK, PageState
  <2>3. PageOK(p)'
    <3> DEFINE s == page[p].session
    <3>1. CASE page'[p].pc = "done"
      BY <1>0, <2>1, <2>2, <3>1 DEF PageOK, InService, Ended
    <3>2. CASE page'[p].pc = "check"
      <4>1. s \in DOMAIN sess /\ s \in opened /\ s \in Sid
        BY <1>0, <2>2, <3>2 DEF TypeOK
      <4>2. sess[s].revaltime \in Nat /\ lastSeen[s] \in Nat /\ page[p].seen \in Nat
        BY <1>0, <1>t, <4>1 DEF TypeOK, Row, PageState
      <4>3. sess[s].revaltime <= lastSeen[s] /\ lastSeen[s] <= sess[s].revaltime + MaxPage
        BY <1>0, <4>1 DEF TableOK, RevaltimeRecent
      <4>4. page[p].seen <= sess[s].revaltime + MaxPage
        BY <1>0, <2>2, <4>2, <4>3 DEF PageOK
      <4>5. page'[p].row.revaltime = sess[s].revaltime
        BY <2>2, <3>2
      <4>6. QED
        BY <1>0, <2>1, <2>2, <3>2, <4>1, <4>2, <4>3, <4>4, <4>5 DEF PageOK, InService, Ended
    <3>3. QED
      BY <2>2, <3>1, <3>2
  <2>4. QED
    BY <1>0, <2>1, <2>2, <2>3, QuietTable, OnePage
<1>5. CASE CheckUser(p)
  <2>1. UNCHANGED <<now, sess, opened, lastSeen, script>>
    BY <1>5 DEF CheckUser
  <2>2. /\ page[p].pc = "check"
        /\ page'[p].pc \in {"done", "delete", "touch"}
        /\ page'[p].pc = "touch" => ~Expired(p)
        /\ page'[p].ended = page[p].ended /\ page'[p].session = page[p].session
        /\ page'[p].began = page[p].began /\ page'[p].seen = page[p].seen
        /\ page'[p].row = page[p].row
        /\ \A q \in Page \ {p} : page'[q] = page[q]
    BY <1>0, <1>t, <1>5 DEF CheckUser, TypeOK, PageState
  <2>3. page[p].began \in Nat /\ page[p].row.revaltime \in Nat
    BY <1>t DEF PageState, Row
  <2>4. PageOK(p)'
    BY <1>0, <2>1, <2>2, <2>3 DEF PageOK, InService, Ended, Expired
  <2>5. QED
    BY <1>0, <2>1, <2>2, <2>4, QuietTable, OnePage
<1>6. CASE Respond(p)
  <2>1. UNCHANGED <<now, sess, opened, lastSeen, script>> /\ page' = [page EXCEPT ![p] = Idle]
    BY <1>6 DEF Respond
  <2>2. page'[p] = Idle /\ \A q \in Page \ {p} : page'[q] = page[q]
    BY <1>0, <2>1 DEF TypeOK
  <2>3. PageOK(p)'
    BY <2>2 DEF PageOK, Idle, InService
  <2>4. QED
    BY <1>0, <2>1, <2>2, <2>3, QuietTable, OnePage
<1>7. QED
  BY <1>1, <1>2, <1>3, <1>4, <1>5, <1>6
-----------------------------------------------------------------------------
LEMMA OpenStep ==
  ASSUME SessionsInv, TypeOK', NEW p \in Page, OpenSession(p)
  PROVE  SessionsInv'
<1>0. TypeOK /\ TableOK /\ \A q \in Page : PageOK(q)
  BY Parts
<1>1. PICK s \in Sid \ opened :
       /\ sess' = [t \in DOMAIN sess \cup {s} |-> IF t # s THEN sess[t] ELSE
                    [usrsidx |-> page[p].user, ip |-> page[p].ip, revaltime |-> page[p].began]]
       /\ opened' = opened \cup {s}
       /\ lastSeen' = [lastSeen EXCEPT ![s] = page[p].began]
       /\ page' = [page EXCEPT ![p].pc = "reread", ![p].session = s, ![p].reply = "issue"]
  BY DEF OpenSession
<1>2. page[p].pc = "open" /\ now' = now /\ script' = script
  BY DEF OpenSession
<1>3. page[p] \in PageState /\ page[p].began \in Nat /\ now \in Nat
  BY <1>0 DEF TypeOK, PageState
<1>4. page[p].began <= now /\ now <= page[p].began + MaxPage
  BY <1>0, <1>2 DEF PageOK
<1>5. /\ \A t \in Sid \cup {NoSid} : lastSeen[t] \in Nat
      /\ \A t \in DOMAIN sess : sess[t].revaltime \in Nat /\ t \in opened
      /\ lastSeen[s] = 0
  BY <1>0 DEF TypeOK, Row, TableOK, LastSeenOK
<1>6. /\ lastSeen'[s] = page[p].began /\ sess'[s].revaltime = page[p].began
      /\ \A t \in Sid \cup {NoSid} : t # s => lastSeen'[t] = lastSeen[t]
      /\ DOMAIN sess' = DOMAIN sess \cup {s}
      /\ \A t \in DOMAIN sess : sess'[t] = sess[t]
  BY <1>0, <1>1, <1>5 DEF TypeOK
<1>7. TableMoves
  BY <1>1, <1>2, <1>3, <1>4, <1>5, <1>6 DEF TableMoves, Ended
<1>8. TableOK'
  <2>1. LastSeenOK'
    BY <1>0, <1>1, <1>2, <1>3, <1>4, <1>6 DEF TableOK, LastSeenOK
  <2>2. RevaltimeRecent'
    BY <1>0, <1>3, <1>5, <1>6 DEF TableOK, RevaltimeRecent, TypeOK
  <2>3. QED
    BY <1>0, <1>2, <2>1, <2>2 DEF TableOK
<1>9. /\ page'[p].pc = "reread" /\ page'[p].session = s
      /\ page'[p].ended = page[p].ended /\ page'[p].began = page[p].began
      /\ \A q \in Page \ {p} : page'[q] = page[q]
  BY <1>0, <1>1, <1>3 DEF TypeOK, PageState
<1>10. PageOK(p)'
  <2>1. page[p].ended \subseteq Ended /\ Ended \subseteq Ended' /\ Ended \subseteq opened
    BY <1>0, <1>7 DEF PageOK, TableMoves, Ended
  <2>2. s \in opened' /\ s \notin page[p].ended
    BY <1>1, <2>1
  <2>3. page[p].began <= lastSeen'[s]
    BY <1>3, <1>6
  <2>4. QED
    BY <1>2, <1>4, <1>9, <2>1, <2>2, <2>3 DEF PageOK
<1>11. QED
  BY <1>0, <1>7, <1>8, <1>9, <1>10, OnePage

LEMMA TouchStep ==
  ASSUME SessionsInv, TypeOK', NEW p \in Page, Touch(p)
  PROVE  SessionsInv'
<1> DEFINE s == page[p].session
<1>0. TypeOK /\ TableOK /\ \A q \in Page : PageOK(q)
  BY Parts
<1>1. page[p].pc = "touch" /\ now' = now /\ script' = script /\ opened' = opened
  BY DEF Touch
<1>2. /\ page[p] \in PageState /\ page[p].began \in Nat /\ now \in Nat
      /\ page[p].row \in Row
  BY <1>0 DEF TypeOK, PageState
<1>3. /\ page[p].began <= now /\ now <= page[p].began + MaxPage
      /\ s \in opened /\ s \in Sid
  BY <1>0, <1>1 DEF PageOK, InService, TypeOK
<1>4. /\ \A t \in Sid \cup {NoSid} : lastSeen[t] \in Nat /\ lastSeen[t] <= now
      /\ \A t \in DOMAIN sess : sess[t].revaltime \in Nat /\ t \in opened /\ t \in Sid
  BY <1>0 DEF TypeOK, Row, TableOK, LastSeenOK
<1>5. /\ DOMAIN sess' = DOMAIN sess
      /\ \A t \in DOMAIN sess : t # s => sess'[t] = sess[t]
      /\ s \in DOMAIN sess => sess'[s].revaltime = page[p].began
  BY <1>2 DEF Touch, Updated, RenewedTo, Row
<1>6. /\ \A t \in Sid \cup {NoSid} : t # s => lastSeen'[t] = lastSeen[t]
      /\ lastSeen'[s] = IF lastSeen[s] < page[p].began THEN page[p].began ELSE lastSeen[s]
  BY <1>0, <1>3 DEF Touch, TypeOK
<1>7. /\ lastSeen'[s] >= lastSeen[s] /\ lastSeen'[s] >= page[p].began
      /\ lastSeen'[s] <= now /\ lastSeen'[s] \in Nat
  BY <1>2, <1>3, <1>4, <1>6
<1>8. TableMoves
  <2>1. \A t \in Sid \cup {NoSid} : lastSeen[t] <= lastSeen'[t]
    BY <1>3, <1>4, <1>6, <1>7
  <2>2. ASSUME NEW t \in DOMAIN sess'
        PROVE  \/ t \in DOMAIN sess /\ sess[t].revaltime <= sess'[t].revaltime
               \/ now <= sess'[t].revaltime + MaxPage
    BY <1>3, <1>4, <1>5
  <2>3. QED
    BY <1>1, <1>5, <2>1, <2>2 DEF TableMoves, Ended
<1>9. TableOK'
  <2>1. LastSeenOK'
    BY <1>0, <1>1, <1>3, <1>6, <1>7 DEF TableOK, LastSeenOK
  <2>2. ASSUME NEW t \in DOMAIN sess
        PROVE  sess'[t].revaltime <= lastSeen'[t] /\ lastSeen'[t] <= sess'[t].revaltime + MaxPage
    <3>1. CASE t = s
      BY <1>2, <1>3, <1>5, <1>7, <3>1
    <3>2. CASE t # s
      BY <1>0, <1>4, <1>5, <1>6, <3>2 DEF TableOK, RevaltimeRecent
    <3>3. QED
      BY <3>1, <3>2
  <2>3. QED
    BY <1>0, <1>1, <1>5, <2>1, <2>2 DEF TableOK, RevaltimeRecent
<1>10. /\ page'[p].pc = "served" /\ page'[p].session = s
       /\ page'[p].ended = page[p].ended /\ page'[p].began = page[p].began
       /\ \A q \in Page \ {p} : page'[q] = page[q]
  BY <1>0, <1>2 DEF Touch, Goes, TypeOK, PageState
<1>11. PageOK(p)'
  BY <1>0, <1>1, <1>3, <1>8, <1>10 DEF PageOK, TableMoves, InService
<1>12. QED
  BY <1>0, <1>8, <1>9, <1>10, <1>11, OnePage
-----------------------------------------------------------------------------
LEMMA TickStep == SessionsInv /\ Tick => SessionsInv'
<1> SUFFICES ASSUME SessionsInv, Tick PROVE SessionsInv'
  OBVIOUS
<1>1. /\ now' = now + 1 /\ UNCHANGED <<sess, opened, page, script, lastSeen>>
      /\ TypeOK' /\ TypeOK
  BY DEF Tick, SessionsInv, TypeOK, env
<1>2. \A p \in Page : page[p].pc # "idle" => now < page[p].began + MaxPage
  BY DEF Tick
<1>3. /\ now \in Nat /\ \A p \in Page : page[p].began \in Nat
      /\ \A s \in Sid \cup {NoSid} : lastSeen[s] \in Nat
      /\ script \in Int
  BY <1>1 DEF TypeOK, PageState, NotRunning
<1>4. ClocksAgree'
  BY <1>1, <1>2, <1>3 DEF ClocksAgree, SessionsInv
<1>5. EndedForGood' /\ RevaltimeRecent' /\ RowsRecent'
  BY <1>1 DEF SessionsInv, EndedForGood, RevaltimeRecent, RowsRecent, Ended
<1>6. QED
  BY <1>1, <1>4, <1>5 DEF SessionsInv

\* Steps of nobody's page.
LEMMA NoPage ==
  ASSUME TypeOK, TypeOK', TableMoves, TableOK', \A q \in Page : PageOK(q), page' = page
  PROVE  SessionsInv'
<1>1. \A q \in Page : PageOK(q)'
  BY PageFrame
<1>2. EndedForGood' /\ ClocksAgree' /\ RevaltimeRecent' /\ RowsRecent'
  BY <1>1 DEF EndedForGood, ClocksAgree, RowsRecent, TableOK, LastSeenOK, PageOK
<1>3. QED
  BY <1>2 DEF SessionsInv

LEMMA WorldStep ==
  ASSUME SessionsInv,
         BeginReap \/ Reap \/ (\E u \in User : ChangeStatus(u)) \/ (\E b \in Browser : Move(b))
  PROVE  SessionsInv'
<1>0. TypeOK /\ TableOK /\ \A q \in Page : PageOK(q)
  BY Parts
<1>1. page' = page
  BY DEF BeginReap, Reap, ChangeStatus, Move
<1>2. TypeOK'
  BY <1>0 DEF TypeOK, BeginReap, Reap, Delete, ChangeStatus, Move, env, NotRunning
<1>3. CASE Reap
  BY <1>0, <1>1, <1>2, <1>3, DeleteTable, NoPage DEF Reap
<1>4. CASE BeginReap \/ (\E u \in User : ChangeStatus(u)) \/ (\E b \in Browser : Move(b))
  <2>1. UNCHANGED <<now, sess, opened, lastSeen>> /\ (script' = script \/ script' = now)
    BY <1>4 DEF BeginReap, ChangeStatus, Move
  <2>2. QED
    BY <1>0, <1>1, <1>2, <2>1, QuietTable, NoPage
<1>5. QED
  BY <1>3, <1>4

LEMMA InvStep == SessionsInv /\ [Next]_vars => SessionsInv'
<1> SUFFICES ASSUME SessionsInv, [Next]_vars PROVE SessionsInv'
  OBVIOUS
<1>1. CASE Tick
  BY <1>1, TickStep
<1>2. CASE BeginReap \/ Reap \/ (\E u \in User : ChangeStatus(u)) \/ (\E b \in Browser : Move(b))
  BY <1>2, WorldStep
<1>3. ASSUME NEW p \in Page, NEW b \in Browser,
             \/ Request(p, b) \/ EndSession(p) \/ Authenticate(p) \/ OpenSession(p)
             \/ RereadSession(p) \/ ReadSession(p) \/ CheckUser(p) \/ Touch(p) \/ Respond(p)
      PROVE  SessionsInv'
  <2>1. TypeOK'
    BY <1>3, TypeStep
  <2>2. QED
    BY <1>3, <2>1, PageStep, OpenStep, TouchStep
<1>4. CASE UNCHANGED vars
  BY <1>4 DEF vars, env, SessionsInv, TypeOK, EndedForGood, ClocksAgree, RevaltimeRecent,
              RowsRecent, Ended
<1>5. QED
  BY <1>1, <1>2, <1>3, <1>4 DEF Next

\* The inductive invariant holds: types, that what has ended stays ended, and how
\* far revaltime, the rows pages have read and the clock can be apart.
THEOREM SessionsInvHolds == Spec => []SessionsInv
BY InvInit, InvStep, PTL DEF Spec
-----------------------------------------------------------------------------
\* No page that begins after its session has ended (EndSession, Reap) is served.
THEOREM EndedIsFinal == Spec => []LogoutFinal
<1>1. SessionsInv => LogoutFinal
  BY DEF SessionsInv, EndedForGood, LogoutFinal, InService
<1>2. QED
  BY <1>1, SessionsInvHolds, PTL

\* SESS_revalidate finds no session expired that was in use when the page began,
\* give or take the time a page takes.
THEOREM SessionsInUseLive == Spec => []InUseNotExpired
<1>1. SessionsInv => InUseNotExpired
  <2> SUFFICES ASSUME SessionsInv, NEW p \in Page, page[p].pc = "check", Expired(p)
               PROVE  page[p].began - page[p].seen > Lifetime - MaxPage
    BY DEF InUseNotExpired
  <2>1. page[p].began \in Nat /\ page[p].seen \in Nat /\ page[p].row.revaltime \in Nat
    BY DEF SessionsInv, TypeOK, PageState, Row
  <2>2. page[p].seen <= page[p].row.revaltime + MaxPage
    BY DEF SessionsInv, RowsRecent
  <2>3. QED
    BY <2>1, <2>2 DEF Expired
<1>2. QED
  BY <1>1, SessionsInvHolds, PTL

\* SESS_revalidate serves no page in a session idle for longer than its lifetime.
THEOREM IdleSessionsRefused == Spec => IdleLimit
<1>1. SessionsInv /\ [Next]_vars =>
        [\A p \in Page : page[p].pc = "touch" /\ page'[p].pc = "served" =>
           page[p].began - lastSeen[page[p].session] <= Lifetime]_vars
  <2> SUFFICES ASSUME SessionsInv, NEW p \in Page, page[p].pc = "touch"
               PROVE  page[p].began - lastSeen[page[p].session] <= Lifetime
    OBVIOUS
  <2>1. /\ page[p].began \in Nat /\ page[p].row.revaltime \in Nat
        /\ lastSeen[page[p].session] \in Nat
    BY DEF SessionsInv, TypeOK, PageState, Row
  <2>2. /\ page[p].began - page[p].row.revaltime <= Lifetime
        /\ page[p].row.revaltime <= lastSeen[page[p].session]
    BY DEF SessionsInv, RowsRecent
  <2>3. QED
    BY <2>1, <2>2
<1>2. QED
  BY <1>1, SessionsInvHolds, PTL DEF Spec, IdleLimit

\* age_out_old_sessions takes only sessions that any page would find expired, and
\* none that a page under way has just opened or is about to renew.
THEOREM ReaperSparesLiveSessions == Spec => ReapHarmless
<1> DEFINE Spares == Reap => \A s \in DOMAIN sess \ DOMAIN sess' :
             /\ now - lastSeen[s] > Lifetime
             /\ \A p \in Page : page[p].session = s => page[p].pc \notin {"reread", "touch"}
<1>1. ASSUME SessionsInv, Reap, NEW s \in DOMAIN sess \ DOMAIN sess'
      PROVE  /\ now - lastSeen[s] > Lifetime
             /\ \A p \in Page : page[p].session = s => page[p].pc \notin {"reread", "touch"}
  <2>0. TypeOK /\ TableOK /\ \A q \in Page : PageOK(q)
    BY <1>1, Parts
  <2>1. sess[s].revaltime < script - ReapTime
    BY <1>1 DEF Reap, Delete, ReapAge
  <2>2. /\ now \in Nat /\ script \in Int /\ sess[s].revaltime \in Nat
        /\ s \in Sid /\ lastSeen[s] \in Nat
    BY <2>0 DEF TypeOK, Row, NotRunning
  <2>3. script <= now /\ lastSeen[s] <= sess[s].revaltime + MaxPage
    BY <2>0 DEF TableOK, RevaltimeRecent
  <2>4. now - lastSeen[s] > Lifetime
    BY <2>1, <2>2, <2>3
  <2>5. ASSUME NEW p \in Page, page[p].session = s, page[p].pc \in {"reread", "touch"}
        PROVE  FALSE
    <3>1. page[p].began \in Nat /\ page[p].row.revaltime \in Nat
      BY <2>0 DEF TypeOK, PageState, Row
    <3>2. now <= page[p].began + MaxPage
      BY <2>0, <2>5 DEF PageOK
    <3>3. CASE page[p].pc = "reread"
      <4>1. page[p].began <= lastSeen[s]
        BY <2>0, <2>5, <3>3 DEF PageOK
      <4>2. QED
        BY <2>1, <2>2, <2>3, <3>1, <3>2, <4>1
    <3>4. CASE page[p].pc = "touch"
      <4>1. page[p].began - page[p].row.revaltime <= Lifetime
        BY <2>0, <3>4 DEF PageOK
      <4>2. \/ page[p].row.revaltime <= sess[s].revaltime
            \/ page[p].began <= sess[s].revaltime + MaxPage
        BY <2>0, <2>5, <3>4 DEF PageOK
      <4>3. QED
        BY <2>1, <2>2, <2>3, <3>1, <3>2, <4>1, <4>2
    <3>5. QED
      BY <2>5, <3>3, <3>4
  <2>6. QED
    BY <2>4, <2>5
<1>2. SessionsInv /\ [Next]_vars => [Spares]_vars
  BY <1>1
<1>3. QED
  BY <1>2, SessionsInvHolds, PTL DEF Spec, ReapHarmless
-----------------------------------------------------------------------------
\* A step that opens no session and in which no page enters the service of one
\* leaves the agreement on addresses as it is.
KeepsHome(p) ==
  page'[p].pc \in InService =>
    /\ page[p].pc \in InService
    /\ page'[p].session = page[p].session
    /\ Home(p)' = Home(p)
    /\ page'[p].pc = "touch" => page'[p].row.ip = page'[p].ip

TableKeepsHomes == \A s \in DOMAIN sess' : s \in DOMAIN sess /\ sess'[s].ip = sess[s].ip

LEMMA HomeFrame ==
  ASSUME HomeKept, TableKeepsHomes, \A p \in Page : KeepsHome(p)
  PROVE  HomeKept'
BY DEF HomeKept, TableKeepsHomes, KeepsHome

\* A page whose state is what it was.
LEMMA HomeSame ==
  ASSUME HomeKept, NEW q \in Page, page'[q] = page[q]
  PROVE  KeepsHome(q)
BY DEF HomeKept, KeepsHome, Home

LEMMA HomeInit == Init => HomeKept
BY DEF Init, HomeKept, Idle, InService

\* The login: its session is new, so no other page is in its service.
LEMMA HomeOpen ==
  ASSUME SessionsInv, HomeKept, NEW p \in Page, OpenSession(p)
  PROVE  HomeKept'
<1>1. PICK s \in Sid \ opened :
        /\ sess' = [t \in DOMAIN sess \cup {s} |-> IF t # s THEN sess[t] ELSE
                    [usrsidx |-> page[p].user, ip |-> page[p].ip, revaltime |-> page[p].began]]
        /\ page' = [page EXCEPT ![p].pc = "reread", ![p].session = s, ![p].reply = "issue"]
  BY DEF OpenSession
<1>2. /\ page \in [Page -> PageState] /\ DOMAIN sess \subseteq opened
      /\ \A q \in Page : page[q].pc \in InService => page[q].session \in opened
  BY DEF SessionsInv, TypeOK, EndedForGood
<1>3. /\ page'[p].pc = "reread" /\ page'[p].session = s /\ page'[p].ip = page[p].ip
      /\ \A q \in Page \ {p} : page'[q] = page[q]
  BY <1>1, <1>2 DEF PageState
<1>4. /\ s \in DOMAIN sess' /\ sess'[s].ip = page[p].ip
      /\ \A t \in DOMAIN sess' \ {s} : t \in DOMAIN sess /\ sess'[t] = sess[t]
  BY <1>1
<1>5. Home(p)' = page[p].ip
  BY <1>3 DEF Home
<1>6. \A q \in Page \ {p} :
        /\ Home(q)' = Home(q)
        /\ page'[q].pc \in InService => page'[q].session # s
  BY <1>1, <1>2, <1>3 DEF Home
<1>7. QED
  BY <1>3, <1>4, <1>5, <1>6 DEF HomeKept

\* SESS_revalidate reads the row: the address it reads is the session's.
LEMMA HomeRead ==
  ASSUME SessionsInv, HomeKept, NEW p \in Page, ReadSession(p)
  PROVE  HomeKept'
<1>0. page \in [Page -> PageState] /\ sess' = sess
  BY DEF SessionsInv, TypeOK, ReadSession
<1>1. CASE page[p].session \in DOMAIN sess
  <2>1. page' = [page EXCEPT ![p].pc = "check", ![p].row = sess[page[p].session]]
    BY <1>1 DEF ReadSession
  <2>2. /\ page'[p].pc = "check" /\ page'[p].session = page[p].session
        /\ page'[p].row = sess[page[p].session]
        /\ \A q \in Page \ {p} : page'[q] = page[q]
    BY <1>0, <2>1 DEF PageState
  <2>3. Home(p)' = sess[page[p].session].ip
    BY <2>2 DEF Home
  <2>4. \A q \in Page \ {p} : Home(q)' = Home(q)
    BY <2>2 DEF Home
  <2>5. QED
    BY <1>0, <1>1, <2>2, <2>3, <2>4 DEF HomeKept
<1>2. CASE page[p].session \notin DOMAIN sess
  <2>1. page'[p].pc = "done" /\ \A q \in Page \ {p} : page'[q] = page[q]
    BY <1>0, <1>2 DEF ReadSession, Goes, PageState
  <2>2. \A q \in Page : KeepsHome(q)
    <3>1. KeepsHome(p)
      BY <2>1 DEF KeepsHome, InService
    <3>2. QED
      BY <2>1, <3>1, HomeSame
  <2>3. QED
    BY <1>0, <2>2, HomeFrame DEF TableKeepsHomes
<1>3. QED
  BY <1>1, <1>2

LEMMA HomeStep ==
  ASSUME SessionsInv, HomeKept, [Next]_vars
  PROVE  HomeKept'
<1>0. page \in [Page -> PageState]
  BY DEF SessionsInv, TypeOK
<1>1. ASSUME sess' = sess, page' = page
      PROVE  HomeKept'
  BY <1>1 DEF HomeKept, Home
<1>2. CASE Tick \/ BeginReap \/ (\E u \in User : ChangeStatus(u)) \/ (\E b \in Browser : Move(b))
           \/ UNCHANGED vars
  BY <1>1, <1>2 DEF Tick, BeginReap, ChangeStatus, Move, vars
<1>3. CASE Reap
  <2>1. page' = page /\ TableKeepsHomes
    BY <1>3 DEF Reap, Delete, TableKeepsHomes
  <2>2. QED
    BY <2>1, HomeSame, HomeFrame
<1>4. ASSUME NEW p \in Page, TableKeepsHomes, KeepsHome(p), \A q \in Page \ {p} : page'[q] = page[q]
      PROVE  HomeKept'
  BY <1>4, HomeSame, HomeFrame
<1>5. ASSUME NEW p \in Page, NEW b \in Browser, Request(p, b) PROVE HomeKept'
  <2>1. page'[p].pc \in {"delete", "authenticate", "revalidate"} /\ sess' = sess
    BY <1>0, <1>5 DEF Request, Idle
  <2>2. \A q \in Page \ {p} : page'[q] = page[q]
    BY <1>0, <1>5 DEF Request
  <2>3. QED
    BY <1>4, <2>1, <2>2 DEF TableKeepsHomes, KeepsHome, InService
<1>6. ASSUME NEW p \in Page, EndSession(p) PROVE HomeKept'
  <2>1. page'[p].pc = "done" /\ \A q \in Page \ {p} : page'[q] = page[q]
    BY <1>0, <1>6 DEF EndSession, Replies, PageState
  <2>2. TableKeepsHomes
    BY <1>6 DEF EndSession, Delete, TableKeepsHomes
  <2>3. QED
    BY <1>4, <2>1, <2>2 DEF KeepsHome, InService
<1>7. ASSUME NEW p \in Page, Authenticate(p) \/ RereadSession(p) \/ CheckUser(p) PROVE HomeKept'
  <2>1. PICK label : page' = [page EXCEPT ![p].pc = label]
    BY <1>7 DEF Authenticate, RereadSession, CheckUser, Goes
  <2>2. /\ page'[p].session = page[p].session /\ page'[p].ip = page[p].ip
        /\ page'[p].row = page[p].row
        /\ \A q \in Page \ {p} : page'[q] = page[q]
    BY <1>0, <2>1 DEF PageState
  <2>3. sess' = sess
    BY <1>7 DEF Authenticate, RereadSession, CheckUser
  <2>4. CASE Authenticate(p)
    <3>1. page'[p].pc \in {"open", "delete"}
      BY <1>0, <2>4 DEF Authenticate, Goes, PageState
    <3>2. QED
      BY <1>4, <2>2, <2>3, <3>1 DEF TableKeepsHomes, KeepsHome, InService
  <2>5. CASE RereadSession(p)
    <3>1. page[p].pc = "reread" /\ page'[p].pc \in {"served", "lost"}
      BY <1>0, <2>5 DEF RereadSession, Goes, PageState
    <3>2. QED
      BY <1>4, <2>2, <2>3, <3>1 DEF TableKeepsHomes, KeepsHome, InService, Home
  <2>6. CASE CheckUser(p)
    <3>1. /\ page[p].pc = "check" /\ page'[p].pc \in {"done", "delete", "touch"}
          /\ page'[p].pc = "touch" => page[p].row.ip = page[p].ip
      BY <1>0, <2>6 DEF CheckUser, Goes, Moved, PageState
    <3>2. QED
      BY <1>4, <2>2, <2>3, <3>1 DEF TableKeepsHomes, KeepsHome, InService, Home
  <2>7. QED
    BY <1>7, <2>4, <2>5, <2>6
<1>8. ASSUME NEW p \in Page, Touch(p) PROVE HomeKept'
  <2>1. /\ page[p].pc = "touch" /\ page'[p].pc = "served"
        /\ page'[p].session = page[p].session /\ page'[p].ip = page[p].ip
        /\ \A q \in Page \ {p} : page'[q] = page[q]
    BY <1>0, <1>8 DEF Touch, Goes, PageState
  <2>2. KeepsHome(p)
    BY <2>1 DEF KeepsHome, InService, Home
  <2>3. page[p].row \in Row
    BY <1>0 DEF PageState
  <2>4. page[p].session \in DOMAIN sess => sess[page[p].session].ip = page[p].row.ip
    BY <2>1 DEF HomeKept, InService, Home
  <2>5. TableKeepsHomes
    BY <1>8, <2>3, <2>4 DEF Touch, Updated, Row, TableKeepsHomes
  <2>6. QED
    BY <1>4, <2>1, <2>2, <2>5
<1>9. ASSUME NEW p \in Page, Respond(p) PROVE HomeKept'
  <2>1. /\ page'[p].pc = "idle" /\ sess' = sess
        /\ \A q \in Page \ {p} : page'[q] = page[q]
    BY <1>0, <1>9 DEF Respond, Idle
  <2>2. QED
    BY <1>4, <2>1 DEF TableKeepsHomes, KeepsHome, InService
<1>10. QED
  BY <1>2, <1>3, <1>5, <1>6, <1>7, <1>8, <1>9, HomeOpen, HomeRead DEF Next

\* Pages of one session are served to one address (the test of SESS_revalidate
\* against the address in the row), whatever moves and logins interleave.
THEOREM SessionsStayHome == Spec => []HomeOnly
<1>1. HomeKept => HomeOnly
  BY DEF HomeKept, HomeOnly, Home, InService
<1>2. QED
  BY <1>1, HomeInit, HomeStep, SessionsInvHolds, PTL DEF Spec
-----------------------------------------------------------------------------
\* Sessions implements SessionLife: identifiers are opened once, ended once.
THEOREM ImplementsSessionLife == Spec => LifeSpec
<1>1. Init => Life!Init
  BY DEF Init, Life!Init, Ended
<1>2. ASSUME SessionsInv, SessionsInv', [Next]_vars
      PROVE  [Life!Next]_<<opened, Ended>>
  <2>0. DOMAIN sess \subseteq opened /\ opened \subseteq Sid
    BY <1>2 DEF SessionsInv, TypeOK
  <2>1. ASSUME NEW S, Delete(S), opened' = opened
        PROVE  [Life!Next]_<<opened, Ended>>
    <3> DEFINE E == DOMAIN sess \cap S
    <3>1. DOMAIN sess' = DOMAIN sess \ S
      BY <2>1 DEF Delete
    <3>2. Ended' = Ended \cup E /\ E \subseteq opened \ Ended /\ E \in SUBSET Sid
      BY <2>0, <2>1, <3>1 DEF Ended
    <3>3. CASE E = {}
      BY <2>1, <3>2, <3>3
    <3>4. CASE E # {}
      BY <2>1, <3>2, <3>4 DEF Life!Next, Life!End
    <3>5. QED
      BY <3>3, <3>4
  <2>2. CASE \E p \in Page : EndSession(p)
    BY <2>1, <2>2 DEF EndSession
  <2>3. CASE Reap
    BY <2>1, <2>3 DEF Reap
  <2>4. ASSUME NEW p \in Page, OpenSession(p)
        PROVE  [Life!Next]_<<opened, Ended>>
    <3>1. PICK s \in Sid \ opened :
            DOMAIN sess' = DOMAIN sess \cup {s} /\ opened' = opened \cup {s}
      BY <2>4 DEF OpenSession
    <3>2. Ended' = Ended
      BY <2>0, <3>1 DEF Ended
    <3>3. QED
      BY <3>1, <3>2 DEF Life!Next, Life!Open
  <2>5. CASE \E p \in Page : Touch(p)
    BY <2>5 DEF Touch, Updated, Ended
  <2>6. ASSUME UNCHANGED <<sess, opened>>
        PROVE  [Life!Next]_<<opened, Ended>>
    BY <2>6 DEF Ended
  <2>7. CASE Tick \/ BeginReap \/ (\E u \in User : ChangeStatus(u)) \/ (\E b \in Browser : Move(b))
             \/ UNCHANGED vars
    BY SMTT(30), <2>6, <2>7 DEF Tick, BeginReap, ChangeStatus, Move, vars
  <2>8. CASE \E p \in Page : \/ \E b \in Browser : Request(p, b)
                            \/ Authenticate(p) \/ RereadSession(p) \/ ReadSession(p)
                            \/ CheckUser(p) \/ Respond(p)
    BY <2>6, <2>8 DEF Request, Authenticate, RereadSession, ReadSession, CheckUser, Respond
  <2>9. QED
    BY <1>2, <2>2, <2>3, <2>4, <2>5, <2>7, <2>8 DEF Next
<1>3. QED
  BY <1>1, <1>2, SessionsInvHolds, PTL DEF Spec, LifeSpec, Life!Spec
-----------------------------------------------------------------------------
(***************************************************************************)
(* The other half of the daily script: LogTrim, for every limit and any    *)
(* number of overlapping runs.                                             *)
(***************************************************************************)
USE LogTrimAssumption DEF Place, BeforeDelete

\* The highest of finitely many indices: SELECT MAX(idx) over a log that is not empty.
LEMMA HighestIndex ==
  ASSUME NEW n \in Nat, loge \subseteq 1 .. n, loge # {}
  PROVE  Highest \in loge /\ \A i \in loge : i <= Highest
<1> DEFINE Above == {i .. n : i \in loge}
           R == StrictSubsetOrdering(1 .. n)
<1>1. IsWellFoundedOn(R, FiniteSubsetsOf(1 .. n))
  BY FS_StrictSubsetOrderingWellFounded
<1>2. Above \subseteq FiniteSubsetsOf(1 .. n) /\ Above # {}
  <2>1. ASSUME NEW i \in loge  PROVE IsFiniteSet(i .. n) /\ i .. n \subseteq 1 .. n
    <3>1. i \in Int /\ i >= 1
      OBVIOUS
    <3> QED BY <3>1, FS_Interval
  <2> QED BY <2>1 DEF FiniteSubsetsOf
<1> HIDE DEF Above, R
<1>3. \E x \in Above : \A y \in Above : ~(<<y, x>> \in R)
  BY <1>1, <1>2, WFMin
<1>4. PICK m \in loge : \A i \in loge : ~(<<i .. n, m .. n>> \in R)
  BY <1>3 DEF Above
<1>5. ASSUME NEW i \in loge, m < i  PROVE FALSE
  <2>1. m \in m .. n /\ m \notin i .. n
    BY <1>5
  <2>2. i .. n \subseteq m .. n /\ i .. n # m .. n /\ m .. n \subseteq 1 .. n /\ i .. n \subseteq 1 .. n
    BY <1>5, <2>1
  <2> QED BY <2>2, <1>4 DEF R, StrictSubsetOrdering
<1>6. \A i \in loge : i <= m
  BY <1>5
<1> QED BY <1>6 DEF Highest

LEMMA LogInitOK == LogInit => LogInv
BY DEF LogInit, LogInv, LogTypeOK, Given, MaximumGiven,
       CutHolds, RecentKept

\* What an INSERT, or one that fails, does to the indices.
LEMMA LOG_logKeeps ==
  ASSUME LogInv, LOG_log
  PROVE  /\ loge' \subseteq 1 .. last' /\ last' \in 0 .. MaxIdx
         /\ written' \subseteq 1 .. MaxIdx /\ Given' /\ RecentKept'
         /\ written \subseteq written' /\ loge \subseteq loge'
         /\ \A i \in loge' \ loge : i = last + 1
<1> USE DEF LogInv, LogTypeOK, Given
<1>1. CASE Insert
  <2>1. /\ last' = last + 1 /\ last < MaxIdx
        /\ loge' = loge \cup {last + 1} /\ written' = written \cup {last + 1}
    BY <1>1 DEF Insert
  <2>2. RecentKept'
    BY <2>1 DEF RecentKept
  <2> QED BY <2>1, <2>2
<1>2. CASE InsertFails
  BY <1>2 DEF InsertFails, RecentKept
<1> QED BY <1>1, <1>2 DEF LOG_log

\* A step that only says something keeps the invariant.
LEMMA SayOK ==
  ASSUME LogInv, LOG_log,
         pc' \in [Script -> Place],
         UNCHANGED <<loge_max, cut>>,
         \A t \in Script : cut[t] => pc'[t] \notin BeforeDelete
  PROVE  LogInv'
<1>1. /\ loge' \subseteq 1 .. last' /\ last' \in 0 .. MaxIdx
      /\ written' \subseteq 1 .. MaxIdx /\ Given' /\ RecentKept'
      /\ written \subseteq written' /\ loge \subseteq loge'
      /\ \A i \in loge' \ loge : i = last + 1
  BY LOG_logKeeps
<1>2. LogTypeOK'
  BY <1>1 DEF LogInv, LogTypeOK
<1>3. MaximumGiven'
  BY <1>1 DEF LogInv, MaximumGiven
<1>4. ASSUME NEW t \in Script  PROVE loge_max[t] <= last
  BY DEF LogInv, LogTypeOK, Given, MaximumGiven
<1>5. CutHolds'
  BY <1>1, <1>2, <1>4 DEF LogInv, LogTypeOK, CutHolds, max_index
<1> QED BY <1>1, <1>2, <1>3, <1>5 DEF LogInv

\* A step that writes nothing, and whose scripts keep what they know of the
\* maximum and of the cut.
LEMMA QuietOK ==
  ASSUME LogInv, UNCHANGED <<loge, loge_max, cut, written>>,
         last' \in 0 .. MaxIdx, written \subseteq 1 .. last',
         pc' \in [Script -> Place],
         \A t \in Script : cut[t] => pc'[t] \notin BeforeDelete
  PROVE  LogInv'
<1>1. LogTypeOK' /\ Given'
  BY DEF LogInv, LogTypeOK, Given
<1>2. MaximumGiven' /\ CutHolds' /\ RecentKept'
  BY DEF LogInv, MaximumGiven, CutHolds, RecentKept, max_index
<1> QED BY <1>1, <1>2 DEF LogInv

\* The DELETE, whichever maximum the script holds: what it removes has an index
\* MaxEntries above it still in the log, and so has what was removed before.
LEMMA DeleteOK ==
  ASSUME LogInv, NEW s \in Script, DeleteOld(s)
  PROVE  LogInv'
<1>1. /\ pc[s] = "trim" /\ max_index(s) >= 2
      /\ pc' = [pc EXCEPT ![s] = "deleted"] /\ UNCHANGED <<last, loge_max, written>>
  BY DEF DeleteOld
<1>2. /\ loge \subseteq 1 .. last /\ last \in 0 .. MaxIdx /\ loge \subseteq written
      /\ loge_max \in [Script -> 0 .. MaxIdx] /\ written \subseteq 1 .. last
  BY DEF LogInv, LogTypeOK, Given
<1>3. CASE UNCHANGED <<loge, cut>>
  <2>1. \A t \in Script : cut[t] => pc'[t] \notin BeforeDelete
    BY <1>1 DEF LogInv, CutHolds, LogTypeOK
  <2> QED BY <1>1, <1>2, <1>3, <2>1, QuietOK DEF LogInv, LogTypeOK
<1>4. CASE loge' = {i \in loge : i >= max_index(s)} /\ cut' = [cut EXCEPT ![s] = TRUE]
  <2> DEFINE m == loge_max[s]
  <2>1. m \in 0 .. MaxIdx /\ max_index(s) = m - MaxEntries + 1 /\ m \in written
    BY <1>1, <1>2 DEF max_index, LogInv, MaximumGiven
  <2> HIDE DEF m
  <2>2. \A i \in loge : i \in loge' <=> i > m - MaxEntries
    BY <1>2, <1>4, <2>1
  <2>3. LogTypeOK' /\ Given'
    BY <1>1, <1>4 DEF LogInv, LogTypeOK, Given
  <2>4. MaximumGiven'
    BY <1>1 DEF LogInv, MaximumGiven
  <2>5. CutHolds'
    <3>1. ASSUME NEW t \in Script
          PROVE  pc'[t] \in BeforeDelete => ~cut'[t]
      BY <1>1, <1>4 DEF LogInv, CutHolds, LogTypeOK
    <3>2. ASSUME NEW t \in Script, cut'[t], NEW i \in loge', i <= loge_max[t]
          PROVE  i >= max_index(t)
      <4>1. CASE t = s
        BY <1>4, <4>1
      <4>2. CASE t # s
        BY <1>4, <3>2, <4>2 DEF LogInv, CutHolds, LogTypeOK
      <4> QED BY <4>1, <4>2
    <3> QED BY <1>1, <3>1, <3>2 DEF CutHolds, max_index
  <2>6. \E j \in loge' : m <= j
    <3>1. CASE m \in loge
      BY <1>2, <2>1, <2>2, <3>1
    <3>2. CASE m \notin loge
      <4>1. PICK j \in loge : m + MaxEntries <= j
        BY <2>1, <3>2 DEF LogInv, RecentKept
      <4> QED BY <1>2, <2>1, <2>2, <4>1
    <3> QED BY <3>1, <3>2
  <2>7. ASSUME NEW i \in written \ loge'  PROVE \E j \in loge' : i + MaxEntries <= j
    <3> PICK j \in loge' : m <= j
      BY <2>6
    <3>1. i \in Nat /\ j \in Nat /\ m \in Nat /\ loge' \subseteq loge
      BY <1>2, <1>4, <2>1
    <3>2. CASE i \in loge
      BY <2>2, <2>7, <3>1, <3>2
    <3>3. CASE i \notin loge
      <4>1. PICK k \in loge : i + MaxEntries <= k
        BY <2>7, <3>3 DEF LogInv, RecentKept
      <4>2. CASE k \in loge'
        BY <4>1, <4>2
      <4>3. CASE k \notin loge'
        <5>1. k <= m - MaxEntries /\ k \in Nat
          BY <1>2, <2>1, <2>2, <4>3
        <5> QED BY <3>1, <4>1, <5>1
      <4> QED BY <4>2, <4>3
    <3> QED BY <3>2, <3>3
  <2>8. RecentKept'
    BY <1>1, <2>7 DEF RecentKept
  <2> QED BY <2>3, <2>4, <2>5, <2>8 DEF LogInv
<1> QED BY <1>3, <1>4 DEF DeleteOld

\* A restart gives the next index after the highest row; nothing above it has
\* ever been written, since the newest rows are never deleted.
LEMMA RestartOK == LogInv /\ Restart => LogInv'
<1> SUFFICES ASSUME LogInv, Restart  PROVE LogInv'
  OBVIOUS
<1>1. loge \subseteq 1 .. last /\ last \in 0 .. MaxIdx /\ written \subseteq 1 .. last
  BY DEF LogInv, LogTypeOK, Given
<1>2. last' \in 0 .. MaxIdx /\ written \subseteq 1 .. last'
  <2>1. CASE loge = {}
    BY <2>1 DEF Restart, LogInv, RecentKept
  <2>2. CASE loge # {}
    <3>1. Highest \in loge /\ \A i \in loge : i <= Highest
      BY <1>1, <2>2, HighestIndex
    <3>2. ASSUME NEW i \in written  PROVE i <= Highest
      <4>1. CASE i \in loge
        BY <3>1, <4>1
      <4>2. CASE i \notin loge
        <5>1. PICK j \in loge : i + MaxEntries <= j
          BY <4>2 DEF LogInv, RecentKept
        <5>2. i \in Nat /\ j \in Nat /\ Highest \in Nat
          BY <1>1, <3>1
        <5> QED BY <3>1, <5>1, <5>2
      <4> QED BY <4>1, <4>2
    <3> HIDE DEF Highest
    <3> QED BY <1>1, <2>2, <3>1, <3>2 DEF Restart
  <2> QED BY <2>1, <2>2
<1>3. /\ pc' = [t \in Script |-> "idle"]
      /\ UNCHANGED <<loge, loge_max, cut, written>>
  BY DEF Restart
<1> QED BY <1>2, <1>3, QuietOK DEF LogInv, LogTypeOK

LEMMA StepOK ==
  ASSUME LogInv, NEW s \in Script, Step(s) \/ Kill(s)
  PROVE  LogInv'
<1> USE DEF server
<1>0. /\ pc \in [Script -> Place] /\ last \in 0 .. MaxIdx /\ written \subseteq 1 .. last
      /\ loge_max \in [Script -> 0 .. MaxIdx] /\ cut \in [Script -> BOOLEAN]
      /\ loge \subseteq 1 .. last /\ loge \subseteq written
      /\ \A t \in Script : pc[t] \in BeforeDelete => ~cut[t]
  BY DEF LogInv, LogTypeOK, Given, CutHolds
<1>1. CASE Begin(s)
  <2>1. /\ LOG_log /\ pc' = [pc EXCEPT ![s] = "count"]
        /\ loge_max' = [loge_max EXCEPT ![s] = 0] /\ cut' = [cut EXCEPT ![s] = FALSE]
    BY <1>1 DEF Begin
  <2>2. /\ loge' \subseteq 1 .. last' /\ last' \in 0 .. MaxIdx
        /\ written' \subseteq 1 .. MaxIdx /\ Given' /\ RecentKept'
        /\ written \subseteq written' /\ loge \subseteq loge'
        /\ \A i \in loge' \ loge : i = last + 1
    BY <2>1, LOG_logKeeps
  <2>3. LogTypeOK'
    BY <1>0, <2>1, <2>2 DEF LogTypeOK
  <2>4. MaximumGiven'
    BY <1>0, <2>1, <2>2 DEF LogInv, MaximumGiven
  <2>5. ASSUME NEW t \in Script  PROVE loge_max[t] <= last
    BY <1>0 DEF LogInv, MaximumGiven
  <2>6. CutHolds'
    BY <1>0, <2>1, <2>2, <2>3, <2>5 DEF LogInv, CutHolds, max_index, LogTypeOK
  <2> QED BY <2>2, <2>3, <2>4, <2>6 DEF LogInv
<1>2. CASE Count(s)
  <2>1. /\ pc[s] = "count" /\ UNCHANGED <<loge, last, loge_max, cut, written>>
        /\ pc' \in [Script -> Place]
        /\ \A t \in Script : pc'[t] \in BeforeDelete => pc[t] \in BeforeDelete
    BY <1>0, <1>2 DEF Count
  <2> QED BY <1>0, <2>1, QuietOK
<1>3. ASSUME NEW from \in Place, NEW to \in Place, Say(s, from, to),
             to \in BeforeDelete => from \in BeforeDelete
      PROVE  LogInv'
  <2>1. /\ LOG_log /\ pc[s] = from /\ pc' = [pc EXCEPT ![s] = to]
        /\ UNCHANGED <<loge_max, cut>>
    BY <1>3 DEF Say
  <2>2. /\ pc' \in [Script -> Place]
        /\ \A t \in Script : pc'[t] \in BeforeDelete => pc[t] \in BeforeDelete
    BY <1>0, <1>3, <2>1
  <2> QED BY <1>0, <2>1, <2>2, SayOK
<1>4. CASE Highmost(s)
  <2>1. CASE loge_max' = loge_max
    <3>1. /\ pc[s] = "max" /\ UNCHANGED <<loge, last, cut, written>>
          /\ pc' \in [Script -> Place]
          /\ \A t \in Script : pc'[t] \in BeforeDelete => pc[t] \in BeforeDelete
      BY <1>0, <1>4 DEF Highmost
    <3> QED BY <1>0, <2>1, <3>1, QuietOK
  <2>2. CASE /\ loge # {} /\ loge_max' = [loge_max EXCEPT ![s] = Highest]
             /\ pc' = [pc EXCEPT ![s] = "highest"]
    <3>1. pc[s] = "max" /\ UNCHANGED <<loge, last, cut, written>>
      BY <1>4 DEF Highmost
    <3>2. Highest \in loge
      BY <1>0, <2>2, last \in Nat, HighestIndex
    <3> HIDE DEF Highest
    <3>3. LogTypeOK' /\ Given'
      BY <1>0, <2>2, <3>1, <3>2 DEF LogInv, LogTypeOK, Given
    <3>4. MaximumGiven'
      BY <1>0, <2>2, <3>1, <3>2 DEF LogInv, MaximumGiven
    <3>5. CutHolds'
      BY <1>0, <2>2, <3>1 DEF LogInv, CutHolds, max_index
    <3>6. RecentKept'
      BY <3>1 DEF LogInv, RecentKept
    <3> QED BY <3>3, <3>4, <3>5, <3>6 DEF LogInv
  <2> QED BY <1>4, <2>1, <2>2 DEF Highmost
<1>5. CASE DeleteOld(s)
  BY <1>5, DeleteOK
<1>6. CASE Kill(s)
  <2>1. /\ UNCHANGED <<loge, last, loge_max, cut, written>>
        /\ pc' \in [Script -> Place]
        /\ \A t \in Script : pc'[t] \in BeforeDelete => pc[t] \in BeforeDelete
    BY <1>0, <1>6 DEF Kill
  <2> QED BY <1>0, <2>1, QuietOK
<1> QED BY <1>1, <1>2, <1>3, <1>4, <1>5, <1>6 DEF Step, Few

LEMMA LogStep == LogInv /\ [LogNext]_logVars => LogInv'
<1> SUFFICES ASSUME LogInv, [LogNext]_logVars  PROVE LogInv'
  OBVIOUS
<1>0. /\ pc \in [Script -> Place] /\ last \in 0 .. MaxIdx /\ written \subseteq 1 .. last
      /\ \A t \in Script : cut[t] => pc[t] \notin BeforeDelete
  BY DEF LogInv, LogTypeOK, Given, CutHolds
<1>1. CASE Append
  BY <1>0, <1>1, SayOK DEF Append, LOG_log, trim
<1>2. CASE AppendFails
  BY <1>0, <1>2, SayOK DEF AppendFails, LOG_log, trim
<1>3. CASE Restart
  BY <1>3, RestartOK
<1>4. ASSUME NEW s \in Script, Step(s) \/ Kill(s)  PROVE LogInv'
  BY <1>4, StepOK
<1>5. CASE UNCHANGED logVars
  BY <1>0, <1>5, QuietOK DEF logVars, server, trim
<1> QED BY <1>1, <1>2, <1>3, <1>4, <1>5 DEF LogNext

\* The indices and the cuts are what LogInv says in every state of the log.
THEOREM LogInvHolds == LogSpec => []LogInv
<1> QED BY LogInitOK, LogStep, PTL DEF LogSpec

\* An entry goes only when MaxEntries newer indices have been given.
THEOREM NewestKept == LogSpec => []RecentKept
<1>1. LogInv => RecentKept
  BY DEF LogInv
<1> QED BY <1>1, LogInvHolds, PTL

\* What a trim that succeeded has left of the rows it saw is within the limit.
THEOREM TrimsReachLimit == LogSpec => []TrimmedToLimit
<1>1. LogInv => TrimmedToLimit
  <2> SUFFICES ASSUME LogInv, NEW s \in Script, cut[s]
               PROVE  Cardinality({i \in loge : i <= loge_max[s]}) <= MaxEntries
    \* An instance has the operators of FiniteSets under its own name, too.
    BY DEF TrimmedToLimit, Cardinality
  <2> DEFINE kept == {i \in loge : i <= loge_max[s]}
             window == max_index(s) .. loge_max[s]
  <2>1. loge_max[s] \in Int /\ max_index(s) \in Int /\ max_index(s) = loge_max[s] - MaxEntries + 1
    BY DEF LogInv, LogTypeOK, max_index
  <2>2. kept \subseteq window
    <3>1. ASSUME NEW i \in loge, i <= loge_max[s]  PROVE i \in window
      BY <2>1, <3>1 DEF LogInv, LogTypeOK, CutHolds
    <3> QED BY <3>1
  <2> HIDE DEF kept
  <2>3. IsFiniteSet(window) /\ Cardinality(window) = MaxEntries
    <3>1. ASSUME NEW a \in Int, NEW b \in Int, a = b - MaxEntries + 1
          PROVE  IsFiniteSet(a .. b) /\ Cardinality(a .. b) = MaxEntries
      BY <3>1, FS_Interval
    <3> QED BY <2>1, <3>1
  <2> HIDE DEF window
  <2>4. Cardinality(kept) <= MaxEntries
    BY <2>2, <2>3, FS_Subset
  <2> QED BY <2>4 DEF kept
<1> QED BY <1>1, LogInvHolds, PTL

\* No index is given twice, through trims that overlap and restarts.
THEOREM IndicesAreNew == LogSpec => IndexNotReused
<1> DEFINE New == (loge' \ loge) \cap written = {}
<1>1. ASSUME LogInv, [LogNext]_logVars  PROVE [New]_logVars
  <2> SUFFICES ASSUME NEW i, i \in loge', i \notin loge  PROVE i \notin written
    OBVIOUS
  <2>1. CASE LOG_log
    <3>1. i = last + 1
      BY <1>1, <2>1, LOG_logKeeps
    <3>2. written \subseteq 1 .. last /\ last \in Nat
      BY <1>1 DEF LogInv, Given, LogTypeOK
    <3> QED BY <3>1, <3>2
  <2>2. CASE loge' \subseteq loge
    BY <2>2
  <2>3. CASE Append \/ AppendFails
    BY <2>1, <2>3 DEF Append, AppendFails, LOG_log
  <2>4. CASE Restart \/ UNCHANGED logVars
    BY <2>2, <2>4 DEF Restart, logVars, server
  <2>5. ASSUME NEW s \in Script, Step(s) \/ Kill(s)  PROVE i \notin written
    BY <2>1, <2>2, <2>5
       DEF Step, Kill, Begin, Count, Say, Highmost,
           Few, DeleteOld, server
  <2> QED BY <1>1, <2>3, <2>4, <2>5 DEF LogNext
<1> QED BY <1>1, LogInvHolds, PTL DEF LogSpec, IndexNotReused
=============================================================================
