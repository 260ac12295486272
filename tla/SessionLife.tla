----------------------------- MODULE SessionLife -----------------------------
(***************************************************************************)
(* What the session table promises: a session identifier is opened once,   *)
(* by a login, is ended once, and never comes back.                        *)
(***************************************************************************)
CONSTANT Sid
VARIABLES opened, ended

Init == opened = {} /\ ended = {}

Open(s) ==
  /\ s \notin opened
  /\ opened' = opened \cup {s}
  /\ UNCHANGED ended

\* One statement may end several sessions (maintenance does).
End(S) ==
  /\ S # {}
  /\ S \subseteq opened \ ended
  /\ ended' = ended \cup S
  /\ UNCHANGED opened

Next == (\E s \in Sid : Open(s)) \/ (\E S \in SUBSET Sid : End(S))

Spec == Init /\ [][Next]_<<opened, ended>>
=============================================================================
