------------------------------ MODULE FreshIds ------------------------------
(***************************************************************************)
(* What an identifier service promises (docs/manual/manual.tex, section on *)
(* SGUIDs): an identifier is handed out "no more often than once in the    *)
(* lifetime of the server".  ids is the set handed out so far, handouts    *)
(* how many times the service answered.                                    *)
(***************************************************************************)
EXTENDS Naturals

CONSTANT Id
VARIABLES ids, handouts

Init == ids = {} /\ handouts = 0

HandOut(i) ==
  /\ i \notin ids
  /\ ids' = ids \cup {i}
  /\ handouts' = handouts + 1

Next == \E i \in Id : HandOut(i)

Spec == Init /\ [][Next]_<<ids, handouts>>
=============================================================================
