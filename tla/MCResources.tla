----------------------------- MODULE MCResources -----------------------------
(***************************************************************************)
(* Resources on three browsers and a table of two rows that may get a third. *)
(* The interval is 2, so the numbers users type lie below, between, on and *)
(* above those a renumbering assigns; the two first rows tie on disporder. *)
(***************************************************************************)
EXTENDS Resources, TLC

Row(d, s, t) == [disporder |-> d, status |-> s, text |-> t]

MCText == {"a", "b"}
MCEdits == {Row(3, 0, "a"), Row(9, 1, "b")}
MCFirstRows == <<Row(5, 0, "a"), Row(5, 1, "a")>>

ProcSymmetry == Permutations(Proc)
=============================================================================
