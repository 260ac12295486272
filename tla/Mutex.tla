-------------------------------- MODULE Mutex --------------------------------
(***************************************************************************)
(* What the database lock promises (docs/manual/manual.tex, "Mutual        *)
(* Exclusion and Database and Table Locking"): at most one process is in a *)
(* critical section, and it stays there until it leaves or dies.           *)
(***************************************************************************)
CONSTANTS Proc, None

VARIABLE holder

Init == holder = None

Acquire(p) == holder = None /\ holder' = p

Release(p) == holder = p /\ holder' = None

Next == \E p \in Proc : Acquire(p) \/ Release(p)

Spec == Init /\ [][Next]_holder
=============================================================================
