---------------------------- MODULE MCFabTerms ----------------------------
\* Every number up to 7/4, of either sign, reduced or not, and a bad one.
EXTENDS FabTerms
MCNumber == {Q(h, k) : h \in -7 .. 7, k \in 1 .. 4} \cup {Q(2, -3), Q(-4, -2), Q(1, 0)}
MCKMax == {0, 1, 3, 4}
MCHMax == {-1, 0, 1, 2, 5}
MCWanted == {0, 1, 40}
===========================================================================
