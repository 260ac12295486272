--------------------------- MODULE MCTempPassword ----------------------------
EXTENDS TempPassword, TLC

Interchangeable == Permutations(Page) \cup Permutations(Password)
=============================================================================
