----------------------------- MODULE MCSessions ------------------------------
EXTENDS Sessions, TLC

Interchangeable == Permutations(Page) \cup Permutations(Sid)
=============================================================================
