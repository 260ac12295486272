------------------------------ MODULE MCUsers -------------------------------
\* Two httpd children that add and modify accounts, in sections of their own or
\* not, with every record.
EXTENDS Users, TLC
MCRecord == [action : {"A", "M"}, idx : BOOLEAN, userid : {Absent} \cup Userid]
Interchangeable == Permutations(Proc) \cup Permutations(Userid)
=============================================================================
