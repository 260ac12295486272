----------------------------- MODULE MCLogTrim ------------------------------
\* Two overlapping runs of the script, over a limit of two entries.
EXTENDS LogTrim, TLC
Runs == Permutations(Script)
=============================================================================
