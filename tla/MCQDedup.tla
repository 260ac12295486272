----------------------------- MODULE MCQDedup -----------------------------
\* Four names of three files, the last two of the same one.
EXTENDS QDedup
MCName == 1..4
MCPlace == <<1, 2, 3, 3>>
MCContent == 1..2
MCPath == {{1}, {2, 4}}
===========================================================================
