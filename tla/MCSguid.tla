------------------------------- MODULE MCSguid -------------------------------
(***************************************************************************)
(* Sguid on two PIDs and a clock of a few microseconds, two of which are   *)
(* rendered one short (so that 1, 2 and 4, 5 give equal readings).         *)
(***************************************************************************)
EXTENDS Sguid

MCShort == {2, 5} \cap 1..MaxClock
=============================================================================
