------------------------------ MODULE MCJournal ------------------------------
(* Journal with two threads and a few commits.  Fairness is checked in the   *)
(* same run as safety, so no symmetry is used.                               *)
EXTENDS Journal
==============================================================================
