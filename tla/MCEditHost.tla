----------------------------- MODULE MCEditHost -----------------------------
(* EditHost with the two threads that call Journal::sync, the sync worker's *)
(* and the host's.  Fairness is checked in the same run as safety, so no    *)
(* symmetry is used.                                                        *)
EXTENDS EditHost
=============================================================================
