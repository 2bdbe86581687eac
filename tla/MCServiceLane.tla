--------------------------- MODULE MCServiceLane ----------------------------
(* The service lane of one client and the Core's own restarts.             *)
EXTENDS ServiceLane

=============================================================================
