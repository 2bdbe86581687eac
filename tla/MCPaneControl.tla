---------------------------- MODULE MCPaneControl ----------------------------
(* Model values for checking PaneControl.                                     *)
EXTENDS PaneControl, TLC

(* Nothing tells two devices apart.                                           *)
DeviceSymmetry == Permutations(Devices)
==============================================================================
