--------------------------- MODULE MCEditProtocol ---------------------------
(* EditProtocol with a few clients and edits, which its configurations     *)
(* name as model values.                                                   *)
EXTENDS EditProtocol
=============================================================================
