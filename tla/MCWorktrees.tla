---------------------------- MODULE MCWorktrees ----------------------------
(* Worktree operations of two devices.                                     *)
EXTENDS Worktrees

============================================================================
