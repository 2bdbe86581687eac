------------------------ MODULE RetainedOrganization ------------------------
(***************************************************************************)
(* What the organization journal promises, without threads, epochs or      *)
(* files.  The server keeps a live organization, of which a part is sure   *)
(* to survive (kept).  It tells others only what it is sure to keep.  It   *)
(* may lose the rest, all at once, and then goes on from what is left.     *)
(***************************************************************************)
VARIABLES live, kept, told

abstractVars == <<live, kept, told>>

AbstractInit ==
    /\ live = {}
    /\ kept = {}
    /\ told = {}

\* The organization changes; each change contains the ones before it.
Change ==
    /\ live \subseteq live'
    /\ live # live'
    /\ UNCHANGED <<kept, told>>

\* A later part of the live organization becomes sure.
Keep ==
    /\ kept \subseteq kept'
    /\ kept' \subseteq live
    /\ UNCHANGED <<live, told>>

\* Somebody learns of a part that is sure.
Tell ==
    /\ told \subseteq told'
    /\ told' \subseteq kept
    /\ UNCHANGED <<live, kept>>

\* A failure or a crash: what is left was live and holds all that was sure.
Lose ==
    /\ kept \subseteq kept'
    /\ kept' \subseteq live
    /\ live' = kept'
    /\ UNCHANGED told

AbstractNext == Change \/ Keep \/ Tell \/ Lose

AbstractSpec == AbstractInit /\ [][AbstractNext]_abstractVars
=============================================================================
