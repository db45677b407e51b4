-------------------------- MODULE MCVersionRecovery --------------------------
(***************************************************************************)
(* Instances of VersionRecovery for TLC.  The dependency inputs of two     *)
(* profiles are never the same (OwnContent), drawn from one pool as those  *)
(* of a profile and its clone are (SharedContent), or all the same, which  *)
(* leaves one automatic point and the smallest records (SameContent).      *)
(***************************************************************************)
EXTENDS VersionRecovery

OwnContent == [p \in Profile |-> IF p = 1 THEN {11, 12} ELSE {10 * p + 1}]
SharedContent == [p \in Profile |-> {1, 2}]
SameContent == [p \in Profile |-> {1}]

=============================================================================
