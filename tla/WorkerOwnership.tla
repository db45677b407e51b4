--------------------------- MODULE WorkerOwnership ---------------------------
(***************************************************************************)
(* What the Host promises about Workers, without its locks, goroutines and *)
(* failures: generations are admitted one at a time; each starts at most   *)
(* one Worker; the manager's current Run context is published only while   *)
(* that Worker exists to serve it; and the next generation is admitted     *)
(* only after the last one's boundary is empty, its context retracted and  *)
(* its ownership given up.  Host is shown to implement this module.        *)
(***************************************************************************)
EXTENDS Naturals

CONSTANT MaxGen     \* bound on the generations of a behaviour

VARIABLES
    gen,            \* the last generation admitted
    owner,          \* the generation that owns the Worker boundary, or 0
    stage,          \* how far the owner's Worker is
    published       \* the generation whose context is current, or 0

vars == <<gen, owner, stage, published>>

Init ==
    /\ gen = 0
    /\ owner = 0
    /\ stage = "idle"
    /\ published = 0

\* A new generation, only when nobody owns the boundary.
Admit ==
    /\ owner = 0
    /\ gen < MaxGen
    /\ gen' = gen + 1
    /\ owner' = gen + 1
    /\ stage' = "starting"
    /\ UNCHANGED published

\* The owner's one Worker starts.
Launch ==
    /\ stage = "starting"
    /\ stage' = "up"
    /\ UNCHANGED <<gen, owner, published>>

\* There is no Worker after all, or its boundary is verified empty.
Vacate ==
    /\ stage \in {"starting", "up"}
    /\ stage' = "down"
    /\ UNCHANGED <<gen, owner, published>>

\* The owner's context becomes current, over no other.  The process may be gone
\* by then, but its boundary has not been vacated.
Publish ==
    /\ stage = "up"
    /\ published = 0
    /\ published' = owner
    /\ UNCHANGED <<gen, owner, stage>>

Retract ==
    /\ published # 0
    /\ published' = 0
    /\ UNCHANGED <<gen, owner, stage>>

\* The owner gives up an empty boundary that nothing points at.
Release ==
    /\ stage = "down"
    /\ published = 0
    /\ owner' = 0
    /\ stage' = "idle"
    /\ UNCHANGED <<gen, published>>

Next == Admit \/ Launch \/ Vacate \/ Publish \/ Retract \/ Release

Spec == Init /\ [][Next]_vars
=============================================================================
