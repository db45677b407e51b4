------------------------------ MODULE Lifecycle ------------------------------
(***************************************************************************)
(* The transitions of lifecycle.Machine (internal/lifecycle/types.go) on   *)
(* the part of its Status that decides what the Host may do: the state and *)
(* the generation.  Every method of the Machine runs under its mutex, so   *)
(* each is one operator from a status to a status, with a guard for the    *)
(* calls that return a TransitionError and leave the status alone.         *)
(*                                                                         *)
(* The phase of a Starting generation is not kept: only that generation's  *)
(* goroutine moves it, in the order of its own program counter, so within  *)
(* Starting validPhaseTransition never refuses and outside of it always    *)
(* does.                                                                   *)
(***************************************************************************)
EXTENDS Naturals

State == {"Stopped", "Starting", "Ready", "Stopping", "Failed"}

\* The zero GenerationID of a Machine that never started.
NoGeneration == 0

NewMachine == [state |-> "Stopped", gen |-> NoGeneration]

\* checkGeneration: an event of another generation is refused.
CheckGeneration(status, g) == g # NoGeneration /\ status.gen = g

CanBeginStart(status) == status.state \in {"Stopped", "Failed"}

\* BeginStart allocates a generation no earlier status had.
BeginStart(status) == [state |-> "Starting", gen |-> status.gen + 1]

\* SetPhase and SetWorkspaceContext move forward only while starting.
CanSetPhase(status, g) ==
    CheckGeneration(status, g) /\ status.state = "Starting"

CanMarkReady(status, g) ==
    CheckGeneration(status, g) /\ status.state = "Starting"

MarkReady(status) == [status EXCEPT !.state = "Ready"]

\* A stop is accepted in every state but Stopped, and again while Stopping.
CanBeginStop(status, g) ==
    CheckGeneration(status, g) /\ status.state # "Stopped"

BeginStop(status) == [status EXCEPT !.state = "Stopping"]

CanCompleteStop(status, g) ==
    CheckGeneration(status, g) /\ status.state = "Stopping"

CompleteStop(status, failed) ==
    [status EXCEPT !.state = IF failed THEN "Failed" ELSE "Stopped"]

CanFail(status, g) ==
    CheckGeneration(status, g) /\ status.state \in {"Starting", "Ready"}

Fail(status) == [status EXCEPT !.state = "Failed"]
=============================================================================
