------------------------------ MODULE Command ------------------------------
(***************************************************************************)
(* What the CLI's commands have in common: one command at a time goes      *)
(* through its round trips, which `run' names, and things happen to the    *)
(* machine in between.                                                     *)
(***************************************************************************)
EXTENDS Naturals

CONSTANTS
    MaxCommands,  \* how many commands are run
    MaxEvents     \* how many things happen by hand or by themselves

ASSUME CommandAssumption == MaxCommands \in Nat /\ MaxEvents \in Nat

\* The empty string.
Nothing == "nothing"

VARIABLES
    run,       \* the command in progress
    spent      \* commands and events used

At(cmd, label) == run.cmd = cmd /\ run.at = label
Resting == run.at \in {"none", "done"}
Proceed(label) == run' = [run EXCEPT !.at = label]

Begin == Resting /\ spent.commands < MaxCommands
           /\ spent' = [spent EXCEPT !.commands = @ + 1]
Event == spent.events < MaxEvents /\ spent' = [spent EXCEPT !.events = @ + 1]
=============================================================================
