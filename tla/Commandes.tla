------------------------------ MODULE Commandes ------------------------------
(***************************************************************************)
(* What the link with the simulator promises (gdb_protocol.c:183-192): the *)
(* commands are executed once each, in the order they were sent, and the   *)
(* next one is sent when the last was executed, but for one command more   *)
(* for each answer the noise may have had sent twice.                      *)
(***************************************************************************)
EXTENDS Naturals, Sequences

VARIABLES
  envoyees,   \* how many commands were sent
  executees,  \* those executed
  avance,     \* how many answers too many the noise may have caused
  parti       \* the simulator has gone

vars == <<envoyees, executees, avance, parti>>

Init == envoyees = 0 /\ executees = <<>> /\ avance = 0 /\ parti = FALSE

Envoyer ==
  /\ parti \/ envoyees <= Len(executees) + avance
  /\ envoyees' = envoyees + 1
  /\ UNCHANGED <<executees, avance, parti>>

Executer ==
  /\ ~parti /\ Len(executees) < envoyees
  /\ executees' = Append(executees, Len(executees) + 1)
  /\ UNCHANGED <<envoyees, avance, parti>>

Perturber == avance' > avance /\ UNCHANGED <<envoyees, executees, parti>>
Partir == ~parti /\ parti' = TRUE /\ UNCHANGED <<envoyees, executees, avance>>

Next == Envoyer \/ Executer \/ Perturber \/ Partir
=============================================================================
