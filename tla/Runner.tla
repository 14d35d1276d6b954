------------------------------- MODULE Runner -------------------------------
(***************************************************************************)
(* What the Run and Pause buttons promise: the machine is stopped, or one  *)
(* chain of timer callbacks drives it, each callback running a slice and   *)
(* arming the next.  A chain that was armed fires; a slice ends, by arming *)
(* the next callback or by stopping.                                       *)
(***************************************************************************)
VARIABLE state

Init == state = "stopped"

Start == state = "stopped" /\ state' = "armed"
Fire  == state = "armed" /\ state' = "slicing"
Rearm == state = "slicing" /\ state' = "armed"
Stop  == state # "stopped" /\ state' = "stopped"

Next == Start \/ Fire \/ Rearm \/ Stop

Spec == Init /\ [][Next]_state

FairSpec == Spec /\ WF_state(Fire \/ Stop) /\ WF_state(Rearm \/ Stop)
=============================================================================
