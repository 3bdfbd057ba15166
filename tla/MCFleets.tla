------------------------------ MODULE MCFleets ------------------------------
(* The two components whose liveness is checked beside the deployment's, on   *)
(* small instances: each behaviour is one of a statefulset or one of an       *)
(* autoscaler, the other stands still in it. What is fair of a component is   *)
(* disabled where it stands still.                                            *)
EXTENDS Statefulset, Autoscaler

CONSTANT Parts  \* those a run is about

VARIABLE part

fleetVars == <<part, vars, autoscalerVars>>

FleetInit == part \in Parts /\ Init /\ AutoscalerInit

FleetNext ==
  \/ part = "statefulset" /\ Next /\ UNCHANGED <<part, autoscalerVars>>
  \/ part = "autoscaler" /\ AutoscalerNext /\ UNCHANGED <<part, vars>>

FleetSpec == FleetInit /\ [][FleetNext]_fleetVars /\ Fairness /\ AutoscalerFairness
-----------------------------------------------------------------------------
(* Statefulset: one pod or two of the first spec, two of the second.          *)

M(s, w) == [spec |-> s, want |-> w]
Two == {M(1, 1), M(1, 2), M(2, 2)}
-----------------------------------------------------------------------------
(* Autoscaler: an apply may raise the floor above the pods there are, or      *)
(* lower the ceiling.                                                         *)

MCBounds == {[min |-> 1, max |-> 2], [min |-> 3, max |-> 4]}
=============================================================================
