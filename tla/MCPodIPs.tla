----------------------------- MODULE MCPodIPs -----------------------------
(* Three pods of two statefulsets, two addresses, two goroutines.           *)
EXTENDS PodIPs
CONSTANTS loop, http, p0, p1, q0, s, t

MCThreads == {loop, http}
MCPods == {p0, p1, q0}
MCSets == {s, t}
MCSetOf == [p \in MCPods |-> IF p = q0 THEN t ELSE s]
MCAddrs == {1, 2}
=============================================================================
