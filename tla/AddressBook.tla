---------------------------- MODULE AddressBook ----------------------------
(***************************************************************************)
(* What the fixed-address allocator promises, without saying how: every    *)
(* pod has at most one address, no two pods have the same one, and an      *)
(* address changes hands only through a release.                           *)
(***************************************************************************)
CONSTANTS Pods, Addrs, None

VARIABLE holds      \* holds[p]: the address of pod p, or None

Free(a) == \A p \in Pods : holds[p] # a

Init == holds = [p \in Pods |-> None]

Reserve(p, a) ==
  /\ holds[p] = None
  /\ Free(a)
  /\ holds' = [holds EXCEPT ![p] = a]

Release(p) ==
  /\ holds[p] # None
  /\ holds' = [holds EXCEPT ![p] = None]

Next == \E p \in Pods : Release(p) \/ \E a \in Addrs : Reserve(p, a)

Spec == Init /\ [][Next]_holds
=============================================================================
