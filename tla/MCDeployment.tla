---------------------------- MODULE MCDeployment ----------------------------
(* Deployment on small instances.                                          *)
EXTENDS Deployment

M(s, w, g) == [spec |-> s, want |-> w, gate |-> g]

\* Any manifest may follow any other.
AnyMove == (Manifests \cup {None}) \X Manifests

\* Every apply declares a spec later than all earlier ones (specs are numbers).
Forward == {mv \in AnyMove : mv[1] # None /\ mv[1].spec < mv[2].spec}

SameCount == {M(1, 2, FALSE), M(2, 2, FALSE)}
Three == {M(1, 2, FALSE), M(2, 2, FALSE), M(3, 2, FALSE)}

OrNone == SameCount \cup {None}
SmallGate == {M(1, 1, FALSE), M(1, 1, TRUE)}
TwoGate == SmallGate \cup {M(2, 2, FALSE), M(2, 2, TRUE)}
One == {M(1, 2, FALSE)}

\* For whoever changes a bound: Ids is large enough when no thread ever waits
\* for a name (NewReplicaID never runs out).
RoomLeft ==
  \A t \in Threads :
    \/ At(t, "respawn")
    \/ At(t, "roll") /\ thr[t].todo # {}
    \/ At(t, "scale") /\ Missing(t)
    => Fresh # {}
=============================================================================
