------------------------------- MODULE PodIPs -------------------------------
(***************************************************************************)
(* The fixed addresses of statefulset pods on voodu0:                      *)
(* internal/controller/pod_ips.go (the allocator) over pod_ip_store.go     *)
(* (two etcd indices that a transaction keeps together).                   *)
(*                                                                         *)
(* Several goroutines run the allocator at once: the reconciler's loop     *)
(* (thread Loop, the only one that deletes statefulsets), retry goroutines *)
(* and the HTTP handlers of restart and rollback.  Every etcd call is one  *)
(* step; what a thread read in an earlier call may be stale in the next.   *)
(***************************************************************************)
EXTENDS Integers, FiniteSets

CONSTANTS
  Threads,      \* goroutines that may run the allocator
  Loop,         \* the reconciler's loop
  Pods,         \* pod references scope/name/ordinal
  Sets,         \* statefulsets
  SetOf,        \* SetOf[p]: the statefulset pod p belongs to
  Addrs,        \* addresses, in the order the pool lists them
  None,
  MaxRecreate   \* bound: how often voodu0 is recreated with another subnet

ASSUME AddrsAssumption  == Addrs \subseteq Int
ASSUME NoneAssumption   == None \notin Addrs /\ None \notin Pods
ASSUME LoopAssumption   == Loop \in Threads
ASSUME SetOfAssumption  == SetOf \in [Pods -> Sets]
ASSUME BoundAssumption  == MaxRecreate \in Nat

VARIABLES
  podAddr,      \* /podips/pod/<pod>: the address reserved for a pod, or None
  addrPod,      \* /podips/addr/<ip>: the pod an address is reserved for, or None
  pool,         \* the part of voodu0 docker leaves alone; {} when not routed
  recreated,    \* how many times voodu0 was recreated
  thr           \* per goroutine: stage, pod, candidates left, address read, work list

vars == <<podAddr, addrPod, pool, recreated, thr>>

Stages == {"idle", "get", "relGet", "relTxn", "draw", "recheck"}

Thread == [stage : Stages, pod : Pods \cup {None}, left : SUBSET Addrs,
           addr : Addrs \cup {None}, todo : SUBSET Pods]

Idle == [stage |-> "idle", pod |-> None, left |-> {}, addr |-> None, todo |-> {}]

-----------------------------------------------------------------------------
(* The store: the two indices and the conditional transactions on them.    *)

\* Variant: only the pod's key is compared.
CanReserveAny(p, a) == podAddr[p] = None

\* ReservePodIP's If: neither the address nor the pod has a key.
CanReserve(p, a) == addrPod[a] = None /\ podAddr[p] = None

\* Variants: the address key is deleted without looking, or never.
PointsAnywhere(p, a) == TRUE
PointsNowhere(p, a)  == FALSE

\* ReleasePodIP's If: the address still points back at the pod.
PointsBack(p, a) == addrPod[a] = p

ReservePodIP(p, a) ==
  IF CanReserve(p, a)
  THEN /\ podAddr' = [podAddr EXCEPT ![p] = a]
       /\ addrPod' = [addrPod EXCEPT ![a] = p]
  ELSE UNCHANGED <<podAddr, addrPod>>

\* The second half of ReleasePodIP; a is the address its Get read earlier.
ReleaseTxn(p, a) ==
  /\ podAddr' = [podAddr EXCEPT ![p] = None]
  /\ addrPod' = IF PointsBack(p, a) THEN [addrPod EXCEPT ![a] = None] ELSE addrPod

-----------------------------------------------------------------------------
(* addressFor, one step per etcd call.                                     *)

\* The plan is read once; with no pool the pod takes what docker gives it.
AddressFor(t, p) ==
  /\ thr[t].stage = "idle"
  /\ thr' = IF pool = {} THEN thr
            ELSE [thr EXCEPT ![t] = [Idle EXCEPT !.stage = "get", !.pod = p, !.left = pool]]
  /\ UNCHANGED <<podAddr, addrPod, pool, recreated>>

\* Variant: the pool is taken to be the addresses nobody holds.
StillFree(a, candidates) == a \in candidates /\ addrPod[a] = None

\* What the allocator does with the address it found reserved for the pod.
StillGood(a, candidates) == a \in candidates

GetHeld(t) ==
  /\ thr[t].stage = "get"
  /\ LET held == podAddr[thr[t].pod] IN
       \/ /\ held = None
          /\ thr' = [thr EXCEPT ![t].stage = "draw"]
       \/ /\ held # None /\ StillGood(held, thr[t].left)
          /\ thr' = [thr EXCEPT ![t] = Idle]
       \/ /\ held # None /\ ~StillGood(held, thr[t].left)
          /\ thr' = [thr EXCEPT ![t].stage = "relGet"]
  /\ UNCHANGED <<podAddr, addrPod, pool, recreated>>

IsNext(t, a) == a \in thr[t].left /\ \A b \in thr[t].left : a <= b

Draw(t) ==
  /\ thr[t].stage = "draw"
  /\ \/ /\ thr[t].left = {}       \* "voodu0 has no fixed address left"
        /\ thr' = [thr EXCEPT ![t] = Idle]
        /\ UNCHANGED <<podAddr, addrPod>>
     \/ \E a \in thr[t].left :
        /\ IsNext(t, a)
        /\ ReservePodIP(thr[t].pod, a)
        /\ thr' = [thr EXCEPT ![t] = IF CanReserve(thr[t].pod, a) THEN Idle
                                     ELSE [@ EXCEPT !.stage = "recheck", !.addr = a]]
  /\ UNCHANGED <<pool, recreated>>

\* Variant: the refused address is tried again.
AfterKept(left, a) == left

\* The candidates after a refused reservation of address a.
After(left, a) == left \ {a}

Recheck(t) ==
  /\ thr[t].stage = "recheck"
  /\ thr' = [thr EXCEPT ![t] =
               IF podAddr[thr[t].pod] # None THEN Idle
               ELSE [@ EXCEPT !.stage = "draw", !.left = After(thr[t].left, thr[t].addr),
                              !.addr = None]]
  /\ UNCHANGED <<podAddr, addrPod, pool, recreated>>

-----------------------------------------------------------------------------
(* Releasing: ReleasePodIP is a Get and then a transaction.  addressFor    *)
(* calls it for one pod and goes on to draw; ReleasePodIPs calls it for    *)
(* every pod of a deleted statefulset (todo) and ends.                     *)

Reserved(s) == {p \in Pods : SetOf[p] = s /\ podAddr[p] # None}

ReleaseSet(s) ==
  /\ thr[Loop].stage = "idle"
  /\ \E p \in Reserved(s) : thr' = [thr EXCEPT ![Loop] =
       [Idle EXCEPT !.stage = "relGet", !.pod = p, !.todo = Reserved(s) \ {p}]]
  /\ UNCHANGED <<podAddr, addrPod, pool, recreated>>

\* addressFor has candidates left when it releases; ReleasePodIPs has none.
AfterRelease(t) ==
  \/ /\ thr[t].left # {}
     /\ thr' = [thr EXCEPT ![t] = [@ EXCEPT !.stage = "draw", !.addr = None]]
  \/ /\ thr[t].left = {} /\ thr[t].todo # {}
     /\ \E p \in thr[t].todo : thr' = [thr EXCEPT ![t] =
          [Idle EXCEPT !.stage = "relGet", !.pod = p, !.todo = thr[t].todo \ {p}]]
  \/ /\ thr[t].left = {} /\ thr[t].todo = {}
     /\ thr' = [thr EXCEPT ![t] = Idle]

\* Variant: the pod's key is not looked for before the transaction.
ReleaseGetBlind(t) ==
  /\ thr[t].stage = "relGet"
  /\ thr' = [thr EXCEPT ![t] = [@ EXCEPT !.stage = "relTxn", !.addr = podAddr[thr[t].pod]]]
  /\ UNCHANGED <<podAddr, addrPod, pool, recreated>>

ReleaseGet(t) ==
  /\ thr[t].stage = "relGet"
  /\ IF podAddr[thr[t].pod] = None THEN AfterRelease(t)
     ELSE thr' = [thr EXCEPT ![t] =
            [@ EXCEPT !.stage = "relTxn", !.addr = podAddr[thr[t].pod]]]
  /\ UNCHANGED <<podAddr, addrPod, pool, recreated>>

ReleaseCommit(t) ==
  /\ thr[t].stage = "relTxn"
  /\ ReleaseTxn(thr[t].pod, thr[t].addr)
  /\ AfterRelease(t)
  /\ UNCHANGED <<pool, recreated>>

-----------------------------------------------------------------------------
(* The environment.                                                        *)

\* voodu0 is recreated with another subnet or ip-range.
RecreateNetwork ==
  /\ recreated < MaxRecreate
  /\ recreated' = recreated + 1
  /\ pool' \in SUBSET Addrs
  /\ UNCHANGED <<podAddr, addrPod, thr>>

\* A call fails (etcd error) and the thread gives up, or the controller
\* stops: the goroutine's state is gone, the two indices are in etcd.
Abandon(t) ==
  /\ thr[t].stage # "idle"
  /\ thr' = [thr EXCEPT ![t] = Idle]
  /\ UNCHANGED <<podAddr, addrPod, pool, recreated>>

Init ==
  /\ podAddr = [p \in Pods |-> None]
  /\ addrPod = [a \in Addrs |-> None]
  /\ pool \in SUBSET Addrs
  /\ recreated = 0
  /\ thr = [t \in Threads |-> Idle]

Step(t) == GetHeld(t) \/ Draw(t) \/ Recheck(t) \/ ReleaseGet(t) \/ ReleaseCommit(t)

Next ==
  \/ \E t \in Threads : \/ Step(t)
                        \/ Abandon(t)
                        \/ \E p \in Pods : AddressFor(t, p)
  \/ \E s \in Sets : ReleaseSet(s)
  \/ RecreateNetwork

Spec == Init /\ [][Next]_vars

\* A call that started runs: etcd answers it or fails it.
FairSpec == Spec /\ \A t \in Threads : WF_vars(Step(t))

-----------------------------------------------------------------------------
(* Properties.                                                             *)

\* A thread in a call has a pod, and where it uses an address, an address.
StageOK ==
  \A t \in Threads :
    /\ thr[t].stage # "idle" => thr[t].pod \in Pods
    /\ thr[t].stage \in {"relTxn", "recheck"} => thr[t].addr \in Addrs

\* Every variable stays in its type, and no transaction is sent without the
\* address it is about (the len(resp.Kvs) == 0 return of ReleasePodIP).
TypeOK ==
  /\ podAddr \in [Pods -> Addrs \cup {None}]
  /\ addrPod \in [Addrs -> Pods \cup {None}]
  /\ pool \in SUBSET Addrs
  /\ recreated \in 0..MaxRecreate
  /\ thr \in [Threads -> Thread]
  /\ StageOK

\* The two indices agree from the pod's side: the address a pod has points
\* back at that pod, whatever stale address a concurrent release carries.
IndexAgree == \A p \in Pods : podAddr[p] # None => addrPod[podAddr[p]] = p

\* No two pods are given one address (ReservePodIP, ReleasePodIP).
OneHolder == \A p, q \in Pods : podAddr[p] # None /\ podAddr[p] = podAddr[q] => p = q

\* "a release never frees an address someone else holds"
\* (pod_ip_store.go:50-52): an address key disappears only in a step that
\* also leaves the pod it pointed at without that address.
NeverFreesAnothers ==
  [][\A a \in Addrs : addrPod[a] # None /\ addrPod'[a] # addrPod[a] =>
       addrPod'[a] = None /\ podAddr'[addrPod[a]] = None]_vars

\* A thread is deleting the statefulset of pod p (ReleasePodIPs).
Deleting(p) ==
  /\ thr[Loop].stage = "relTxn" /\ thr[Loop].left = {}
  /\ thr[Loop].pod = p

\* The allocator keeps a pod's address for as long as the statefulset
\* exists, on a network that was never recreated (pod_ips.go:17-20).
KeptOnStableNetwork ==
  [][\A p \in Pods : podAddr[p] # None /\ podAddr'[p] # podAddr[p] /\ recreated = 0
       => Deleting(p)]_vars

\* On a network that was never recreated no address key outlives its pod's
\* key: a deleted statefulset gives every address back.
NoLeakOnStableNetwork ==
  recreated = 0 => \A a \in Addrs : addrPod[a] # None => podAddr[addrPod[a]] = a

\* Every call ends, however the threads interleave and refuse each other.
CallsEnd == \A t \in Threads : thr[t].stage # "idle" ~> thr[t].stage = "idle"

\* The allocator implements the address book.
Book == INSTANCE AddressBook WITH holds <- podAddr
BookSpec == Book!Spec
=============================================================================
