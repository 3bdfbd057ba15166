---------------------------- MODULE PodIPsProofs ----------------------------
(***************************************************************************)
(* Proofs about PodIPs, for every set of goroutines, pods, statefulsets    *)
(* and addresses, and any number of network recreations.                   *)
(*                                                                         *)
(* The inductive invariant says that the index by pod is never ahead of    *)
(* the index by address (IndexAgree); StageOK types what a thread read in  *)
(* an earlier step, which is all the later steps rely on: they never       *)
(* assume that it is still true.                                           *)
(***************************************************************************)
EXTENDS PodIPs, TLAPS

IInv == TypeOK /\ StageOK /\ IndexAgree

USE AddrsAssumption, NoneAssumption, LoopAssumption, SetOfAssumption, BoundAssumption

-----------------------------------------------------------------------------
\* What a step may do to the two indices: nothing, a reservation, a release.
Reserves(p, a) ==
  /\ CanReserve(p, a)
  /\ podAddr' = [podAddr EXCEPT ![p] = a]
  /\ addrPod' = [addrPod EXCEPT ![a] = p]

IndexStep ==
  \/ UNCHANGED <<podAddr, addrPod>>
  \/ \E p \in Pods, a \in Addrs : Reserves(p, a) \/ ReleaseTxn(p, a)

\* The idle thread is a thread.
LEMMA IdleType == Idle \in Thread /\ Idle.stage = "idle"
  BY DEF Idle, Thread, Stages

\* Replacing one thread's record by a well-typed one keeps thr well typed.
LEMMA PutThread ==
  ASSUME TypeOK, StageOK, NEW t \in Threads, NEW r \in Thread,
         r.stage # "idle" => r.pod \in Pods,
         r.stage \in {"relTxn", "recheck"} => r.addr \in Addrs,
         thr' = [thr EXCEPT ![t] = r]
  PROVE  thr' \in [Threads -> Thread] /\ StageOK'
  BY DEF TypeOK, StageOK

\* AfterRelease leaves a thread that is well typed (ReleasePodIP's return).
LEMMA AfterReleaseType ==
  ASSUME TypeOK, StageOK, NEW t \in Threads,
         thr[t].stage \in {"relGet", "relTxn"}, AfterRelease(t)
  PROVE  /\ thr' \in [Threads -> Thread]
         /\ StageOK'
  <1>1. thr[t] \in Thread /\ thr[t].pod \in Pods
    BY DEF TypeOK, StageOK
  <1>2. CASE thr[t].left # {}
    <2> DEFINE r == [thr[t] EXCEPT !.stage = "draw", !.addr = None]
    <2>1. r \in Thread /\ r.stage = "draw" /\ r.pod = thr[t].pod
      BY <1>1 DEF Thread, Stages
    <2>2. thr' = [thr EXCEPT ![t] = r]
      BY <1>2 DEF AfterRelease
    <2> HIDE DEF r
    <2>3. QED
      BY <1>1, <2>1, <2>2, PutThread
  <1>3. CASE thr[t].left = {} /\ thr[t].todo # {}
    <2>1. PICK p \in thr[t].todo : thr' = [thr EXCEPT ![t] =
            [Idle EXCEPT !.stage = "relGet", !.pod = p, !.todo = thr[t].todo \ {p}]]
      BY <1>3 DEF AfterRelease
    <2>2. p \in Pods /\ thr[t].todo \ {p} \in SUBSET Pods
      BY <1>1, <2>1 DEF Thread
    <2>3. QED
      BY <2>1, <2>2 DEF TypeOK, StageOK, Thread, Stages, Idle
  <1>4. CASE thr[t].left = {} /\ thr[t].todo = {}
    BY <1>4, IdleType DEF AfterRelease, TypeOK, StageOK
  <1>5. QED
    BY <1>2, <1>3, <1>4

\* One step keeps every type, and changes the indices only as IndexStep says.
LEMMA StepType ==
  ASSUME TypeOK, StageOK, [Next]_vars
  PROVE  TypeOK' /\ StageOK' /\ IndexStep
  <1>1. ASSUME NEW t \in Threads, NEW p \in Pods, AddressFor(t, p)
        PROVE TypeOK' /\ StageOK' /\ IndexStep
    <2>1. thr' \in [Threads -> Thread] /\ StageOK'
      BY <1>1 DEF AddressFor, TypeOK, StageOK, Thread, Stages, Idle
    <2>2. QED
      BY <1>1, <2>1 DEF AddressFor, TypeOK, IndexStep
  <1>2. ASSUME NEW t \in Threads, GetHeld(t)
        PROVE TypeOK' /\ StageOK' /\ IndexStep
    <2>1. thr[t] \in Thread /\ thr[t].pod \in Pods
      BY <1>2 DEF GetHeld, TypeOK, StageOK
    <2>2. thr' \in [Threads -> Thread] /\ StageOK'
      BY <1>2, <2>1, IdleType DEF GetHeld, TypeOK, StageOK, Thread, Stages
    <2>3. QED
      BY <1>2, <2>2 DEF GetHeld, TypeOK, IndexStep
  <1>3. ASSUME NEW t \in Threads, Draw(t)
        PROVE TypeOK' /\ StageOK' /\ IndexStep
    <2>1. thr[t] \in Thread /\ thr[t].pod \in Pods
      BY <1>3 DEF Draw, TypeOK, StageOK
    <2>2. CASE thr[t].left = {}
      BY <1>3, <2>1, <2>2, IdleType DEF Draw, TypeOK, StageOK, IndexStep
    <2>3. CASE thr[t].left # {}
      <3>1. PICK a \in thr[t].left :
              /\ ReservePodIP(thr[t].pod, a)
              /\ thr' = [thr EXCEPT ![t] = IF CanReserve(thr[t].pod, a) THEN Idle
                                     ELSE [@ EXCEPT !.stage = "recheck", !.addr = a]]
        BY <1>3, <2>3 DEF Draw
      <3>2. a \in Addrs
        BY <2>1, <3>1 DEF Thread
      <3>3. thr' \in [Threads -> Thread] /\ StageOK'
        BY <2>1, <3>1, <3>2, IdleType DEF TypeOK, StageOK, Thread, Stages
      <3>4. /\ podAddr' \in [Pods -> Addrs \cup {None}]
            /\ addrPod' \in [Addrs -> Pods \cup {None}]
        BY <2>1, <3>1, <3>2 DEF TypeOK, ReservePodIP
      <3>5. IndexStep
        BY <2>1, <3>1, <3>2 DEF IndexStep, ReservePodIP, Reserves
      <3>6. QED
        BY <1>3, <3>3, <3>4, <3>5 DEF Draw, TypeOK
    <2>4. QED
      BY <2>2, <2>3
  <1>4. ASSUME NEW t \in Threads, Recheck(t)
        PROVE TypeOK' /\ StageOK' /\ IndexStep
    <2>1. thr[t] \in Thread /\ thr[t].pod \in Pods
      BY <1>4 DEF Recheck, TypeOK, StageOK
    <2>2. thr' \in [Threads -> Thread] /\ StageOK'
      BY <1>4, <2>1, IdleType DEF Recheck, After, TypeOK, StageOK, Thread, Stages
    <2>3. QED
      BY <1>4, <2>2 DEF Recheck, TypeOK, IndexStep
  <1>5. ASSUME NEW t \in Threads, ReleaseGet(t)
        PROVE TypeOK' /\ StageOK' /\ IndexStep
    <2>1. thr[t] \in Thread /\ thr[t].pod \in Pods
      BY <1>5 DEF ReleaseGet, TypeOK, StageOK
    <2>2. CASE podAddr[thr[t].pod] = None
      <3>1. thr' \in [Threads -> Thread] /\ StageOK'
        BY <1>5, <2>2, AfterReleaseType DEF ReleaseGet
      <3>2. QED
        BY <1>5, <3>1 DEF ReleaseGet, TypeOK, IndexStep
    <2>3. CASE podAddr[thr[t].pod] # None
      <3>1. podAddr[thr[t].pod] \in Addrs
        BY <2>1, <2>3 DEF TypeOK
      <3> DEFINE r == [thr[t] EXCEPT !.stage = "relTxn", !.addr = podAddr[thr[t].pod]]
      <3>2. r \in Thread /\ r.pod = thr[t].pod /\ r.addr = podAddr[thr[t].pod]
        BY <2>1, <3>1 DEF Thread, Stages
      <3>3. thr' = [thr EXCEPT ![t] = r]
        BY <1>5, <2>3 DEF ReleaseGet
      <3> HIDE DEF r
      <3>4. thr' \in [Threads -> Thread] /\ StageOK'
        BY <2>1, <3>1, <3>2, <3>3, PutThread
      <3>5. QED
        BY <1>5, <3>4 DEF ReleaseGet, TypeOK, IndexStep
    <2>4. QED
      BY <2>2, <2>3
  <1>6. ASSUME NEW t \in Threads, ReleaseCommit(t)
        PROVE TypeOK' /\ StageOK' /\ IndexStep
    <2>1. thr[t].pod \in Pods /\ thr[t].addr \in Addrs /\ ReleaseTxn(thr[t].pod, thr[t].addr)
      BY <1>6 DEF ReleaseCommit, StageOK
    <2>2. thr' \in [Threads -> Thread] /\ StageOK'
      BY <1>6, AfterReleaseType DEF ReleaseCommit
    <2>3. /\ podAddr' \in [Pods -> Addrs \cup {None}]
          /\ addrPod' \in [Addrs -> Pods \cup {None}]
      BY <2>1 DEF TypeOK, ReleaseTxn
    <2>4. QED
      BY <1>6, <2>1, <2>2, <2>3 DEF ReleaseCommit, TypeOK, IndexStep
  <1>7. ASSUME NEW t \in Threads, Abandon(t)
        PROVE TypeOK' /\ StageOK' /\ IndexStep
    BY <1>7, IdleType DEF Abandon, TypeOK, StageOK, IndexStep
  <1>8. ASSUME NEW s \in Sets, ReleaseSet(s)
        PROVE TypeOK' /\ StageOK' /\ IndexStep
    <2>1. PICK p \in Reserved(s) : thr' = [thr EXCEPT ![Loop] =
            [Idle EXCEPT !.stage = "relGet", !.pod = p, !.todo = Reserved(s) \ {p}]]
      BY <1>8 DEF ReleaseSet
    <2>2. p \in Pods /\ Reserved(s) \ {p} \in SUBSET Pods
      BY <2>1 DEF Reserved
    <2>3. thr' \in [Threads -> Thread] /\ StageOK'
      BY <2>1, <2>2 DEF TypeOK, StageOK, Thread, Stages, Idle
    <2>4. QED
      BY <1>8, <2>3 DEF ReleaseSet, TypeOK, IndexStep
  <1>9. CASE RecreateNetwork
    BY <1>9 DEF RecreateNetwork, TypeOK, StageOK, IndexStep
  <1>10. CASE UNCHANGED vars
    BY <1>10 DEF vars, TypeOK, StageOK, IndexStep
  <1>11. QED
    BY <1>1, <1>2, <1>3, <1>4, <1>5, <1>6, <1>7, <1>8, <1>9, <1>10 DEF Next, Step

\* Reservations and releases keep the indices in agreement, whatever address a
\* release carries: a stale one takes the pod's key away and nothing else.
LEMMA IndexStepAgrees ==
  ASSUME TypeOK, IndexAgree, IndexStep
  PROVE  IndexAgree'
  <1>1. CASE UNCHANGED <<podAddr, addrPod>>
    BY <1>1 DEF IndexAgree
  <1>2. ASSUME NEW p \in Pods, NEW a \in Addrs, Reserves(p, a)
        PROVE IndexAgree'
    <2>1. SUFFICES ASSUME NEW q \in Pods, podAddr'[q] # None
                   PROVE addrPod'[podAddr'[q]] = q
      BY DEF IndexAgree
    <2>2. CASE q = p
      BY <1>2, <2>2 DEF Reserves, TypeOK
    <2>3. CASE q # p
      <3>1. podAddr'[q] = podAddr[q] /\ podAddr[q] \in Addrs /\ addrPod[podAddr[q]] = q
        BY <1>2, <2>1, <2>3 DEF Reserves, TypeOK, IndexAgree
      <3>2. podAddr[q] # a
        BY <1>2, <3>1 DEF Reserves, CanReserve
      <3>3. QED
        BY <1>2, <3>1, <3>2 DEF Reserves, TypeOK
    <2>4. QED
      BY <2>2, <2>3
  <1>3. ASSUME NEW p \in Pods, NEW a \in Addrs, ReleaseTxn(p, a)
        PROVE IndexAgree'
    <2>1. SUFFICES ASSUME NEW q \in Pods, podAddr'[q] # None
                   PROVE addrPod'[podAddr'[q]] = q
      BY DEF IndexAgree
    <2>2. q # p /\ podAddr'[q] = podAddr[q]
      BY <1>3, <2>1 DEF ReleaseTxn, TypeOK
    <2>3. podAddr[q] \in Addrs /\ addrPod[podAddr[q]] = q
      BY <2>1, <2>2 DEF TypeOK, IndexAgree
    <2>4. QED
      BY <1>3, <2>2, <2>3 DEF ReleaseTxn, PointsBack, TypeOK
  <1>4. QED
    BY <1>1, <1>2, <1>3 DEF IndexStep

LEMMA InitIInv == Init => IInv
  BY IdleType DEF Init, IInv, TypeOK, StageOK, IndexAgree

LEMMA NextIInv == IInv /\ [Next]_vars => IInv' /\ IndexStep
  BY StepType, IndexStepAgrees DEF IInv

LEMMA Inductive == Spec => []IInv
  BY InitIInv, NextIInv, PTL DEF Spec

-----------------------------------------------------------------------------
\* Every variable stays in its type.
THEOREM TypeCorrect == Spec => []TypeOK
  BY Inductive, PTL DEF IInv

\* The address a pod has points back at it: ReservePodIP and ReleasePodIP keep
\* the two indices together under every interleaving.
THEOREM Agreement == Spec => []IndexAgree
  BY Inductive, PTL DEF IInv

\* No two pods are ever given one address.
THEOREM Exclusive == Spec => []OneHolder
  <1>1. IInv => OneHolder
    BY DEF IInv, IndexAgree, OneHolder
  <1>2. QED
    BY <1>1, Inductive, PTL

\* A release never frees an address someone else holds.
THEOREM NeverFrees == Spec => NeverFreesAnothers
  <1>1. ASSUME IInv, [Next]_vars
        PROVE [\A a \in Addrs : addrPod[a] # None /\ addrPod'[a] # addrPod[a] =>
                 addrPod'[a] = None /\ podAddr'[addrPod[a]] = None]_vars
    <2>1. IndexStep
      BY <1>1, NextIInv
    <2>2. SUFFICES ASSUME NEW a \in Addrs, addrPod[a] # None, addrPod'[a] # addrPod[a]
                   PROVE addrPod'[a] = None /\ podAddr'[addrPod[a]] = None
      OBVIOUS
    <2>3. PICK p \in Pods, b \in Addrs : Reserves(p, b) \/ ReleaseTxn(p, b)
      BY <2>1, <2>2 DEF IndexStep
    <2>4. ~Reserves(p, b)
      BY <1>1, <2>2 DEF Reserves, CanReserve, IInv, TypeOK
    <2>5. QED
      BY <1>1, <2>2, <2>3, <2>4 DEF ReleaseTxn, PointsBack, IInv, TypeOK
  <1>2. QED
    BY <1>1, Inductive, PTL DEF Spec, NeverFreesAnothers

\* The allocator implements the address book: a reservation maps to Reserve, a
\* release to Release, and every other step of every thread to a stutter.
THEOREM Implements == Spec => BookSpec
  <1>1. Init => Book!Init
    BY DEF Init, Book!Init
  <1>2. ASSUME IInv, [Next]_vars
        PROVE [Book!Next]_podAddr
    <2>1. IndexStep
      BY <1>2, NextIInv
    <2>2. ASSUME NEW p \in Pods, NEW a \in Addrs, Reserves(p, a)
          PROVE Book!Next
      <3>1. Book!Free(a)
        BY <1>2, <2>2 DEF Book!Free, Reserves, CanReserve, IInv, IndexAgree
      <3>2. Book!Reserve(p, a)
        BY <2>2, <3>1 DEF Book!Reserve, Reserves, CanReserve
      <3>3. QED
        BY <3>2 DEF Book!Next
    <2>3. ASSUME NEW p \in Pods, NEW a \in Addrs, ReleaseTxn(p, a)
          PROVE [Book!Next]_podAddr
      <3>1. CASE podAddr[p] = None
        <4>1. podAddr' = podAddr
          BY <1>2, <2>3, <3>1 DEF ReleaseTxn, IInv, TypeOK
        <4>2. QED
          BY <4>1
      <3>2. CASE podAddr[p] # None
        BY <2>3, <3>2 DEF ReleaseTxn, Book!Release, Book!Next
      <3>3. QED
        BY <3>1, <3>2
    <2>4. QED
      BY <2>1, <2>2, <2>3 DEF IndexStep
  <1>3. QED
    BY <1>1, <1>2, Inductive, PTL DEF Spec, BookSpec, Book!Spec

-----------------------------------------------------------------------------
(* The stable network.  While voodu0 is never recreated nothing but the    *)
(* loop's deletion of a statefulset releases an address, so what the loop  *)
(* read is still true when its transaction runs.                           *)

StableThread(t) ==
  /\ thr[t].stage = "get" => thr[t].left = pool
  /\ thr[t].stage \in {"draw", "recheck"} => thr[t].left \subseteq pool
  /\ thr[t].stage \in {"relGet", "relTxn"} => t = Loop /\ thr[t].left = {}
  /\ thr[t].stage = "relTxn" => podAddr[thr[t].pod] = thr[t].addr

Stable ==
  /\ \A t \in Threads : StableThread(t)
  /\ \A p \in Pods : podAddr[p] # None => podAddr[p] \in pool
  /\ \A a \in Addrs : addrPod[a] # None => podAddr[addrPod[a]] = a

\* What the reconcile of one thread may do on a stable network.
Grows ==
  \/ UNCHANGED <<podAddr, addrPod>>
  \/ \E p \in Pods, a \in pool : Reserves(p, a)

\* A step that releases nothing keeps every reservation, and Stable with it.
LEMMA GrowsStable ==
  ASSUME IInv, Stable, NEW t \in Threads, Grows, pool' = pool, StableThread(t)',
         \A u \in Threads \ {t} : thr'[u] = thr[u]
  PROVE  /\ Stable'
         /\ \A p \in Pods : podAddr[p] # None => podAddr'[p] = podAddr[p]
  <1>1. \A p \in Pods : podAddr[p] # None => podAddr'[p] = podAddr[p]
    BY DEF Grows, Reserves, CanReserve, IInv, TypeOK
  <1>2. \A u \in Threads : StableThread(u)'
    <2>1. SUFFICES ASSUME NEW u \in Threads, u # t PROVE StableThread(u)'
      OBVIOUS
    <2>2. thr'[u] = thr[u] /\ StableThread(u)
      BY <2>1 DEF Stable
    <2>3. thr[u].stage = "relTxn" =>
            thr[u].pod \in Pods /\ podAddr[thr[u].pod] # None
      BY <2>2 DEF StableThread, IInv, StageOK
    <2>4. QED
      BY <1>1, <2>2, <2>3 DEF StableThread
  <1>3. \A p \in Pods : podAddr'[p] # None => podAddr'[p] \in pool'
    BY DEF Grows, Reserves, IInv, TypeOK, Stable
  <1>4. \A a \in Addrs : addrPod'[a] # None => podAddr'[addrPod'[a]] = a
    <2>1. CASE UNCHANGED <<podAddr, addrPod>>
      BY <2>1 DEF Stable
    <2>2. ASSUME NEW p \in Pods, NEW b \in pool, Reserves(p, b),
                 NEW a \in Addrs, addrPod'[a] # None
          PROVE podAddr'[addrPod'[a]] = a
      <3>1. CASE a = b
        BY <2>2, <3>1 DEF Reserves, IInv, TypeOK
      <3>2. CASE a # b
        <4>1. addrPod'[a] = addrPod[a] /\ addrPod[a] \in Pods
          BY <2>2, <3>2 DEF Reserves, IInv, TypeOK
        <4>2. podAddr[addrPod[a]] = a
          BY <2>2, <4>1 DEF Stable
        <4>3. QED
          BY <1>1, <4>1, <4>2
      <3>3. QED
        BY <3>1, <3>2
    <2>3. QED
      BY <2>1, <2>2 DEF Grows
  <1>5. QED
    BY <1>1, <1>2, <1>3, <1>4 DEF Stable

\* After a release the loop is at the end of its work list or at its next pod.
LEMMA StableAfterRelease ==
  ASSUME IInv, Stable, NEW t \in Threads, thr[t].stage \in {"relGet", "relTxn"},
         AfterRelease(t)
  PROVE  /\ t = Loop
         /\ thr'[t].stage \in {"idle", "relGet"} /\ thr'[t].left = {}
         /\ \A u \in Threads \ {t} : thr'[u] = thr[u]
  <1>1. t = Loop /\ thr[t].left = {}
    BY DEF Stable, StableThread
  <1>2. CASE thr[t].todo = {}
    BY <1>1, <1>2 DEF AfterRelease, Idle, IInv, TypeOK
  <1>3. CASE thr[t].todo # {}
    <2>1. PICK p \in thr[t].todo : thr' = [thr EXCEPT ![t] =
            [Idle EXCEPT !.stage = "relGet", !.pod = p, !.todo = thr[t].todo \ {p}]]
      BY <1>1, <1>3 DEF AfterRelease
    <2>2. QED
      BY <1>1, <2>1 DEF Idle, IInv, TypeOK
  <1>4. QED
    BY <1>2, <1>3

\* One step on a network that was not recreated keeps Stable, and takes an
\* address only from a pod whose statefulset the loop is deleting.
LEMMA StableNext ==
  ASSUME IInv, Stable, [Next]_vars, recreated' = 0, recreated = 0
  PROVE  /\ Stable'
         /\ \A p \in Pods : podAddr[p] # None /\ podAddr'[p] # podAddr[p] => Deleting(p)
  <1>1. ASSUME NEW t \in Threads, NEW p \in Pods, AddressFor(t, p)
        PROVE Grows /\ pool' = pool /\ StableThread(t)' /\ \A u \in Threads \ {t} : thr'[u] = thr[u]
    BY <1>1 DEF AddressFor, Grows, Stable, StableThread, Idle, IInv, TypeOK
  <1>2. ASSUME NEW t \in Threads, GetHeld(t)
        PROVE Grows /\ pool' = pool /\ StableThread(t)' /\ \A u \in Threads \ {t} : thr'[u] = thr[u]
    <2>1. thr[t].pod \in Pods /\ thr[t].left = pool
      BY <1>2 DEF GetHeld, Stable, StableThread, IInv, StageOK
    <2>2. podAddr[thr[t].pod] # None => StillGood(podAddr[thr[t].pod], thr[t].left)
      BY <2>1 DEF Stable, StillGood
    <2>3. \/ thr' = [thr EXCEPT ![t].stage = "draw"]
          \/ thr' = [thr EXCEPT ![t] = Idle]
      BY <1>2, <2>1, <2>2 DEF GetHeld
    <2>4. thr[t] \in Thread
      BY DEF IInv, TypeOK
    <2>5. StableThread(t)' /\ \A u \in Threads \ {t} : thr'[u] = thr[u]
      BY <1>2, <2>1, <2>3, <2>4 DEF GetHeld, StableThread, Idle, IInv, TypeOK, Thread
    <2>6. QED
      BY <1>2, <2>5 DEF GetHeld, Grows
  <1>3. ASSUME NEW t \in Threads, Draw(t)
        PROVE Grows /\ pool' = pool /\ StableThread(t)' /\ \A u \in Threads \ {t} : thr'[u] = thr[u]
    <2>1. thr[t] \in Thread /\ thr[t].pod \in Pods /\ thr[t].left \subseteq pool
      BY <1>3 DEF Draw, Stable, StableThread, IInv, StageOK, TypeOK
    <2>2. CASE thr[t].left = {}
      BY <1>3, <2>2 DEF Draw, Grows, StableThread, Idle, IInv, TypeOK
    <2>3. CASE thr[t].left # {}
      <3>1. PICK a \in thr[t].left :
              /\ ReservePodIP(thr[t].pod, a)
              /\ thr' = [thr EXCEPT ![t] = IF CanReserve(thr[t].pod, a) THEN Idle
                                     ELSE [@ EXCEPT !.stage = "recheck", !.addr = a]]
        BY <1>3, <2>3 DEF Draw
      <3>2. Grows
        BY <2>1, <3>1 DEF Grows, ReservePodIP, Reserves
      <3>3. StableThread(t)' /\ \A u \in Threads \ {t} : thr'[u] = thr[u]
        BY <1>3, <2>1, <3>1 DEF Draw, StableThread, Idle, IInv, TypeOK, Thread
      <3>4. QED
        BY <1>3, <3>2, <3>3 DEF Draw
    <2>4. QED
      BY <2>2, <2>3
  <1>4. ASSUME NEW t \in Threads, Recheck(t)
        PROVE Grows /\ pool' = pool /\ StableThread(t)' /\ \A u \in Threads \ {t} : thr'[u] = thr[u]
    <2>1. thr[t] \in Thread /\ thr[t].left \subseteq pool
      BY <1>4 DEF Recheck, Stable, StableThread, IInv, TypeOK
    <2>2. QED
      BY <1>4, <2>1 DEF Recheck, After, Grows, StableThread, Idle, IInv, TypeOK, Thread
  <1>5. ASSUME NEW t \in Threads, ReleaseGet(t)
        PROVE Grows /\ pool' = pool /\ StableThread(t)' /\ \A u \in Threads \ {t} : thr'[u] = thr[u]
    <2>1. t = Loop /\ thr[t] \in Thread /\ thr[t].left = {} /\ thr[t].pod \in Pods
      BY <1>5 DEF ReleaseGet, Stable, StableThread, IInv, TypeOK, StageOK
    <2>2. CASE podAddr[thr[t].pod] = None
      <3>1. AfterRelease(t)
        BY <1>5, <2>2 DEF ReleaseGet
      <3>2. /\ thr'[t].stage \in {"idle", "relGet"} /\ thr'[t].left = {}
            /\ \A u \in Threads \ {t} : thr'[u] = thr[u]
        BY <1>5, <3>1, StableAfterRelease DEF ReleaseGet
      <3>3. QED
        BY <1>5, <2>1, <3>2 DEF ReleaseGet, Grows, StableThread
    <2>3. CASE podAddr[thr[t].pod] # None
      <3> DEFINE r == [thr[t] EXCEPT !.stage = "relTxn", !.addr = podAddr[thr[t].pod]]
      <3>1. r.stage = "relTxn" /\ r.left = {} /\ r.pod = thr[t].pod /\ r.addr = podAddr[thr[t].pod]
        BY <2>1 DEF Thread
      <3>2. thr' = [thr EXCEPT ![t] = r]
        BY <1>5, <2>3 DEF ReleaseGet
      <3> HIDE DEF r
      <3>3. thr'[t] = r /\ \A u \in Threads \ {t} : thr'[u] = thr[u]
        BY <3>2 DEF IInv, TypeOK
      <3>4. QED
        BY <1>5, <2>1, <3>1, <3>3 DEF ReleaseGet, Grows, StableThread
    <2>4. QED
      BY <2>2, <2>3
  <1>6. ASSUME NEW t \in Threads, ReleaseCommit(t)
        PROVE /\ Stable'
              /\ \A p \in Pods : podAddr[p] # None /\ podAddr'[p] # podAddr[p] => Deleting(p)
    <2> DEFINE q == thr[t].pod
               a == thr[t].addr
    <2>1. /\ t = Loop /\ thr[t].left = {} /\ thr[t].stage = "relTxn"
          /\ q \in Pods /\ a \in Addrs /\ podAddr[q] = a
      BY <1>6 DEF ReleaseCommit, Stable, StableThread, IInv, StageOK
    <2>2. /\ podAddr' = [podAddr EXCEPT ![q] = None]
          /\ addrPod' = [addrPod EXCEPT ![a] = None]
          /\ pool' = pool
      BY <1>6, <2>1 DEF ReleaseCommit, ReleaseTxn, PointsBack, IInv, IndexAgree
    <2>3. /\ thr'[t].stage \in {"idle", "relGet"} /\ thr'[t].left = {}
          /\ \A u \in Threads \ {t} : thr'[u] = thr[u]
      BY <1>6, StableAfterRelease DEF ReleaseCommit
    <2>4. \A u \in Threads : StableThread(u)'
      <3>1. StableThread(t)'
        BY <2>1, <2>3 DEF StableThread
      <3>2. ASSUME NEW u \in Threads \ {t} PROVE StableThread(u)'
        BY <2>1, <2>2, <2>3 DEF Stable, StableThread
      <3>3. QED
        BY <3>1, <3>2
    <2>5. \A p \in Pods : podAddr'[p] # None => podAddr'[p] \in pool'
      BY <2>1, <2>2 DEF Stable, IInv, TypeOK
    <2>6. \A b \in Addrs : addrPod'[b] # None => podAddr'[addrPod'[b]] = b
      <3>1. SUFFICES ASSUME NEW b \in Addrs, addrPod'[b] # None
                     PROVE podAddr'[addrPod'[b]] = b
        OBVIOUS
      <3>2. b # a /\ addrPod'[b] = addrPod[b] /\ addrPod[b] \in Pods
        BY <2>1, <2>2, <3>1 DEF IInv, TypeOK
      <3>3. podAddr[addrPod[b]] = b
        BY <3>1, <3>2 DEF Stable
      <3>4. addrPod[b] # q
        BY <2>1, <3>2, <3>3
      <3>5. QED
        BY <2>1, <2>2, <3>2, <3>3, <3>4 DEF IInv, TypeOK
    <2>7. \A p \in Pods : podAddr'[p] # podAddr[p] => Deleting(p)
      BY <2>1, <2>2 DEF Deleting, IInv, TypeOK
    <2>8. QED
      BY <2>4, <2>5, <2>6, <2>7 DEF Stable
  <1>7. ASSUME NEW t \in Threads, Abandon(t)
        PROVE Grows /\ pool' = pool /\ StableThread(t)' /\ \A u \in Threads \ {t} : thr'[u] = thr[u]
    BY <1>7 DEF Abandon, Grows, StableThread, Idle, IInv, TypeOK
  <1>8. ASSUME NEW s \in Sets, ReleaseSet(s)
        PROVE Grows /\ pool' = pool /\ StableThread(Loop)' /\ \A u \in Threads \ {Loop} : thr'[u] = thr[u]
    BY <1>8 DEF ReleaseSet, Grows, StableThread, Idle, IInv, TypeOK
  <1>9. ~RecreateNetwork
    BY DEF RecreateNetwork, IInv, TypeOK
  <1>10. CASE UNCHANGED vars
    BY <1>10 DEF vars, Stable, StableThread
  <1>11. QED
    BY <1>1, <1>2, <1>3, <1>4, <1>5, <1>6, <1>7, <1>8, <1>9, <1>10, GrowsStable DEF Next, Step

\* The network is never un-recreated, so "not recreated yet" held before too.
LEMMA InductiveStable == Spec => [](recreated = 0 => Stable)
  <1>1. Init => Stable
    BY DEF Init, Stable, StableThread, Idle
  <1>2. ASSUME IInv, [Next]_vars, recreated = 0 => Stable
        PROVE (recreated = 0 => Stable)'
    <2>1. SUFFICES ASSUME recreated' = 0 PROVE Stable'
      OBVIOUS
    <2>2. recreated = 0
      <3>1. recreated' = recreated \/ recreated' = recreated + 1
        BY <1>2 DEF Next, vars, Step, AddressFor, GetHeld, Draw, Recheck, ReleaseGet,
                    ReleaseCommit, Abandon, ReleaseSet, RecreateNetwork
      <3>2. QED
        BY <1>2, <2>1, <3>1 DEF IInv, TypeOK
    <2>3. QED
      BY <1>2, <2>1, <2>2, StableNext
  <1>3. QED
    BY <1>1, <1>2, Inductive, PTL DEF Spec

\* On a network that was never recreated no address is leaked.
THEOREM NoLeak == Spec => []NoLeakOnStableNetwork
  <1>1. (recreated = 0 => Stable) => NoLeakOnStableNetwork
    BY DEF Stable, NoLeakOnStableNetwork
  <1>2. QED
    BY <1>1, InductiveStable, PTL

\* On a network that was never recreated only the deletion of its statefulset
\* takes a pod's address away.
THEOREM Kept == Spec => KeptOnStableNetwork
  <1>1. ASSUME IInv, [Next]_vars, recreated = 0 => Stable
        PROVE [\A p \in Pods : podAddr[p] # None /\ podAddr'[p] # podAddr[p] /\ recreated = 0
                 => Deleting(p)]_vars
    <2>1. SUFFICES ASSUME NEW p \in Pods, podAddr[p] # None, podAddr'[p] # podAddr[p],
                          recreated = 0
                   PROVE Deleting(p)
      OBVIOUS
    <2>2. recreated' = 0
      BY <1>1, <2>1 DEF Next, vars, Step, AddressFor, GetHeld, Draw, Recheck, ReleaseGet,
                        ReleaseCommit, Abandon, ReleaseSet, RecreateNetwork
    <2>3. QED
      BY <1>1, <2>1, <2>2, StableNext
  <1>2. QED
    BY <1>1, Inductive, InductiveStable, PTL DEF Spec, KeptOnStableNetwork
=============================================================================
