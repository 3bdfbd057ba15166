--------------------------- MODULE StatefulsetProofs ---------------------------
(***************************************************************************)
(* Proofs about one statefulset (Statefulset), for any ordinals, specs,    *)
(* manifests and goroutines serving requests.                              *)
(***************************************************************************)
EXTENDS Statefulset, WellFoundedInduction, FiniteSetTheorems, TLAPS

-----------------------------------------------------------------------------
(* The highest and the lowest of a set of ordinals.                           *)

LEMMA LeastNumber ==
  ASSUME NEW S \in SUBSET Nat, S # {}
  PROVE  \E n \in S : \A k \in S : n <= k
<1>1. IsWellFoundedOn(OpToRel(<, Nat), Nat)
  BY NatLessThanWellFounded
<1>2. PICK n \in S : \A k \in S : <<k, n>> \notin OpToRel(<, Nat)
  BY <1>1, WFMin
<1>3. \A k \in S : ~(k < n)
  BY <1>2 DEF OpToRel
<1>. QED  BY <1>3

\* By the smallest set without one.
LEMMA GreatestNumber ==
  ASSUME NEW S \in SUBSET Nat, S # {}, IsFiniteSet(S)
  PROVE  \E n \in S : \A k \in S : k <= n
<1>. DEFINE Topless(T) == T # {} /\ ~ \E n \in T : \A k \in T : k <= n
            Sizes == {Cardinality(T) : T \in {T \in SUBSET S : Topless(T)}}
<1>1. SUFFICES ASSUME Topless(S) PROVE FALSE
  OBVIOUS
<1>2. \A T \in SUBSET S : IsFiniteSet(T) /\ Cardinality(T) \in Nat
  BY FS_Subset, FS_CardinalityType
<1>3. Sizes \in SUBSET Nat /\ Sizes # {}
  BY <1>1, <1>2
<1>4. PICK c \in Sizes : \A d \in Sizes : c <= d
  <2>. HIDE DEF Sizes
  <2>. QED  BY <1>3, LeastNumber
<1>5. PICK T \in SUBSET S : Topless(T) /\ \A U \in SUBSET S : Topless(U) => Cardinality(T) <= Cardinality(U)
  BY <1>4
<1>6. PICK x \in T : TRUE
  BY <1>5
<1>7. T \ {x} \in SUBSET S /\ Cardinality(T \ {x}) = Cardinality(T) - 1
  <2>1. T \ {x} \in SUBSET S /\ IsFiniteSet(T)
    BY <1>2
  <2>. HIDE DEF Topless
  <2>. QED  BY <1>6, <2>1, FS_RemoveElement
<1>8. ~Topless(T \ {x})
  <2>. HIDE DEF Topless
  <2>1. Cardinality(T) \in Nat
    BY <1>2
  <2>. QED  BY <1>5, <1>7, <2>1
<1>9. CASE T \ {x} = {}
  <2>1. T = {x}
    BY <1>6, <1>9
  <2>2. \A k \in T : k <= x
    BY <1>6, <2>1
  <2>. QED  BY <1>5, <1>6, <2>2
<1>10. CASE T \ {x} # {}
  <2>1. PICK y \in T \ {x} : \A k \in T \ {x} : k <= y
    BY <1>8, <1>10
  <2>2. x \in Nat /\ y \in Nat /\ T \subseteq Nat
    BY <1>5, <1>6, <2>1
  <2>3. CASE x <= y
    BY <1>5, <2>1, <2>2, <2>3
  <2>4. CASE ~(x <= y)
    <3>1. \A k \in T : k <= x
      BY <2>1, <2>2, <2>4
    <3>. QED  BY <1>5, <1>6, <3>1
  <2>. QED  BY <2>3, <2>4
<1>. QED  BY <1>9, <1>10

LEMMA HighestIs ==
  ASSUME NEW S \in SUBSET Ordinals, S # {}
  PROVE  Highest(S) \in S /\ \A k \in S : k <= Highest(S)
<1>1. \E n \in S : \A k \in S : k <= n
  BY StatefulsetAssumption, FS_Subset, GreatestNumber
<1>. QED  BY <1>1 DEF Highest

LEMMA LowestIs ==
  ASSUME NEW S \in SUBSET Ordinals, S # {}
  PROVE  Lowest(S) \in S
<1>1. \E n \in S : \A k \in S : n <= k
  BY StatefulsetAssumption, LeastNumber
<1>. QED  BY <1>1 DEF Lowest
-----------------------------------------------------------------------------
(* Where a goroutine is.                                                      *)

Rolls(r)   == r.pc = "roll" \/ (r.pc \in {"mount", "run"} /\ r.back = "roll")
Fills(r)   == r.pc = "up" \/ (r.pc \in {"mount", "run"} /\ r.back = "up")
InHand(r, n) == r.pc \in {"mount", "run"} /\ r.n = n

\* What a goroutine's next step uses is there.
HasManifest == {"list", "decide", "up", "mount", "run", "prune", "trim", "drift", "lock", "roll",
                "stamp", "record", "look", "put", "append", "relist", "fewer", "restale"}
HasOrdinal == {"mount", "run", "readFrozen", "writeFrozen", "clear"}
Equipped(r) ==
  /\ r.pc \in HasManifest => r.m \in Manifests
  /\ r.pc \in HasOrdinal => r.n \in Ordinals

\* Whoever rolls holds the rollout lock.
RollerLocks == \A t \in Threads : Rolls(thr[t]) => mutex = t

ThreadsTyped == thr \in [Threads -> Thread] /\ \A t \in Threads : Equipped(thr[t])

LockIInv == TypeOK /\ ThreadsTyped /\ RollerLocks
-----------------------------------------------------------------------------
(* Types, and the rollout lock.                                               *)

LEMMA LoopIsThread == Loop \in Threads /\ Https \subseteq Threads /\ \A t \in Https : t # Loop
  BY StatefulsetAssumption DEF Threads

LEMMA SetTyped ==
  ASSUME ThreadsTyped, NEW t \in Threads, NEW r \in Thread, Equipped(r), Set(t, r)
  PROVE  /\ ThreadsTyped'
         /\ thr'[t] = r /\ \A s \in Threads \ {t} : thr'[s] = thr[s]
  BY DEF ThreadsTyped, Set, Equipped

LEMMA ZeroOps == 0 \in 0 .. MaxOps
  BY StatefulsetAssumption

LEMMA IdleTyped == Idle \in Thread /\ Equipped(Idle)
  BY ZeroOps DEF Idle, Thread, Equipped, OpNames, Pcs, HasManifest, HasOrdinal

LEMMA GotoTyped ==
  ASSUME ThreadsTyped, NEW t \in Threads, NEW p \in Pcs,
         p \in HasManifest => thr[t].m \in Manifests, p \in HasOrdinal => thr[t].n \in Ordinals,
         Goto(t, p)
  PROVE  /\ ThreadsTyped'
         /\ thr'[t] = [thr[t] EXCEPT !.pc = p] /\ \A s \in Threads \ {t} : thr'[s] = thr[s]
BY SetTyped DEF ThreadsTyped, Thread, Equipped, Goto

\* The ways a goroutine's record changes.
LEMMA TodoFits ==
  ASSUME NEW q \in Thread, NEW S \in SUBSET Ordinals
  PROVE  [q EXCEPT !.todo = S] \in Thread
  BY DEF Thread

LEMMA TodoNextFits ==
  ASSUME NEW q \in Thread, NEW p \in Pcs, NEW S \in SUBSET Ordinals
  PROVE  [q EXCEPT !.pc = p, !.todo = S] \in Thread
  BY DEF Thread

LEMMA ListedFits ==
  ASSUME NEW q \in Thread, NEW p \in Pcs, NEW L \in SUBSET Ordinals, NEW f \in SUBSET {"changed", "first", "minted", "rolled"}
  PROVE  [q EXCEPT !.pc = p, !.live = L, !.flags = f] \in Thread
  BY DEF Thread

LEMMA DecidedFits ==
  ASSUME NEW q \in Thread, NEW p \in Pcs, NEW F \in SUBSET Ordinals, NEW S \in SUBSET Ordinals, NEW f \in SUBSET {"changed", "first", "minted", "rolled"}
  PROVE  [q EXCEPT !.pc = p, !.frz = F, !.todo = S, !.flags = f] \in Thread
  BY DEF Thread

LEMMA InHandFits ==
  ASSUME NEW q \in Thread, NEW p \in Pcs, NEW b \in {"up", "roll"}, NEW n \in Ordinals \cup {None}, NEW S \in SUBSET Ordinals
  PROVE  [q EXCEPT !.pc = p, !.back = b, !.n = n, !.todo = S] \in Thread
  BY DEF Thread

LEMMA HandNextFits ==
  ASSUME NEW q \in Thread, NEW p \in Pcs, NEW n \in Ordinals \cup {None}
  PROVE  [q EXCEPT !.pc = p, !.n = n] \in Thread
  BY DEF Thread

LEMMA PrunedFits ==
  ASSUME NEW q \in Thread, NEW p \in Pcs, NEW S \in SUBSET Ordinals, NEW F \in SUBSET Ordinals
  PROVE  [q EXCEPT !.pc = p, !.todo = S, !.frz = F] \in Thread
  BY DEF Thread

LEMMA RollingFits ==
  ASSUME NEW q \in Thread, NEW p \in Pcs, NEW x \in {"leave", "stamp", "record", "fewer"}, NEW f \in SUBSET {"changed", "first", "minted", "rolled"}
  PROVE  [q EXCEPT !.pc = p, !.ret = x, !.flags = f] \in Thread
  BY DEF Thread

LEMMA ReturnFits ==
  ASSUME NEW q \in Thread, NEW p \in Pcs, NEW x \in {"leave", "stamp", "record", "fewer"}
  PROVE  [q EXCEPT !.pc = p, !.ret = x] \in Thread
  BY DEF Thread

LEMMA LockedFits ==
  ASSUME NEW q \in Thread, NEW p \in Pcs, NEW L \in SUBSET Ordinals, NEW S \in SUBSET Ordinals
  PROVE  [q EXCEPT !.pc = p, !.live = L, !.todo = S] \in Thread
  BY DEF Thread

LEMMA ManifestFits ==
  ASSUME NEW q \in Thread, NEW p \in Pcs, NEW m \in Manifests \cup {None}
  PROVE  [q EXCEPT !.pc = p, !.m = m] \in Thread
  BY DEF Thread

LEMMA FrozenFits ==
  ASSUME NEW q \in Thread, NEW p \in Pcs, NEW F \in SUBSET Ordinals
  PROVE  [q EXCEPT !.pc = p, !.frz = F] \in Thread
  BY DEF Thread

LEMMA PcFits ==
  ASSUME NEW q \in Thread, NEW p \in Pcs
  PROVE  [q EXCEPT !.pc = p] \in Thread
  BY DEF Thread

LEMMA OpFits ==
  ASSUME NEW o \in OpNames, NEW p \in Pcs
  PROVE  [Idle EXCEPT !.op = o, !.pc = p] \in Thread
  BY ZeroOps DEF Thread, Idle

LEMMA OpManifestFits ==
  ASSUME NEW o \in OpNames, NEW p \in Pcs, NEW m \in Manifests \cup {None}
  PROVE  [Idle EXCEPT !.op = o, !.pc = p, !.m = m] \in Thread
  BY ZeroOps DEF Thread, Idle

LEMMA OpOrdinalFits ==
  ASSUME NEW o \in OpNames, NEW p \in Pcs, NEW n \in Ordinals \cup {None}
  PROVE  [Idle EXCEPT !.op = o, !.pc = p, !.n = n] \in Thread
  BY ZeroOps DEF Thread, Idle

LEMMA OrdinalOpFits ==
  ASSUME NEW o \in OpNames, NEW n \in Ordinals \cup {None}, NEW p \in Pcs
  PROVE  [Idle EXCEPT !.op = o, !.n = n, !.pc = p] \in Thread
  BY ZeroOps DEF Thread, Idle

LEMMA OpRollbackFits ==
  ASSUME NEW o \in OpNames, NEW p \in Pcs, NEW m \in Manifests \cup {None}, NEW d \in 0 .. MaxOps
  PROVE  [Idle EXCEPT !.op = o, !.pc = p, !.m = m, !.rel = d] \in Thread
  BY ZeroOps DEF Thread, Idle

-----------------------------------------------------------------------------
(* One goroutine's step, typed: apply and remove.                             *)

\* The loop takes an event: it has the manifest it applies.
LEMMA NextEventTyped == TypeOK /\ ThreadsTyped /\ NextEvent => TypeOK' /\ ThreadsTyped'
<1>. SUFFICES ASSUME TypeOK, ThreadsTyped, NextEvent PROVE TypeOK' /\ ThreadsTyped'
  OBVIOUS
<1>1. Head(chan) \in Manifests \cup {None} /\ Tail(chan) \in Seq(Manifests \cup {None})
  BY DEF TypeOK, NextEvent
<1>. DEFINE a == [Idle EXCEPT !.op = "remove", !.pc = "doomed"]
            b == [Idle EXCEPT !.op = "apply", !.pc = "list", !.m = Head(chan)]
            r == IF Head(chan) = None THEN a ELSE b
<1>2. a \in Thread /\ Equipped(a)
  <2>1. a \in Thread
    BY OpFits DEF OpNames, Pcs
  <2>. QED  BY <2>1 DEF Idle, Equipped, HasManifest, HasOrdinal
<1>3. b \in Thread
  BY <1>1, OpManifestFits DEF OpNames, Pcs
<1>4. Head(chan) # None => Equipped(b)
  BY <1>1 DEF Idle, Equipped, HasManifest, HasOrdinal
<1>5. Set(Loop, r) /\ chan' = Tail(chan) /\ UNCHANGED <<desired, frozen, status, pods, vols, mutex, ops, stranded>>
  BY DEF NextEvent
<1>6. r \in Thread /\ Equipped(r)
  <2>. HIDE DEF a, b
  <2>. QED  BY <1>2, <1>3, <1>4
<1>. HIDE DEF r
<1>7. ThreadsTyped'
  BY <1>5, <1>6, SetTyped, LoopIsThread
<1>8. thr' \in [Threads -> Thread]
  BY <1>7 DEF ThreadsTyped
<1>. QED  BY <1>1, <1>5, <1>7, <1>8 DEF TypeOK

LEMMA ListTyped ==
  ASSUME TypeOK, ThreadsTyped, NEW t \in Threads, List(t) PROVE TypeOK' /\ ThreadsTyped'
<1>0. thr[t] \in Thread /\ Equipped(thr[t])
  BY DEF ThreadsTyped
<1>1. PICK changed \in {{}, {"changed"}} : Set(t, [thr[t] EXCEPT !.pc = "decide", !.live = Live, !.flags = changed])
  BY DEF List
<1>. DEFINE r == [thr[t] EXCEPT !.pc = "decide", !.live = Live, !.flags = changed]
<1>2. r \in Thread
  BY <1>1, <1>0, ListedFits DEF Pcs, OpNames, Live
<1>3. Equipped(r)
  BY <1>1, <1>0, SMT DEF Thread, Equipped, List, At, HasManifest, HasOrdinal
<1>6. Set(t, r)
  BY <1>1 DEF Set
<1>. HIDE DEF r
<1>7. ThreadsTyped'
  BY <1>2, <1>3, <1>6, SetTyped
<1>8. thr' \in [Threads -> Thread]
  BY <1>7 DEF ThreadsTyped
<1>. QED  BY <1>7, <1>8 DEF List, TypeOK

LEMMA DecideTyped ==
  ASSUME TypeOK, ThreadsTyped, NEW t \in Threads, Decide(t) PROVE TypeOK' /\ ThreadsTyped'
<1>0. thr[t] \in Thread /\ Equipped(thr[t])
  BY DEF ThreadsTyped
<1>4. PICK f \in SUBSET {"changed", "first", "minted", "rolled"}, S \in SUBSET Ordinals :
        Set(t, [thr[t] EXCEPT !.pc = "up", !.frz = frozen, !.todo = S, !.flags = f])
  BY <1>0 DEF Thread, Decide, Below
<1>5. frozen \in SUBSET Ordinals
  BY DEF TypeOK
<1>. DEFINE r == [thr[t] EXCEPT !.pc = "up", !.frz = frozen, !.todo = S, !.flags = f]
<1>2. r \in Thread
  BY <1>4, <1>5, <1>0, DecidedFits DEF Pcs, OpNames
<1>3. Equipped(r)
  BY <1>4, <1>5, <1>0, SMT DEF Thread, Equipped, Decide, At, HasManifest, HasOrdinal
<1>6. Set(t, r)
  BY <1>4 DEF Set
<1>. HIDE DEF r
<1>7. ThreadsTyped'
  BY <1>2, <1>3, <1>6, SetTyped
<1>8. thr' \in [Threads -> Thread]
  BY <1>7 DEF ThreadsTyped
<1>. QED  BY <1>7, <1>8 DEF Decide, TypeOK

LEMMA UpTyped ==
  ASSUME TypeOK, ThreadsTyped, NEW t \in Threads, Up(t) PROVE TypeOK' /\ ThreadsTyped'
<1>0. thr[t] \in Thread /\ Equipped(thr[t])
  BY DEF ThreadsTyped
<1>1. thr[t].todo \in SUBSET Ordinals
  BY <1>0 DEF Thread
<1>2. CASE thr[t].todo # {}
  <2>. DEFINE r == [thr[t] EXCEPT !.pc = "mount", !.back = "up", !.n = Lowest(thr[t].todo),
                                  !.todo = thr[t].todo \ {Lowest(thr[t].todo)}]
  <2>1. Lowest(thr[t].todo) \in Ordinals
    BY <1>1, <1>2, LowestIs
  <2>2. r \in Thread
    BY <1>0, <1>1, <2>1, InHandFits DEF Pcs
  <2>3. Equipped(r)
    BY <1>0, <2>1, SMT DEF Thread, Equipped, Up, At, HasManifest, HasOrdinal
  <2>4. Set(t, r)
    BY <1>2 DEF Up
  <2>. HIDE DEF r
  <2>5. ThreadsTyped'
    BY <2>2, <2>3, <2>4, SetTyped
  <2>. QED  BY <2>5 DEF Up, TypeOK, ThreadsTyped
<1>3. CASE thr[t].todo = {}
  <2>. DEFINE p == IF thr[t].op = "rollback" THEN "restale" ELSE "prune"
  <2>1. Goto(t, p)
    BY <1>3 DEF Up, Goto
  <2>2. p \in Pcs /\ (p \in HasManifest => thr[t].m \in Manifests) /\ p \notin HasOrdinal
    BY <1>0 DEF Pcs, Up, At, Equipped, HasManifest, HasOrdinal
  <2>. HIDE DEF p
  <2>3. ThreadsTyped'
    BY <2>1, <2>2, GotoTyped
  <2>. QED  BY <2>3 DEF Up, TypeOK, ThreadsTyped
<1>. QED  BY <1>2, <1>3

LEMMA MountTyped ==
  ASSUME TypeOK, ThreadsTyped, NEW t \in Threads, Mount(t) PROVE TypeOK' /\ ThreadsTyped'
BY GotoTyped DEF ThreadsTyped, Mount, At, Equipped, HasManifest, HasOrdinal, Pcs, TypeOK

LEMMA RunTyped ==
  ASSUME TypeOK, ThreadsTyped, NEW t \in Threads, Run(t) PROVE TypeOK' /\ ThreadsTyped'
<1>0. thr[t] \in Thread /\ Equipped(thr[t])
  BY DEF ThreadsTyped
<1>1. thr[t].m \in Manifests /\ thr[t].n \in Ordinals
  BY <1>0 DEF Run, At, Equipped, HasManifest, HasOrdinal
<1>. DEFINE r == [thr[t] EXCEPT !.pc = thr[t].back, !.n = None]
<1>2. r \in Thread
  <2>1. thr[t].back \in Pcs
    BY <1>0 DEF Thread, Pcs
  <2>. QED  BY <1>0, <2>1, HandNextFits
<1>3. Equipped(r)
  BY <1>0, <1>1, SMT DEF Thread, Equipped, HasManifest, HasOrdinal
<1>4. Set(t, r)
  BY DEF Run
<1>. HIDE DEF r
<1>5. ThreadsTyped'
  BY <1>2, <1>3, <1>4, SetTyped
<1>6. [spec |-> thr[t].m.spec, rel |-> thr[t].rel, up |-> TRUE] \in Pod
  BY <1>0, <1>1, StatefulsetAssumption DEF Thread, Pod
<1>7. \A q \in Pod : [q EXCEPT !.up = TRUE] \in Pod
  BY DEF Pod
<1>8. pods' \in [Ordinals -> Pod \cup {None}]
  BY <1>1, <1>6, <1>7 DEF Run, TypeOK
<1>9. vols' \in [Ordinals -> {"none", "kept", "bare"}]
  BY <1>1 DEF Run, TypeOK
<1>. QED  BY <1>5, <1>8, <1>9 DEF Run, TypeOK, ThreadsTyped

LEMMA PruneTyped ==
  ASSUME TypeOK, ThreadsTyped, NEW t \in Threads, Prune(t) PROVE TypeOK' /\ ThreadsTyped'
<1>0. thr[t] \in Thread /\ Equipped(thr[t])
  BY DEF ThreadsTyped
<1>1. PICK F \in SUBSET Ordinals : Set(t, [thr[t] EXCEPT !.pc = "trim", !.todo = Live \ Below(thr[t].m.want), !.frz = F])
  BY <1>0 DEF Prune, TypeOK, Thread
<1>. DEFINE r == [thr[t] EXCEPT !.pc = "trim", !.todo = Live \ Below(thr[t].m.want), !.frz = F]
<1>2. r \in Thread
  BY <1>1, <1>0, PrunedFits DEF Pcs, OpNames, Live
<1>3. Equipped(r)
  BY <1>1, <1>0, SMT DEF Thread, Equipped, Prune, At, HasManifest, HasOrdinal
<1>6. Set(t, r)
  BY <1>1 DEF Set
<1>. HIDE DEF r
<1>7. ThreadsTyped'
  BY <1>2, <1>3, <1>6, SetTyped
<1>8. thr' \in [Threads -> Thread]
  BY <1>7 DEF ThreadsTyped
<1>. QED  BY <1>7, <1>8 DEF Prune, TypeOK

LEMMA TrimTyped ==
  ASSUME TypeOK, ThreadsTyped, NEW t \in Threads, Trim(t) PROVE TypeOK' /\ ThreadsTyped'
<1>0. thr[t] \in Thread /\ Equipped(thr[t])
  BY DEF ThreadsTyped
<1>1. thr[t].todo \in SUBSET Ordinals
  BY <1>0 DEF Thread
<1>. DEFINE a == [thr[t] EXCEPT !.todo = thr[t].todo \ {Highest(thr[t].todo)}]
            b == [thr[t] EXCEPT !.pc = IF thr[t].op = "rollback" THEN "relist" ELSE "drift"]
            r == IF thr[t].todo # {} THEN a ELSE b
<1>20. a \in Thread
  BY <1>0, <1>1, TodoFits DEF Pcs, OpNames, Live
<1>21. Equipped(a)
  BY <1>0, <1>1, SMT DEF Thread, Idle, Equipped, Trim, At, HasManifest, HasOrdinal
<1>22. b \in Thread
  BY <1>0, PcFits DEF Pcs, OpNames, Live
<1>23. Equipped(b)
  BY <1>0, SMT DEF Thread, Idle, Equipped, Trim, At, HasManifest, HasOrdinal
<1>8. Set(t, r)
  BY SMT DEF Trim, RemoveHighest, Goto, Set
<1>9. r \in Thread /\ Equipped(r)
  <2>. HIDE DEF a, b
  <2>. QED  BY <1>20, <1>21, <1>22, <1>23
<1>. HIDE DEF r
<1>10. ThreadsTyped'
  BY <1>8, <1>9, SetTyped
<1>11. thr' \in [Threads -> Thread]
  BY <1>10 DEF ThreadsTyped
<1>12. pods' \in [Ordinals -> Pod \cup {None}]
  BY DEF Trim, RemoveHighest, TypeOK
<1>. QED  BY <1>10, <1>11, <1>12 DEF Trim, TypeOK

LEMMA RemovePodsTyped ==
  ASSUME TypeOK, ThreadsTyped, NEW t \in Threads, RemovePods(t) PROVE TypeOK' /\ ThreadsTyped'
<1>0. thr[t] \in Thread /\ Equipped(thr[t])
  BY DEF ThreadsTyped
<1>1. thr[t].todo \in SUBSET Ordinals
  BY <1>0 DEF Thread
<1>. DEFINE a == [thr[t] EXCEPT !.todo = thr[t].todo \ {Highest(thr[t].todo)}]
            b == [thr[t] EXCEPT !.pc = "leave"]
            r == IF thr[t].todo # {} THEN a ELSE b
<1>20. a \in Thread
  BY <1>0, <1>1, TodoFits DEF Pcs, OpNames, Live
<1>21. Equipped(a)
  BY <1>0, <1>1, SMT DEF Thread, Idle, Equipped, RemovePods, At, HasManifest, HasOrdinal
<1>22. b \in Thread
  BY <1>0, PcFits DEF Pcs, OpNames, Live
<1>23. Equipped(b)
  BY <1>0, SMT DEF Thread, Idle, Equipped, RemovePods, At, HasManifest, HasOrdinal
<1>8. Set(t, r)
  BY SMT DEF RemovePods, RemoveHighest, Goto, Set
<1>9. r \in Thread /\ Equipped(r)
  <2>. HIDE DEF a, b
  <2>. QED  BY <1>20, <1>21, <1>22, <1>23
<1>. HIDE DEF r
<1>10. ThreadsTyped'
  BY <1>8, <1>9, SetTyped
<1>11. thr' \in [Threads -> Thread]
  BY <1>10 DEF ThreadsTyped
<1>12. pods' \in [Ordinals -> Pod \cup {None}]
  BY DEF RemovePods, RemoveHighest, TypeOK
<1>13. status' \in [hash : Specs \cup {None}, want : Nat, recs : SUBSET Manifests]
  BY DEF RemovePods, Blank, TypeOK
<1>. QED  BY <1>10, <1>11, <1>12, <1>13 DEF RemovePods, TypeOK

LEMMA DriftTyped ==
  ASSUME TypeOK, ThreadsTyped, NEW t \in Threads, Drift(t) PROVE TypeOK' /\ ThreadsTyped'
<1>0. thr[t] \in Thread /\ Equipped(thr[t])
  BY DEF ThreadsTyped
<1>1. thr[t].flags \cup {"rolled"} \in SUBSET {"changed", "first", "minted", "rolled"}
  BY <1>0 DEF Thread
<1>. DEFINE a == [thr[t] EXCEPT !.pc = "stamp"]
            b == [thr[t] EXCEPT !.pc = "lock", !.ret = "stamp", !.flags = thr[t].flags \cup {"rolled"}]
            r == IF status.hash \in {None, thr[t].m.spec} THEN a ELSE b
<1>20. a \in Thread
  BY <1>0, PcFits DEF Pcs, OpNames, Live
<1>21. Equipped(a)
  BY <1>0, SMT DEF Thread, Idle, Equipped, Drift, At, HasManifest, HasOrdinal
<1>22. b \in Thread
  BY <1>0, <1>1, RollingFits DEF Pcs, OpNames, Live
<1>23. Equipped(b)
  BY <1>0, <1>1, SMT DEF Thread, Idle, Equipped, Drift, At, HasManifest, HasOrdinal
<1>8. Set(t, r)
  BY DEF Drift, Goto, Done
<1>9. r \in Thread /\ Equipped(r)
  <2>. HIDE DEF a, b
  <2>. QED  BY <1>20, <1>21, <1>22, <1>23
<1>. HIDE DEF r
<1>10. ThreadsTyped'
  BY <1>8, <1>9, SetTyped
<1>11. thr' \in [Threads -> Thread]
  BY <1>10 DEF ThreadsTyped
<1>. QED  BY <1>10, <1>11 DEF Drift, TypeOK

LEMMA StampTyped ==
  ASSUME TypeOK, ThreadsTyped, NEW t \in Threads, Stamp(t) PROVE TypeOK' /\ ThreadsTyped'
<1>0. thr[t] \in Thread /\ Equipped(thr[t])
  BY DEF ThreadsTyped
<1>. DEFINE a == [thr[t] EXCEPT !.pc = "leave"]
            b == [thr[t] EXCEPT !.pc = "lock", !.ret = "record"]
            c == [thr[t] EXCEPT !.pc = "record"]
            r == IF thr[t].op = "rollback" THEN a
                 ELSE IF "changed" \in thr[t].flags /\ thr[t].flags \cap {"rolled", "first"} = {} THEN b ELSE c
<1>20. a \in Thread
  BY <1>0, PcFits DEF Pcs, OpNames, Live
<1>21. Equipped(a)
  BY <1>0, SMT DEF Thread, Idle, Equipped, Stamp, At, HasManifest, HasOrdinal
<1>22. b \in Thread
  BY <1>0, ReturnFits DEF Pcs, OpNames, Live
<1>23. Equipped(b)
  BY <1>0, SMT DEF Thread, Idle, Equipped, Stamp, At, HasManifest, HasOrdinal
<1>24. c \in Thread
  BY <1>0, PcFits DEF Pcs, OpNames, Live
<1>25. Equipped(c)
  BY <1>0, SMT DEF Thread, Idle, Equipped, Stamp, At, HasManifest, HasOrdinal
<1>8. Set(t, r)
  BY DEF Stamp, Goto, Done
<1>9. r \in Thread /\ Equipped(r)
  <2>. HIDE DEF a, b, c
  <2>. QED  BY <1>20, <1>21, <1>22, <1>23, <1>24, <1>25
<1>. HIDE DEF r
<1>10. ThreadsTyped'
  BY <1>8, <1>9, SetTyped
<1>11. thr' \in [Threads -> Thread]
  BY <1>10 DEF ThreadsTyped
<1>1. thr[t].m \in Manifests
  BY <1>0 DEF Stamp, At, Equipped, HasManifest
<1>2. status' \in [hash : Specs \cup {None}, want : Nat, recs : SUBSET Manifests]
  BY <1>1, StatefulsetAssumption DEF Stamp, TypeOK
<1>. QED  BY <1>2, <1>10, <1>11 DEF Stamp, TypeOK

LEMMA RecordTyped ==
  ASSUME TypeOK, ThreadsTyped, NEW t \in Threads, Record(t) PROVE TypeOK' /\ ThreadsTyped'
<1>0. thr[t] \in Thread /\ Equipped(thr[t])
  BY DEF ThreadsTyped
<1>. DEFINE a == [thr[t] EXCEPT !.pc = "leave"]
            r == a
<1>20. a \in Thread
  BY <1>0, PcFits DEF Pcs, OpNames, Live
<1>21. Equipped(a)
  BY <1>0, SMT DEF Thread, Idle, Equipped, Record, At, HasManifest, HasOrdinal
<1>8. Set(t, r)
  BY DEF Record, Goto, Done
<1>9. r \in Thread /\ Equipped(r)
  <2>. HIDE DEF a
  <2>. QED  BY <1>20, <1>21
<1>. HIDE DEF r
<1>10. ThreadsTyped'
  BY <1>8, <1>9, SetTyped
<1>11. thr' \in [Threads -> Thread]
  BY <1>10 DEF ThreadsTyped
<1>1. thr[t].m \in Manifests
  BY <1>0 DEF Record, At, Equipped, HasManifest
<1>2. status' \in [hash : Specs \cup {None}, want : Nat, recs : SUBSET Manifests]
  BY <1>1 DEF Record, TypeOK
<1>. QED  BY <1>2, <1>10, <1>11 DEF Record, TypeOK

LEMMA LeaveTyped ==
  ASSUME TypeOK, ThreadsTyped, NEW t \in Threads, Leave(t) PROVE TypeOK' /\ ThreadsTyped'
BY IdleTyped, SetTyped DEF Leave, Done, ThreadsTyped, TypeOK

LEMMA DoomedTyped ==
  ASSUME TypeOK, ThreadsTyped, NEW t \in Threads, Doomed(t) PROVE TypeOK' /\ ThreadsTyped'
<1>0. thr[t] \in Thread /\ Equipped(thr[t])
  BY DEF ThreadsTyped
<1>. DEFINE a == [thr[t] EXCEPT !.pc = "remove", !.todo = Live]
            r == a
<1>20. a \in Thread
  BY <1>0, TodoNextFits DEF Pcs, OpNames, Live
<1>21. Equipped(a)
  BY <1>0, SMT DEF Thread, Idle, Equipped, Doomed, At, HasManifest, HasOrdinal
<1>8. Set(t, r)
  BY DEF Doomed, Goto, Done
<1>9. r \in Thread /\ Equipped(r)
  <2>. HIDE DEF a
  <2>. QED  BY <1>20, <1>21
<1>. HIDE DEF r
<1>10. ThreadsTyped'
  BY <1>8, <1>9, SetTyped
<1>11. thr' \in [Threads -> Thread]
  BY <1>10 DEF ThreadsTyped
<1>. QED  BY <1>10, <1>11 DEF Doomed, TypeOK

-----------------------------------------------------------------------------
(* The roll, typed.                                                           *)

LEMMA LockTyped ==
  ASSUME TypeOK, ThreadsTyped, NEW t \in Threads, Lock(t) PROVE TypeOK' /\ ThreadsTyped'
<1>0. thr[t] \in Thread /\ Equipped(thr[t])
  BY DEF ThreadsTyped
<1>. DEFINE r == [thr[t] EXCEPT !.pc = "roll", !.live = Live \ thr[t].frz, !.todo = Live \ thr[t].frz]
<1>2. r \in Thread
  BY <1>0, LockedFits DEF Pcs, OpNames, Live
<1>3. Equipped(r)
  BY <1>0, SMT DEF Thread, Equipped, Lock, At, HasManifest, HasOrdinal
<1>6. Set(t, r)
  BY DEF Lock, Goto, Done
<1>. HIDE DEF r
<1>7. ThreadsTyped'
  BY <1>2, <1>3, <1>6, SetTyped
<1>8. thr' \in [Threads -> Thread]
  BY <1>7 DEF ThreadsTyped
<1>. QED  BY <1>7, <1>8 DEF Lock, TypeOK

LEMMA TakeTyped ==
  ASSUME TypeOK, ThreadsTyped, NEW t \in Threads, Take(t) PROVE TypeOK' /\ ThreadsTyped'
<1>0. thr[t] \in Thread /\ Equipped(thr[t])
  BY DEF ThreadsTyped
<1>1. thr[t].todo \in SUBSET Ordinals
  BY <1>0 DEF Thread
<1>2. Highest(thr[t].todo) \in Ordinals
  BY <1>1, HighestIs DEF Take
<1>. DEFINE a == [thr[t] EXCEPT !.pc = "mount", !.back = "roll", !.n = Highest(thr[t].todo), !.todo = thr[t].todo \ {Highest(thr[t].todo)}]
            r == a
<1>20. a \in Thread
  BY <1>0, <1>1, <1>2, InHandFits DEF Pcs, OpNames, Live
<1>21. Equipped(a)
  BY <1>0, <1>1, <1>2, SMT DEF Thread, Idle, Equipped, Take, At, HasManifest, HasOrdinal
<1>8. Set(t, r)
  BY DEF Take, Goto, Done
<1>9. r \in Thread /\ Equipped(r)
  <2>. HIDE DEF a
  <2>. QED  BY <1>20, <1>21
<1>. HIDE DEF r
<1>10. ThreadsTyped'
  BY <1>8, <1>9, SetTyped
<1>11. thr' \in [Threads -> Thread]
  BY <1>10 DEF ThreadsTyped
<1>12. pods' \in [Ordinals -> Pod \cup {None}]
  BY DEF Take, RemoveHighest, TypeOK
<1>. QED  BY <1>10, <1>11, <1>12 DEF Take, TypeOK

LEMMA UnlockTyped ==
  ASSUME TypeOK, ThreadsTyped, NEW t \in Threads, Unlock(t) PROVE TypeOK' /\ ThreadsTyped'
<1>0. thr[t] \in Thread /\ Equipped(thr[t])
  BY DEF ThreadsTyped
<1>. DEFINE p == thr[t].ret
<1>1. Goto(t, p)
  BY DEF Unlock
<1>2. p \in Pcs /\ (p \in HasManifest => thr[t].m \in Manifests) /\ (p \in HasOrdinal => thr[t].n \in Ordinals)
  BY <1>0 DEF Thread, Pcs, Unlock, At, Equipped, HasManifest, HasOrdinal
<1>. HIDE DEF p
<1>3. ThreadsTyped'
  BY <1>1, <1>2, GotoTyped
<1>4. thr' \in [Threads -> Thread]
  BY <1>3 DEF ThreadsTyped
<1>. QED  BY <1>3, <1>4 DEF Unlock, TypeOK

-----------------------------------------------------------------------------
(* Requests, typed.                                                           *)

LEMMA ListPodsTyped ==
  ASSUME TypeOK, ThreadsTyped, NEW t \in Threads, ListPods(t) PROVE TypeOK' /\ ThreadsTyped'
<1>0. thr[t] \in Thread /\ Equipped(thr[t])
  BY DEF ThreadsTyped
<1>. DEFINE r == [thr[t] EXCEPT !.pc = "prunePods", !.todo = Live]
<1>2. r \in Thread
  BY <1>0, TodoNextFits DEF Pcs, OpNames, Live
<1>3. Equipped(r)
  BY <1>0, SMT DEF Thread, Equipped, ListPods, At, HasManifest, HasOrdinal
<1>6. Set(t, r)
  BY DEF ListPods, Goto, Done
<1>. HIDE DEF r
<1>7. ThreadsTyped'
  BY <1>2, <1>3, <1>6, SetTyped
<1>8. thr' \in [Threads -> Thread]
  BY <1>7 DEF ThreadsTyped
<1>. QED  BY <1>7, <1>8 DEF ListPods, TypeOK

LEMMA PrunePodsTyped ==
  ASSUME TypeOK, ThreadsTyped, NEW t \in Threads, PrunePods(t) PROVE TypeOK' /\ ThreadsTyped'
<1>0. thr[t] \in Thread /\ Equipped(thr[t])
  BY DEF ThreadsTyped
<1>1. thr[t].todo \in SUBSET Ordinals
  BY <1>0 DEF Thread
<1>2. CASE \E n \in thr[t].todo : /\ pods' = [pods EXCEPT ![n] = None]
                               /\ Set(t, [thr[t] EXCEPT !.todo = @ \ {n}])
  <2>1. PICK n \in thr[t].todo : /\ pods' = [pods EXCEPT ![n] = None]
                                 /\ Set(t, [thr[t] EXCEPT !.todo = @ \ {n}])
    BY <1>2
  <2>. DEFINE r == [thr[t] EXCEPT !.todo = thr[t].todo \ {n}]
  <2>2. r \in Thread
    BY <1>0, <1>1, TodoFits
  <2>3. Equipped(r)
    BY <1>0, SMT DEF Thread, Equipped, PrunePods, At, HasManifest, HasOrdinal
  <2>4. Set(t, r)
    BY <2>1 DEF Set
  <2>. HIDE DEF r
  <2>5. ThreadsTyped'
    BY <2>2, <2>3, <2>4, SetTyped
  <2>6. pods' \in [Ordinals -> Pod \cup {None}]
    BY <2>1 DEF TypeOK
  <2>. QED  BY <2>5, <2>6 DEF PrunePods, TypeOK, ThreadsTyped
<1>3. CASE thr[t].todo = {} /\ Goto(t, "listVols") /\ UNCHANGED pods
  <2>1. ThreadsTyped'
    BY <1>3, GotoTyped DEF Pcs, HasManifest, HasOrdinal
  <2>. QED  BY <1>3, <2>1 DEF PrunePods, TypeOK, ThreadsTyped
<1>. QED  BY <1>2, <1>3 DEF PrunePods

LEMMA ListVolsTyped ==
  ASSUME TypeOK, ThreadsTyped, NEW t \in Threads, ListVols(t) PROVE TypeOK' /\ ThreadsTyped'
<1>0. thr[t] \in Thread /\ Equipped(thr[t])
  BY DEF ThreadsTyped
<1>1. PICK S \in SUBSET Ordinals : Set(t, [thr[t] EXCEPT !.pc = "dropVols", !.todo = S])
  BY DEF ListVols
<1>. DEFINE r == [thr[t] EXCEPT !.pc = "dropVols", !.todo = S]
<1>2. r \in Thread
  BY <1>1, <1>0, TodoNextFits DEF Pcs, OpNames
<1>3. Equipped(r)
  BY <1>1, <1>0, SMT DEF Thread, Equipped, ListVols, At, HasManifest, HasOrdinal
<1>6. Set(t, r)
  BY <1>1
<1>. HIDE DEF r
<1>7. ThreadsTyped'
  BY <1>2, <1>3, <1>6, SetTyped
<1>8. thr' \in [Threads -> Thread]
  BY <1>7 DEF ThreadsTyped
<1>. QED  BY <1>7, <1>8 DEF ListVols, TypeOK

LEMMA DropVolsTyped ==
  ASSUME TypeOK, ThreadsTyped, NEW t \in Threads, DropVols(t) PROVE TypeOK' /\ ThreadsTyped'
<1>0. thr[t] \in Thread /\ Equipped(thr[t])
  BY DEF ThreadsTyped
<1>1. thr[t].todo \in SUBSET Ordinals
  BY <1>0 DEF Thread
<1>2. CASE \E n \in thr[t].todo :
             /\ vols' = [vols EXCEPT ![n] = IF pods[n] = None THEN "none" ELSE @]
             /\ Set(t, [thr[t] EXCEPT !.todo = @ \ {n}])
  <2>1. PICK n \in thr[t].todo :
             /\ vols' = [vols EXCEPT ![n] = IF pods[n] = None THEN "none" ELSE @]
             /\ Set(t, [thr[t] EXCEPT !.todo = @ \ {n}])
    BY <1>2
  <2>. DEFINE r == [thr[t] EXCEPT !.todo = thr[t].todo \ {n}]
  <2>2. r \in Thread
    BY <1>0, <1>1, TodoFits
  <2>3. Equipped(r)
    BY <1>0, SMT DEF Thread, Equipped, DropVols, At, HasManifest, HasOrdinal
  <2>4. Set(t, r)
    BY <2>1 DEF Set
  <2>. HIDE DEF r
  <2>5. ThreadsTyped'
    BY <2>2, <2>3, <2>4, SetTyped
  <2>6. vols' \in [Ordinals -> {"none", "kept", "bare"}]
    BY <2>1 DEF TypeOK
  <2>. QED  BY <2>5, <2>6 DEF DropVols, TypeOK, ThreadsTyped
<1>3. CASE Goto(t, IF thr[t].op = "prune" THEN "leave" ELSE "reget") /\ UNCHANGED vols
  <2>1. ThreadsTyped'
    BY <1>3, GotoTyped DEF Pcs, HasManifest, HasOrdinal
  <2>. QED  BY <1>3, <2>1 DEF DropVols, TypeOK, ThreadsTyped
<1>. QED  BY <1>2, <1>3 DEF DropVols

LEMMA RegetTyped ==
  ASSUME TypeOK, ThreadsTyped, NEW t \in Threads, Reget(t) PROVE TypeOK' /\ ThreadsTyped'
<1>0. thr[t] \in Thread /\ Equipped(thr[t])
  BY DEF ThreadsTyped
<1>1. desired \in Manifests \cup {None}
  BY DEF TypeOK
<1>. DEFINE a == [Idle EXCEPT !.op = "apply", !.pc = "list", !.m = desired]
            r == IF desired = None THEN Idle ELSE a
<1>20. a \in Thread
  BY <1>0, <1>1, OpManifestFits DEF Pcs, OpNames, Live
<1>21. desired # None => Equipped(a)
  BY <1>0, <1>1, SMT DEF Thread, Idle, Equipped, Reget, At, HasManifest, HasOrdinal
<1>8. Set(t, r)
  BY DEF Reget, Goto, Done
<1>9. r \in Thread /\ Equipped(r)
  <2>. HIDE DEF a
  <2>. QED  BY <1>20, <1>21, IdleTyped
<1>. HIDE DEF r
<1>10. ThreadsTyped'
  BY <1>8, <1>9, SetTyped
<1>11. thr' \in [Threads -> Thread]
  BY <1>10 DEF ThreadsTyped
<1>. QED  BY <1>10, <1>11 DEF Reget, TypeOK

LEMMA RestartGetTyped ==
  ASSUME TypeOK, ThreadsTyped, NEW t \in Threads, RestartGet(t) PROVE TypeOK' /\ ThreadsTyped'
<1>0. thr[t] \in Thread /\ Equipped(thr[t])
  BY DEF ThreadsTyped
<1>1. desired \in Manifests \cup {None}
  BY DEF TypeOK
<1>. DEFINE a == [thr[t] EXCEPT !.pc = "look", !.m = desired]
            r == IF desired = None THEN Idle ELSE a
<1>20. a \in Thread
  BY <1>0, <1>1, ManifestFits DEF Pcs, OpNames, Live
<1>21. desired # None => Equipped(a)
  BY <1>0, <1>1, SMT DEF Thread, Idle, Equipped, RestartGet, At, HasManifest, HasOrdinal
<1>8. Set(t, r)
  BY DEF RestartGet, Goto, Done
<1>9. r \in Thread /\ Equipped(r)
  <2>. HIDE DEF a
  <2>. QED  BY <1>20, <1>21, IdleTyped
<1>. HIDE DEF r
<1>10. ThreadsTyped'
  BY <1>8, <1>9, SetTyped
<1>11. thr' \in [Threads -> Thread]
  BY <1>10 DEF ThreadsTyped
<1>. QED  BY <1>10, <1>11 DEF RestartGet, TypeOK

LEMMA RestartLookTyped ==
  ASSUME TypeOK, ThreadsTyped, NEW t \in Threads, RestartLook(t) PROVE TypeOK' /\ ThreadsTyped'
<1>0. thr[t] \in Thread /\ Equipped(thr[t])
  BY DEF ThreadsTyped
<1>1. frozen \in SUBSET Ordinals
  BY DEF TypeOK
<1>. DEFINE a == [thr[t] EXCEPT !.pc = "lock", !.frz = frozen]
            r == IF Live = {} THEN Idle ELSE a
<1>20. a \in Thread
  BY <1>0, <1>1, FrozenFits DEF Pcs, OpNames, Live
<1>21. Equipped(a)
  BY <1>0, <1>1, SMT DEF Thread, Idle, Equipped, RestartLook, At, HasManifest, HasOrdinal
<1>8. Set(t, r)
  BY DEF RestartLook, Goto, Done
<1>9. r \in Thread /\ Equipped(r)
  <2>. HIDE DEF a
  <2>. QED  BY <1>20, <1>21, IdleTyped
<1>. HIDE DEF r
<1>10. ThreadsTyped'
  BY <1>8, <1>9, SetTyped
<1>11. thr' \in [Threads -> Thread]
  BY <1>10 DEF ThreadsTyped
<1>. QED  BY <1>10, <1>11 DEF RestartLook, TypeOK

LEMMA ReadFrozenTyped ==
  ASSUME TypeOK, ThreadsTyped, NEW t \in Threads, ReadFrozen(t) PROVE TypeOK' /\ ThreadsTyped'
<1>0. thr[t] \in Thread /\ Equipped(thr[t])
  BY DEF ThreadsTyped
<1>1. frozen \in SUBSET Ordinals
  BY DEF TypeOK
<1>. DEFINE r == [thr[t] EXCEPT !.pc = "writeFrozen", !.frz = frozen]
<1>2. r \in Thread
  BY <1>1, <1>0, FrozenFits DEF Pcs, OpNames
<1>3. Equipped(r)
  BY <1>1, <1>0, SMT DEF Thread, Equipped, ReadFrozen, At, HasManifest, HasOrdinal
<1>6. Set(t, r)
  BY DEF ReadFrozen, Goto, Done
<1>. HIDE DEF r
<1>7. ThreadsTyped'
  BY <1>2, <1>3, <1>6, SetTyped
<1>8. thr' \in [Threads -> Thread]
  BY <1>7 DEF ThreadsTyped
<1>. QED  BY <1>7, <1>8 DEF ReadFrozen, TypeOK

LEMMA WriteFrozenTyped ==
  ASSUME TypeOK, ThreadsTyped, NEW t \in Threads, WriteFrozen(t) PROVE TypeOK' /\ ThreadsTyped'
<1>0. thr[t] \in Thread /\ Equipped(thr[t])
  BY DEF ThreadsTyped
<1>. DEFINE p == IF thr[t].op = "stop" THEN "leave" ELSE "clear"
<1>1. Goto(t, p)
  BY DEF WriteFrozen
<1>2. p \in Pcs /\ (p \in HasManifest => thr[t].m \in Manifests) /\ (p \in HasOrdinal => thr[t].n \in Ordinals)
  BY <1>0 DEF Thread, Pcs, WriteFrozen, At, Equipped, HasManifest, HasOrdinal
<1>. HIDE DEF p
<1>3. ThreadsTyped'
  BY <1>1, <1>2, GotoTyped
<1>4. thr' \in [Threads -> Thread]
  BY <1>3 DEF ThreadsTyped
<1>5. thr[t].n \in Ordinals /\ thr[t].frz \subseteq Ordinals
  BY <1>0 DEF WriteFrozen, At, Equipped, HasOrdinal, Thread
<1>6. frozen' \subseteq Ordinals
  BY <1>5 DEF WriteFrozen, TypeOK
<1>. QED  BY <1>3, <1>4, <1>6 DEF WriteFrozen, TypeOK

LEMMA ClearPodTyped ==
  ASSUME TypeOK, ThreadsTyped, NEW t \in Threads, ClearPod(t) PROVE TypeOK' /\ ThreadsTyped'
<1>0. thr[t] \in Thread /\ Equipped(thr[t])
  BY DEF ThreadsTyped
<1>. DEFINE p == "fetch"
<1>1. Goto(t, p)
  BY DEF ClearPod
<1>2. p \in Pcs /\ (p \in HasManifest => thr[t].m \in Manifests) /\ (p \in HasOrdinal => thr[t].n \in Ordinals)
  BY <1>0 DEF Thread, Pcs, ClearPod, At, Equipped, HasManifest, HasOrdinal
<1>. HIDE DEF p
<1>3. ThreadsTyped'
  BY <1>1, <1>2, GotoTyped
<1>4. thr' \in [Threads -> Thread]
  BY <1>3 DEF ThreadsTyped
<1>5. pods' \in [Ordinals -> Pod \cup {None}]
  BY DEF ClearPod, TypeOK
<1>. QED  BY <1>3, <1>4, <1>5 DEF ClearPod, TypeOK

LEMMA FetchTyped ==
  ASSUME TypeOK, ThreadsTyped, NEW t \in Threads, Fetch(t) PROVE TypeOK' /\ ThreadsTyped'
<1>0. thr[t] \in Thread /\ Equipped(thr[t])
  BY DEF ThreadsTyped
<1>1. desired \in Manifests \cup {None}
  BY DEF TypeOK
<1>. DEFINE a == [thr[t] EXCEPT !.pc = "put", !.m = desired]
            r == IF desired = None THEN Idle ELSE a
<1>20. a \in Thread
  BY <1>0, <1>1, ManifestFits DEF Pcs, OpNames, Live
<1>21. desired # None => Equipped(a)
  BY <1>0, <1>1, SMT DEF Thread, Idle, Equipped, Fetch, At, HasManifest, HasOrdinal
<1>8. Set(t, r)
  BY DEF Fetch, Goto, Done
<1>9. r \in Thread /\ Equipped(r)
  <2>. HIDE DEF a
  <2>. QED  BY <1>20, <1>21, IdleTyped
<1>. HIDE DEF r
<1>10. ThreadsTyped'
  BY <1>8, <1>9, SetTyped
<1>11. thr' \in [Threads -> Thread]
  BY <1>10 DEF ThreadsTyped
<1>. QED  BY <1>10, <1>11 DEF Fetch, TypeOK

LEMMA PutTyped ==
  ASSUME TypeOK, ThreadsTyped, NEW t \in Threads, Put(t) PROVE TypeOK' /\ ThreadsTyped'
<1>0. thr[t] \in Thread /\ Equipped(thr[t])
  BY DEF ThreadsTyped
<1>. DEFINE p == IF thr[t].op = "rollback" THEN "append" ELSE "leave"
<1>1. Goto(t, p)
  BY DEF Put
<1>2. p \in Pcs /\ (p \in HasManifest => thr[t].m \in Manifests) /\ (p \in HasOrdinal => thr[t].n \in Ordinals)
  BY <1>0 DEF Thread, Pcs, Put, At, Equipped, HasManifest, HasOrdinal
<1>. HIDE DEF p
<1>3. ThreadsTyped'
  BY <1>1, <1>2, GotoTyped
<1>4. thr' \in [Threads -> Thread]
  BY <1>3 DEF ThreadsTyped
<1>5. thr[t].m \in Manifests
  BY <1>0 DEF Put, At, Equipped, HasManifest
<1>6. desired' \in Manifests \cup {None} /\ chan' \in Seq(Manifests \cup {None})
  BY <1>5 DEF Put, Emit, TypeOK
<1>. QED  BY <1>3, <1>4, <1>6 DEF Put, TypeOK

LEMMA AppendRecordTyped ==
  ASSUME TypeOK, ThreadsTyped, NEW t \in Threads, AppendRecord(t) PROVE TypeOK' /\ ThreadsTyped'
<1>0. thr[t] \in Thread /\ Equipped(thr[t])
  BY DEF ThreadsTyped
<1>. DEFINE p == "prune"
<1>1. Goto(t, p)
  BY DEF AppendRecord
<1>2. p \in Pcs /\ (p \in HasManifest => thr[t].m \in Manifests) /\ (p \in HasOrdinal => thr[t].n \in Ordinals)
  BY <1>0 DEF Thread, Pcs, AppendRecord, At, Equipped, HasManifest, HasOrdinal
<1>. HIDE DEF p
<1>3. ThreadsTyped'
  BY <1>1, <1>2, GotoTyped
<1>4. thr' \in [Threads -> Thread]
  BY <1>3 DEF ThreadsTyped
<1>5. thr[t].m \in Manifests
  BY <1>0 DEF AppendRecord, At, Equipped, HasManifest
<1>6. status' \in [hash : Specs \cup {None}, want : Nat, recs : SUBSET Manifests]
  BY <1>5 DEF AppendRecord, TypeOK
<1>. QED  BY <1>3, <1>4, <1>6 DEF AppendRecord, TypeOK

LEMMA RelistForRollTyped ==
  ASSUME TypeOK, ThreadsTyped, NEW t \in Threads, RelistForRoll(t) PROVE TypeOK' /\ ThreadsTyped'
<1>0. thr[t] \in Thread /\ Equipped(thr[t])
  BY DEF ThreadsTyped
<1>. DEFINE a == [thr[t] EXCEPT !.pc = "fewer"]
            b == [thr[t] EXCEPT !.pc = "lock", !.ret = "fewer"]
            r == IF Live = {} THEN a ELSE b
<1>20. a \in Thread
  BY <1>0, PcFits DEF Pcs, OpNames, Live
<1>21. Equipped(a)
  BY <1>0, SMT DEF Thread, Idle, Equipped, RelistForRoll, At, HasManifest, HasOrdinal
<1>22. b \in Thread
  BY <1>0, ReturnFits DEF Pcs, OpNames, Live
<1>23. Equipped(b)
  BY <1>0, SMT DEF Thread, Idle, Equipped, RelistForRoll, At, HasManifest, HasOrdinal
<1>8. Set(t, r)
  BY DEF RelistForRoll, Goto, Done
<1>9. r \in Thread /\ Equipped(r)
  <2>. HIDE DEF a, b
  <2>. QED  BY <1>20, <1>21, <1>22, <1>23
<1>. HIDE DEF r
<1>10. ThreadsTyped'
  BY <1>8, <1>9, SetTyped
<1>11. thr' \in [Threads -> Thread]
  BY <1>10 DEF ThreadsTyped
<1>. QED  BY <1>10, <1>11 DEF RelistForRoll, TypeOK

LEMMA ScaleUpTyped ==
  ASSUME TypeOK, ThreadsTyped, NEW t \in Threads, ScaleUp(t) PROVE TypeOK' /\ ThreadsTyped'
<1>0. thr[t] \in Thread /\ Equipped(thr[t])
  BY DEF ThreadsTyped
<1>1. PICK S \in SUBSET Ordinals : Set(t, [thr[t] EXCEPT !.pc = "up", !.todo = S])
  BY DEF ScaleUp, Below
<1>. DEFINE r == [thr[t] EXCEPT !.pc = "up", !.todo = S]
<1>2. r \in Thread
  BY <1>1, <1>0, TodoNextFits DEF Pcs, OpNames
<1>3. Equipped(r)
  BY <1>1, <1>0, SMT DEF Thread, Equipped, ScaleUp, At, HasManifest, HasOrdinal
<1>6. Set(t, r)
  BY <1>1
<1>. HIDE DEF r
<1>7. ThreadsTyped'
  BY <1>2, <1>3, <1>6, SetTyped
<1>8. thr' \in [Threads -> Thread]
  BY <1>7 DEF ThreadsTyped
<1>. QED  BY <1>7, <1>8 DEF ScaleUp, TypeOK

LEMMA RestaleTyped ==
  ASSUME TypeOK, ThreadsTyped, NEW t \in Threads, Restale(t) PROVE TypeOK' /\ ThreadsTyped'
<1>0. thr[t] \in Thread /\ Equipped(thr[t])
  BY DEF ThreadsTyped
<1>. DEFINE a == [thr[t] EXCEPT !.pc = "lock", !.ret = "stamp"]
            b == [thr[t] EXCEPT !.pc = "stamp"]
            r == IF \E n \in Live : pods[n].rel # thr[t].rel THEN a ELSE b
<1>20. a \in Thread
  BY <1>0, ReturnFits DEF Pcs, OpNames, Live
<1>21. Equipped(a)
  BY <1>0, SMT DEF Thread, Idle, Equipped, Restale, At, HasManifest, HasOrdinal
<1>22. b \in Thread
  BY <1>0, PcFits DEF Pcs, OpNames, Live
<1>23. Equipped(b)
  BY <1>0, SMT DEF Thread, Idle, Equipped, Restale, At, HasManifest, HasOrdinal
<1>8. Set(t, r)
  BY DEF Restale, Goto, Done
<1>9. r \in Thread /\ Equipped(r)
  <2>. HIDE DEF a, b
  <2>. QED  BY <1>20, <1>21, <1>22, <1>23
<1>. HIDE DEF r
<1>10. ThreadsTyped'
  BY <1>8, <1>9, SetTyped
<1>11. thr' \in [Threads -> Thread]
  BY <1>10 DEF ThreadsTyped
<1>. QED  BY <1>10, <1>11 DEF Restale, TypeOK

-----------------------------------------------------------------------------
(* Operators and crashes, typed.                                              *)

\* What a request brings about beside its goroutine.
LEMMA RequestCounts ==
  ASSUME TypeOK, NEW o, Request(o)
  PROVE  ops' \in 0 .. MaxOps
  BY StatefulsetAssumption DEF TypeOK, Request

LEMMA ApplyTyped ==
  ASSUME TypeOK, ThreadsTyped, NEW m \in Manifests, Apply(m) PROVE TypeOK' /\ ThreadsTyped'
BY RequestCounts DEF Apply, Emit, TypeOK, ThreadsTyped

LEMMA DeleteTyped == TypeOK /\ ThreadsTyped /\ Delete => TypeOK' /\ ThreadsTyped'
BY RequestCounts DEF Delete, Emit, TypeOK, ThreadsTyped

LEMMA DeletePruneTyped ==
  ASSUME TypeOK, ThreadsTyped, NEW t \in Threads, DeletePrune(t) PROVE TypeOK' /\ ThreadsTyped'
<1>. DEFINE r == [Idle EXCEPT !.op = "prune", !.pc = "listPods"]
<1>2. r \in Thread
  BY OpFits DEF Pcs, OpNames
<1>3. Equipped(r)
  BY SMT DEF Idle, Equipped, HasManifest, HasOrdinal
<1>4. Set(t, r)
  BY DEF DeletePrune
<1>. HIDE DEF r
<1>5. ThreadsTyped'
  BY <1>2, <1>3, <1>4, SetTyped
<1>6. thr' \in [Threads -> Thread]
  BY <1>5 DEF ThreadsTyped
<1>7. ops' \in 0 .. MaxOps
  BY RequestCounts DEF DeletePrune
<1>8. chan' \in Seq(Manifests \cup {None})
  BY DEF DeletePrune, Emit, TypeOK
<1>. QED  BY <1>5, <1>6, <1>7, <1>8 DEF DeletePrune, TypeOK

LEMMA RebootstrapTyped ==
  ASSUME TypeOK, ThreadsTyped, NEW t \in Threads, NEW n \in Ordinals, NEW prune \in BOOLEAN, Rebootstrap(t, n, prune) PROVE TypeOK' /\ ThreadsTyped'
<1>. DEFINE r == [Idle EXCEPT !.op = "rebootstrap", !.n = n, !.pc = IF prune THEN "listVols" ELSE "reget"]
<1>2. r \in Thread
  BY OrdinalOpFits DEF Pcs, OpNames
<1>3. Equipped(r)
  BY SMT DEF Idle, Equipped, HasManifest, HasOrdinal
<1>4. Set(t, r)
  BY DEF Rebootstrap
<1>. HIDE DEF r
<1>5. ThreadsTyped'
  BY <1>2, <1>3, <1>4, SetTyped
<1>6. thr' \in [Threads -> Thread]
  BY <1>5 DEF ThreadsTyped
<1>7. ops' \in 0 .. MaxOps
  BY RequestCounts DEF Rebootstrap
<1>8. pods' \in [Ordinals -> Pod \cup {None}]
  BY DEF Rebootstrap, TypeOK
<1>. QED  BY <1>5, <1>6, <1>7, <1>8 DEF Rebootstrap, TypeOK

LEMMA RestartTyped ==
  ASSUME TypeOK, ThreadsTyped, NEW t \in Threads, Restart(t) PROVE TypeOK' /\ ThreadsTyped'
<1>. DEFINE r == [Idle EXCEPT !.op = "restart", !.pc = "get"]
<1>2. r \in Thread
  BY OpFits DEF Pcs, OpNames
<1>3. Equipped(r)
  BY SMT DEF Idle, Equipped, HasManifest, HasOrdinal
<1>4. Set(t, r)
  BY DEF Restart
<1>. HIDE DEF r
<1>5. ThreadsTyped'
  BY <1>2, <1>3, <1>4, SetTyped
<1>6. thr' \in [Threads -> Thread]
  BY <1>5 DEF ThreadsTyped
<1>7. ops' \in 0 .. MaxOps
  BY RequestCounts DEF Restart
<1>8. stranded' \subseteq Ordinals
  BY DEF Restart, TypeOK
<1>. QED  BY <1>5, <1>6, <1>7, <1>8 DEF Restart, TypeOK

LEMMA PodStopTyped ==
  ASSUME TypeOK, ThreadsTyped, NEW t \in Threads, NEW n \in Ordinals, PodStop(t, n) PROVE TypeOK' /\ ThreadsTyped'
<1>. DEFINE r == [Idle EXCEPT !.op = "stop", !.pc = "readFrozen", !.n = n]
<1>2. r \in Thread
  BY OpOrdinalFits DEF Pcs, OpNames
<1>3. Equipped(r)
  BY SMT DEF Idle, Equipped, HasManifest, HasOrdinal
<1>4. Set(t, r)
  BY DEF PodStop
<1>. HIDE DEF r
<1>5. ThreadsTyped'
  BY <1>2, <1>3, <1>4, SetTyped
<1>6. thr' \in [Threads -> Thread]
  BY <1>5 DEF ThreadsTyped
<1>7. ops' \in 0 .. MaxOps
  BY RequestCounts DEF PodStop
<1>8. pods[n] \in Pod /\ [pods[n] EXCEPT !.up = FALSE] \in Pod
  BY DEF PodStop, TypeOK, Pod
<1>9. pods' \in [Ordinals -> Pod \cup {None}]
  BY <1>8 DEF PodStop, TypeOK
<1>. QED  BY <1>5, <1>6, <1>7, <1>9 DEF PodStop, TypeOK

LEMMA PodStartTyped ==
  ASSUME TypeOK, ThreadsTyped, NEW t \in Threads, NEW n \in Ordinals, PodStart(t, n) PROVE TypeOK' /\ ThreadsTyped'
<1>. DEFINE r == [Idle EXCEPT !.op = "start", !.pc = "readFrozen", !.n = n]
<1>2. r \in Thread
  BY OpOrdinalFits DEF Pcs, OpNames
<1>3. Equipped(r)
  BY SMT DEF Idle, Equipped, HasManifest, HasOrdinal
<1>4. Set(t, r)
  BY DEF PodStart
<1>. HIDE DEF r
<1>5. ThreadsTyped'
  BY <1>2, <1>3, <1>4, SetTyped
<1>6. thr' \in [Threads -> Thread]
  BY <1>5 DEF ThreadsTyped
<1>7. ops' \in 0 .. MaxOps
  BY RequestCounts DEF PodStart
<1>. QED  BY <1>5, <1>6, <1>7 DEF PodStart, TypeOK

LEMMA RollbackTyped ==
  ASSUME TypeOK, ThreadsTyped, NEW t \in Threads, Rollback(t) PROVE TypeOK' /\ ThreadsTyped'
<1>a. ops' \in 0 .. MaxOps
  BY RequestCounts DEF Rollback
<1>1. PICK m \in Manifests : Set(t, [Idle EXCEPT !.op = "rollback", !.pc = "put", !.m = m, !.rel = ops'])
  BY DEF Rollback, Targets, TypeOK
<1>. DEFINE r == [Idle EXCEPT !.op = "rollback", !.pc = "put", !.m = m, !.rel = ops']
<1>2. r \in Thread
  BY <1>1, <1>a, OpRollbackFits DEF Pcs, OpNames
<1>3. Equipped(r)
  BY <1>1, <1>a, SMT DEF Idle, Equipped, HasManifest, HasOrdinal
<1>4. Set(t, r)
  BY <1>1 DEF Rollback
<1>. HIDE DEF r
<1>5. ThreadsTyped'
  BY <1>2, <1>3, <1>4, SetTyped
<1>6. thr' \in [Threads -> Thread]
  BY <1>5 DEF ThreadsTyped
<1>7. ops' \in 0 .. MaxOps
  BY RequestCounts DEF Rollback
<1>. QED  BY <1>5, <1>6, <1>7 DEF Rollback, TypeOK

LEMMA CrashTyped == TypeOK /\ ThreadsTyped /\ Crash => TypeOK' /\ ThreadsTyped'
<1>. SUFFICES ASSUME TypeOK, ThreadsTyped, Crash PROVE TypeOK' /\ ThreadsTyped'
  OBVIOUS
<1>0. desired \in Manifests \cup {None} /\ <<>> \in Seq(Manifests \cup {None}) /\ <<desired>> \in Seq(Manifests \cup {None})
  BY DEF TypeOK
<1>1. chan' \in Seq(Manifests \cup {None}) /\ ops' \in 0 .. MaxOps
  BY <1>0, RequestCounts DEF Crash
<1>2. thr' = [t \in Threads |-> Idle]
  BY DEF Crash
<1>3. thr' \in [Threads -> Thread] /\ ThreadsTyped'
  BY <1>2, IdleTyped DEF ThreadsTyped
<1>. QED  BY <1>1, <1>3 DEF Crash, TypeOK

-----------------------------------------------------------------------------
(* Any step, typed.                                                           *)

LEMMA ThreadStepTyped ==
  ASSUME TypeOK, ThreadsTyped, NEW t \in Threads, ApplyStep(t) \/ RollStep(t) \/ RequestStep(t)
  PROVE  TypeOK' /\ ThreadsTyped'
BY ListTyped, DecideTyped, UpTyped, MountTyped, RunTyped, PruneTyped, TrimTyped, DriftTyped, StampTyped,
   RecordTyped, LeaveTyped, DoomedTyped, RemovePodsTyped, LockTyped, TakeTyped, UnlockTyped, ListPodsTyped,
   PrunePodsTyped, ListVolsTyped, DropVolsTyped, RegetTyped, RestartGetTyped, RestartLookTyped,
   ReadFrozenTyped, WriteFrozenTyped, ClearPodTyped, FetchTyped, PutTyped, AppendRecordTyped,
   RelistForRollTyped, ScaleUpTyped, RestaleTyped DEF ApplyStep, RollStep, RequestStep

LEMMA OperatorTyped == TypeOK /\ ThreadsTyped /\ Operator => TypeOK' /\ ThreadsTyped'
BY LoopIsThread, DeletePruneTyped, RestartTyped, RollbackTyped, PodStopTyped, PodStartTyped,
   RebootstrapTyped, ApplyTyped, DeleteTyped DEF Operator

LEMMA StepTyped == TypeOK /\ ThreadsTyped /\ [Next]_vars => TypeOK' /\ ThreadsTyped'
BY NextEventTyped, ThreadStepTyped, OperatorTyped, CrashTyped DEF vars, TypeOK, ThreadsTyped, Next

LEMMA InitTyped == Init => TypeOK /\ ThreadsTyped
BY IdleTyped, ZeroOps DEF Blank, Init, ThreadsTyped, TypeOK

\* Every variable stays in its type: the ordinals, specs and manifests of every
\* goroutine are ordinals, specs and manifests (handlers_statefulset.go, api.go).
THEOREM StatefulsetTypeCorrect == Spec => []TypeOK
<1>1. Init => TypeOK /\ ThreadsTyped
  BY InitTyped
<1>2. TypeOK /\ ThreadsTyped /\ [Next]_vars => (TypeOK /\ ThreadsTyped)'
  BY StepTyped
<1>. QED  BY <1>1, <1>2, PTL DEF Spec
-----------------------------------------------------------------------------
(* The rollout lock.                                                          *)

LEMMA RollsAsBefore ==
  ASSUME RollerLocks, NEW t \in Threads, mutex' = mutex,
         \A s \in Threads \ {t} : thr'[s] = thr[s], Rolls(thr'[t]) => Rolls(thr[t])
  PROVE  RollerLocks'
BY DEF RollerLocks, Rolls

LEMMA WalksRoll ==
  ASSUME LockIInv, NEW t \in Threads, ApplyStep(t) \/ RequestStep(t)
  PROVE  RollerLocks'
<1>0. thr \in [Threads -> Thread] /\ thr[t] \in Thread /\ RollerLocks
  BY DEF LockIInv, ThreadsTyped
<1>1. CASE List(t)
  BY <1>0, <1>1, RollsAsBefore DEF List, Goto, Set, At, Rolls, Thread
<1>2. CASE Decide(t)
  BY <1>0, <1>2, RollsAsBefore DEF Decide, Goto, Set, At, Rolls, Thread
<1>3. CASE Up(t)
  BY <1>0, <1>3, RollsAsBefore DEF Up, Goto, Set, At, Rolls, Thread
<1>4. CASE Mount(t)
  BY <1>0, <1>4, RollsAsBefore DEF Mount, Goto, Set, At, Rolls, Thread
<1>5. CASE Run(t)
  BY <1>0, <1>5, RollsAsBefore DEF Run, Goto, Set, At, Rolls, Thread
<1>6. CASE Prune(t)
  BY <1>0, <1>6, RollsAsBefore DEF Prune, Goto, Set, At, Rolls, Thread
<1>7. CASE Trim(t)
  BY <1>0, <1>7, RollsAsBefore DEF Trim, Goto, Set, RemoveHighest, At, Rolls, Thread
<1>8. CASE Drift(t)
  BY <1>0, <1>8, RollsAsBefore DEF Drift, Goto, Set, At, Rolls, Thread
<1>9. CASE Stamp(t)
  BY <1>0, <1>9, RollsAsBefore DEF Stamp, Goto, Set, At, Rolls, Thread
<1>10. CASE Record(t)
  BY <1>0, <1>10, RollsAsBefore DEF Record, Goto, Set, At, Rolls, Thread
<1>11. CASE Leave(t)
  BY <1>0, <1>11, RollsAsBefore DEF Leave, Goto, Set, Done, At, Rolls, Thread, Idle
<1>12. CASE Doomed(t)
  BY <1>0, <1>12, RollsAsBefore DEF Doomed, Goto, Set, At, Rolls, Thread
<1>13. CASE RemovePods(t)
  BY <1>0, <1>13, RollsAsBefore DEF RemovePods, Goto, Set, RemoveHighest, At, Rolls, Thread
<1>14. CASE ListPods(t)
  BY <1>0, <1>14, RollsAsBefore DEF ListPods, Goto, Set, At, Rolls, Thread
<1>15. CASE PrunePods(t)
  BY <1>0, <1>15, RollsAsBefore DEF PrunePods, Goto, Set, At, Rolls, Thread
<1>16. CASE ListVols(t)
  BY <1>0, <1>16, RollsAsBefore DEF ListVols, Goto, Set, At, Rolls, Thread
<1>17. CASE DropVols(t)
  BY <1>0, <1>17, RollsAsBefore DEF DropVols, Goto, Set, At, Rolls, Thread
<1>18. CASE Reget(t)
  BY <1>0, <1>18, RollsAsBefore DEF Reget, Goto, Set, At, Rolls, Thread, Idle
<1>19. CASE RestartGet(t)
  BY <1>0, <1>19, RollsAsBefore DEF RestartGet, Goto, Set, At, Rolls, Thread, Idle
<1>20. CASE RestartLook(t)
  BY <1>0, <1>20, RollsAsBefore DEF RestartLook, Goto, Set, At, Rolls, Thread, Idle
<1>21. CASE ReadFrozen(t)
  BY <1>0, <1>21, RollsAsBefore DEF ReadFrozen, Goto, Set, At, Rolls, Thread
<1>22. CASE WriteFrozen(t)
  BY <1>0, <1>22, RollsAsBefore DEF WriteFrozen, Goto, Set, At, Rolls, Thread
<1>23. CASE ClearPod(t)
  BY <1>0, <1>23, RollsAsBefore DEF ClearPod, Goto, Set, At, Rolls, Thread
<1>24. CASE Fetch(t)
  BY <1>0, <1>24, RollsAsBefore DEF Fetch, Goto, Set, At, Rolls, Thread, Idle
<1>25. CASE Put(t)
  BY <1>0, <1>25, RollsAsBefore DEF Put, Goto, Set, At, Rolls, Thread
<1>26. CASE AppendRecord(t)
  BY <1>0, <1>26, RollsAsBefore DEF AppendRecord, Goto, Set, At, Rolls, Thread
<1>27. CASE RelistForRoll(t)
  BY <1>0, <1>27, RollsAsBefore DEF RelistForRoll, Goto, Set, At, Rolls, Thread
<1>28. CASE ScaleUp(t)
  BY <1>0, <1>28, RollsAsBefore DEF ScaleUp, Goto, Set, At, Rolls, Thread
<1>29. CASE Restale(t)
  BY <1>0, <1>29, RollsAsBefore DEF Restale, Goto, Set, At, Rolls, Thread
<1>. QED  BY <1>1, <1>2, <1>3, <1>4, <1>5, <1>6, <1>7, <1>8, <1>9, <1>10, <1>11, <1>12, <1>13, <1>14, <1>15, <1>16, <1>17, <1>18, <1>19, <1>20, <1>21, <1>22, <1>23, <1>24, <1>25, <1>26, <1>27, <1>28, <1>29 DEF ApplyStep, RequestStep

\* Lock finds it free, Take is of the holder, Unlock frees its own.
LEMMA RollsLock ==
  ASSUME LockIInv, NEW t \in Threads, RollStep(t)
  PROVE  RollerLocks'
<1>0. thr \in [Threads -> Thread] /\ thr[t] \in Thread /\ RollerLocks /\ t # None /\ None \notin Threads
  BY StatefulsetAssumption DEF LockIInv, ThreadsTyped, Threads
<1>1. CASE Lock(t)
  BY <1>0, <1>1 DEF Lock, RollerLocks, Set, Rolls
<1>2. CASE Take(t)
  BY <1>0, <1>2, RollsAsBefore DEF Take, Set, At, Rolls
<1>3. CASE Unlock(t)
  BY <1>0, <1>3 DEF Unlock, Goto, Set, At, RollerLocks, Rolls, Thread
<1>. QED  BY <1>1, <1>2, <1>3 DEF RollStep

LEMMA OperatorRolls == LockIInv /\ Operator => RollerLocks'
<1>. SUFFICES ASSUME LockIInv, Operator PROVE RollerLocks'
  OBVIOUS
<1>0. thr \in [Threads -> Thread] /\ RollerLocks
  BY DEF LockIInv, ThreadsTyped
<1>1. ASSUME UNCHANGED <<thr, mutex>> PROVE RollerLocks'
  BY <1>0, <1>1 DEF RollerLocks, Rolls
<1>2. ASSUME NEW t \in Https, mutex' = mutex, \A s \in Threads \ {t} : thr'[s] = thr[s],
             thr'[t].pc \in {"listPods", "get", "put", "readFrozen", "listVols", "reget"}
      PROVE  RollerLocks'
  BY <1>0, <1>2, LoopIsThread, RollsAsBefore DEF Rolls
<1>3. \A m \in Manifests : Apply(m) => UNCHANGED <<thr, mutex>>
  BY DEF Apply
<1>4. Delete => UNCHANGED <<thr, mutex>>
  BY DEF Delete
<1>5. ASSUME NEW t \in Https, DeletePrune(t) \/ Restart(t) \/ Rollback(t)
      PROVE  RollerLocks'
  BY <1>0, <1>5, LoopIsThread, <1>2 DEF DeletePrune, Restart, Rollback, Set, Idle
<1>6. ASSUME NEW t \in Https, NEW n \in Ordinals,
             PodStop(t, n) \/ PodStart(t, n) \/ \E prune \in BOOLEAN : Rebootstrap(t, n, prune)
      PROVE  RollerLocks'
  <2>1. \A s \in Threads \ {t} : thr'[s] = thr[s]
    BY <1>0, <1>6 DEF PodStop, PodStart, Rebootstrap, Set
  <2>2. mutex' = mutex
    BY <1>6 DEF PodStop, PodStart, Rebootstrap
  <2>3. ASSUME NEW prune \in BOOLEAN, Rebootstrap(t, n, prune)
        PROVE  thr'[t].pc \in {"readFrozen", "listVols", "reget"}
    <3>. DEFINE p == IF prune THEN "listVols" ELSE "reget"
    <3>1. thr' = [thr EXCEPT ![t] = [Idle EXCEPT !.op = "rebootstrap", !.n = n, !.pc = p]]
      BY <2>3 DEF Rebootstrap, Set
    <3>2. p \in {"listVols", "reget"}
      OBVIOUS
    <3>. HIDE DEF p
    <3>. QED  BY <1>0, <3>1, <3>2, LoopIsThread DEF Idle
  <2>4. PodStop(t, n) \/ PodStart(t, n) => thr'[t].pc \in {"readFrozen", "listVols", "reget"}
    BY <1>0, LoopIsThread DEF PodStop, PodStart, Set, Idle
  <2>. QED  BY <1>2, <1>6, <2>1, <2>2, <2>3, <2>4
<1>. QED  BY <1>1, <1>3, <1>4, <1>5, <1>6 DEF Operator

LEMMA LockInductive == LockIInv /\ [Next]_vars => LockIInv'
<1>. SUFFICES ASSUME LockIInv, [Next]_vars PROVE RollerLocks'
  BY StepTyped DEF LockIInv
<1>0. thr \in [Threads -> Thread] /\ RollerLocks
  BY DEF LockIInv, ThreadsTyped
<1>1. CASE NextEvent
  BY <1>0, <1>1, LoopIsThread, RollsAsBefore DEF NextEvent, Set, Idle, Rolls
<1>2. CASE Crash
  BY <1>2 DEF Crash, RollerLocks, Rolls, Idle
<1>3. CASE UNCHANGED vars
  BY <1>0, <1>3 DEF vars, RollerLocks, Rolls
<1>. QED  BY <1>1, <1>2, <1>3, WalksRoll, RollsLock, OperatorRolls DEF Next

LEMMA InitLocks == Init => LockIInv
<1>1. Init => RollerLocks
  BY DEF Init, RollerLocks, Rolls, Idle
<1>. QED  BY <1>1, InitTyped DEF LockIInv

\* No two goroutines replace pods at once (rolloutLocks), be they the loop, a
\* restart or a rollback: whoever rolls holds the one lock.
THEOREM RollsNeverMeet == Spec => []RollsExclusive
<1>1. LockIInv => RollsExclusive
  BY DEF LockIInv, RollerLocks, RollsExclusive, Rolling, Rolls
<1>. QED  BY <1>1, InitLocks, LockInductive, PTL DEF Spec

-----------------------------------------------------------------------------
(* While operators wait for earlier work: what is at work, and for what.  The *)
(* definitions take the state they speak of: d the manifest desired, c the    *)
(* watch events, f the frozen set, h the recorded hash, p the pods, v the     *)
(* volumes, x the goroutines, g the stranded ordinals; r is one goroutine's   *)
(* record.                                                                    *)

ApplyPcs == {"list", "decide", "up", "mount", "run", "prune", "trim", "drift", "lock", "roll",
             "stamp", "record", "leave"}
RollbackPcs == {"append", "prune", "trim", "relist", "lock", "roll", "mount", "run", "fewer", "up",
                "restale", "stamp", "leave"}

OnDesired(d, r) == d # None /\ r.m = d

\* Which operation is where, and that all of them work on what is desired.
Fits(d, r) ==
  \/ r.op = "none" /\ r.pc = "idle"
  \/ r.op = "apply" /\ r.pc \in ApplyPcs /\ OnDesired(d, r)
       /\ (r.pc = "lock" \/ Rolls(r) => r.ret \in {"stamp", "record"})
  \/ r.op = "remove" /\ r.pc \in {"doomed", "remove", "leave"} /\ d = None
  \/ r.op = "prune" /\ r.pc \in {"listPods", "prunePods", "listVols", "dropVols", "leave"} /\ d = None
       /\ r.n = None
  \/ r.op = "rebootstrap" /\ r.pc \in {"listVols", "dropVols", "reget"} /\ r.n # None /\ d # None
  \/ r.op = "restart" /\ r.pc = "get" /\ r.ret = "leave"
  \/ r.op = "restart" /\ (r.pc \in {"look", "lock", "leave"} \/ Rolls(r)) /\ OnDesired(d, r)
       /\ r.ret = "leave"
  \/ r.op = "stop" /\ r.pc \in {"readFrozen", "writeFrozen", "leave"} /\ d # None
  \/ r.op = "start" /\ r.pc \in {"readFrozen", "writeFrozen", "clear", "fetch"} /\ d # None
  \/ r.op = "start" /\ r.pc \in {"put", "leave"} /\ OnDesired(d, r)
  \/ r.op = "rollback" /\ r.pc = "put" /\ d # None
  \/ r.op = "rollback" /\ r.pc \in RollbackPcs /\ OnDesired(d, r)
       /\ (r.pc = "lock" \/ Rolls(r) => r.ret \in {"fewer", "stamp"})

Settled(c, x) == c = <<>> /\ x[Loop].pc = "idle"

\* One request at a time, and the loop beside it only with what it asked for.
Overlaps(r) == \/ r.op = "prune" \/ (r.op = "start" /\ r.pc = "leave")
               \/ (r.op = "rollback" /\ r.pc # "put")
Alone(d, c, x) ==
  /\ c = <<>> \/ (c = <<d>> /\ x[Loop].pc = "idle")
  /\ x[Loop].op \in {"none", "apply", "remove"}
  /\ \A t \in Https : x[t].op # "remove" /\ (~Settled(c, x) => x[t].pc = "idle" \/ Overlaps(x[t]))
  /\ \A s, t \in Https : x[s].pc = "idle" \/ x[t].pc = "idle" \/ s = t

\* Pods that are to be replaced, removed, made; pods that are stopped.
Wanted(d, f, n)  == d # None /\ n \in Ordinals \ f /\ n < d.want
Standing(p)      == {n \in Ordinals : p[n] # None}
Stale(d, f, p)   == {n \in Standing(p) \ f : d # None /\ p[n].spec # d.spec}
Extra(d, p)      == {n \in Standing(p) : d # None /\ ~(n < d.want)}
Missing(d, f, g, p) == {n \in Ordinals \ (g \cup Standing(p)) : Wanted(d, f, n)}
Dark(f, p)       == {n \in Standing(p) \ f : ~p[n].up}

\* Pods a request is about to freeze, to remove or to roll.
Owes(r, n) ==
  \/ r.op \in {"stop", "start"} /\ r.pc \in {"readFrozen", "writeFrozen", "clear"} /\ r.n = n
  \/ r.op = "restart" /\ r.pc \in {"get", "look", "lock"}
  \/ r.op = "restart" /\ Rolls(r) /\ n \in r.todo

\* Who will make a pod that is missing.
Makes(r, n) ==
  \/ InHand(r, n)
  \/ Fills(r) /\ n \in r.todo
  \/ r.op = "apply" /\ (r.pc = "list" \/ (r.pc = "decide" /\ n \notin r.live))
  \/ r.op = "rebootstrap"
  \/ r.op = "start" /\ r.pc \in {"fetch", "put"}

KnowsFrozen(r) ==
  \/ r.op = "apply" /\ r.pc \notin {"list", "decide"}
  \/ r.op = "rollback" /\ r.pc \notin {"put", "append", "prune"}
  \/ r.op = "restart" /\ r.pc \notin {"get", "look"}
  \/ r.pc = "writeFrozen"
Trimmed(r) ==
  \/ r.op = "apply" /\ (r.pc \in {"drift", "lock", "stamp", "record", "leave"} \/ Rolls(r))
  \/ r.op = "rollback" /\ (r.pc \in {"relist", "lock", "fewer", "restale", "stamp", "leave"} \/ Rolls(r) \/ Fills(r))
Renewed(r) ==
  \/ r.op = "apply" /\ (r.pc \in {"stamp", "record", "leave"} \/ (r.pc = "lock" /\ r.ret = "record"))
  \/ r.op = "rollback" /\ (r.pc \in {"fewer", "restale", "stamp", "leave"} \/ Fills(r) \/ (r.pc = "lock" /\ r.ret = "stamp"))
  \/ r.op = "restart" /\ r.pc = "leave"
Stamped(r) ==
  \/ r.op = "apply" /\ (r.pc \in {"record", "leave"} \/ ((r.pc = "lock" \/ Rolls(r)) /\ r.ret = "record"))
  \/ r.op = "rollback" /\ r.pc = "leave"

\* What holds of the pods where a goroutine is: what it will do is still to do,
\* what it has done is done.
FrozenKnown(d, f, r) ==
  /\ KnowsFrozen(r) => r.frz = f
  /\ Fills(r) \/ Rolls(r) => \A n \in Ordinals : n \in r.todo \/ InHand(r, n) => Wanted(d, f, n)
ExtrasGo(d, p, r) ==
  /\ r.pc = "trim" => /\ \A n \in Extra(d, p) : n \in r.todo
                      /\ \A n \in r.todo : ~(n < d.want)
  /\ Trimmed(r) => Extra(d, p) = {}
StaleGo(d, f, h, p, r) ==
  /\ Rolls(r) => \A n \in Stale(d, f, p) : n \in r.todo
  /\ Renewed(r) => Stale(d, f, p) = {}
  /\ Stamped(r) => h = d.spec
Replaced(d, p, r) ==
  /\ r.op \in {"apply", "rollback", "restart"} /\ r.pc \notin {"mount", "run"} => r.n = None
  /\ Rolls(r) => \A n \in r.live \ r.todo :
       IF p[n] = None THEN r.n = n ELSE p[n].spec = d.spec
  /\ Rolls(r) => (\A n \in r.todo : n \in r.live) /\ (\A n \in r.live : n < d.want)
StoppedIs(p, r) ==
  /\ r.op = "stop" /\ r.pc \in {"readFrozen", "writeFrozen"} => p[r.n] # None /\ ~p[r.n].up
  /\ r.op = "start" /\ r.pc \in {"readFrozen", "writeFrozen", "clear"} => p[r.n] # None
PodsGo(p, r) ==
  /\ r.pc \in {"remove", "prunePods"} => \A n \in Standing(p) : n \in r.todo
  /\ \/ r.op = "remove" /\ r.pc = "leave"
     \/ r.op = "prune" /\ r.pc \in {"listVols", "dropVols", "leave"}
     => Standing(p) = {}
VolumesGo(v, r) ==
  /\ r.pc = "run" => v[r.n] = "kept"
  /\ r.op = "prune" /\ r.pc = "dropVols" => \A n \in Ordinals : v[n] = "none" \/ n \in r.todo
  /\ r.op = "prune" /\ r.pc = "leave" => \A n \in Ordinals : v[n] = "none"

Claims(d, f, h, p, v, r) ==
  /\ Fits(d, r) /\ FrozenKnown(d, f, r) /\ ExtrasGo(d, p, r) /\ StaleGo(d, f, h, p, r)
  /\ Replaced(d, p, r) /\ StoppedIs(p, r) /\ PodsGo(p, r) /\ VolumesGo(v, r)

AllClaim(d, f, h, p, v, x) == \A t \in Threads : Claims(d, f, h, p, v, x[t])

\* What holds of the pods wherever the goroutines are.
FrozenDown(f, p) == \A n \in f : p[n] = None \/ ~p[n].up
NoneBare(v)      == \A n \in Ordinals : v[n] # "bare"
DarkOwed(f, p, x) == \A n \in Dark(f, p) : \E t \in Https : Owes(x[t], n)
StaleOwed(d, f, h, p, x) ==
  d # None /\ h \in {None, d.spec} => \A n \in Stale(d, f, p) : \E t \in Https : Owes(x[t], n)
MissingMade(d, c, f, g, p, x) ==
  c = <<>> => \A n \in Missing(d, f, g, p) : \E t \in Threads : Makes(x[t], n)
TakenBack(d, f, p, x) ==
  \A t \in Threads : x[t].pc = "decide" =>
    \A n \in x[t].live : Wanted(d, f, n) /\ p[n] = None => \E s \in Threads : InHand(x[s], n)
GoneWhenDeleted(d, c, p, x) == d = None /\ Settled(c, x) => Standing(p) = {}
DoneWhenQuiet(d, c, h, p, x) == d # None /\ Settled(c, x) => h = d.spec /\ Extra(d, p) = {}

FleetTrue(d, c, f, g, h, p, v, x) ==
  /\ FrozenDown(f, p) /\ NoneBare(v) /\ DarkOwed(f, p, x) /\ StaleOwed(d, f, h, p, x)
  /\ MissingMade(d, c, f, g, p, x) /\ TakenBack(d, f, p, x)
  /\ GoneWhenDeleted(d, c, p, x) /\ DoneWhenQuiet(d, c, h, p, x)

FleetIInv ==
  /\ LockIInv
  /\ Alone(desired, chan, thr)
  /\ AllClaim(desired, frozen, status.hash, pods, vols, thr)
  /\ FleetTrue(desired, chan, frozen, stranded, status.hash, pods, vols, thr)
-----------------------------------------------------------------------------
(* What the invariant says.                                                   *)

LEMMA IdleClaims ==
  ASSUME NEW d, NEW f, NEW h, NEW p, NEW v, NEW q, q.op = "none", q.pc = "idle"
  PROVE  Claims(d, f, h, p, v, q)
BY DEF Rolls, Fills, KnowsFrozen, Trimmed, Renewed, Stamped, Fits, FrozenKnown, ExtrasGo, StaleGo, Replaced,
   StoppedIs, PodsGo, VolumesGo, Claims

LEMMA IdleNone ==
  ASSUME NEW d, NEW q, Fits(d, q)
  PROVE  q.pc = "idle" <=> q.op = "none"
BY DEF Fits, ApplyPcs, RollbackPcs, Rolls

\* An idle goroutine owes and makes nothing, and the lists of pods that are
\* there are what they say.
LEMMA IdleOwesNothing ==
  ASSUME NEW q, NEW n, q.op = "none", q.pc = "idle"
  PROVE  ~Owes(q, n) /\ ~Makes(q, n) /\ ~InHand(q, n)
BY DEF Owes, Makes, InHand, Fills, Rolls

\* Two goroutines at work: the loop applies beside a rollback, or beside a start
\* about to answer, or removes beside a pruning delete.
LEMMA Companions ==
  ASSUME FleetIInv, NEW s \in Threads, NEW t \in Threads, s # t, thr[s].pc # "idle", thr[t].pc # "idle"
  PROVE  \/ /\ desired # None
            /\ \/ s = Loop /\ thr[s].op = "apply" /\ thr[t].op \in {"start", "rollback"} /\ Overlaps(thr[t])
               \/ t = Loop /\ thr[t].op = "apply" /\ thr[s].op \in {"start", "rollback"} /\ Overlaps(thr[s])
         \/ /\ desired = None
            /\ \/ s = Loop /\ thr[s].op = "remove" /\ thr[t].op = "prune"
               \/ t = Loop /\ thr[t].op = "remove" /\ thr[s].op = "prune"
<1>1. Fits(desired, thr[s]) /\ Fits(desired, thr[t])
  BY DEF FleetIInv, AllClaim, Claims
<1>2. Alone(desired, chan, thr)
  BY DEF FleetIInv
<1>3. ASSUME NEW a \in Https, Overlaps(thr[a]), Fits(desired, thr[a]), Fits(desired, thr[Loop]),
             thr[Loop].op \in {"none", "apply", "remove"}, thr[Loop].pc # "idle", thr[a].pc # "idle"
      PROVE  \/ desired # None /\ thr[Loop].op = "apply" /\ thr[a].op \in {"start", "rollback"}
             \/ desired = None /\ thr[Loop].op = "remove" /\ thr[a].op = "prune"
  BY <1>3, IdleNone DEF Fits, OnDesired, Overlaps
<1>4. CASE s = Loop
  BY <1>4, <1>2, <1>1, <1>3 DEF Threads, Alone, Settled
<1>5. CASE t = Loop
  BY <1>5, <1>2, <1>1, <1>3 DEF Threads, Alone, Settled
<1>6. CASE s \in Https /\ t \in Https
  BY <1>2, <1>6 DEF Alone
<1>. QED  BY <1>4, <1>5, <1>6 DEF Threads

\* A request that is not yet at its watch event, or has none, has the
\* statefulset to itself.
LEMMA AtItAlone ==
  ASSUME FleetIInv, NEW t \in Https, thr[t].pc # "idle", ~Overlaps(thr[t])
  PROVE  chan = <<>> /\ \A s \in Threads \ {t} : thr[s].pc = "idle" /\ thr[s].op = "none"
BY IdleNone DEF FleetIInv, Alone, Settled, Threads, AllClaim, Claims

\* What the invariant is for.
LEMMA FleetIsSafe == FleetIInv => FleetSafe
<1>. SUFFICES ASSUME FleetIInv PROVE FleetSafe
  OBVIOUS
<1>0. /\ TypeOK /\ \A t \in Threads : Claims(desired, frozen, status.hash, pods, vols, thr[t])
      /\ FleetTrue(desired, chan, frozen, stranded, status.hash, pods, vols, thr)
  BY DEF FleetIInv, LockIInv, AllClaim
<1>1. FleetReached
  <2>. SUFFICES ASSUME Quiet, desired # None
                PROVE  /\ \A n \in Below(desired.want) \ (frozen \cup stranded) :
                            pods[n] # None /\ pods[n].up /\ pods[n].spec = desired.spec
                       /\ Live \subseteq Below(desired.want)
    BY DEF FleetReached
  <2>1. \A t \in Threads, n \in Ordinals : ~Owes(thr[t], n) /\ ~Makes(thr[t], n)
    BY <1>0, IdleNone, IdleOwesNothing DEF Quiet, At, Claims
  <2>2. status.hash = desired.spec /\ Extra(desired, pods) = {}
    BY <1>0, LoopIsThread DEF FleetTrue, DoneWhenQuiet, Settled, Quiet, At
  <2>3. ASSUME NEW n \in Below(desired.want) \ (frozen \cup stranded)
        PROVE  pods[n] # None /\ pods[n].up /\ pods[n].spec = desired.spec
    <3>1. n \in Ordinals /\ Wanted(desired, frozen, n) /\ chan = <<>>
      BY <2>3 DEF Below, Wanted, Quiet
    <3>2. n \in Standing(pods)
      BY <1>0, <2>1, <3>1, <2>3 DEF FleetTrue, MissingMade, Missing
    <3>3. n \notin Dark(frozen, pods)
      BY <1>0, <2>1, <3>1, LoopIsThread DEF FleetTrue, DarkOwed
    <3>4. n \notin Stale(desired, frozen, pods)
      BY <1>0, <2>1, <2>2, <3>1, LoopIsThread DEF FleetTrue, StaleOwed
    <3>. QED  BY <2>3, <3>2, <3>3, <3>4 DEF Standing, Dark, Stale
  <2>4. Live \subseteq Below(desired.want)
    BY <2>2 DEF Live, Below, Extra, Standing
  <2>. QED  BY <2>3, <2>4
<1>2. RollsExclusive
  BY DEF FleetIInv, LockIInv, RollerLocks, RollsExclusive, Rolling, Rolls
<1>3. FrozenStay
  BY <1>0 DEF FrozenStay, FleetTrue, FrozenDown
<1>4. RollbackLands
  BY <1>0 DEF RollbackLands, Claims, FrozenKnown, KnowsFrozen, At, StaleGo, Renewed, Fits, OnDesired, Stale,
     Standing, Live
<1>5. PruneLeavesNothing
  BY <1>0 DEF PruneLeavesNothing, Claims, VolumesGo, At
<1>. QED  BY <1>1, <1>2, <1>3, <1>4, <1>5 DEF FleetSafe
-----------------------------------------------------------------------------
(* What a step of one goroutine keeps.                                        *)

\* A goroutine goes on with its operation, or ends it; a rebootstrap goes on as
\* an apply.
Onward(q, r) ==
  /\ \/ r.op = q.op
     \/ r.op = "none" /\ r.pc = "idle"
     \/ r.op = "apply" /\ q.op = "rebootstrap"
  /\ Overlaps(q) => Overlaps(r) \/ r.pc = "idle"

LEMMA AloneStays ==
  ASSUME NEW d, NEW c, NEW x, NEW y, NEW t \in Threads, Alone(d, c, x), x[t].pc # "idle",
         \A s \in Threads \ {t} : y[s] = x[s], Onward(x[t], y[t])
  PROVE  Alone(d, c, y)
<1>1. CASE t = Loop
  BY <1>1, LoopIsThread DEF Alone, Settled, Onward
<1>2. CASE t \in Https
  BY <1>2, LoopIsThread DEF Alone, Onward, Settled
<1>. QED  BY <1>1, <1>2 DEF Threads

LEMMA MadeStays ==
  ASSUME NEW D, NEW E, NEW x, NEW y, NEW t \in Threads, \A s \in Threads \ {t} : y[s] = x[s],
         \A n \in D : \E s \in Threads : Makes(x[s], n),
         \A n \in E : n \in D /\ (Makes(x[t], n) => Makes(y[t], n))
  PROVE  \A n \in E : \E s \in Threads : Makes(y[s], n)
OBVIOUS

\* A step that changes nothing but its goroutine (and records of the history).
LEMMA Walk ==
  ASSUME FleetIInv, LockIInv', NEW t \in Threads, \A s \in Threads \ {t} : thr'[s] = thr[s],
         UNCHANGED <<desired, chan, frozen, pods, vols, stranded>>, status'.hash = status.hash,
         thr[t].pc # "idle", Onward(thr[t], thr'[t]),
         Claims(desired, frozen, status.hash, pods, vols, thr'[t]),
         \A n \in Ordinals : InHand(thr[t], n) => InHand(thr'[t], n),
         \A n \in Dark(frozen, pods) \cup Stale(desired, frozen, pods) : Owes(thr[t], n) => Owes(thr'[t], n),
         \A n \in Missing(desired, frozen, stranded, pods) : Makes(thr[t], n) => Makes(thr'[t], n),
         thr'[t].pc = "decide" => \A n \in thr'[t].live : pods[n] # None,
         t = Loop /\ thr'[t].pc = "idle" =>
           IF desired = None THEN Standing(pods) = {}
           ELSE status.hash = desired.spec /\ Extra(desired, pods) = {}
  PROVE  FleetIInv'
<1>0. /\ Alone(desired, chan, thr)
      /\ \A s \in Threads : Claims(desired, frozen, status.hash, pods, vols, thr[s])
      /\ FleetTrue(desired, chan, frozen, stranded, status.hash, pods, vols, thr)
  BY DEF FleetIInv, AllClaim
<1>1. Alone(desired, chan, thr')
  BY <1>0, AloneStays
<1>2. AllClaim(desired, frozen, status.hash, pods, vols, thr')
  BY <1>0 DEF AllClaim
<1>3. FrozenDown(frozen, pods) /\ NoneBare(vols)
  BY <1>0 DEF FleetTrue
<1>4. DarkOwed(frozen, pods, thr')
  <2>1. \A n \in Dark(frozen, pods) : \E s \in Https : Owes(thr[s], n)
    BY <1>0 DEF FleetTrue, DarkOwed
  <2>2. \A n \in Dark(frozen, pods) : Owes(thr[t], n) => Owes(thr'[t], n)
    OBVIOUS
  <2>3. ASSUME NEW n \in Dark(frozen, pods) PROVE \E s \in Https : Owes(thr'[s], n)
    BY <2>1, <2>2, LoopIsThread
  <2>. QED  BY <2>3 DEF DarkOwed
<1>5. StaleOwed(desired, frozen, status.hash, pods, thr')
  <2>. SUFFICES ASSUME desired # None, status.hash \in {None, desired.spec}
                PROVE  \A n \in Stale(desired, frozen, pods) : \E s \in Https : Owes(thr'[s], n)
    BY DEF StaleOwed
  <2>1. \A n \in Stale(desired, frozen, pods) : \E s \in Https : Owes(thr[s], n)
    BY <1>0 DEF FleetTrue, StaleOwed
  <2>2. \A n \in Stale(desired, frozen, pods) : Owes(thr[t], n) => Owes(thr'[t], n)
    OBVIOUS
  <2>3. ASSUME NEW n \in Stale(desired, frozen, pods) PROVE \E s \in Https : Owes(thr'[s], n)
    BY <2>1, <2>2, LoopIsThread
  <2>. QED  BY <2>3
<1>6. MissingMade(desired, chan, frozen, stranded, pods, thr')
  BY <1>0, MadeStays DEF MissingMade, FleetTrue
<1>7. TakenBack(desired, frozen, pods, thr')
  BY <1>0 DEF TakenBack, FleetTrue, Wanted
<1>8. GoneWhenDeleted(desired, chan, pods, thr') /\ DoneWhenQuiet(desired, chan, status.hash, pods, thr')
  <2>1. CASE t = Loop
    BY <2>1 DEF GoneWhenDeleted, DoneWhenQuiet, Settled
  <2>2. CASE t # Loop
    <3>1. thr'[Loop] = thr[Loop]
      BY <2>2, LoopIsThread
    <3>. QED  BY <1>0, <3>1 DEF FleetTrue, GoneWhenDeleted, DoneWhenQuiet, Settled
  <2>. QED  BY <2>1, <2>2
<1>9. FleetTrue(desired, chan, frozen, stranded, status.hash, pods, vols, thr')
  BY <1>3, <1>4, <1>5, <1>6, <1>7, <1>8 DEF FleetTrue
<1>. QED  BY <1>1, <1>2, <1>9 DEF FleetIInv
-----------------------------------------------------------------------------
(* Steps that change nothing but their goroutine.                             *)

LEMMA Parts ==
  ASSUME FleetIInv, NEW t \in Threads
  PROVE  /\ thr \in [Threads -> Thread] /\ thr[t] \in Thread /\ Equipped(thr[t])
         /\ Fits(desired, thr[t]) /\ FrozenKnown(desired, frozen, thr[t]) /\ ExtrasGo(desired, pods, thr[t])
         /\ StaleGo(desired, frozen, status.hash, pods, thr[t]) /\ Replaced(desired, pods, thr[t])
         /\ StoppedIs(pods, thr[t]) /\ PodsGo(pods, thr[t]) /\ VolumesGo(vols, thr[t])
  BY DEF FleetIInv, LockIInv, ThreadsTyped, AllClaim, Claims

\* Beside an apply nobody owes a pod anything: what is stale, or dark, is the
\* apply's own affair.
LEMMA ApplyOwes ==
  ASSUME FleetIInv, NEW t \in Threads, thr[t].op \in {"apply", "rollback"}, thr[t].pc # "put"
  PROVE  \A s \in Threads, n \in Ordinals : ~Owes(thr[s], n)
BY Parts, IdleNone, IdleOwesNothing, Companions DEF Owes, Overlaps

LEMMA ApplyDark ==
  ASSUME FleetIInv, NEW t \in Threads, thr[t].op \in {"apply", "rollback"}, thr[t].pc # "put"
  PROVE  /\ Dark(frozen, pods) = {}
         /\ desired # None /\ status.hash \in {None, desired.spec} => Stale(desired, frozen, pods) = {}
BY ApplyOwes, LoopIsThread DEF FleetIInv, FleetTrue, Dark, Stale, Standing, DarkOwed, StaleOwed

LEMMA ListKeeps ==
  ASSUME FleetIInv, LockIInv', NEW t \in Threads, List(t) PROVE FleetIInv'
<1>1. PICK q \in Thread : q = thr[t]
  BY Parts
<1>2. /\ thr \in [Threads -> Thread] /\ Equipped(q) /\ Fits(desired, q) /\ FrozenKnown(desired, frozen, q)
      /\ ExtrasGo(desired, pods, q) /\ StaleGo(desired, frozen, status.hash, pods, q) /\ Replaced(desired, pods, q)
      /\ StoppedIs(pods, q) /\ PodsGo(pods, q) /\ VolumesGo(vols, q)
  BY <1>1, Parts
<1>3. PICK r : r = thr'[t]
  OBVIOUS
<1>4. /\ q.pc = "list"
      /\ r.op = q.op /\ r.m = q.m /\ r.frz = q.frz /\ r.todo = q.todo /\ r.n = q.n /\ r.back = q.back /\ r.ret = q.ret
      /\ r.pc = "decide" /\ r.live = Standing(pods)
  BY <1>1, <1>2, <1>3, SMT DEF List, At, Goto, Set, Thread, Live, Standing
<1>5. /\ \A s \in Threads \ {t} : thr'[s] = thr[s]
      /\ UNCHANGED <<desired, chan, frozen, pods, vols, stranded>> /\ status'.hash = status.hash
  BY <1>2, <1>4, <1>1 DEF List, Goto, Set
<1>6. q.op = "apply"
  BY <1>2, <1>4 DEF Fits, ApplyPcs, RollbackPcs, Rolls
<1>10. Claims(desired, frozen, status.hash, pods, vols, r)
  BY <1>2, <1>4, <1>6 DEF Fits, OnDesired, ApplyPcs, RollbackPcs, Rolls, FrozenKnown, KnowsFrozen, Fills,
     InHand, ExtrasGo, Trimmed, StaleGo, Renewed, Stamped, Replaced, StoppedIs, PodsGo, VolumesGo, Claims
<1>11. Onward(q, r)
  BY <1>2, <1>4, <1>6 DEF Onward, Overlaps, Fits
<1>12. \A n \in Ordinals : InHand(q, n) => InHand(r, n)
  BY <1>4 DEF InHand
<1>13. \A n \in Dark(frozen, pods) \cup Stale(desired, frozen, pods) : Owes(q, n) => Owes(r, n)
  BY <1>2, <1>4, <1>6 DEF Owes, Rolls, Fits
<1>14. \A n \in Missing(desired, frozen, stranded, pods) : Makes(q, n) => Makes(r, n)
  BY <1>2, <1>4 DEF Makes, InHand, Fills, Fits, Missing, Standing
<1>15. r.pc = "decide" => \A n \in r.live : pods[n] # None
  BY <1>4 DEF Standing
<1>16. r.pc # "idle"
  BY <1>2, <1>4 DEF Fits, Rolls
<1>17. q.pc # "idle"
  BY <1>4
<1>. QED  BY <1>1, <1>3, <1>5, <1>10, <1>11, <1>12, <1>13, <1>14, <1>15, <1>16, <1>17, Walk

LEMMA UpKeeps ==
  ASSUME FleetIInv, LockIInv', NEW t \in Threads, Up(t) PROVE FleetIInv'
<1>1. PICK q \in Thread : q = thr[t]
  BY Parts
<1>2. /\ thr \in [Threads -> Thread] /\ Equipped(q) /\ Fits(desired, q) /\ FrozenKnown(desired, frozen, q)
      /\ ExtrasGo(desired, pods, q) /\ StaleGo(desired, frozen, status.hash, pods, q) /\ Replaced(desired, pods, q)
      /\ StoppedIs(pods, q) /\ PodsGo(pods, q) /\ VolumesGo(vols, q)
  BY <1>1, Parts
<1>a. q.todo # {} => Lowest(q.todo) \in q.todo
  BY LowestIs DEF Thread
<1>3. PICK r : r = thr'[t]
  OBVIOUS
<1>4. /\ q.pc = "up"
      /\ r.op = q.op /\ r.m = q.m /\ r.live = q.live /\ r.frz = q.frz /\ r.ret = q.ret
      /\ \/ /\ q.todo # {} /\ r.pc = "mount" /\ r.back = "up" /\ r.n \in q.todo /\ r.todo = q.todo \ {r.n}
         \/ /\ q.todo = {} /\ r.pc = (IF q.op = "rollback" THEN "restale" ELSE "prune")
            /\ r.back = q.back /\ r.n = q.n /\ r.todo = q.todo
  BY <1>1, <1>2, <1>3, <1>a, SMT DEF Up, At, Goto, Set, Thread
<1>5. /\ \A s \in Threads \ {t} : thr'[s] = thr[s]
      /\ UNCHANGED <<desired, chan, frozen, pods, vols, stranded>> /\ status'.hash = status.hash
  BY <1>2, <1>4, <1>1 DEF Up, Goto, Set
<1>6. q.op \in {"apply", "rollback"}
  BY <1>2, <1>4 DEF Fits, ApplyPcs, RollbackPcs, Rolls
<1>10. Claims(desired, frozen, status.hash, pods, vols, r)
  BY <1>2, <1>4, <1>6 DEF Fits, OnDesired, ApplyPcs, RollbackPcs, Rolls, FrozenKnown, KnowsFrozen, Fills,
     InHand, ExtrasGo, Trimmed, StaleGo, Renewed, Stamped, Replaced, StoppedIs, PodsGo, VolumesGo, Claims
<1>11. Onward(q, r)
  BY <1>2, <1>4, <1>6 DEF Onward, Overlaps, Fits
<1>12. \A n \in Ordinals : InHand(q, n) => InHand(r, n)
  BY <1>4 DEF InHand
<1>13. \A n \in Dark(frozen, pods) \cup Stale(desired, frozen, pods) : Owes(q, n) => Owes(r, n)
  BY <1>2, <1>4, <1>6 DEF Owes, Rolls, Fits
<1>14. \A n \in Missing(desired, frozen, stranded, pods) : Makes(q, n) => Makes(r, n)
  BY <1>2, <1>4, <1>6 DEF Makes, InHand, Fills, Fits
<1>15. r.pc # "decide"
  BY <1>2, <1>4 DEF Fits, Rolls
<1>16. r.pc # "idle"
  BY <1>2, <1>4 DEF Fits, Rolls
<1>17. q.pc # "idle"
  BY <1>4
<1>. QED  BY <1>1, <1>3, <1>5, <1>10, <1>11, <1>12, <1>13, <1>14, <1>15, <1>16, <1>17, Walk

LEMMA PruneKeeps ==
  ASSUME FleetIInv, LockIInv', NEW t \in Threads, Prune(t) PROVE FleetIInv'
<1>1. PICK q \in Thread : q = thr[t]
  BY Parts
<1>2. /\ thr \in [Threads -> Thread] /\ Equipped(q) /\ Fits(desired, q) /\ FrozenKnown(desired, frozen, q)
      /\ ExtrasGo(desired, pods, q) /\ StaleGo(desired, frozen, status.hash, pods, q) /\ Replaced(desired, pods, q)
      /\ StoppedIs(pods, q) /\ PodsGo(pods, q) /\ VolumesGo(vols, q)
  BY <1>1, Parts
<1>3. PICK r : r = thr'[t]
  OBVIOUS
<1>4. /\ q.pc = "prune"
      /\ r.op = q.op /\ r.m = q.m /\ r.live = q.live /\ r.n = q.n /\ r.back = q.back /\ r.ret = q.ret
      /\ r.pc = "trim" /\ r.todo = Standing(pods) \ Below(q.m.want) /\ r.frz = (IF q.op = "rollback" THEN frozen ELSE q.frz)
  BY <1>1, <1>2, <1>3, SMT DEF Prune, At, Goto, Set, Thread, Live, Standing
<1>5. /\ \A s \in Threads \ {t} : thr'[s] = thr[s]
      /\ UNCHANGED <<desired, chan, frozen, pods, vols, stranded>> /\ status'.hash = status.hash
  BY <1>2, <1>4, <1>1 DEF Prune, Goto, Set
<1>6. q.op \in {"apply", "rollback"}
  BY <1>2, <1>4 DEF Fits, ApplyPcs, RollbackPcs, Rolls
<1>10. Claims(desired, frozen, status.hash, pods, vols, r)
  BY <1>2, <1>4, <1>6 DEF Fits, OnDesired, ApplyPcs, RollbackPcs, Rolls, FrozenKnown, KnowsFrozen, Fills,
     InHand, ExtrasGo, Trimmed, Extra, Standing, Below, StaleGo, Renewed, Stamped, Replaced, StoppedIs, PodsGo,
     VolumesGo, Claims
<1>11. Onward(q, r)
  BY <1>2, <1>4, <1>6 DEF Onward, Overlaps, Fits
<1>12. \A n \in Ordinals : InHand(q, n) => InHand(r, n)
  BY <1>4 DEF InHand
<1>13. \A n \in Dark(frozen, pods) \cup Stale(desired, frozen, pods) : Owes(q, n) => Owes(r, n)
  BY <1>2, <1>4, <1>6 DEF Owes, Rolls, Fits
<1>14. \A n \in Missing(desired, frozen, stranded, pods) : Makes(q, n) => Makes(r, n)
  BY <1>2, <1>4, <1>6 DEF Makes, InHand, Fills, Fits
<1>15. r.pc # "decide"
  BY <1>2, <1>4 DEF Fits, Rolls
<1>16. r.pc # "idle"
  BY <1>2, <1>4 DEF Fits, Rolls
<1>17. q.pc # "idle"
  BY <1>4
<1>. QED  BY <1>1, <1>3, <1>5, <1>10, <1>11, <1>12, <1>13, <1>14, <1>15, <1>16, <1>17, Walk

LEMMA DriftKeeps ==
  ASSUME FleetIInv, LockIInv', NEW t \in Threads, Drift(t) PROVE FleetIInv'
<1>1. PICK q \in Thread : q = thr[t]
  BY Parts
<1>2. /\ thr \in [Threads -> Thread] /\ Equipped(q) /\ Fits(desired, q) /\ FrozenKnown(desired, frozen, q)
      /\ ExtrasGo(desired, pods, q) /\ StaleGo(desired, frozen, status.hash, pods, q) /\ Replaced(desired, pods, q)
      /\ StoppedIs(pods, q) /\ PodsGo(pods, q) /\ VolumesGo(vols, q)
  BY <1>1, Parts
<1>3. PICK r : r = thr'[t]
  OBVIOUS
<1>4. /\ q.pc = "drift"
      /\ r.op = q.op /\ r.m = q.m /\ r.live = q.live /\ r.frz = q.frz /\ r.todo = q.todo /\ r.n = q.n /\ r.back = q.back
      /\ \/ r.pc = "stamp" /\ r.ret = q.ret /\ status.hash \in {None, q.m.spec}
         \/ r.pc = "lock" /\ r.ret = "stamp"
  BY <1>1, <1>2, <1>3, SMT DEF Drift, At, Goto, Set, Thread
<1>5. /\ \A s \in Threads \ {t} : thr'[s] = thr[s]
      /\ UNCHANGED <<desired, chan, frozen, pods, vols, stranded>> /\ status'.hash = status.hash
  BY <1>2, <1>4, <1>1 DEF Drift, Goto, Set
<1>6. q.op = "apply"
  BY <1>2, <1>4 DEF Fits, ApplyPcs, RollbackPcs, Rolls
<1>7. Dark(frozen, pods) = {} /\ (desired # None /\ status.hash \in {None, desired.spec} => Stale(desired, frozen, pods) = {})
  BY <1>1, <1>4, <1>6, ApplyDark
<1>10. Claims(desired, frozen, status.hash, pods, vols, r)
  BY <1>2, <1>4, <1>6, <1>7 DEF Fits, OnDesired, ApplyPcs, RollbackPcs, Rolls, FrozenKnown, KnowsFrozen,
     Fills, InHand, ExtrasGo, Trimmed, StaleGo, Renewed, Stamped, Replaced, StoppedIs, PodsGo, VolumesGo,
     Claims
<1>11. Onward(q, r)
  BY <1>2, <1>4, <1>6, <1>7 DEF Onward, Overlaps, Fits
<1>12. \A n \in Ordinals : InHand(q, n) => InHand(r, n)
  BY <1>4 DEF InHand
<1>13. \A n \in Dark(frozen, pods) \cup Stale(desired, frozen, pods) : Owes(q, n) => Owes(r, n)
  BY <1>2, <1>4, <1>6, <1>7 DEF Owes, Rolls, Fits
<1>14. \A n \in Missing(desired, frozen, stranded, pods) : Makes(q, n) => Makes(r, n)
  BY <1>2, <1>4, <1>6, <1>7 DEF Makes, InHand, Fills, Fits
<1>15. r.pc # "decide"
  BY <1>2, <1>4 DEF Fits, Rolls
<1>16. r.pc # "idle"
  BY <1>2, <1>4 DEF Fits, Rolls
<1>17. q.pc # "idle"
  BY <1>4
<1>. QED  BY <1>1, <1>3, <1>5, <1>10, <1>11, <1>12, <1>13, <1>14, <1>15, <1>16, <1>17, Walk

LEMMA RecordKeeps ==
  ASSUME FleetIInv, LockIInv', NEW t \in Threads, Record(t) PROVE FleetIInv'
<1>1. PICK q \in Thread : q = thr[t]
  BY Parts
<1>2. /\ thr \in [Threads -> Thread] /\ Equipped(q) /\ Fits(desired, q) /\ FrozenKnown(desired, frozen, q)
      /\ ExtrasGo(desired, pods, q) /\ StaleGo(desired, frozen, status.hash, pods, q) /\ Replaced(desired, pods, q)
      /\ StoppedIs(pods, q) /\ PodsGo(pods, q) /\ VolumesGo(vols, q)
  BY <1>1, Parts
<1>3. PICK r : r = thr'[t]
  OBVIOUS
<1>4. /\ q.pc = "record"
      /\ r.op = q.op /\ r.m = q.m /\ r.live = q.live /\ r.frz = q.frz /\ r.todo = q.todo /\ r.n = q.n /\ r.back = q.back /\ r.ret = q.ret
      /\ r.pc = "leave"
  BY <1>1, <1>2, <1>3, SMT DEF Record, At, Goto, Set, Thread
<1>5. /\ \A s \in Threads \ {t} : thr'[s] = thr[s]
      /\ UNCHANGED <<desired, chan, frozen, pods, vols, stranded>> /\ status'.hash = status.hash
  BY <1>2, <1>4, <1>1 DEF Record, Goto, Set
<1>6. q.op = "apply"
  BY <1>2, <1>4 DEF Fits, ApplyPcs, RollbackPcs, Rolls
<1>10. Claims(desired, frozen, status.hash, pods, vols, r)
  BY <1>2, <1>4, <1>6 DEF Fits, OnDesired, ApplyPcs, RollbackPcs, Rolls, FrozenKnown, KnowsFrozen, Fills,
     InHand, ExtrasGo, Trimmed, StaleGo, Renewed, Stamped, Replaced, StoppedIs, PodsGo, VolumesGo, Claims
<1>11. Onward(q, r)
  BY <1>2, <1>4, <1>6 DEF Onward, Overlaps, Fits
<1>12. \A n \in Ordinals : InHand(q, n) => InHand(r, n)
  BY <1>4 DEF InHand
<1>13. \A n \in Dark(frozen, pods) \cup Stale(desired, frozen, pods) : Owes(q, n) => Owes(r, n)
  BY <1>2, <1>4, <1>6 DEF Owes, Rolls, Fits
<1>14. \A n \in Missing(desired, frozen, stranded, pods) : Makes(q, n) => Makes(r, n)
  BY <1>2, <1>4, <1>6 DEF Makes, InHand, Fills, Fits
<1>15. r.pc # "decide"
  BY <1>2, <1>4 DEF Fits, Rolls
<1>16. r.pc # "idle"
  BY <1>2, <1>4 DEF Fits, Rolls
<1>17. q.pc # "idle"
  BY <1>4
<1>. QED  BY <1>1, <1>3, <1>5, <1>10, <1>11, <1>12, <1>13, <1>14, <1>15, <1>16, <1>17, Walk

LEMMA DoomedKeeps ==
  ASSUME FleetIInv, LockIInv', NEW t \in Threads, Doomed(t) PROVE FleetIInv'
<1>1. PICK q \in Thread : q = thr[t]
  BY Parts
<1>2. /\ thr \in [Threads -> Thread] /\ Equipped(q) /\ Fits(desired, q) /\ FrozenKnown(desired, frozen, q)
      /\ ExtrasGo(desired, pods, q) /\ StaleGo(desired, frozen, status.hash, pods, q) /\ Replaced(desired, pods, q)
      /\ StoppedIs(pods, q) /\ PodsGo(pods, q) /\ VolumesGo(vols, q)
  BY <1>1, Parts
<1>3. PICK r : r = thr'[t]
  OBVIOUS
<1>4. /\ q.pc = "doomed"
      /\ r.op = q.op /\ r.m = q.m /\ r.live = q.live /\ r.frz = q.frz /\ r.n = q.n /\ r.back = q.back /\ r.ret = q.ret
      /\ r.pc = "remove" /\ r.todo = Standing(pods)
  BY <1>1, <1>2, <1>3, SMT DEF Doomed, At, Goto, Set, Thread, Live, Standing
<1>5. /\ \A s \in Threads \ {t} : thr'[s] = thr[s]
      /\ UNCHANGED <<desired, chan, frozen, pods, vols, stranded>> /\ status'.hash = status.hash
  BY <1>2, <1>4, <1>1 DEF Doomed, Goto, Set
<1>6. q.op = "remove"
  BY <1>2, <1>4 DEF Fits, ApplyPcs, RollbackPcs, Rolls
<1>10. Claims(desired, frozen, status.hash, pods, vols, r)
  BY <1>2, <1>4, <1>6 DEF Fits, OnDesired, ApplyPcs, RollbackPcs, Rolls, FrozenKnown, KnowsFrozen, Fills,
     InHand, ExtrasGo, Trimmed, StaleGo, Renewed, Stamped, Replaced, StoppedIs, PodsGo, VolumesGo, Claims
<1>11. Onward(q, r)
  BY <1>2, <1>4, <1>6 DEF Onward, Overlaps, Fits
<1>12. \A n \in Ordinals : InHand(q, n) => InHand(r, n)
  BY <1>4 DEF InHand
<1>13. \A n \in Dark(frozen, pods) \cup Stale(desired, frozen, pods) : Owes(q, n) => Owes(r, n)
  BY <1>2, <1>4, <1>6 DEF Owes, Rolls, Fits
<1>14. \A n \in Missing(desired, frozen, stranded, pods) : Makes(q, n) => Makes(r, n)
  BY <1>2, <1>4, <1>6 DEF Makes, InHand, Fills, Fits
<1>15. r.pc # "decide"
  BY <1>2, <1>4 DEF Fits, Rolls
<1>16. r.pc # "idle"
  BY <1>2, <1>4 DEF Fits, Rolls
<1>17. q.pc # "idle"
  BY <1>4
<1>. QED  BY <1>1, <1>3, <1>5, <1>10, <1>11, <1>12, <1>13, <1>14, <1>15, <1>16, <1>17, Walk

LEMMA ListPodsKeeps ==
  ASSUME FleetIInv, LockIInv', NEW t \in Threads, ListPods(t) PROVE FleetIInv'
<1>1. PICK q \in Thread : q = thr[t]
  BY Parts
<1>2. /\ thr \in [Threads -> Thread] /\ Equipped(q) /\ Fits(desired, q) /\ FrozenKnown(desired, frozen, q)
      /\ ExtrasGo(desired, pods, q) /\ StaleGo(desired, frozen, status.hash, pods, q) /\ Replaced(desired, pods, q)
      /\ StoppedIs(pods, q) /\ PodsGo(pods, q) /\ VolumesGo(vols, q)
  BY <1>1, Parts
<1>3. PICK r : r = thr'[t]
  OBVIOUS
<1>4. /\ q.pc = "listPods"
      /\ r.op = q.op /\ r.m = q.m /\ r.live = q.live /\ r.frz = q.frz /\ r.n = q.n /\ r.back = q.back /\ r.ret = q.ret
      /\ r.pc = "prunePods" /\ r.todo = Standing(pods)
  BY <1>1, <1>2, <1>3, SMT DEF ListPods, At, Goto, Set, Thread, Live, Standing
<1>5. /\ \A s \in Threads \ {t} : thr'[s] = thr[s]
      /\ UNCHANGED <<desired, chan, frozen, pods, vols, stranded>> /\ status'.hash = status.hash
  BY <1>2, <1>4, <1>1 DEF ListPods, Goto, Set
<1>6. q.op = "prune"
  BY <1>2, <1>4 DEF Fits, ApplyPcs, RollbackPcs, Rolls
<1>10. Claims(desired, frozen, status.hash, pods, vols, r)
  BY <1>2, <1>4, <1>6 DEF Fits, OnDesired, ApplyPcs, RollbackPcs, Rolls, FrozenKnown, KnowsFrozen, Fills,
     InHand, ExtrasGo, Trimmed, StaleGo, Renewed, Stamped, Replaced, StoppedIs, PodsGo, VolumesGo, Claims
<1>11. Onward(q, r)
  BY <1>2, <1>4, <1>6 DEF Onward, Overlaps, Fits
<1>12. \A n \in Ordinals : InHand(q, n) => InHand(r, n)
  BY <1>4 DEF InHand
<1>13. \A n \in Dark(frozen, pods) \cup Stale(desired, frozen, pods) : Owes(q, n) => Owes(r, n)
  BY <1>2, <1>4, <1>6 DEF Owes, Rolls, Fits
<1>14. \A n \in Missing(desired, frozen, stranded, pods) : Makes(q, n) => Makes(r, n)
  BY <1>2, <1>4, <1>6 DEF Makes, InHand, Fills, Fits
<1>15. r.pc # "decide"
  BY <1>2, <1>4 DEF Fits, Rolls
<1>16. r.pc # "idle"
  BY <1>2, <1>4 DEF Fits, Rolls
<1>17. q.pc # "idle"
  BY <1>4
<1>. QED  BY <1>1, <1>3, <1>5, <1>10, <1>11, <1>12, <1>13, <1>14, <1>15, <1>16, <1>17, Walk

LEMMA ListVolsKeeps ==
  ASSUME FleetIInv, LockIInv', NEW t \in Threads, ListVols(t) PROVE FleetIInv'
<1>1. PICK q \in Thread : q = thr[t]
  BY Parts
<1>2. /\ thr \in [Threads -> Thread] /\ Equipped(q) /\ Fits(desired, q) /\ FrozenKnown(desired, frozen, q)
      /\ ExtrasGo(desired, pods, q) /\ StaleGo(desired, frozen, status.hash, pods, q) /\ Replaced(desired, pods, q)
      /\ StoppedIs(pods, q) /\ PodsGo(pods, q) /\ VolumesGo(vols, q)
  BY <1>1, Parts
<1>3. PICK r : r = thr'[t]
  OBVIOUS
<1>4. /\ q.pc = "listVols"
      /\ r.op = q.op /\ r.m = q.m /\ r.live = q.live /\ r.frz = q.frz /\ r.n = q.n /\ r.back = q.back /\ r.ret = q.ret
      /\ r.pc = "dropVols" /\ r.todo = {k \in Ordinals : vols[k] = "kept" /\ (q.n # None => k = q.n)}
  BY <1>1, <1>2, <1>3, SMT DEF ListVols, At, Goto, Set, Thread
<1>5. /\ \A s \in Threads \ {t} : thr'[s] = thr[s]
      /\ UNCHANGED <<desired, chan, frozen, pods, vols, stranded>> /\ status'.hash = status.hash
  BY <1>2, <1>4, <1>1 DEF ListVols, Goto, Set
<1>6. q.op \in {"prune", "rebootstrap"}
  BY <1>2, <1>4 DEF Fits, ApplyPcs, RollbackPcs, Rolls
<1>7. vols \in [Ordinals -> {"none", "kept", "bare"}] /\ NoneBare(vols)
  BY DEF FleetIInv, LockIInv, TypeOK, FleetTrue
<1>10. Claims(desired, frozen, status.hash, pods, vols, r)
  BY <1>2, <1>4, <1>6, <1>7 DEF Fits, OnDesired, ApplyPcs, RollbackPcs, Rolls, FrozenKnown, KnowsFrozen,
     Fills, InHand, ExtrasGo, Trimmed, StaleGo, Renewed, Stamped, Replaced, StoppedIs, PodsGo, VolumesGo,
     NoneBare, Claims
<1>11. Onward(q, r)
  BY <1>2, <1>4, <1>6 DEF Onward, Overlaps, Fits
<1>12. \A n \in Ordinals : InHand(q, n) => InHand(r, n)
  BY <1>4 DEF InHand
<1>13. \A n \in Dark(frozen, pods) \cup Stale(desired, frozen, pods) : Owes(q, n) => Owes(r, n)
  BY <1>2, <1>4, <1>6 DEF Owes, Rolls, Fits
<1>14. \A n \in Missing(desired, frozen, stranded, pods) : Makes(q, n) => Makes(r, n)
  BY <1>2, <1>4, <1>6 DEF Makes, InHand, Fills, Fits
<1>15. r.pc # "decide"
  BY <1>2, <1>4 DEF Fits, Rolls
<1>16. r.pc # "idle"
  BY <1>2, <1>4 DEF Fits, Rolls
<1>17. q.pc # "idle"
  BY <1>4
<1>. QED  BY <1>1, <1>3, <1>5, <1>10, <1>11, <1>12, <1>13, <1>14, <1>15, <1>16, <1>17, Walk

LEMMA ReadFrozenKeeps ==
  ASSUME FleetIInv, LockIInv', NEW t \in Threads, ReadFrozen(t) PROVE FleetIInv'
<1>1. PICK q \in Thread : q = thr[t]
  BY Parts
<1>2. /\ thr \in [Threads -> Thread] /\ Equipped(q) /\ Fits(desired, q) /\ FrozenKnown(desired, frozen, q)
      /\ ExtrasGo(desired, pods, q) /\ StaleGo(desired, frozen, status.hash, pods, q) /\ Replaced(desired, pods, q)
      /\ StoppedIs(pods, q) /\ PodsGo(pods, q) /\ VolumesGo(vols, q)
  BY <1>1, Parts
<1>3. PICK r : r = thr'[t]
  OBVIOUS
<1>4. /\ q.pc = "readFrozen"
      /\ r.op = q.op /\ r.m = q.m /\ r.live = q.live /\ r.todo = q.todo /\ r.n = q.n /\ r.back = q.back /\ r.ret = q.ret
      /\ r.pc = "writeFrozen" /\ r.frz = frozen
  BY <1>1, <1>2, <1>3, SMT DEF ReadFrozen, At, Goto, Set, Thread
<1>5. /\ \A s \in Threads \ {t} : thr'[s] = thr[s]
      /\ UNCHANGED <<desired, chan, frozen, pods, vols, stranded>> /\ status'.hash = status.hash
  BY <1>2, <1>4, <1>1 DEF ReadFrozen, Goto, Set
<1>6. q.op \in {"stop", "start"}
  BY <1>2, <1>4 DEF Fits, ApplyPcs, RollbackPcs, Rolls
<1>10. Claims(desired, frozen, status.hash, pods, vols, r)
  BY <1>2, <1>4, <1>6 DEF Fits, OnDesired, ApplyPcs, RollbackPcs, Rolls, FrozenKnown, KnowsFrozen, Fills,
     InHand, ExtrasGo, Trimmed, StaleGo, Renewed, Stamped, Replaced, StoppedIs, PodsGo, VolumesGo, Claims
<1>11. Onward(q, r)
  BY <1>2, <1>4, <1>6 DEF Onward, Overlaps, Fits
<1>12. \A n \in Ordinals : InHand(q, n) => InHand(r, n)
  BY <1>4 DEF InHand
<1>13. \A n \in Dark(frozen, pods) \cup Stale(desired, frozen, pods) : Owes(q, n) => Owes(r, n)
  BY <1>2, <1>4, <1>6 DEF Owes, Rolls, Fits
<1>14. \A n \in Missing(desired, frozen, stranded, pods) : Makes(q, n) => Makes(r, n)
  BY <1>2, <1>4, <1>6 DEF Makes, InHand, Fills, Fits
<1>15. r.pc # "decide"
  BY <1>2, <1>4 DEF Fits, Rolls
<1>16. r.pc # "idle"
  BY <1>2, <1>4 DEF Fits, Rolls
<1>17. q.pc # "idle"
  BY <1>4
<1>. QED  BY <1>1, <1>3, <1>5, <1>10, <1>11, <1>12, <1>13, <1>14, <1>15, <1>16, <1>17, Walk

LEMMA AppendRecordKeeps ==
  ASSUME FleetIInv, LockIInv', NEW t \in Threads, AppendRecord(t) PROVE FleetIInv'
<1>1. PICK q \in Thread : q = thr[t]
  BY Parts
<1>2. /\ thr \in [Threads -> Thread] /\ Equipped(q) /\ Fits(desired, q) /\ FrozenKnown(desired, frozen, q)
      /\ ExtrasGo(desired, pods, q) /\ StaleGo(desired, frozen, status.hash, pods, q) /\ Replaced(desired, pods, q)
      /\ StoppedIs(pods, q) /\ PodsGo(pods, q) /\ VolumesGo(vols, q)
  BY <1>1, Parts
<1>3. PICK r : r = thr'[t]
  OBVIOUS
<1>4. /\ q.pc = "append"
      /\ r.op = q.op /\ r.m = q.m /\ r.live = q.live /\ r.frz = q.frz /\ r.todo = q.todo /\ r.n = q.n /\ r.back = q.back /\ r.ret = q.ret
      /\ r.pc = "prune"
  BY <1>1, <1>2, <1>3, SMT DEF AppendRecord, At, Goto, Set, Thread
<1>5. /\ \A s \in Threads \ {t} : thr'[s] = thr[s]
      /\ UNCHANGED <<desired, chan, frozen, pods, vols, stranded>> /\ status'.hash = status.hash
  BY <1>2, <1>4, <1>1 DEF AppendRecord, Goto, Set
<1>6. q.op = "rollback"
  BY <1>2, <1>4 DEF Fits, ApplyPcs, RollbackPcs, Rolls
<1>10. Claims(desired, frozen, status.hash, pods, vols, r)
  BY <1>2, <1>4, <1>6 DEF Fits, OnDesired, ApplyPcs, RollbackPcs, Rolls, FrozenKnown, KnowsFrozen, Fills,
     InHand, ExtrasGo, Trimmed, StaleGo, Renewed, Stamped, Replaced, StoppedIs, PodsGo, VolumesGo, Claims
<1>11. Onward(q, r)
  BY <1>2, <1>4, <1>6 DEF Onward, Overlaps, Fits
<1>12. \A n \in Ordinals : InHand(q, n) => InHand(r, n)
  BY <1>4 DEF InHand
<1>13. \A n \in Dark(frozen, pods) \cup Stale(desired, frozen, pods) : Owes(q, n) => Owes(r, n)
  BY <1>2, <1>4, <1>6 DEF Owes, Rolls, Fits
<1>14. \A n \in Missing(desired, frozen, stranded, pods) : Makes(q, n) => Makes(r, n)
  BY <1>2, <1>4, <1>6 DEF Makes, InHand, Fills, Fits
<1>15. r.pc # "decide"
  BY <1>2, <1>4 DEF Fits, Rolls
<1>16. r.pc # "idle"
  BY <1>2, <1>4 DEF Fits, Rolls
<1>17. q.pc # "idle"
  BY <1>4
<1>. QED  BY <1>1, <1>3, <1>5, <1>10, <1>11, <1>12, <1>13, <1>14, <1>15, <1>16, <1>17, Walk

LEMMA ScaleUpKeeps ==
  ASSUME FleetIInv, LockIInv', NEW t \in Threads, ScaleUp(t) PROVE FleetIInv'
<1>1. PICK q \in Thread : q = thr[t]
  BY Parts
<1>2. /\ thr \in [Threads -> Thread] /\ Equipped(q) /\ Fits(desired, q) /\ FrozenKnown(desired, frozen, q)
      /\ ExtrasGo(desired, pods, q) /\ StaleGo(desired, frozen, status.hash, pods, q) /\ Replaced(desired, pods, q)
      /\ StoppedIs(pods, q) /\ PodsGo(pods, q) /\ VolumesGo(vols, q)
  BY <1>1, Parts
<1>3. PICK r : r = thr'[t]
  OBVIOUS
<1>4. /\ q.pc = "fewer"
      /\ r.op = q.op /\ r.m = q.m /\ r.live = q.live /\ r.frz = q.frz /\ r.n = q.n /\ r.back = q.back /\ r.ret = q.ret
      /\ r.pc = "up" /\ \A n \in r.todo : n \in Ordinals /\ n < q.m.want /\ n \notin q.frz
  BY <1>1, <1>2, <1>3, SMT DEF ScaleUp, At, Goto, Set, Thread, Below
<1>5. /\ \A s \in Threads \ {t} : thr'[s] = thr[s]
      /\ UNCHANGED <<desired, chan, frozen, pods, vols, stranded>> /\ status'.hash = status.hash
  BY <1>2, <1>4, <1>1 DEF ScaleUp, Goto, Set
<1>6. q.op = "rollback"
  BY <1>2, <1>4 DEF Fits, ApplyPcs, RollbackPcs, Rolls
<1>10. Claims(desired, frozen, status.hash, pods, vols, r)
  BY <1>2, <1>4, <1>6 DEF Fits, OnDesired, ApplyPcs, RollbackPcs, Rolls, FrozenKnown, KnowsFrozen, Fills,
     InHand, Wanted, ExtrasGo, Trimmed, StaleGo, Renewed, Stamped, Replaced, StoppedIs, PodsGo, VolumesGo,
     Claims
<1>11. Onward(q, r)
  BY <1>2, <1>4, <1>6 DEF Onward, Overlaps, Fits
<1>12. \A n \in Ordinals : InHand(q, n) => InHand(r, n)
  BY <1>4 DEF InHand
<1>13. \A n \in Dark(frozen, pods) \cup Stale(desired, frozen, pods) : Owes(q, n) => Owes(r, n)
  BY <1>2, <1>4, <1>6 DEF Owes, Rolls, Fits
<1>14. \A n \in Missing(desired, frozen, stranded, pods) : Makes(q, n) => Makes(r, n)
  BY <1>2, <1>4, <1>6 DEF Makes, InHand, Fills, Fits
<1>15. r.pc # "decide"
  BY <1>2, <1>4 DEF Fits, Rolls
<1>16. r.pc # "idle"
  BY <1>2, <1>4 DEF Fits, Rolls
<1>17. q.pc # "idle"
  BY <1>4
<1>. QED  BY <1>1, <1>3, <1>5, <1>10, <1>11, <1>12, <1>13, <1>14, <1>15, <1>16, <1>17, Walk

LEMMA RestaleKeeps ==
  ASSUME FleetIInv, LockIInv', NEW t \in Threads, Restale(t) PROVE FleetIInv'
<1>1. PICK q \in Thread : q = thr[t]
  BY Parts
<1>2. /\ thr \in [Threads -> Thread] /\ Equipped(q) /\ Fits(desired, q) /\ FrozenKnown(desired, frozen, q)
      /\ ExtrasGo(desired, pods, q) /\ StaleGo(desired, frozen, status.hash, pods, q) /\ Replaced(desired, pods, q)
      /\ StoppedIs(pods, q) /\ PodsGo(pods, q) /\ VolumesGo(vols, q)
  BY <1>1, Parts
<1>3. PICK r : r = thr'[t]
  OBVIOUS
<1>4. /\ q.pc = "restale"
      /\ r.op = q.op /\ r.m = q.m /\ r.live = q.live /\ r.frz = q.frz /\ r.todo = q.todo /\ r.n = q.n /\ r.back = q.back
      /\ \/ r.pc = "stamp" /\ r.ret = q.ret
         \/ r.pc = "lock" /\ r.ret = "stamp"
  BY <1>1, <1>2, <1>3, SMT DEF Restale, At, Goto, Set, Thread
<1>5. /\ \A s \in Threads \ {t} : thr'[s] = thr[s]
      /\ UNCHANGED <<desired, chan, frozen, pods, vols, stranded>> /\ status'.hash = status.hash
  BY <1>2, <1>4, <1>1 DEF Restale, Goto, Set
<1>6. q.op = "rollback"
  BY <1>2, <1>4 DEF Fits, ApplyPcs, RollbackPcs, Rolls
<1>10. Claims(desired, frozen, status.hash, pods, vols, r)
  BY <1>2, <1>4, <1>6 DEF Fits, OnDesired, ApplyPcs, RollbackPcs, Rolls, FrozenKnown, KnowsFrozen, Fills,
     InHand, ExtrasGo, Trimmed, StaleGo, Renewed, Stamped, Replaced, StoppedIs, PodsGo, VolumesGo, Claims
<1>11. Onward(q, r)
  BY <1>2, <1>4, <1>6 DEF Onward, Overlaps, Fits
<1>12. \A n \in Ordinals : InHand(q, n) => InHand(r, n)
  BY <1>4 DEF InHand
<1>13. \A n \in Dark(frozen, pods) \cup Stale(desired, frozen, pods) : Owes(q, n) => Owes(r, n)
  BY <1>2, <1>4, <1>6 DEF Owes, Rolls, Fits
<1>14. \A n \in Missing(desired, frozen, stranded, pods) : Makes(q, n) => Makes(r, n)
  BY <1>2, <1>4, <1>6 DEF Makes, InHand, Fills, Fits
<1>15. r.pc # "decide"
  BY <1>2, <1>4 DEF Fits, Rolls
<1>16. r.pc # "idle"
  BY <1>2, <1>4 DEF Fits, Rolls
<1>17. q.pc # "idle"
  BY <1>4
<1>. QED  BY <1>1, <1>3, <1>5, <1>10, <1>11, <1>12, <1>13, <1>14, <1>15, <1>16, <1>17, Walk

LEMMA RelistForRollKeeps ==
  ASSUME FleetIInv, LockIInv', NEW t \in Threads, RelistForRoll(t) PROVE FleetIInv'
<1>1. PICK q \in Thread : q = thr[t]
  BY Parts
<1>2. /\ thr \in [Threads -> Thread] /\ Equipped(q) /\ Fits(desired, q) /\ FrozenKnown(desired, frozen, q)
      /\ ExtrasGo(desired, pods, q) /\ StaleGo(desired, frozen, status.hash, pods, q) /\ Replaced(desired, pods, q)
      /\ StoppedIs(pods, q) /\ PodsGo(pods, q) /\ VolumesGo(vols, q)
  BY <1>1, Parts
<1>3. PICK r : r = thr'[t]
  OBVIOUS
<1>4. /\ q.pc = "relist"
      /\ r.op = q.op /\ r.m = q.m /\ r.live = q.live /\ r.frz = q.frz /\ r.todo = q.todo /\ r.n = q.n /\ r.back = q.back
      /\ \/ r.pc = "fewer" /\ r.ret = q.ret /\ Standing(pods) = {}
         \/ r.pc = "lock" /\ r.ret = "fewer"
  BY <1>1, <1>2, <1>3, SMT DEF RelistForRoll, At, Goto, Set, Thread, Live, Standing
<1>5. /\ \A s \in Threads \ {t} : thr'[s] = thr[s]
      /\ UNCHANGED <<desired, chan, frozen, pods, vols, stranded>> /\ status'.hash = status.hash
  BY <1>2, <1>4, <1>1 DEF RelistForRoll, Goto, Set
<1>6. q.op = "rollback"
  BY <1>2, <1>4 DEF Fits, ApplyPcs, RollbackPcs, Rolls
<1>10. Claims(desired, frozen, status.hash, pods, vols, r)
  BY <1>2, <1>4, <1>6 DEF Fits, OnDesired, ApplyPcs, RollbackPcs, Rolls, FrozenKnown, KnowsFrozen, Fills,
     InHand, ExtrasGo, Trimmed, StaleGo, Renewed, Stamped, Stale, Replaced, StoppedIs, PodsGo, VolumesGo,
     Claims
<1>11. Onward(q, r)
  BY <1>2, <1>4, <1>6 DEF Onward, Overlaps, Fits
<1>12. \A n \in Ordinals : InHand(q, n) => InHand(r, n)
  BY <1>4 DEF InHand
<1>13. \A n \in Dark(frozen, pods) \cup Stale(desired, frozen, pods) : Owes(q, n) => Owes(r, n)
  BY <1>2, <1>4, <1>6 DEF Owes, Rolls, Fits
<1>14. \A n \in Missing(desired, frozen, stranded, pods) : Makes(q, n) => Makes(r, n)
  BY <1>2, <1>4, <1>6 DEF Makes, InHand, Fills, Fits
<1>15. r.pc # "decide"
  BY <1>2, <1>4 DEF Fits, Rolls
<1>16. r.pc # "idle"
  BY <1>2, <1>4 DEF Fits, Rolls
<1>17. q.pc # "idle"
  BY <1>4
<1>. QED  BY <1>1, <1>3, <1>5, <1>10, <1>11, <1>12, <1>13, <1>14, <1>15, <1>16, <1>17, Walk

\* A goroutine ends that owes nothing more.
LEMMA Ends ==
  ASSUME FleetIInv, LockIInv', NEW t \in Threads, \A s \in Threads \ {t} : thr'[s] = thr[s], thr'[t] = Idle,
         UNCHANGED <<desired, chan, frozen, pods, vols, stranded>>, status'.hash = status.hash,
         thr[t].pc \notin {"idle", "mount", "run"},
         \A n \in Dark(frozen, pods) \cup Stale(desired, frozen, pods) : ~Owes(thr[t], n),
         \A n \in Missing(desired, frozen, stranded, pods) : ~Makes(thr[t], n),
         t = Loop => IF desired = None THEN Standing(pods) = {}
                     ELSE status.hash = desired.spec /\ Extra(desired, pods) = {}
  PROVE  FleetIInv'
BY IdleClaims, Walk DEF Idle, Onward, InHand

LEMMA LeaveKeeps ==
  ASSUME FleetIInv, LockIInv', NEW t \in Threads, Leave(t) PROVE FleetIInv'
<1>1. PICK q \in Thread : q = thr[t]
  BY Parts
<1>2. /\ thr \in [Threads -> Thread] /\ Fits(desired, q) /\ ExtrasGo(desired, pods, q)
      /\ StaleGo(desired, frozen, status.hash, pods, q) /\ PodsGo(pods, q)
  BY <1>1, Parts
<1>3. q.pc = "leave" /\ thr'[t] = Idle /\ \A s \in Threads \ {t} : thr'[s] = thr[s]
  BY <1>1, <1>2 DEF Leave, At, Done, Set
<1>4. UNCHANGED <<desired, chan, frozen, pods, vols, stranded>> /\ status'.hash = status.hash
  BY DEF Leave
<1>5. \A n : ~Owes(q, n) /\ ~Makes(q, n)
  BY <1>2, <1>3 DEF Owes, Makes, Rolls, Fills, InHand, Fits
<1>6. t = Loop => q.op \in {"apply", "remove"}
  BY <1>1, <1>2, <1>3, IdleNone DEF FleetIInv, Alone
<1>7. t = Loop => IF desired = None THEN Standing(pods) = {}
                  ELSE status.hash = desired.spec /\ Extra(desired, pods) = {}
  BY <1>2, <1>3, <1>6 DEF Fits, OnDesired, PodsGo, ExtrasGo, StaleGo, Trimmed, Stamped
<1>. QED  BY <1>1, <1>3, <1>4, <1>5, <1>7, Ends

LEMMA LockKeeps ==
  ASSUME FleetIInv, LockIInv', NEW t \in Threads, Lock(t) PROVE FleetIInv'
<1>1. PICK q \in Thread : q = thr[t]
  BY Parts
<1>2. /\ thr \in [Threads -> Thread] /\ Equipped(q) /\ Fits(desired, q) /\ FrozenKnown(desired, frozen, q)
      /\ ExtrasGo(desired, pods, q) /\ StaleGo(desired, frozen, status.hash, pods, q) /\ Replaced(desired, pods, q)
      /\ StoppedIs(pods, q) /\ PodsGo(pods, q) /\ VolumesGo(vols, q)
  BY <1>1, Parts
<1>3. PICK r : r = thr'[t]
  OBVIOUS
<1>4. /\ q.pc = "lock"
      /\ r.op = q.op /\ r.m = q.m /\ r.frz = q.frz /\ r.n = q.n /\ r.back = q.back /\ r.ret = q.ret
      /\ r.pc = "roll" /\ r.todo = Standing(pods) \ q.frz /\ r.live = Standing(pods) \ q.frz
  BY <1>1, <1>2, <1>3, SMT DEF Lock, At, Goto, Set, Thread, Live, Standing
<1>5. /\ \A s \in Threads \ {t} : thr'[s] = thr[s]
      /\ UNCHANGED <<desired, chan, frozen, pods, vols, stranded>> /\ status'.hash = status.hash
  BY <1>2, <1>4, <1>1 DEF Lock, Goto, Set
<1>6. q.op \in {"apply", "rollback", "restart"}
  BY <1>2, <1>4 DEF Fits, ApplyPcs, RollbackPcs, Rolls
<1>7. desired # None /\ Extra(desired, pods) = {}
  <2>1. CASE q.op = "restart"
    <3>1. desired # None /\ t \in Https
      <4>1. t # Loop
        BY <1>1, <2>1 DEF FleetIInv, Alone
      <4>. QED  BY <1>2, <1>4, <2>1, <4>1 DEF Fits, OnDesired, Threads
    <3>2. Settled(chan, thr)
      BY <1>1, <1>4, <2>1, <3>1, AtItAlone, LoopIsThread DEF Overlaps, Settled
    <3>. QED  BY <3>1, <3>2 DEF FleetIInv, FleetTrue, DoneWhenQuiet
  <2>2. CASE q.op # "restart"
    BY <1>2, <1>4, <1>6, <2>2 DEF Fits, OnDesired, ExtrasGo, Trimmed
  <2>. QED  BY <2>1, <2>2
<1>8. q.frz = frozen /\ q.m = desired
  BY <1>2, <1>4, <1>6 DEF FrozenKnown, KnowsFrozen, Fits, OnDesired
<1>10. Claims(desired, frozen, status.hash, pods, vols, r)
  BY <1>2, <1>4, <1>6, <1>7, <1>8 DEF Fits, OnDesired, ApplyPcs, RollbackPcs, Rolls, FrozenKnown,
     KnowsFrozen, Fills, InHand, Wanted, Standing, Extra, ExtrasGo, Trimmed, StaleGo, Renewed, Stamped, Stale,
     Replaced, StoppedIs, PodsGo, VolumesGo, Claims
<1>11. Onward(q, r)
  BY <1>2, <1>4, <1>6, <1>7, <1>8 DEF Onward, Overlaps, Fits
<1>12. \A n \in Ordinals : InHand(q, n) => InHand(r, n)
  BY <1>4 DEF InHand
<1>13. \A n \in Dark(frozen, pods) \cup Stale(desired, frozen, pods) : Owes(q, n) => Owes(r, n)
  BY <1>2, <1>4, <1>6, <1>7, <1>8 DEF Owes, Rolls, Dark, Stale
<1>14. \A n \in Missing(desired, frozen, stranded, pods) : Makes(q, n) => Makes(r, n)
  BY <1>2, <1>4, <1>6, <1>7, <1>8 DEF Makes, InHand, Fills, Fits
<1>15. r.pc # "decide"
  BY <1>2, <1>4 DEF Fits, Rolls
<1>16. r.pc # "idle"
  BY <1>2, <1>4 DEF Fits, Rolls
<1>17. q.pc # "idle"
  BY <1>4
<1>. QED  BY <1>1, <1>3, <1>5, <1>10, <1>11, <1>12, <1>13, <1>14, <1>15, <1>16, <1>17, Walk

LEMMA UnlockKeeps ==
  ASSUME FleetIInv, LockIInv', NEW t \in Threads, Unlock(t) PROVE FleetIInv'
<1>1. PICK q \in Thread : q = thr[t]
  BY Parts
<1>2. /\ thr \in [Threads -> Thread] /\ Equipped(q) /\ Fits(desired, q) /\ FrozenKnown(desired, frozen, q)
      /\ ExtrasGo(desired, pods, q) /\ StaleGo(desired, frozen, status.hash, pods, q) /\ Replaced(desired, pods, q)
      /\ StoppedIs(pods, q) /\ PodsGo(pods, q) /\ VolumesGo(vols, q)
  BY <1>1, Parts
<1>3. PICK r : r = thr'[t]
  OBVIOUS
<1>4. /\ q.pc = "roll"
      /\ r.op = q.op /\ r.m = q.m /\ r.live = q.live /\ r.frz = q.frz /\ r.todo = q.todo /\ r.n = q.n /\ r.back = q.back /\ r.ret = q.ret
      /\ r.pc = q.ret /\ q.todo = {}
  BY <1>1, <1>2, <1>3, SMT DEF Unlock, At, Goto, Set, Thread
<1>5. /\ \A s \in Threads \ {t} : thr'[s] = thr[s]
      /\ UNCHANGED <<desired, chan, frozen, pods, vols, stranded>> /\ status'.hash = status.hash
  BY <1>2, <1>4, <1>1 DEF Unlock, Goto, Set
<1>6. q.op \in {"apply", "rollback", "restart"}
  BY <1>2, <1>4 DEF Fits, ApplyPcs, RollbackPcs, Rolls
<1>7. /\ r.pc \in {"stamp", "record", "fewer", "leave"}
      /\ q.op = "apply" => r.pc \in {"stamp", "record"}
      /\ q.op = "rollback" => r.pc \in {"fewer", "stamp"}
      /\ q.op = "restart" => r.pc = "leave"
  BY <1>2, <1>4, <1>6 DEF Fits, Rolls
<1>10. Claims(desired, frozen, status.hash, pods, vols, r)
  BY <1>2, <1>4, <1>6, <1>7 DEF Fits, OnDesired, ApplyPcs, RollbackPcs, Rolls, FrozenKnown, KnowsFrozen,
     Fills, InHand, ExtrasGo, Trimmed, StaleGo, Renewed, Stamped, Replaced, StoppedIs, PodsGo, VolumesGo,
     Claims
<1>11. Onward(q, r)
  BY <1>2, <1>4, <1>6, <1>7 DEF Onward, Overlaps, Fits
<1>12. \A n \in Ordinals : InHand(q, n) => InHand(r, n)
  BY <1>4 DEF InHand
<1>13. \A n \in Dark(frozen, pods) \cup Stale(desired, frozen, pods) : Owes(q, n) => Owes(r, n)
  BY <1>2, <1>4, <1>6, <1>7 DEF Owes, Rolls, Fits
<1>14. \A n \in Missing(desired, frozen, stranded, pods) : Makes(q, n) => Makes(r, n)
  BY <1>2, <1>4, <1>6, <1>7 DEF Makes, InHand, Fills, Fits
<1>15. r.pc # "decide"
  BY <1>2, <1>4 DEF Fits, Rolls
<1>16. r.pc # "idle"
  BY <1>2, <1>4 DEF Fits, Rolls
<1>17. q.pc # "idle"
  BY <1>4
<1>. QED  BY <1>1, <1>3, <1>5, <1>10, <1>11, <1>12, <1>13, <1>14, <1>15, <1>16, <1>17, Walk

LEMMA RegetKeeps ==
  ASSUME FleetIInv, LockIInv', NEW t \in Threads, Reget(t) PROVE FleetIInv'
<1>1. PICK q \in Thread : q = thr[t]
  BY Parts
<1>2. /\ thr \in [Threads -> Thread] /\ Equipped(q) /\ Fits(desired, q) /\ FrozenKnown(desired, frozen, q)
      /\ ExtrasGo(desired, pods, q) /\ StaleGo(desired, frozen, status.hash, pods, q) /\ Replaced(desired, pods, q)
      /\ StoppedIs(pods, q) /\ PodsGo(pods, q) /\ VolumesGo(vols, q)
  BY <1>1, Parts
<1>a. desired # None
  BY <1>1, <1>2 DEF Reget, At, Fits, ApplyPcs, RollbackPcs, Rolls
<1>3. PICK r : r = thr'[t]
  OBVIOUS
<1>4. /\ q.pc = "reget"
      
      /\ r.pc = "list" /\ r.op = "apply" /\ r.m = desired /\ r.n = None
  BY <1>1, <1>2, <1>3, <1>a, SMT DEF Reget, At, Goto, Set, Thread, Idle
<1>5. /\ \A s \in Threads \ {t} : thr'[s] = thr[s]
      /\ UNCHANGED <<desired, chan, frozen, pods, vols, stranded>> /\ status'.hash = status.hash
  BY <1>2, <1>4, <1>1 DEF Reget, Goto, Set
<1>6. q.op = "rebootstrap"
  BY <1>2, <1>4 DEF Fits, ApplyPcs, RollbackPcs, Rolls
<1>10. Claims(desired, frozen, status.hash, pods, vols, r)
  BY <1>2, <1>4, <1>6 DEF Fits, OnDesired, ApplyPcs, RollbackPcs, Rolls, FrozenKnown, KnowsFrozen, Fills,
     InHand, ExtrasGo, Trimmed, StaleGo, Renewed, Stamped, Replaced, StoppedIs, PodsGo, VolumesGo, Claims
<1>11. Onward(q, r)
  BY <1>2, <1>4, <1>6 DEF Onward, Overlaps, Fits
<1>12. \A n \in Ordinals : InHand(q, n) => InHand(r, n)
  BY <1>4 DEF InHand
<1>13. \A n \in Dark(frozen, pods) \cup Stale(desired, frozen, pods) : Owes(q, n) => Owes(r, n)
  BY <1>2, <1>4, <1>6 DEF Owes, Rolls, Fits
<1>14. \A n \in Missing(desired, frozen, stranded, pods) : Makes(q, n) => Makes(r, n)
  BY <1>2, <1>4, <1>6 DEF Makes, InHand, Fills, Fits
<1>15. r.pc # "decide"
  BY <1>2, <1>4 DEF Fits, Rolls
<1>16. r.pc # "idle"
  BY <1>2, <1>4 DEF Fits, Rolls
<1>17. q.pc # "idle"
  BY <1>4
<1>. QED  BY <1>1, <1>3, <1>5, <1>10, <1>11, <1>12, <1>13, <1>14, <1>15, <1>16, <1>17, Walk

LEMMA RestartGetOnKeeps ==
  ASSUME FleetIInv, LockIInv', NEW t \in Threads, RestartGet(t), desired # None PROVE FleetIInv'
<1>1. PICK q \in Thread : q = thr[t]
  BY Parts
<1>2. /\ thr \in [Threads -> Thread] /\ Equipped(q) /\ Fits(desired, q) /\ FrozenKnown(desired, frozen, q)
      /\ ExtrasGo(desired, pods, q) /\ StaleGo(desired, frozen, status.hash, pods, q) /\ Replaced(desired, pods, q)
      /\ StoppedIs(pods, q) /\ PodsGo(pods, q) /\ VolumesGo(vols, q)
  BY <1>1, Parts
<1>3. PICK r : r = thr'[t]
  OBVIOUS
<1>4. /\ q.pc = "get"
      /\ r.op = q.op /\ r.live = q.live /\ r.frz = q.frz /\ r.todo = q.todo /\ r.n = q.n /\ r.back = q.back /\ r.ret = q.ret
      /\ r.pc = "look" /\ r.m = desired
  BY <1>1, <1>2, <1>3, SMT DEF RestartGet, At, Goto, Set, Thread
<1>5. /\ \A s \in Threads \ {t} : thr'[s] = thr[s]
      /\ UNCHANGED <<desired, chan, frozen, pods, vols, stranded>> /\ status'.hash = status.hash
  BY <1>2, <1>4, <1>1 DEF RestartGet, Goto, Set
<1>6. q.op = "restart"
  BY <1>2, <1>4 DEF Fits, ApplyPcs, RollbackPcs, Rolls
<1>10. Claims(desired, frozen, status.hash, pods, vols, r)
  BY <1>2, <1>4, <1>6 DEF Fits, OnDesired, ApplyPcs, RollbackPcs, Rolls, FrozenKnown, KnowsFrozen, Fills,
     InHand, ExtrasGo, Trimmed, StaleGo, Renewed, Stamped, Replaced, StoppedIs, PodsGo, VolumesGo, Claims
<1>11. Onward(q, r)
  BY <1>2, <1>4, <1>6 DEF Onward, Overlaps, Fits
<1>12. \A n \in Ordinals : InHand(q, n) => InHand(r, n)
  BY <1>4 DEF InHand
<1>13. \A n \in Dark(frozen, pods) \cup Stale(desired, frozen, pods) : Owes(q, n) => Owes(r, n)
  BY <1>2, <1>4, <1>6 DEF Owes, Rolls, Fits
<1>14. \A n \in Missing(desired, frozen, stranded, pods) : Makes(q, n) => Makes(r, n)
  BY <1>2, <1>4, <1>6 DEF Makes, InHand, Fills, Fits
<1>15. r.pc # "decide"
  BY <1>2, <1>4 DEF Fits, Rolls
<1>16. r.pc # "idle"
  BY <1>2, <1>4 DEF Fits, Rolls
<1>17. q.pc # "idle"
  BY <1>4
<1>. QED  BY <1>1, <1>3, <1>5, <1>10, <1>11, <1>12, <1>13, <1>14, <1>15, <1>16, <1>17, Walk

LEMMA RestartLookOnKeeps ==
  ASSUME FleetIInv, LockIInv', NEW t \in Threads, RestartLook(t), Live # {} PROVE FleetIInv'
<1>1. PICK q \in Thread : q = thr[t]
  BY Parts
<1>2. /\ thr \in [Threads -> Thread] /\ Equipped(q) /\ Fits(desired, q) /\ FrozenKnown(desired, frozen, q)
      /\ ExtrasGo(desired, pods, q) /\ StaleGo(desired, frozen, status.hash, pods, q) /\ Replaced(desired, pods, q)
      /\ StoppedIs(pods, q) /\ PodsGo(pods, q) /\ VolumesGo(vols, q)
  BY <1>1, Parts
<1>3. PICK r : r = thr'[t]
  OBVIOUS
<1>4. /\ q.pc = "look"
      /\ r.op = q.op /\ r.m = q.m /\ r.live = q.live /\ r.todo = q.todo /\ r.n = q.n /\ r.back = q.back /\ r.ret = q.ret
      /\ r.pc = "lock" /\ r.frz = frozen
  BY <1>1, <1>2, <1>3, SMT DEF RestartLook, At, Goto, Set, Thread
<1>5. /\ \A s \in Threads \ {t} : thr'[s] = thr[s]
      /\ UNCHANGED <<desired, chan, frozen, pods, vols, stranded>> /\ status'.hash = status.hash
  BY <1>2, <1>4, <1>1 DEF RestartLook, Goto, Set
<1>6. q.op = "restart"
  BY <1>2, <1>4 DEF Fits, ApplyPcs, RollbackPcs, Rolls
<1>10. Claims(desired, frozen, status.hash, pods, vols, r)
  BY <1>2, <1>4, <1>6 DEF Fits, OnDesired, ApplyPcs, RollbackPcs, Rolls, FrozenKnown, KnowsFrozen, Fills,
     InHand, ExtrasGo, Trimmed, StaleGo, Renewed, Stamped, Replaced, StoppedIs, PodsGo, VolumesGo, Claims
<1>11. Onward(q, r)
  BY <1>2, <1>4, <1>6 DEF Onward, Overlaps, Fits
<1>12. \A n \in Ordinals : InHand(q, n) => InHand(r, n)
  BY <1>4 DEF InHand
<1>13. \A n \in Dark(frozen, pods) \cup Stale(desired, frozen, pods) : Owes(q, n) => Owes(r, n)
  BY <1>2, <1>4, <1>6 DEF Owes, Rolls, Fits
<1>14. \A n \in Missing(desired, frozen, stranded, pods) : Makes(q, n) => Makes(r, n)
  BY <1>2, <1>4, <1>6 DEF Makes, InHand, Fills, Fits
<1>15. r.pc # "decide"
  BY <1>2, <1>4 DEF Fits, Rolls
<1>16. r.pc # "idle"
  BY <1>2, <1>4 DEF Fits, Rolls
<1>17. q.pc # "idle"
  BY <1>4
<1>. QED  BY <1>1, <1>3, <1>5, <1>10, <1>11, <1>12, <1>13, <1>14, <1>15, <1>16, <1>17, Walk

LEMMA FetchKeeps ==
  ASSUME FleetIInv, LockIInv', NEW t \in Threads, Fetch(t) PROVE FleetIInv'
<1>1. PICK q \in Thread : q = thr[t]
  BY Parts
<1>2. /\ thr \in [Threads -> Thread] /\ Equipped(q) /\ Fits(desired, q) /\ FrozenKnown(desired, frozen, q)
      /\ ExtrasGo(desired, pods, q) /\ StaleGo(desired, frozen, status.hash, pods, q) /\ Replaced(desired, pods, q)
      /\ StoppedIs(pods, q) /\ PodsGo(pods, q) /\ VolumesGo(vols, q)
  BY <1>1, Parts
<1>3. PICK r : r = thr'[t]
  OBVIOUS
<1>4. /\ q.pc = "fetch"
      /\ r.op = q.op /\ r.live = q.live /\ r.frz = q.frz /\ r.todo = q.todo /\ r.n = q.n /\ r.back = q.back /\ r.ret = q.ret
      /\ r.pc = "put" /\ r.m = desired
  BY <1>1, <1>2, <1>3, SMT DEF Fetch, At, Goto, Set, Thread, Fits, OnDesired
<1>5. /\ \A s \in Threads \ {t} : thr'[s] = thr[s]
      /\ UNCHANGED <<desired, chan, frozen, pods, vols, stranded>> /\ status'.hash = status.hash
  BY <1>2, <1>4, <1>1 DEF Fetch, Goto, Set
<1>6. q.op = "start"
  BY <1>2, <1>4 DEF Fits, ApplyPcs, RollbackPcs, Rolls
<1>10. Claims(desired, frozen, status.hash, pods, vols, r)
  BY <1>2, <1>4, <1>6 DEF Fits, OnDesired, ApplyPcs, RollbackPcs, Rolls, FrozenKnown, KnowsFrozen, Fills,
     InHand, ExtrasGo, Trimmed, StaleGo, Renewed, Stamped, Replaced, StoppedIs, PodsGo, VolumesGo, Claims
<1>11. Onward(q, r)
  BY <1>2, <1>4, <1>6 DEF Onward, Overlaps, Fits
<1>12. \A n \in Ordinals : InHand(q, n) => InHand(r, n)
  BY <1>4 DEF InHand
<1>13. \A n \in Dark(frozen, pods) \cup Stale(desired, frozen, pods) : Owes(q, n) => Owes(r, n)
  BY <1>2, <1>4, <1>6 DEF Owes, Rolls, Fits
<1>14. \A n \in Missing(desired, frozen, stranded, pods) : Makes(q, n) => Makes(r, n)
  BY <1>2, <1>4, <1>6 DEF Makes, InHand, Fills, Fits
<1>15. r.pc # "decide"
  BY <1>2, <1>4 DEF Fits, Rolls
<1>16. r.pc # "idle"
  BY <1>2, <1>4 DEF Fits, Rolls
<1>17. q.pc # "idle"
  BY <1>4
<1>. QED  BY <1>1, <1>3, <1>5, <1>10, <1>11, <1>12, <1>13, <1>14, <1>15, <1>16, <1>17, Walk

LEMMA TrimOnKeeps ==
  ASSUME FleetIInv, LockIInv', NEW t \in Threads, Trim(t), thr[t].todo = {} PROVE FleetIInv'
<1>1. PICK q \in Thread : q = thr[t]
  BY Parts
<1>2. /\ thr \in [Threads -> Thread] /\ Equipped(q) /\ Fits(desired, q) /\ FrozenKnown(desired, frozen, q)
      /\ ExtrasGo(desired, pods, q) /\ StaleGo(desired, frozen, status.hash, pods, q) /\ Replaced(desired, pods, q)
      /\ StoppedIs(pods, q) /\ PodsGo(pods, q) /\ VolumesGo(vols, q)
  BY <1>1, Parts
<1>3. PICK r : r = thr'[t]
  OBVIOUS
<1>4. /\ q.pc = "trim"
      /\ r.op = q.op /\ r.m = q.m /\ r.live = q.live /\ r.frz = q.frz /\ r.todo = q.todo /\ r.n = q.n /\ r.back = q.back /\ r.ret = q.ret
      /\ r.pc = (IF q.op = "rollback" THEN "relist" ELSE "drift") /\ q.todo = {}
  BY <1>1, <1>2, <1>3, SMT DEF Trim, At, Goto, Set, Thread, RemoveHighest
<1>5. /\ \A s \in Threads \ {t} : thr'[s] = thr[s]
      /\ UNCHANGED <<desired, chan, frozen, pods, vols, stranded>> /\ status'.hash = status.hash
  BY <1>2, <1>4, <1>1 DEF Trim, Goto, Set, RemoveHighest
<1>6. q.op \in {"apply", "rollback"}
  BY <1>2, <1>4 DEF Fits, ApplyPcs, RollbackPcs, Rolls
<1>10. Claims(desired, frozen, status.hash, pods, vols, r)
  BY <1>2, <1>4, <1>6 DEF Fits, OnDesired, ApplyPcs, RollbackPcs, Rolls, FrozenKnown, KnowsFrozen, Fills,
     InHand, ExtrasGo, Trimmed, StaleGo, Renewed, Stamped, Replaced, StoppedIs, PodsGo, VolumesGo, Claims
<1>11. Onward(q, r)
  BY <1>2, <1>4, <1>6 DEF Onward, Overlaps, Fits
<1>12. \A n \in Ordinals : InHand(q, n) => InHand(r, n)
  BY <1>4 DEF InHand
<1>13. \A n \in Dark(frozen, pods) \cup Stale(desired, frozen, pods) : Owes(q, n) => Owes(r, n)
  BY <1>2, <1>4, <1>6 DEF Owes, Rolls, Fits
<1>14. \A n \in Missing(desired, frozen, stranded, pods) : Makes(q, n) => Makes(r, n)
  BY <1>2, <1>4, <1>6 DEF Makes, InHand, Fills, Fits
<1>15. r.pc # "decide"
  BY <1>2, <1>4 DEF Fits, Rolls
<1>16. r.pc # "idle"
  BY <1>2, <1>4 DEF Fits, Rolls
<1>17. q.pc # "idle"
  BY <1>4
<1>. QED  BY <1>1, <1>3, <1>5, <1>10, <1>11, <1>12, <1>13, <1>14, <1>15, <1>16, <1>17, Walk

LEMMA PrunePodsOnKeeps ==
  ASSUME FleetIInv, LockIInv', NEW t \in Threads, PrunePods(t), thr[t].todo = {} PROVE FleetIInv'
<1>1. PICK q \in Thread : q = thr[t]
  BY Parts
<1>2. /\ thr \in [Threads -> Thread] /\ Equipped(q) /\ Fits(desired, q) /\ FrozenKnown(desired, frozen, q)
      /\ ExtrasGo(desired, pods, q) /\ StaleGo(desired, frozen, status.hash, pods, q) /\ Replaced(desired, pods, q)
      /\ StoppedIs(pods, q) /\ PodsGo(pods, q) /\ VolumesGo(vols, q)
  BY <1>1, Parts
<1>3. PICK r : r = thr'[t]
  OBVIOUS
<1>4. /\ q.pc = "prunePods"
      /\ r.op = q.op /\ r.m = q.m /\ r.live = q.live /\ r.frz = q.frz /\ r.todo = q.todo /\ r.n = q.n /\ r.back = q.back /\ r.ret = q.ret
      /\ r.pc = "listVols" /\ q.todo = {}
  BY <1>1, <1>2, <1>3, SMT DEF PrunePods, At, Goto, Set, Thread
<1>5. /\ \A s \in Threads \ {t} : thr'[s] = thr[s]
      /\ UNCHANGED <<desired, chan, frozen, pods, vols, stranded>> /\ status'.hash = status.hash
  BY <1>2, <1>4, <1>1 DEF PrunePods, Goto, Set
<1>6. q.op = "prune"
  BY <1>2, <1>4 DEF Fits, ApplyPcs, RollbackPcs, Rolls
<1>10. Claims(desired, frozen, status.hash, pods, vols, r)
  BY <1>2, <1>4, <1>6 DEF Fits, OnDesired, ApplyPcs, RollbackPcs, Rolls, FrozenKnown, KnowsFrozen, Fills,
     InHand, ExtrasGo, Trimmed, StaleGo, Renewed, Stamped, Replaced, StoppedIs, PodsGo, VolumesGo, Claims
<1>11. Onward(q, r)
  BY <1>2, <1>4, <1>6 DEF Onward, Overlaps, Fits
<1>12. \A n \in Ordinals : InHand(q, n) => InHand(r, n)
  BY <1>4 DEF InHand
<1>13. \A n \in Dark(frozen, pods) \cup Stale(desired, frozen, pods) : Owes(q, n) => Owes(r, n)
  BY <1>2, <1>4, <1>6 DEF Owes, Rolls, Fits
<1>14. \A n \in Missing(desired, frozen, stranded, pods) : Makes(q, n) => Makes(r, n)
  BY <1>2, <1>4, <1>6 DEF Makes, InHand, Fills, Fits
<1>15. r.pc # "decide"
  BY <1>2, <1>4 DEF Fits, Rolls
<1>16. r.pc # "idle"
  BY <1>2, <1>4 DEF Fits, Rolls
<1>17. q.pc # "idle"
  BY <1>4
<1>. QED  BY <1>1, <1>3, <1>5, <1>10, <1>11, <1>12, <1>13, <1>14, <1>15, <1>16, <1>17, Walk

LEMMA DropVolsOnKeeps ==
  ASSUME FleetIInv, LockIInv', NEW t \in Threads, DropVols(t), thr[t].todo = {} PROVE FleetIInv'
<1>1. PICK q \in Thread : q = thr[t]
  BY Parts
<1>2. /\ thr \in [Threads -> Thread] /\ Equipped(q) /\ Fits(desired, q) /\ FrozenKnown(desired, frozen, q)
      /\ ExtrasGo(desired, pods, q) /\ StaleGo(desired, frozen, status.hash, pods, q) /\ Replaced(desired, pods, q)
      /\ StoppedIs(pods, q) /\ PodsGo(pods, q) /\ VolumesGo(vols, q)
  BY <1>1, Parts
<1>3. PICK r : r = thr'[t]
  OBVIOUS
<1>4. /\ q.pc = "dropVols"
      /\ r.op = q.op /\ r.m = q.m /\ r.live = q.live /\ r.frz = q.frz /\ r.todo = q.todo /\ r.n = q.n /\ r.back = q.back /\ r.ret = q.ret
      /\ r.pc = (IF q.op = "prune" THEN "leave" ELSE "reget") /\ q.todo = {}
  BY <1>1, <1>2, <1>3, SMT DEF DropVols, At, Goto, Set, Thread
<1>5. /\ \A s \in Threads \ {t} : thr'[s] = thr[s]
      /\ UNCHANGED <<desired, chan, frozen, pods, vols, stranded>> /\ status'.hash = status.hash
  BY <1>2, <1>4, <1>1 DEF DropVols, Goto, Set
<1>6. q.op \in {"prune", "rebootstrap"}
  BY <1>2, <1>4 DEF Fits, ApplyPcs, RollbackPcs, Rolls
<1>10. Claims(desired, frozen, status.hash, pods, vols, r)
  BY <1>2, <1>4, <1>6 DEF Fits, OnDesired, ApplyPcs, RollbackPcs, Rolls, FrozenKnown, KnowsFrozen, Fills,
     InHand, ExtrasGo, Trimmed, StaleGo, Renewed, Stamped, Replaced, StoppedIs, PodsGo, VolumesGo, Claims
<1>11. Onward(q, r)
  BY <1>2, <1>4, <1>6 DEF Onward, Overlaps, Fits
<1>12. \A n \in Ordinals : InHand(q, n) => InHand(r, n)
  BY <1>4 DEF InHand
<1>13. \A n \in Dark(frozen, pods) \cup Stale(desired, frozen, pods) : Owes(q, n) => Owes(r, n)
  BY <1>2, <1>4, <1>6 DEF Owes, Rolls, Fits
<1>14. \A n \in Missing(desired, frozen, stranded, pods) : Makes(q, n) => Makes(r, n)
  BY <1>2, <1>4, <1>6 DEF Makes, InHand, Fills, Fits
<1>15. r.pc # "decide"
  BY <1>2, <1>4 DEF Fits, Rolls
<1>16. r.pc # "idle"
  BY <1>2, <1>4 DEF Fits, Rolls
<1>17. q.pc # "idle"
  BY <1>4
<1>. QED  BY <1>1, <1>3, <1>5, <1>10, <1>11, <1>12, <1>13, <1>14, <1>15, <1>16, <1>17, Walk

LEMMA RestartGetEndKeeps ==
  ASSUME FleetIInv, LockIInv', NEW t \in Threads, RestartGet(t), desired = None PROVE FleetIInv'
<1>1. PICK q \in Thread : q = thr[t]
  BY Parts
<1>2. thr \in [Threads -> Thread] /\ Fits(desired, q)
  BY <1>1, Parts
<1>4. q.pc = "get" /\ thr'[t] = Idle /\ \A s \in Threads \ {t} : thr'[s] = thr[s]
  BY <1>1, <1>2 DEF RestartGet, At, Set
<1>5. UNCHANGED <<desired, chan, frozen, pods, vols, stranded>> /\ status'.hash = status.hash
  BY DEF RestartGet
<1>6. q.op = "restart"
  BY <1>2, <1>4 DEF Fits, ApplyPcs, RollbackPcs, Rolls
<1>7. t \in Https
  <2>1. t # Loop
    BY <1>1, <1>6 DEF FleetIInv, Alone
  <2>. QED  BY <2>1 DEF Threads
<1>8. Settled(chan, thr)
  BY <1>1, <1>4, <1>6, <1>7, AtItAlone, LoopIsThread DEF Overlaps, Settled
<1>9. desired # None => status.hash = desired.spec /\ Extra(desired, pods) = {}
  BY <1>8 DEF FleetIInv, FleetTrue, DoneWhenQuiet
<1>10. Standing(pods) = {}
  BY <1>8 DEF FleetIInv, FleetTrue, GoneWhenDeleted, Live, Standing
<1>11. Dark(frozen, pods) = {} /\ Stale(desired, frozen, pods) = {}
  BY <1>10 DEF Dark, Stale
<1>12. \A n : ~Makes(q, n)
  BY <1>4, <1>6 DEF Makes, Fills, InHand
<1>. QED  BY <1>1, <1>4, <1>5, <1>7, <1>11, <1>12, LoopIsThread, Ends

LEMMA RestartGetKeeps ==
  ASSUME FleetIInv, LockIInv', NEW t \in Threads, RestartGet(t) PROVE FleetIInv'
  BY RestartGetOnKeeps, RestartGetEndKeeps

LEMMA RestartLookEndKeeps ==
  ASSUME FleetIInv, LockIInv', NEW t \in Threads, RestartLook(t), Live = {} PROVE FleetIInv'
<1>1. PICK q \in Thread : q = thr[t]
  BY Parts
<1>2. thr \in [Threads -> Thread] /\ Fits(desired, q)
  BY <1>1, Parts
<1>4. q.pc = "look" /\ thr'[t] = Idle /\ \A s \in Threads \ {t} : thr'[s] = thr[s]
  BY <1>1, <1>2 DEF RestartLook, At, Set
<1>5. UNCHANGED <<desired, chan, frozen, pods, vols, stranded>> /\ status'.hash = status.hash
  BY DEF RestartLook
<1>6. q.op = "restart"
  BY <1>2, <1>4 DEF Fits, ApplyPcs, RollbackPcs, Rolls
<1>7. t \in Https
  <2>1. t # Loop
    BY <1>1, <1>6 DEF FleetIInv, Alone
  <2>. QED  BY <2>1 DEF Threads
<1>8. Settled(chan, thr)
  BY <1>1, <1>4, <1>6, <1>7, AtItAlone, LoopIsThread DEF Overlaps, Settled
<1>9. desired # None => status.hash = desired.spec /\ Extra(desired, pods) = {}
  BY <1>8 DEF FleetIInv, FleetTrue, DoneWhenQuiet
<1>10. Standing(pods) = {}
  BY <1>8 DEF FleetIInv, FleetTrue, GoneWhenDeleted, Live, Standing
<1>11. Dark(frozen, pods) = {} /\ Stale(desired, frozen, pods) = {}
  BY <1>10 DEF Dark, Stale
<1>12. \A n : ~Makes(q, n)
  BY <1>4, <1>6 DEF Makes, Fills, InHand
<1>. QED  BY <1>1, <1>4, <1>5, <1>7, <1>11, <1>12, LoopIsThread, Ends

LEMMA RestartLookKeeps ==
  ASSUME FleetIInv, LockIInv', NEW t \in Threads, RestartLook(t) PROVE FleetIInv'
  BY RestartLookOnKeeps, RestartLookEndKeeps

-----------------------------------------------------------------------------
(* Steps that change what docker or etcd hold.                                *)

\* A goroutine at work changes pods, volumes, the frozen set or the blob.
LEMMA Change ==
  ASSUME FleetIInv, LockIInv', NEW t \in Threads, \A s \in Threads \ {t} : thr'[s] = thr[s],
         UNCHANGED <<desired, chan>>, thr[t].pc # "idle", thr'[t].pc \notin {"idle", "decide"},
         Onward(thr[t], thr'[t]),
         Claims(desired, frozen', status'.hash, pods', vols', thr'[t]),
         \A s \in Threads \ {t} : thr[s].pc # "idle" => Claims(desired, frozen', status'.hash, pods', vols', thr[s]),
         FrozenDown(frozen', pods'), NoneBare(vols'),
         \A n \in Dark(frozen', pods') :
           \/ n \in Dark(frozen, pods) /\ (Owes(thr[t], n) => Owes(thr'[t], n))
           \/ t \in Https /\ Owes(thr'[t], n),
         desired # None /\ status'.hash \in {None, desired.spec} =>
           \A n \in Stale(desired, frozen', pods') :
             \/ status'.hash = status.hash /\ n \in Stale(desired, frozen, pods) /\ (Owes(thr[t], n) => Owes(thr'[t], n))
             \/ t \in Https /\ Owes(thr'[t], n),
         \A n \in Missing(desired, frozen', stranded', pods') :
           \/ n \in Missing(desired, frozen, stranded, pods) /\ (Makes(thr[t], n) => Makes(thr'[t], n))
           \/ Makes(thr'[t], n)
           \/ \E s \in Threads \ {t} : Makes(thr[s], n),
         \A s \in Threads \ {t} : thr[s].pc = "decide" =>
           \A n \in thr[s].live : Wanted(desired, frozen', n) /\ pods'[n] = None =>
             InHand(thr'[t], n) \/ \E u \in Threads \ {t} : InHand(thr[u], n),
         Settled(chan, thr) =>
           IF desired = None THEN Standing(pods') = {}
           ELSE status'.hash = desired.spec /\ Extra(desired, pods') = {}
  PROVE  FleetIInv'
<1>0. /\ Alone(desired, chan, thr)
      /\ \A s \in Threads : Claims(desired, frozen, status.hash, pods, vols, thr[s])
      /\ FleetTrue(desired, chan, frozen, stranded, status.hash, pods, vols, thr)
  BY DEF FleetIInv, AllClaim
<1>1. Alone(desired, chan, thr')
  BY <1>0, AloneStays
<1>2. AllClaim(desired, frozen', status'.hash, pods', vols', thr')
  <2>. SUFFICES ASSUME NEW s \in Threads PROVE Claims(desired, frozen', status'.hash, pods', vols', thr'[s])
    BY DEF AllClaim
  <2>1. CASE s # t /\ thr[s].pc = "idle"
    BY <1>0, <2>1, IdleNone, IdleClaims DEF Claims
  <2>. QED  BY <2>1
<1>4. DarkOwed(frozen', pods', thr')
  <2>. SUFFICES ASSUME NEW n \in Dark(frozen', pods') PROVE \E s \in Https : Owes(thr'[s], n)
    BY DEF DarkOwed
  <2>1. CASE t \in Https /\ Owes(thr'[t], n)
    BY <2>1
  <2>2. CASE n \in Dark(frozen, pods) /\ (Owes(thr[t], n) => Owes(thr'[t], n))
    BY <1>0, <2>2, LoopIsThread DEF FleetTrue, DarkOwed
  <2>. QED  BY <2>1, <2>2
<1>5. StaleOwed(desired, frozen', status'.hash, pods', thr')
  <2>. SUFFICES ASSUME desired # None, status'.hash \in {None, desired.spec},
                       NEW n \in Stale(desired, frozen', pods')
                PROVE  \E s \in Https : Owes(thr'[s], n)
    BY DEF StaleOwed
  <2>1. CASE t \in Https /\ Owes(thr'[t], n)
    BY <2>1
  <2>2. CASE status'.hash = status.hash /\ n \in Stale(desired, frozen, pods) /\ (Owes(thr[t], n) => Owes(thr'[t], n))
    BY <1>0, <2>2, LoopIsThread DEF FleetTrue, StaleOwed
  <2>. QED  BY <2>1, <2>2
<1>6. MissingMade(desired, chan, frozen', stranded', pods', thr')
  <2>. SUFFICES ASSUME chan = <<>>, NEW n \in Missing(desired, frozen', stranded', pods')
                PROVE  \E s \in Threads : Makes(thr'[s], n)
    BY DEF MissingMade
  <2>1. CASE Makes(thr'[t], n)
    BY <2>1
  <2>2. CASE \E s \in Threads \ {t} : Makes(thr[s], n)
    BY <2>2
  <2>3. CASE n \in Missing(desired, frozen, stranded, pods) /\ (Makes(thr[t], n) => Makes(thr'[t], n))
    BY <1>0, <2>3 DEF FleetTrue, MissingMade
  <2>. QED  BY <2>1, <2>2, <2>3
<1>7. TakenBack(desired, frozen', pods', thr')
  BY DEF TakenBack
<1>8. GoneWhenDeleted(desired, chan, pods', thr') /\ DoneWhenQuiet(desired, chan, status'.hash, pods', thr')
  BY LoopIsThread DEF Settled, GoneWhenDeleted, DoneWhenQuiet
<1>9. FleetTrue(desired, chan, frozen', stranded', status'.hash, pods', vols', thr')
  BY <1>4, <1>5, <1>6, <1>7, <1>8 DEF FleetTrue
<1>. QED  BY <1>1, <1>2, <1>9 DEF FleetIInv

\* What a request does that nothing runs beside.
LEMMA OnlyOne ==
  ASSUME LockIInv', NEW t \in Threads, \A s \in Threads \ {t} : thr'[s].op = "none" /\ thr'[s].pc = "idle",
         thr'[t].pc # "decide", t = Loop \/ thr'[t].op = "remove" => thr'[t].op = "none",
         chan' = <<>> \/ (chan' = <<desired'>> /\ (thr'[t].pc = "idle" \/ Overlaps(thr'[t]))),
         Claims(desired', frozen', status'.hash, pods', vols', thr'[t]),
         FrozenDown(frozen', pods'), NoneBare(vols'),
         \A n \in Dark(frozen', pods') : t \in Https /\ Owes(thr'[t], n),
         desired' # None /\ status'.hash \in {None, desired'.spec} =>
           \A n \in Stale(desired', frozen', pods') : t \in Https /\ Owes(thr'[t], n),
         chan' = <<>> => \A n \in Missing(desired', frozen', stranded', pods') : Makes(thr'[t], n),
         chan' = <<>> => IF desired' = None THEN Standing(pods') = {}
                         ELSE status'.hash = desired'.spec /\ Extra(desired', pods') = {}
  PROVE  FleetIInv'
<1>0. thr'[Loop].op = "none" /\ thr'[Loop].pc = "idle"
  <2>1. CASE t = Loop
    BY <2>1, IdleNone DEF Claims
  <2>2. CASE t # Loop
    BY <2>2, LoopIsThread
  <2>. QED  BY <2>1, <2>2
<1>1. Alone(desired', chan', thr')
  <2>1. \A s \in Https : thr'[s].op # "remove" /\ (~Settled(chan', thr') => thr'[s].pc = "idle" \/ Overlaps(thr'[s]))
    BY <1>0, LoopIsThread DEF Settled
  <2>2. \A s, u \in Https : thr'[s].pc = "idle" \/ thr'[u].pc = "idle" \/ s = u
    BY LoopIsThread
  <2>. QED  BY <1>0, <2>1, <2>2 DEF Alone
<1>2. AllClaim(desired', frozen', status'.hash, pods', vols', thr')
  BY IdleClaims DEF AllClaim
<1>3. DarkOwed(frozen', pods', thr') /\ StaleOwed(desired', frozen', status'.hash, pods', thr')
      /\ MissingMade(desired', chan', frozen', stranded', pods', thr')
  BY DEF DarkOwed, StaleOwed, MissingMade
<1>4. TakenBack(desired', frozen', pods', thr')
  BY DEF TakenBack
<1>5. GoneWhenDeleted(desired', chan', pods', thr') /\ DoneWhenQuiet(desired', chan', status'.hash, pods', thr')
  BY DEF GoneWhenDeleted, DoneWhenQuiet, Settled
<1>6. FleetTrue(desired', chan', frozen', stranded', status'.hash, pods', vols', thr')
  BY <1>3, <1>4, <1>5 DEF FleetTrue
<1>. QED  BY <1>1, <1>2, <1>6 DEF FleetIInv

\* A pod goes: what others claim of pods still holds, unless they roll it or are
\* about to freeze or start it.
LEMMA Removal ==
  ASSUME FleetIInv, LockIInv', NEW t \in Threads, NEW n \in Ordinals, \A s \in Threads \ {t} : thr'[s] = thr[s],
         UNCHANGED <<desired, chan, frozen, vols, stranded>>, status'.hash = status.hash,
         pods' = [pods EXCEPT ![n] = None],
         thr[t].pc \notin {"idle", "mount", "run"}, thr'[t].pc \notin {"idle", "decide"}, Onward(thr[t], thr'[t]),
         Claims(desired, frozen, status.hash, pods', vols, thr'[t]),
         \A s \in Threads \ {t} : thr[s].pc # "idle" =>
           /\ Rolls(thr[s]) => ~(n < desired.want)
           /\ thr[s].op = "stop" \/ thr[s].op = "start" => thr[s].pc = "leave",
         \A k \in Ordinals \ {n} : Owes(thr[t], k) => Owes(thr'[t], k),
         \A k \in Ordinals \ {n} : Makes(thr[t], k) => Makes(thr'[t], k),
         Wanted(desired, frozen, n) =>
           InHand(thr'[t], n) \/ (Makes(thr'[t], n) /\ \A s \in Threads \ {t} : thr[s].pc = "idle")
  PROVE  FleetIInv'
<1>0. /\ pods \in [Ordinals -> Pod \cup {None}]
      /\ FleetTrue(desired, chan, frozen, stranded, status.hash, pods, vols, thr)
  BY DEF FleetIInv, LockIInv, TypeOK
<1>1. pods'[n] = None /\ \A k \in Ordinals \ {n} : pods'[k] = pods[k]
  BY <1>0
<1>2. Standing(pods') = Standing(pods) \ {n}
  BY <1>1 DEF Standing
<1>3. /\ Stale(desired, frozen, pods') = Stale(desired, frozen, pods) \ {n}
      /\ Extra(desired, pods') = Extra(desired, pods) \ {n}
      /\ Dark(frozen, pods') = Dark(frozen, pods) \ {n}
  BY <1>1, <1>2 DEF Stale, Extra, Dark, Standing
<1>4. \A k \in Missing(desired, frozen, stranded, pods') :
        k \in Ordinals /\ Wanted(desired, frozen, k) /\ (k # n => k \in Missing(desired, frozen, stranded, pods))
  BY <1>2 DEF Missing
<1>5. ASSUME NEW s \in Threads \ {t}, thr[s].pc # "idle"
      PROVE  Claims(desired, frozen, status.hash, pods', vols, thr[s])
  <2>1. PICK q \in Thread : q = thr[s]
    BY <1>5, Parts
  <2>2. /\ Fits(desired, q) /\ FrozenKnown(desired, frozen, q)
        /\ ExtrasGo(desired, pods, q) /\ StaleGo(desired, frozen, status.hash, pods, q) /\ Replaced(desired, pods, q)
        /\ StoppedIs(pods, q) /\ PodsGo(pods, q) /\ VolumesGo(vols, q)
    BY <2>1, Parts
  <2>3. ExtrasGo(desired, pods', q)
    BY <2>2, <1>3 DEF ExtrasGo
  <2>4. StaleGo(desired, frozen, status.hash, pods', q)
    BY <2>2, <1>3 DEF StaleGo
  <2>5. Replaced(desired, pods', q)
    BY <1>5, <2>1, <2>2, <1>1 DEF Thread, Replaced
  <2>6. StoppedIs(pods', q)
    BY <1>5, <2>1 DEF StoppedIs
  <2>7. PodsGo(pods', q)
    BY <2>2, <1>2 DEF PodsGo
  <2>. QED  BY <2>1, <2>2, <2>3, <2>4, <2>5, <2>6, <2>7 DEF Claims
<1>6. FrozenDown(frozen, pods') /\ NoneBare(vols)
  BY <1>0, <1>1 DEF FleetIInv, LockIInv, TypeOK, FleetTrue, FrozenDown
<1>7. \A k \in Dark(frozen, pods') : k \in Dark(frozen, pods) /\ (Owes(thr[t], k) => Owes(thr'[t], k))
  BY <1>3 DEF Dark, Standing
<1>8. \A k \in Stale(desired, frozen, pods') : k \in Stale(desired, frozen, pods) /\ (Owes(thr[t], k) => Owes(thr'[t], k))
  BY <1>3 DEF Stale, Standing
<1>9. Wanted(desired, frozen, n) => Makes(thr'[t], n)
  BY DEF Makes
<1>10. \A k \in Missing(desired, frozen, stranded, pods') :
         \/ k \in Missing(desired, frozen, stranded, pods) /\ (Makes(thr[t], k) => Makes(thr'[t], k))
         \/ Makes(thr'[t], k)
  BY <1>4, <1>9
<1>11. ASSUME NEW s \in Threads \ {t}, thr[s].pc = "decide", NEW k \in thr[s].live, Wanted(desired, frozen, k), pods'[k] = None
       PROVE  InHand(thr'[t], k) \/ \E u \in Threads \ {t} : InHand(thr[u], k)
  <2>1. CASE k = n
    BY <2>1, <1>11
  <2>2. CASE k # n
    BY <1>1, <1>11, <2>2, <1>0 DEF Wanted, FleetTrue, TakenBack, InHand
  <2>. QED  BY <2>1, <2>2
<1>12. Settled(chan, thr) =>
         IF desired = None THEN Standing(pods') = {}
         ELSE status.hash = desired.spec /\ Extra(desired, pods') = {}
  BY <1>0, <1>2, <1>3 DEF FleetTrue, GoneWhenDeleted, DoneWhenQuiet
<1>. QED  BY <1>5, <1>6, <1>7, <1>8, <1>10, <1>11, <1>12, Change

LEMMA PodGone ==
  ASSUME TypeOK, NEW n \in Ordinals, pods' = [pods EXCEPT ![n] = None]
  PROVE  /\ pods'[n] = None /\ \A k \in Ordinals \ {n} : pods'[k] = pods[k]
         /\ Standing(pods') = Standing(pods) \ {n} /\ Extra(desired, pods') = Extra(desired, pods) \ {n}
         /\ Stale(desired, frozen, pods') = Stale(desired, frozen, pods) \ {n} /\ Dark(frozen, pods') = Dark(frozen, pods) \ {n}
BY DEF TypeOK, Standing, Extra, Stale, Dark

\* Beside others at work a stop or a start is about to answer.
LEMMA StartLeaves ==
  ASSUME FleetIInv, NEW t \in Threads, thr[t].pc # "idle", NEW s \in Threads \ {t}, thr[s].pc # "idle"
  PROVE  thr[s].op = "stop" \/ thr[s].op = "start" => thr[s].pc = "leave"
  BY Companions DEF Overlaps

LEMMA TrimOffKeeps ==
  ASSUME FleetIInv, LockIInv', NEW t \in Threads, Trim(t), thr[t].todo # {} PROVE FleetIInv'
<1>1. PICK q \in Thread : q = thr[t]
  BY Parts
<1>2. /\ thr \in [Threads -> Thread] /\ Equipped(q) /\ Fits(desired, q) /\ FrozenKnown(desired, frozen, q)
      /\ ExtrasGo(desired, pods, q) /\ StaleGo(desired, frozen, status.hash, pods, q) /\ Replaced(desired, pods, q)
      /\ StoppedIs(pods, q) /\ PodsGo(pods, q) /\ VolumesGo(vols, q)
  BY <1>1, Parts
<1>3. /\ TypeOK /\ pods \in [Ordinals -> Pod \cup {None}] /\ vols \in [Ordinals -> {"none", "kept", "bare"}]
      /\ FleetTrue(desired, chan, frozen, stranded, status.hash, pods, vols, thr)
  BY DEF FleetIInv, LockIInv, TypeOK
<1>a. q.todo # {} => Highest(q.todo) \in q.todo
  BY HighestIs DEF Thread
<1>4. PICK r : r = thr'[t]
  OBVIOUS
<1>5. /\ q.pc = "trim"
      /\ r.op = q.op /\ r.m = q.m /\ r.live = q.live /\ r.frz = q.frz /\ r.n = q.n /\ r.back = q.back /\ r.ret = q.ret
      /\ r.pc = "trim" /\ q.todo # {} /\ r.todo = q.todo \ {Highest(q.todo)} /\ pods' = [pods EXCEPT ![Highest(q.todo)] = None]
  BY <1>1, <1>2, <1>4, <1>a, SMT DEF Trim, At, Goto, Set, Thread, RemoveHighest
<1>6. /\ \A s \in Threads \ {t} : thr'[s] = thr[s]
      /\ UNCHANGED <<desired, chan, frozen, vols, stranded>> /\ status'.hash = status.hash
  BY <1>2, <1>1, <1>5 DEF Trim, Goto, Set, RemoveHighest
<1>7. q.op \in {"apply", "rollback"}
  BY <1>2, <1>5 DEF Fits, ApplyPcs, RollbackPcs, Rolls
<1>8. PICK n \in Ordinals : n \in q.todo /\ r.todo = q.todo \ {n} /\ pods' = [pods EXCEPT ![n] = None]
  BY <1>5, <1>a DEF Thread
<1>9. /\ pods'[n] = None /\ \A k \in Ordinals \ {n} : pods'[k] = pods[k]
      /\ Standing(pods') = Standing(pods) \ {n} /\ Extra(desired, pods') = Extra(desired, pods) \ {n}
      /\ Stale(desired, frozen, pods') = Stale(desired, frozen, pods) \ {n} /\ Dark(frozen, pods') = Dark(frozen, pods) \ {n}
  BY <1>3, <1>8, PodGone
<1>10. Claims(desired, frozen, status.hash, pods', vols, r)
  BY <1>2, <1>5, <1>7, <1>8, <1>9 DEF Fits, OnDesired, ApplyPcs, RollbackPcs, Rolls, FrozenKnown,
     KnowsFrozen, Fills, InHand, ExtrasGo, Trimmed, StaleGo, Renewed, Stamped, Replaced, StoppedIs, PodsGo,
     VolumesGo, Claims
<1>11. Onward(q, r) /\ r.pc \notin {"idle", "decide"} /\ q.pc \notin {"idle", "mount", "run"}
  BY <1>2, <1>5, <1>7 DEF Onward, Overlaps, Fits
<1>12. ASSUME NEW s \in Threads \ {t}, thr[s].pc # "idle"
       PROVE  /\ Rolls(thr[s]) => ~(n < desired.want)
              /\ thr[s].op = "stop" \/ thr[s].op = "start" => thr[s].pc = "leave"
  BY <1>1, <1>5, <1>12, StartLeaves, <1>2, <1>8 DEF ExtrasGo
<1>13. \A k \in Ordinals \ {n} : Owes(q, k) => Owes(r, k)
  BY <1>2, <1>5, <1>7, <1>8 DEF Owes, Rolls, Fits
<1>14. \A k \in Ordinals \ {n} : Makes(q, k) => Makes(r, k)
  BY <1>2, <1>5, <1>7, <1>8 DEF Makes, InHand, Fills, Fits
<1>15. Wanted(desired, frozen, n) => InHand(r, n) \/ (Makes(r, n) /\ \A s \in Threads \ {t} : thr[s].pc = "idle")
  BY <1>2, <1>5, <1>8 DEF ExtrasGo, Wanted
<1>. QED  BY <1>1, <1>4, <1>6, <1>8, <1>10, <1>11, <1>12, <1>13, <1>14, <1>15, Removal

LEMMA TakeKeeps ==
  ASSUME FleetIInv, LockIInv', NEW t \in Threads, Take(t) PROVE FleetIInv'
<1>1. PICK q \in Thread : q = thr[t]
  BY Parts
<1>2. /\ thr \in [Threads -> Thread] /\ Equipped(q) /\ Fits(desired, q) /\ FrozenKnown(desired, frozen, q)
      /\ ExtrasGo(desired, pods, q) /\ StaleGo(desired, frozen, status.hash, pods, q) /\ Replaced(desired, pods, q)
      /\ StoppedIs(pods, q) /\ PodsGo(pods, q) /\ VolumesGo(vols, q)
  BY <1>1, Parts
<1>3. /\ TypeOK /\ pods \in [Ordinals -> Pod \cup {None}] /\ vols \in [Ordinals -> {"none", "kept", "bare"}]
      /\ FleetTrue(desired, chan, frozen, stranded, status.hash, pods, vols, thr)
  BY DEF FleetIInv, LockIInv, TypeOK
<1>a. q.todo # {} => Highest(q.todo) \in q.todo
  BY HighestIs DEF Thread
<1>4. PICK r : r = thr'[t]
  OBVIOUS
<1>5. /\ q.pc = "roll"
      /\ r.op = q.op /\ r.m = q.m /\ r.live = q.live /\ r.frz = q.frz /\ r.ret = q.ret
      /\ r.pc = "mount" /\ r.back = "roll" /\ r.n \in q.todo /\ r.todo = q.todo \ {r.n} /\ pods' = [pods EXCEPT ![r.n] = None]
  BY <1>1, <1>2, <1>4, <1>a, SMT DEF Take, At, Goto, Set, Thread
<1>6. /\ \A s \in Threads \ {t} : thr'[s] = thr[s]
      /\ UNCHANGED <<desired, chan, frozen, vols, stranded>> /\ status'.hash = status.hash
  BY <1>2, <1>1, <1>5 DEF Take, Goto, Set
<1>7. q.op \in {"apply", "rollback", "restart"}
  BY <1>2, <1>5 DEF Fits, ApplyPcs, RollbackPcs, Rolls
<1>8. PICK n \in Ordinals : n = r.n /\ n \in q.todo /\ r.todo = q.todo \ {n} /\ pods' = [pods EXCEPT ![n] = None]
  BY <1>1, <1>4, <1>5 DEF Thread
<1>9. /\ pods'[n] = None /\ \A k \in Ordinals \ {n} : pods'[k] = pods[k]
      /\ Standing(pods') = Standing(pods) \ {n} /\ Extra(desired, pods') = Extra(desired, pods) \ {n}
      /\ Stale(desired, frozen, pods') = Stale(desired, frozen, pods) \ {n} /\ Dark(frozen, pods') = Dark(frozen, pods) \ {n}
  BY <1>3, <1>8, PodGone
<1>10. Claims(desired, frozen, status.hash, pods', vols, r)
  <2>1. Fits(desired, r)
    BY <1>2, <1>5, <1>7, <1>8, <1>9 DEF Fits, OnDesired, ApplyPcs, RollbackPcs, Rolls
  <2>2. FrozenKnown(desired, frozen, r)
    BY <1>2, <1>5, <1>7, <1>8, <1>9 DEF FrozenKnown, KnowsFrozen, Fills, Rolls, InHand, Fits, OnDesired
  <2>3. ExtrasGo(desired, pods', r)
    BY <1>2, <1>5, <1>7, <1>8, <1>9 DEF ExtrasGo, Trimmed, Fills, Rolls, Fits, OnDesired
  <2>4. StaleGo(desired, frozen, status.hash, pods', r)
    BY <1>2, <1>5, <1>7, <1>8, <1>9 DEF StaleGo, Renewed, Stamped, Fills, Rolls, Fits, OnDesired
  <2>5. Replaced(desired, pods', r)
    BY <1>2, <1>5, <1>7, <1>8, <1>9, StatefulsetAssumption DEF Replaced, Rolls, Fits, OnDesired, Thread
  <2>6. StoppedIs(pods', r)
    BY <1>2, <1>5, <1>7, <1>8, <1>9 DEF StoppedIs, Fits, OnDesired
  <2>7. PodsGo(pods', r)
    BY <1>2, <1>5, <1>7, <1>8, <1>9 DEF PodsGo, Fits, OnDesired
  <2>8. VolumesGo(vols, r)
    BY <1>2, <1>5, <1>7, <1>8, <1>9 DEF VolumesGo, Fits, OnDesired
  <2>. QED  BY <2>1, <2>2, <2>3, <2>4, <2>5, <2>6, <2>7, <2>8 DEF Claims
<1>11. Onward(q, r) /\ r.pc \notin {"idle", "decide"} /\ q.pc \notin {"idle", "mount", "run"}
  BY <1>2, <1>5, <1>7 DEF Onward, Overlaps, Fits
<1>12. ASSUME NEW s \in Threads \ {t}, thr[s].pc # "idle"
       PROVE  /\ Rolls(thr[s]) => ~(n < desired.want)
              /\ thr[s].op = "stop" \/ thr[s].op = "start" => thr[s].pc = "leave"
  <2>1. thr[s].op = "stop" \/ thr[s].op = "start" => thr[s].pc = "leave"
    BY <1>1, <1>5, <1>12, StartLeaves
  <2>2. ~Rolls(thr[s])
    <3>1. Rolls(thr[t])
      BY <1>1, <1>5 DEF Rolls
    <3>. QED  BY <3>1 DEF FleetIInv, LockIInv, RollerLocks
  <2>. QED  BY <2>1, <2>2
<1>13. \A k \in Ordinals \ {n} : Owes(q, k) => Owes(r, k)
  BY <1>2, <1>5, <1>7, <1>8 DEF Owes, Rolls, Fits
<1>14. \A k \in Ordinals \ {n} : Makes(q, k) => Makes(r, k)
  BY <1>2, <1>5, <1>7, <1>8 DEF Makes, InHand, Fills, Fits
<1>15. Wanted(desired, frozen, n) => InHand(r, n) \/ (Makes(r, n) /\ \A s \in Threads \ {t} : thr[s].pc = "idle")
  BY <1>5, <1>8 DEF InHand
<1>. QED  BY <1>1, <1>4, <1>6, <1>8, <1>10, <1>11, <1>12, <1>13, <1>14, <1>15, Removal

LEMMA RemovePodsOffKeeps ==
  ASSUME FleetIInv, LockIInv', NEW t \in Threads, RemovePods(t), thr[t].todo # {} PROVE FleetIInv'
<1>1. PICK q \in Thread : q = thr[t]
  BY Parts
<1>2. /\ thr \in [Threads -> Thread] /\ Equipped(q) /\ Fits(desired, q) /\ FrozenKnown(desired, frozen, q)
      /\ ExtrasGo(desired, pods, q) /\ StaleGo(desired, frozen, status.hash, pods, q) /\ Replaced(desired, pods, q)
      /\ StoppedIs(pods, q) /\ PodsGo(pods, q) /\ VolumesGo(vols, q)
  BY <1>1, Parts
<1>3. /\ TypeOK /\ pods \in [Ordinals -> Pod \cup {None}] /\ vols \in [Ordinals -> {"none", "kept", "bare"}]
      /\ FleetTrue(desired, chan, frozen, stranded, status.hash, pods, vols, thr)
  BY DEF FleetIInv, LockIInv, TypeOK
<1>a. q.todo # {} => Highest(q.todo) \in q.todo
  BY HighestIs DEF Thread
<1>4. PICK r : r = thr'[t]
  OBVIOUS
<1>5. /\ q.pc = "remove"
      /\ r.op = q.op /\ r.m = q.m /\ r.live = q.live /\ r.frz = q.frz /\ r.n = q.n /\ r.back = q.back /\ r.ret = q.ret
      /\ r.pc = "remove" /\ q.todo # {} /\ r.todo = q.todo \ {Highest(q.todo)} /\ pods' = [pods EXCEPT ![Highest(q.todo)] = None]
  BY <1>1, <1>2, <1>4, <1>a, SMT DEF RemovePods, At, Goto, Set, Thread, RemoveHighest
<1>6. /\ \A s \in Threads \ {t} : thr'[s] = thr[s]
      /\ UNCHANGED <<desired, chan, frozen, vols, stranded>> /\ status'.hash = status.hash
  BY <1>2, <1>1, <1>5 DEF RemovePods, Goto, Set, RemoveHighest
<1>7. q.op = "remove"
  BY <1>2, <1>5 DEF Fits, ApplyPcs, RollbackPcs, Rolls
<1>8. PICK n \in Ordinals : n \in q.todo /\ r.todo = q.todo \ {n} /\ pods' = [pods EXCEPT ![n] = None]
  BY <1>5, <1>a DEF Thread
<1>9. /\ pods'[n] = None /\ \A k \in Ordinals \ {n} : pods'[k] = pods[k]
      /\ Standing(pods') = Standing(pods) \ {n} /\ Extra(desired, pods') = Extra(desired, pods) \ {n}
      /\ Stale(desired, frozen, pods') = Stale(desired, frozen, pods) \ {n} /\ Dark(frozen, pods') = Dark(frozen, pods) \ {n}
  BY <1>3, <1>8, PodGone
<1>10. Claims(desired, frozen, status.hash, pods', vols, r)
  BY <1>2, <1>5, <1>7, <1>8, <1>9 DEF Fits, OnDesired, ApplyPcs, RollbackPcs, Rolls, FrozenKnown,
     KnowsFrozen, Fills, InHand, ExtrasGo, Trimmed, StaleGo, Renewed, Stamped, Replaced, StoppedIs, PodsGo,
     VolumesGo, Claims
<1>11. Onward(q, r) /\ r.pc \notin {"idle", "decide"} /\ q.pc \notin {"idle", "mount", "run"}
  BY <1>2, <1>5, <1>7 DEF Onward, Overlaps, Fits
<1>12. ASSUME NEW s \in Threads \ {t}, thr[s].pc # "idle"
       PROVE  /\ Rolls(thr[s]) => ~(n < desired.want)
              /\ thr[s].op = "stop" \/ thr[s].op = "start" => thr[s].pc = "leave"
  <2>1. thr[s].op = "stop" \/ thr[s].op = "start" => thr[s].pc = "leave"
    BY <1>1, <1>5, <1>12, StartLeaves
  <2>2. ~Rolls(thr[s])
    BY <1>1, <1>5, <1>7, <1>12, Companions, Parts DEF Fits, Rolls
  <2>. QED  BY <2>1, <2>2
<1>13. \A k \in Ordinals \ {n} : Owes(q, k) => Owes(r, k)
  BY <1>2, <1>5, <1>7, <1>8 DEF Owes, Rolls, Fits
<1>14. \A k \in Ordinals \ {n} : Makes(q, k) => Makes(r, k)
  BY <1>2, <1>5, <1>7, <1>8 DEF Makes, InHand, Fills, Fits
<1>15. Wanted(desired, frozen, n) => InHand(r, n) \/ (Makes(r, n) /\ \A s \in Threads \ {t} : thr[s].pc = "idle")
  BY <1>2, <1>7 DEF Fits, Wanted
<1>. QED  BY <1>1, <1>4, <1>6, <1>8, <1>10, <1>11, <1>12, <1>13, <1>14, <1>15, Removal

LEMMA PrunePodsOffKeeps ==
  ASSUME FleetIInv, LockIInv', NEW t \in Threads, PrunePods(t), thr[t].todo # {} PROVE FleetIInv'
<1>1. PICK q \in Thread : q = thr[t]
  BY Parts
<1>2. /\ thr \in [Threads -> Thread] /\ Equipped(q) /\ Fits(desired, q) /\ FrozenKnown(desired, frozen, q)
      /\ ExtrasGo(desired, pods, q) /\ StaleGo(desired, frozen, status.hash, pods, q) /\ Replaced(desired, pods, q)
      /\ StoppedIs(pods, q) /\ PodsGo(pods, q) /\ VolumesGo(vols, q)
  BY <1>1, Parts
<1>3. /\ TypeOK /\ pods \in [Ordinals -> Pod \cup {None}] /\ vols \in [Ordinals -> {"none", "kept", "bare"}]
      /\ FleetTrue(desired, chan, frozen, stranded, status.hash, pods, vols, thr)
  BY DEF FleetIInv, LockIInv, TypeOK
<1>4. PICK r : r = thr'[t]
  OBVIOUS
<1>5. /\ q.pc = "prunePods"
      /\ r.op = q.op /\ r.m = q.m /\ r.live = q.live /\ r.frz = q.frz /\ r.n = q.n /\ r.back = q.back /\ r.ret = q.ret
      /\ r.pc = "prunePods" /\ q.todo # {}
  BY <1>1, <1>2, <1>4, SMT DEF PrunePods, At, Goto, Set, Thread
<1>6. /\ \A s \in Threads \ {t} : thr'[s] = thr[s]
      /\ UNCHANGED <<desired, chan, frozen, vols, stranded>> /\ status'.hash = status.hash
  BY <1>2, <1>1, <1>5 DEF PrunePods, Goto, Set
<1>7. q.op = "prune"
  BY <1>2, <1>5 DEF Fits, ApplyPcs, RollbackPcs, Rolls
<1>8. PICK n \in Ordinals : n \in q.todo /\ r.todo = q.todo \ {n} /\ pods' = [pods EXCEPT ![n] = None]
  BY <1>1, <1>2, <1>4, <1>5, SMT DEF PrunePods, Set, Thread
<1>9. /\ pods'[n] = None /\ \A k \in Ordinals \ {n} : pods'[k] = pods[k]
      /\ Standing(pods') = Standing(pods) \ {n} /\ Extra(desired, pods') = Extra(desired, pods) \ {n}
      /\ Stale(desired, frozen, pods') = Stale(desired, frozen, pods) \ {n} /\ Dark(frozen, pods') = Dark(frozen, pods) \ {n}
  BY <1>3, <1>8, PodGone
<1>10. Claims(desired, frozen, status.hash, pods', vols, r)
  BY <1>2, <1>5, <1>7, <1>8, <1>9 DEF Fits, OnDesired, ApplyPcs, RollbackPcs, Rolls, FrozenKnown,
     KnowsFrozen, Fills, InHand, ExtrasGo, Trimmed, StaleGo, Renewed, Stamped, Replaced, StoppedIs, PodsGo,
     VolumesGo, Claims
<1>11. Onward(q, r) /\ r.pc \notin {"idle", "decide"} /\ q.pc \notin {"idle", "mount", "run"}
  BY <1>2, <1>5, <1>7 DEF Onward, Overlaps, Fits
<1>12. ASSUME NEW s \in Threads \ {t}, thr[s].pc # "idle"
       PROVE  /\ Rolls(thr[s]) => ~(n < desired.want)
              /\ thr[s].op = "stop" \/ thr[s].op = "start" => thr[s].pc = "leave"
  <2>1. thr[s].op = "stop" \/ thr[s].op = "start" => thr[s].pc = "leave"
    BY <1>1, <1>5, <1>12, StartLeaves
  <2>2. ~Rolls(thr[s])
    BY <1>1, <1>5, <1>7, <1>12, Companions, Parts DEF Fits, Rolls
  <2>. QED  BY <2>1, <2>2
<1>13. \A k \in Ordinals \ {n} : Owes(q, k) => Owes(r, k)
  BY <1>2, <1>5, <1>7, <1>8 DEF Owes, Rolls, Fits
<1>14. \A k \in Ordinals \ {n} : Makes(q, k) => Makes(r, k)
  BY <1>2, <1>5, <1>7, <1>8 DEF Makes, InHand, Fills, Fits
<1>15. Wanted(desired, frozen, n) => InHand(r, n) \/ (Makes(r, n) /\ \A s \in Threads \ {t} : thr[s].pc = "idle")
  BY <1>2, <1>7 DEF Fits, Wanted
<1>. QED  BY <1>1, <1>4, <1>6, <1>8, <1>10, <1>11, <1>12, <1>13, <1>14, <1>15, Removal

LEMMA ClearPodKeeps ==
  ASSUME FleetIInv, LockIInv', NEW t \in Threads, ClearPod(t) PROVE FleetIInv'
<1>1. PICK q \in Thread : q = thr[t]
  BY Parts
<1>2. /\ thr \in [Threads -> Thread] /\ Equipped(q) /\ Fits(desired, q) /\ FrozenKnown(desired, frozen, q)
      /\ ExtrasGo(desired, pods, q) /\ StaleGo(desired, frozen, status.hash, pods, q) /\ Replaced(desired, pods, q)
      /\ StoppedIs(pods, q) /\ PodsGo(pods, q) /\ VolumesGo(vols, q)
  BY <1>1, Parts
<1>3. /\ TypeOK /\ pods \in [Ordinals -> Pod \cup {None}] /\ vols \in [Ordinals -> {"none", "kept", "bare"}]
      /\ FleetTrue(desired, chan, frozen, stranded, status.hash, pods, vols, thr)
  BY DEF FleetIInv, LockIInv, TypeOK
<1>4. PICK r : r = thr'[t]
  OBVIOUS
<1>5. /\ q.pc = "clear"
      /\ r.op = q.op /\ r.m = q.m /\ r.live = q.live /\ r.frz = q.frz /\ r.todo = q.todo /\ r.n = q.n /\ r.back = q.back /\ r.ret = q.ret
      /\ r.pc = "fetch"
  BY <1>1, <1>2, <1>4, SMT DEF ClearPod, At, Goto, Set, Thread
<1>6. /\ \A s \in Threads \ {t} : thr'[s] = thr[s]
      /\ UNCHANGED <<desired, chan, frozen, vols, stranded>> /\ status'.hash = status.hash
  BY <1>2, <1>1, <1>5 DEF ClearPod, Goto, Set
<1>7. q.op = "start"
  BY <1>2, <1>5 DEF Fits, ApplyPcs, RollbackPcs, Rolls
<1>b. t \in Https
  <2>1. t # Loop
    BY <1>1, <1>7 DEF FleetIInv, Alone
  <2>. QED  BY <2>1 DEF Threads
<1>c. chan = <<>> /\ \A s \in Threads \ {t} : thr[s].pc = "idle" /\ thr[s].op = "none"
  BY <1>1, <1>5, <1>7, <1>b, AtItAlone DEF Overlaps
<1>8. PICK n \in Ordinals : n = q.n /\ pods' = [pods EXCEPT ![n] = None]
  BY <1>1, <1>2, <1>5 DEF ClearPod, Equipped, HasOrdinal
<1>9. /\ pods'[n] = None /\ \A k \in Ordinals \ {n} : pods'[k] = pods[k]
      /\ Standing(pods') = Standing(pods) \ {n} /\ Extra(desired, pods') = Extra(desired, pods) \ {n}
      /\ Stale(desired, frozen, pods') = Stale(desired, frozen, pods) \ {n} /\ Dark(frozen, pods') = Dark(frozen, pods) \ {n}
  BY <1>3, <1>8, PodGone
<1>10. Claims(desired, frozen, status.hash, pods', vols, r)
  BY <1>2, <1>5, <1>7, <1>8, <1>9 DEF Fits, OnDesired, ApplyPcs, RollbackPcs, Rolls, FrozenKnown,
     KnowsFrozen, Fills, InHand, ExtrasGo, Trimmed, StaleGo, Renewed, Stamped, Replaced, StoppedIs, PodsGo,
     VolumesGo, Claims
<1>11. Onward(q, r) /\ r.pc \notin {"idle", "decide"} /\ q.pc \notin {"idle", "mount", "run"}
  BY <1>2, <1>5, <1>7 DEF Onward, Overlaps, Fits
<1>12. ASSUME NEW s \in Threads \ {t}, thr[s].pc # "idle"
       PROVE  /\ Rolls(thr[s]) => ~(n < desired.want)
              /\ thr[s].op = "stop" \/ thr[s].op = "start" => thr[s].pc = "leave"
  BY <1>1, <1>5, <1>12, StartLeaves, <1>c
<1>13. \A k \in Ordinals \ {n} : Owes(q, k) => Owes(r, k)
  BY <1>2, <1>5, <1>7, <1>8 DEF Owes, Rolls, Fits
<1>14. \A k \in Ordinals \ {n} : Makes(q, k) => Makes(r, k)
  BY <1>2, <1>5, <1>7, <1>8 DEF Makes, InHand, Fills, Fits
<1>15. Wanted(desired, frozen, n) => InHand(r, n) \/ (Makes(r, n) /\ \A s \in Threads \ {t} : thr[s].pc = "idle")
  BY <1>5, <1>7, <1>c DEF Makes
<1>. QED  BY <1>1, <1>4, <1>6, <1>8, <1>10, <1>11, <1>12, <1>13, <1>14, <1>15, Removal

LEMMA TrimKeeps ==
  ASSUME FleetIInv, LockIInv', NEW t \in Threads, Trim(t) PROVE FleetIInv'
  BY TrimOnKeeps, TrimOffKeeps

LEMMA PrunePodsKeeps ==
  ASSUME FleetIInv, LockIInv', NEW t \in Threads, PrunePods(t) PROVE FleetIInv'
  BY PrunePodsOnKeeps, PrunePodsOffKeeps

LEMMA NoneIsNoPod ==
  ASSUME NEW e \in Pod
  PROVE  e # None
  BY StatefulsetAssumption DEF Pod

\* An apply forgets what was stranded: it will make it.
LEMMA DecideKeeps ==
  ASSUME FleetIInv, LockIInv', NEW t \in Threads, Decide(t) PROVE FleetIInv'
<1>1. PICK q \in Thread : q = thr[t]
  BY Parts
<1>2. /\ thr \in [Threads -> Thread] /\ Equipped(q) /\ Fits(desired, q) /\ FrozenKnown(desired, frozen, q)
      /\ ExtrasGo(desired, pods, q) /\ StaleGo(desired, frozen, status.hash, pods, q) /\ Replaced(desired, pods, q)
      /\ StoppedIs(pods, q) /\ PodsGo(pods, q) /\ VolumesGo(vols, q)
  BY <1>1, Parts
<1>3. /\ TypeOK /\ pods \in [Ordinals -> Pod \cup {None}] /\ vols \in [Ordinals -> {"none", "kept", "bare"}]
      /\ FleetTrue(desired, chan, frozen, stranded, status.hash, pods, vols, thr)
  BY DEF FleetIInv, LockIInv, TypeOK
<1>4. PICK r : r = thr'[t]
  OBVIOUS
<1>5. /\ q.pc = "decide"
      /\ r.op = q.op /\ r.m = q.m /\ r.live = q.live /\ r.n = q.n /\ r.back = q.back /\ r.ret = q.ret
      /\ r.pc = "up" /\ r.frz = frozen /\ r.todo = (Below(q.m.want) \ q.live) \ frozen
  BY <1>1, <1>2, <1>4, SMT DEF Decide, At, Goto, Set, Thread
<1>6. /\ \A s \in Threads \ {t} : thr'[s] = thr[s]
      /\ UNCHANGED <<desired, chan, frozen, status, pods, vols>>
  BY <1>2, <1>1, <1>5 DEF Decide, Goto, Set
<1>7. q.op = "apply"
  BY <1>2, <1>5 DEF Fits, ApplyPcs, RollbackPcs, Rolls
<1>10. Claims(desired, frozen, status.hash, pods, vols, r)
  BY <1>2, <1>5, <1>7 DEF Fits, OnDesired, ApplyPcs, RollbackPcs, Rolls, FrozenKnown, KnowsFrozen, Fills,
     InHand, Below, Wanted, ExtrasGo, Trimmed, StaleGo, Renewed, Stamped, Replaced, StoppedIs, PodsGo,
     VolumesGo, Claims
<1>11. Onward(q, r) /\ r.pc \notin {"idle", "decide"} /\ q.pc # "idle"
  BY <1>2, <1>5, <1>7 DEF Onward, Overlaps, Fits, ApplyPcs, RollbackPcs, Rolls
<1>12. \A s \in Threads : Claims(desired, frozen, status.hash, pods, vols, thr[s])
  BY DEF FleetIInv, AllClaim
<1>13. q.m = desired /\ desired # None
  BY <1>2, <1>7 DEF Fits, OnDesired
<1>14. ASSUME NEW n \in Missing(desired, frozen, stranded', pods)
       PROVE  Makes(r, n) \/ \E s \in Threads \ {t} : Makes(thr[s], n)
  <2>1. n \in Ordinals /\ Wanted(desired, frozen, n) /\ pods[n] = None
    BY <1>14 DEF Missing, Standing
  <2>2. CASE n \in q.live
    BY <1>1, <1>3, <1>5, <2>1, <2>2 DEF FleetTrue, TakenBack, InHand, Makes
  <2>3. CASE n \notin q.live
    BY <1>5, <1>13, <2>1, <2>3 DEF Makes, Fills, Wanted, Below
  <2>. QED  BY <2>2, <2>3
<1>15. ASSUME NEW s \in Threads \ {t}, thr[s].pc = "decide", NEW n \in thr[s].live, Wanted(desired, frozen, n), pods[n] = None
       PROVE  \E u \in Threads \ {t} : InHand(thr[u], n)
  BY <1>3, <1>15, <1>1, <1>5 DEF FleetTrue, TakenBack, InHand
<1>16. \A n : ~Owes(q, n)
  BY <1>7 DEF Owes
<1>17. FrozenDown(frozen, pods) /\ NoneBare(vols)
  BY <1>3 DEF FleetTrue
<1>18. Settled(chan, thr) =>
         IF desired = None THEN Standing(pods) = {}
         ELSE status.hash = desired.spec /\ Extra(desired, pods) = {}
  BY <1>3 DEF FleetTrue, GoneWhenDeleted, DoneWhenQuiet
<1>. QED  BY <1>1, <1>4, <1>6, <1>10, <1>11, <1>12, <1>14, <1>15, <1>16, <1>17, <1>18, Change

\* The claimed volume is there, with its labels, before docker would make a bare one.
LEMMA MountKeeps ==
  ASSUME FleetIInv, LockIInv', NEW t \in Threads, Mount(t) PROVE FleetIInv'
<1>1. PICK q \in Thread : q = thr[t]
  BY Parts
<1>2. /\ thr \in [Threads -> Thread] /\ Equipped(q) /\ Fits(desired, q) /\ FrozenKnown(desired, frozen, q)
      /\ ExtrasGo(desired, pods, q) /\ StaleGo(desired, frozen, status.hash, pods, q) /\ Replaced(desired, pods, q)
      /\ StoppedIs(pods, q) /\ PodsGo(pods, q) /\ VolumesGo(vols, q)
  BY <1>1, Parts
<1>3. /\ TypeOK /\ pods \in [Ordinals -> Pod \cup {None}] /\ vols \in [Ordinals -> {"none", "kept", "bare"}]
      /\ FleetTrue(desired, chan, frozen, stranded, status.hash, pods, vols, thr)
  BY DEF FleetIInv, LockIInv, TypeOK
<1>a. q.n \in Ordinals
  BY <1>1, <1>2 DEF Mount, At, Equipped, HasOrdinal
<1>b. \A k \in Ordinals : vols'[k] = (IF k = q.n /\ vols[k] = "none" THEN "kept" ELSE vols[k])
  BY <1>1, <1>3, <1>a DEF Mount
<1>4. PICK r : r = thr'[t]
  OBVIOUS
<1>5. /\ q.pc = "mount"
      /\ r.op = q.op /\ r.m = q.m /\ r.live = q.live /\ r.frz = q.frz /\ r.todo = q.todo /\ r.n = q.n /\ r.back = q.back /\ r.ret = q.ret
      /\ r.pc = "run"
      /\ \A k \in Ordinals : vols'[k] = (IF k = q.n /\ vols[k] = "none" THEN "kept" ELSE vols[k])
  BY <1>1, <1>2, <1>4, <1>a, <1>b, SMT DEF Mount, At, Goto, Set, Thread
<1>6. /\ \A s \in Threads \ {t} : thr'[s] = thr[s]
      /\ UNCHANGED <<desired, chan, frozen, status, pods, stranded>>
  BY <1>2, <1>1, <1>5 DEF Mount, Goto, Set
<1>7. q.op \in {"apply", "rollback", "restart"}
  BY <1>2, <1>5 DEF Fits, ApplyPcs, RollbackPcs, Rolls
<1>8. \A k \in Ordinals : vols[k] \in {"none", "kept"}
  BY <1>3 DEF FleetTrue, NoneBare
<1>10. Claims(desired, frozen, status.hash, pods, vols', r)
  BY <1>2, <1>5, <1>7, <1>a, <1>8 DEF Fits, OnDesired, ApplyPcs, RollbackPcs, Rolls, FrozenKnown,
     KnowsFrozen, Fills, InHand, ExtrasGo, Trimmed, StaleGo, Renewed, Stamped, Replaced, StoppedIs, PodsGo,
     VolumesGo, Claims
<1>11. Onward(q, r) /\ r.pc \notin {"idle", "decide"} /\ q.pc # "idle"
  BY <1>2, <1>5, <1>7 DEF Onward, Overlaps, Fits, ApplyPcs, RollbackPcs, Rolls
<1>12. ASSUME NEW s \in Threads \ {t}, thr[s].pc # "idle"
       PROVE  Claims(desired, frozen, status.hash, pods, vols', thr[s])
  BY <1>1, <1>5, <1>7, <1>12, Companions, Parts DEF FleetIInv, AllClaim, Claims, VolumesGo, Equipped,
     HasOrdinal
<1>13. NoneBare(vols')
  BY <1>5, <1>8 DEF NoneBare
<1>14. \A n : (InHand(q, n) => InHand(r, n)) /\ (Owes(q, n) => Owes(r, n)) /\ (Makes(q, n) => Makes(r, n))
  BY <1>5, <1>7 DEF InHand, Owes, Makes, Fills, Rolls
<1>15. ASSUME NEW s \in Threads \ {t}, thr[s].pc = "decide", NEW n \in thr[s].live, Wanted(desired, frozen, n), pods[n] = None
       PROVE  InHand(r, n) \/ \E u \in Threads \ {t} : InHand(thr[u], n)
  BY <1>3, <1>15, <1>1, <1>14 DEF FleetTrue, TakenBack
<1>17. FrozenDown(frozen, pods)
  BY <1>3 DEF FleetTrue
<1>18. Settled(chan, thr) =>
         IF desired = None THEN Standing(pods) = {}
         ELSE status.hash = desired.spec /\ Extra(desired, pods) = {}
  BY <1>3 DEF FleetTrue, GoneWhenDeleted, DoneWhenQuiet
<1>. QED  BY <1>1, <1>4, <1>6, <1>10, <1>11, <1>12, <1>13, <1>14, <1>15, <1>17, <1>18, Change

\* A pod is made, or started again; it was wanted.
LEMMA RunKeeps ==
  ASSUME FleetIInv, LockIInv', NEW t \in Threads, Run(t) PROVE FleetIInv'
<1>1. PICK q \in Thread : q = thr[t]
  BY Parts
<1>2. /\ thr \in [Threads -> Thread] /\ Equipped(q) /\ Fits(desired, q) /\ FrozenKnown(desired, frozen, q)
      /\ ExtrasGo(desired, pods, q) /\ StaleGo(desired, frozen, status.hash, pods, q) /\ Replaced(desired, pods, q)
      /\ StoppedIs(pods, q) /\ PodsGo(pods, q) /\ VolumesGo(vols, q)
  BY <1>1, Parts
<1>3. /\ TypeOK /\ pods \in [Ordinals -> Pod \cup {None}] /\ vols \in [Ordinals -> {"none", "kept", "bare"}]
      /\ FleetTrue(desired, chan, frozen, stranded, status.hash, pods, vols, thr)
  BY DEF FleetIInv, LockIInv, TypeOK
<1>4. PICK r : r = thr'[t]
  OBVIOUS
<1>5. /\ q.pc = "run"
      /\ r.op = q.op /\ r.m = q.m /\ r.live = q.live /\ r.frz = q.frz /\ r.todo = q.todo /\ r.back = q.back /\ r.ret = q.ret
      /\ r.pc = q.back /\ r.n = None /\ r.pc \in {"up", "roll"}
  BY <1>1, <1>2, <1>4, SMT DEF Run, At, Goto, Set, Thread
<1>6. /\ \A s \in Threads \ {t} : thr'[s] = thr[s]
      /\ UNCHANGED <<desired, chan, frozen, status, stranded>>
  BY <1>2, <1>1, <1>5 DEF Run, Goto, Set
<1>7. q.op \in {"apply", "rollback", "restart"}
  BY <1>2, <1>5 DEF Fits, ApplyPcs, RollbackPcs, Rolls
<1>8. PICK n \in Ordinals : n = q.n
  BY <1>2, <1>5 DEF Equipped, HasOrdinal
<1>9. /\ q.m = desired /\ desired # None /\ Wanted(desired, frozen, n) /\ vols[n] = "kept"
      /\ q.back = "up" => q.op # "restart"
  BY <1>2, <1>5, <1>7, <1>8 DEF Fits, OnDesired, FrozenKnown, Fills, Rolls, InHand, Thread, VolumesGo
<1>a. /\ \A k \in Ordinals \ {n} : pods'[k] = pods[k]
      /\ pods'[n] # None /\ pods'[n].up /\ (pods[n] # None => pods'[n].spec = pods[n].spec)
      /\ pods[n] = None => pods'[n].spec = desired.spec
  <2>1. pods' = [pods EXCEPT ![n] = IF pods[n] # None THEN [pods[n] EXCEPT !.up = TRUE]
                   ELSE [spec |-> q.m.spec, rel |-> q.rel, up |-> TRUE]]
    BY <1>1, <1>8 DEF Run
  <2>2. \A k \in Ordinals \ {n} : pods'[k] = pods[k]
    BY <1>3, <2>1
  <2>4. CASE pods[n] # None
    BY <1>3, <2>4, <2>1, <2>2, NoneIsNoPod DEF Pod
  <2>5. CASE pods[n] = None
    <3>1. PICK e : e = [spec |-> desired.spec, rel |-> q.rel, up |-> TRUE]
      OBVIOUS
    <3>2. e \in Pod
      BY <1>3, <1>9, <3>1, StatefulsetAssumption DEF TypeOK, Pod, Thread
    <3>3. pods'[n] = e
      BY <1>3, <1>9, <2>1, <2>5, <3>1
    <3>4. e.up = TRUE /\ e.spec = desired.spec
      BY <3>1
    <3>5. e # None
      BY <3>2, NoneIsNoPod
    <3>. QED  BY <2>2, <2>5, <3>3, <3>4, <3>5
  <2>. QED  BY <2>4, <2>5
<1>b. vols' = vols
  BY <1>1, <1>3, <1>8, <1>9 DEF Run
<1>c. /\ Standing(pods') = Standing(pods) \cup {n} /\ Extra(desired, pods') = Extra(desired, pods)
      /\ Stale(desired, frozen, pods') = Stale(desired, frozen, pods)
      /\ \A k \in Dark(frozen, pods') : k \in Dark(frozen, pods)
  BY <1>a, <1>9 DEF Standing, Wanted, Extra, Stale, Dark
<1>10. Claims(desired, frozen, status.hash, pods', vols, r)
  BY <1>2, <1>5, <1>7, <1>9, <1>c, <1>a, <1>8 DEF Fits, OnDesired, ApplyPcs, RollbackPcs, Rolls,
     FrozenKnown, KnowsFrozen, Fills, InHand, ExtrasGo, Trimmed, StaleGo, Renewed, Stamped, Replaced, Thread,
     StoppedIs, PodsGo, VolumesGo, Claims
<1>11. Onward(q, r) /\ r.pc \notin {"idle", "decide"} /\ q.pc # "idle"
  BY <1>2, <1>5, <1>7 DEF Onward, Overlaps, Fits, ApplyPcs, RollbackPcs, Rolls
<1>12. ASSUME NEW s \in Threads \ {t}, thr[s].pc # "idle"
       PROVE  Claims(desired, frozen, status.hash, pods', vols, thr[s])
  BY <1>12, Parts, <1>1, <1>5, <1>7, <1>9, Companions, StartLeaves, <1>c, <1>a DEF ExtrasGo, StaleGo,
     Replaced, Thread, StoppedIs, PodsGo, Fits, ApplyPcs, RollbackPcs, Rolls, Claims
<1>13. NoneBare(vols) /\ FrozenDown(frozen, pods')
  BY <1>3, <1>9, <1>a DEF Wanted, TypeOK, FleetTrue, FrozenDown
<1>14. \A k : (k # n /\ InHand(q, k) => InHand(r, k)) /\ (Owes(q, k) => Owes(r, k)) /\ (k # n /\ Makes(q, k) => Makes(r, k))
  BY <1>5, <1>7, <1>8 DEF InHand, Owes, Makes, Fills, Rolls, Thread
<1>15. ASSUME NEW s \in Threads \ {t}, thr[s].pc = "decide", NEW k \in thr[s].live, Wanted(desired, frozen, k), pods'[k] = None
       PROVE  InHand(r, k) \/ \E u \in Threads \ {t} : InHand(thr[u], k)
  BY <1>15, <1>a, <1>3, <1>1, <1>14 DEF Wanted, FleetTrue, TakenBack
<1>16. \A k \in Missing(desired, frozen, stranded, pods') : k # n /\ k \in Missing(desired, frozen, stranded, pods)
  BY <1>c DEF Missing
<1>18. Settled(chan, thr) =>
         IF desired = None THEN Standing(pods') = {}
         ELSE status.hash = desired.spec /\ Extra(desired, pods') = {}
  BY <1>3, <1>9, <1>c DEF FleetTrue, GoneWhenDeleted, DoneWhenQuiet
<1>. QED  BY <1>1, <1>4, <1>6, <1>b, <1>c, <1>10, <1>11, <1>12, <1>13, <1>14, <1>15, <1>16, <1>18, Change

LEMMA StampKeeps ==
  ASSUME FleetIInv, LockIInv', NEW t \in Threads, Stamp(t) PROVE FleetIInv'
<1>1. PICK q \in Thread : q = thr[t]
  BY Parts
<1>2. /\ thr \in [Threads -> Thread] /\ Equipped(q) /\ Fits(desired, q) /\ FrozenKnown(desired, frozen, q)
      /\ ExtrasGo(desired, pods, q) /\ StaleGo(desired, frozen, status.hash, pods, q) /\ Replaced(desired, pods, q)
      /\ StoppedIs(pods, q) /\ PodsGo(pods, q) /\ VolumesGo(vols, q)
  BY <1>1, Parts
<1>3. /\ TypeOK /\ pods \in [Ordinals -> Pod \cup {None}] /\ vols \in [Ordinals -> {"none", "kept", "bare"}]
      /\ FleetTrue(desired, chan, frozen, stranded, status.hash, pods, vols, thr)
  BY DEF FleetIInv, LockIInv, TypeOK
<1>a. status \in [hash : Specs \cup {None}, want : Nat, recs : SUBSET Manifests]
  BY <1>3 DEF TypeOK
<1>4. PICK r : r = thr'[t]
  OBVIOUS
<1>5. /\ q.pc = "stamp"
      /\ r.op = q.op /\ r.m = q.m /\ r.live = q.live /\ r.frz = q.frz /\ r.todo = q.todo /\ r.n = q.n /\ r.back = q.back
      /\ status'.hash = q.m.spec
      /\ \/ q.op = "rollback" /\ r.pc = "leave" /\ r.ret = q.ret
         \/ q.op # "rollback" /\ r.pc = "lock" /\ r.ret = "record"
         \/ q.op # "rollback" /\ r.pc = "record" /\ r.ret = q.ret
  BY <1>1, <1>2, <1>4, <1>a, SMT DEF Stamp, At, Goto, Set, Thread
<1>6. /\ \A s \in Threads \ {t} : thr'[s] = thr[s]
      /\ UNCHANGED <<desired, chan, frozen, pods, vols, stranded>>
  BY <1>2, <1>1, <1>5 DEF Stamp, Goto, Set
<1>7. q.op \in {"apply", "rollback"}
  BY <1>2, <1>5 DEF Fits, ApplyPcs, RollbackPcs, Rolls
<1>8. desired # None /\ status'.hash = desired.spec /\ Extra(desired, pods) = {} /\ Stale(desired, frozen, pods) = {}
  BY <1>2, <1>5, <1>7 DEF Fits, OnDesired, ExtrasGo, Trimmed, StaleGo, Renewed
<1>10. Claims(desired, frozen, status'.hash, pods, vols, r)
  BY <1>2, <1>5, <1>7, <1>8 DEF Fits, OnDesired, ApplyPcs, RollbackPcs, Rolls, FrozenKnown, KnowsFrozen,
     Fills, InHand, ExtrasGo, Trimmed, StaleGo, Renewed, Stamped, Replaced, StoppedIs, PodsGo, VolumesGo,
     Claims
<1>11. Onward(q, r) /\ r.pc \notin {"idle", "decide"} /\ q.pc # "idle"
  BY <1>2, <1>5, <1>7 DEF Onward, Overlaps, Fits, ApplyPcs, RollbackPcs, Rolls
<1>12. ASSUME NEW s \in Threads \ {t}
       PROVE  Claims(desired, frozen, status'.hash, pods, vols, thr[s])
  BY <1>8 DEF FleetIInv, AllClaim, Claims, StaleGo
<1>13. FrozenDown(frozen, pods) /\ NoneBare(vols)
  BY <1>3 DEF FleetTrue
<1>14. \A k : ~Owes(q, k) /\ ~Makes(q, k)
  BY <1>5, <1>7 DEF Owes, Makes, InHand, Fills, Rolls
<1>15. ASSUME NEW s \in Threads \ {t}, thr[s].pc = "decide", NEW k \in thr[s].live, Wanted(desired, frozen, k), pods[k] = None
       PROVE  \E u \in Threads \ {t} : InHand(thr[u], k)
  BY <1>3, <1>15, <1>1, <1>5 DEF FleetTrue, TakenBack, InHand
<1>. QED  BY <1>1, <1>4, <1>6, <1>8, <1>10, <1>11, <1>12, <1>13, <1>14, <1>15, Change

LEMMA RemovePodsOnKeeps ==
  ASSUME FleetIInv, LockIInv', NEW t \in Threads, RemovePods(t), thr[t].todo = {} PROVE FleetIInv'
<1>1. PICK q \in Thread : q = thr[t]
  BY Parts
<1>2. /\ thr \in [Threads -> Thread] /\ Equipped(q) /\ Fits(desired, q) /\ FrozenKnown(desired, frozen, q)
      /\ ExtrasGo(desired, pods, q) /\ StaleGo(desired, frozen, status.hash, pods, q) /\ Replaced(desired, pods, q)
      /\ StoppedIs(pods, q) /\ PodsGo(pods, q) /\ VolumesGo(vols, q)
  BY <1>1, Parts
<1>3. /\ TypeOK /\ pods \in [Ordinals -> Pod \cup {None}] /\ vols \in [Ordinals -> {"none", "kept", "bare"}]
      /\ FleetTrue(desired, chan, frozen, stranded, status.hash, pods, vols, thr)
  BY DEF FleetIInv, LockIInv, TypeOK
<1>4. PICK r : r = thr'[t]
  OBVIOUS
<1>5. /\ q.pc = "remove"
      /\ r.op = q.op /\ r.m = q.m /\ r.live = q.live /\ r.frz = q.frz /\ r.todo = q.todo /\ r.n = q.n /\ r.back = q.back /\ r.ret = q.ret
      /\ r.pc = "leave" /\ q.todo = {} /\ status'.hash = None
  BY <1>1, <1>2, <1>4, SMT DEF RemovePods, At, Goto, Set, Thread, RemoveHighest, Blank
<1>6. /\ \A s \in Threads \ {t} : thr'[s] = thr[s]
      /\ UNCHANGED <<desired, chan, frozen, pods, vols, stranded>>
  BY <1>2, <1>1, <1>5 DEF RemovePods, Goto, Set, RemoveHighest
<1>7. q.op = "remove"
  BY <1>2, <1>5 DEF Fits, ApplyPcs, RollbackPcs, Rolls
<1>8. desired = None /\ Standing(pods) = {}
  BY <1>2, <1>5, <1>7 DEF Fits, OnDesired, PodsGo
<1>10. Claims(desired, frozen, status'.hash, pods, vols, r)
  BY <1>2, <1>5, <1>7, <1>8 DEF Fits, OnDesired, ApplyPcs, RollbackPcs, Rolls, FrozenKnown, KnowsFrozen,
     Fills, InHand, ExtrasGo, Trimmed, StaleGo, Renewed, Stamped, Replaced, StoppedIs, PodsGo, VolumesGo,
     Claims
<1>11. Onward(q, r) /\ r.pc \notin {"idle", "decide"} /\ q.pc # "idle"
  BY <1>2, <1>5, <1>7 DEF Onward, Overlaps, Fits, ApplyPcs, RollbackPcs, Rolls
<1>12. ASSUME NEW s \in Threads \ {t}
       PROVE  Claims(desired, frozen, status'.hash, pods, vols, thr[s])
  <2>1. Claims(desired, frozen, status.hash, pods, vols, thr[s])
    BY DEF FleetIInv, AllClaim
  <2>2. ~Stamped(thr[s])
    <3>1. Fits(desired, thr[s])
      BY <2>1 DEF Claims
    <3>. QED  BY <1>8, <3>1 DEF Fits, OnDesired, Stamped, Rolls
  <2>3. StaleGo(desired, frozen, status'.hash, pods, thr[s])
    BY <2>1, <2>2 DEF Claims, StaleGo
  <2>. QED  BY <2>1, <2>3 DEF Claims
<1>13. FrozenDown(frozen, pods) /\ NoneBare(vols)
  BY <1>3 DEF FleetTrue
<1>14. \A k : ~Owes(q, k) /\ ~Makes(q, k)
  BY <1>5, <1>7 DEF Owes, Makes, InHand, Fills, Rolls
<1>15. ASSUME NEW s \in Threads \ {t}, thr[s].pc = "decide", NEW k \in thr[s].live, Wanted(desired, frozen, k), pods[k] = None
       PROVE  \E u \in Threads \ {t} : InHand(thr[u], k)
  BY <1>3, <1>15, <1>1, <1>5 DEF FleetTrue, TakenBack, InHand
<1>. QED  BY <1>1, <1>4, <1>6, <1>8, <1>10, <1>11, <1>12, <1>13, <1>14, <1>15, Change

LEMMA RemovePodsKeeps ==
  ASSUME FleetIInv, LockIInv', NEW t \in Threads, RemovePods(t) PROVE FleetIInv'
  BY RemovePodsOnKeeps, RemovePodsOffKeeps

\* A labelled volume goes, unless a container mounts it.
LEMMA DropVolsOffKeeps ==
  ASSUME FleetIInv, LockIInv', NEW t \in Threads, DropVols(t), thr[t].todo # {} PROVE FleetIInv'
<1>1. PICK q \in Thread : q = thr[t]
  BY Parts
<1>2. /\ thr \in [Threads -> Thread] /\ Equipped(q) /\ Fits(desired, q) /\ FrozenKnown(desired, frozen, q)
      /\ ExtrasGo(desired, pods, q) /\ StaleGo(desired, frozen, status.hash, pods, q) /\ Replaced(desired, pods, q)
      /\ StoppedIs(pods, q) /\ PodsGo(pods, q) /\ VolumesGo(vols, q)
  BY <1>1, Parts
<1>3. /\ TypeOK /\ pods \in [Ordinals -> Pod \cup {None}] /\ vols \in [Ordinals -> {"none", "kept", "bare"}]
      /\ FleetTrue(desired, chan, frozen, stranded, status.hash, pods, vols, thr)
  BY DEF FleetIInv, LockIInv, TypeOK
<1>4. PICK r : r = thr'[t]
  OBVIOUS
<1>5. /\ q.pc = "dropVols"
      /\ r.op = q.op /\ r.m = q.m /\ r.live = q.live /\ r.frz = q.frz /\ r.n = q.n /\ r.back = q.back /\ r.ret = q.ret
      /\ r.pc = "dropVols" /\ q.todo # {}
  BY <1>1, <1>2, <1>4, SMT DEF DropVols, At, Goto, Set, Thread
<1>6. /\ \A s \in Threads \ {t} : thr'[s] = thr[s]
      /\ UNCHANGED <<desired, chan, frozen, status, pods, stranded>>
  BY <1>2, <1>1, <1>5 DEF DropVols, Goto, Set
<1>7. q.op \in {"prune", "rebootstrap"}
  BY <1>2, <1>5 DEF Fits, ApplyPcs, RollbackPcs, Rolls
<1>8. PICK n \in Ordinals : /\ n \in q.todo /\ r.todo = q.todo \ {n}
                            /\ vols' = [vols EXCEPT ![n] = IF pods[n] = None THEN "none" ELSE @]
  BY <1>1, <1>2, <1>4, <1>5, SMT DEF DropVols, Set, Thread
<1>9. /\ \A k \in Ordinals \ {n} : vols'[k] = vols[k]
      /\ vols'[n] = IF pods[n] = None THEN "none" ELSE vols[n]
  BY <1>3, <1>8
<1>a. q.op = "prune" => Standing(pods) = {}
  BY <1>2, <1>5 DEF PodsGo
<1>10. Claims(desired, frozen, status.hash, pods, vols', r)
  BY <1>2, <1>5, <1>7, <1>8, <1>9, <1>a DEF Fits, OnDesired, ApplyPcs, RollbackPcs, Rolls, FrozenKnown,
     KnowsFrozen, Fills, InHand, ExtrasGo, Trimmed, StaleGo, Renewed, Stamped, Replaced, StoppedIs, PodsGo,
     VolumesGo, Standing, Claims
<1>11. Onward(q, r) /\ r.pc \notin {"idle", "decide"} /\ q.pc # "idle"
  BY <1>2, <1>5, <1>7 DEF Onward, Overlaps, Fits, ApplyPcs, RollbackPcs, Rolls
<1>12. ASSUME NEW s \in Threads \ {t}, thr[s].pc # "idle"
       PROVE  Claims(desired, frozen, status.hash, pods, vols', thr[s])
  BY <1>1, <1>5, <1>7, <1>12, Companions DEF FleetIInv, AllClaim, Claims, VolumesGo, Fits, ApplyPcs,
     RollbackPcs, Rolls
<1>13. FrozenDown(frozen, pods) /\ NoneBare(vols')
  BY <1>3, <1>9 DEF FleetTrue, NoneBare
<1>14. \A k : (Owes(q, k) => Owes(r, k)) /\ (Makes(q, k) => Makes(r, k))
  BY <1>5, <1>7 DEF Owes, Makes, InHand, Fills, Rolls
<1>15. ASSUME NEW s \in Threads \ {t}, thr[s].pc = "decide", NEW k \in thr[s].live, Wanted(desired, frozen, k), pods[k] = None
       PROVE  \E u \in Threads \ {t} : InHand(thr[u], k)
  BY <1>3, <1>15, <1>1, <1>5 DEF FleetTrue, TakenBack, InHand
<1>18. Settled(chan, thr) =>
         IF desired = None THEN Standing(pods) = {}
         ELSE status.hash = desired.spec /\ Extra(desired, pods) = {}
  BY <1>3 DEF FleetTrue, GoneWhenDeleted, DoneWhenQuiet
<1>. QED  BY <1>1, <1>4, <1>6, <1>10, <1>11, <1>12, <1>13, <1>14, <1>15, <1>18, Change

LEMMA DropVolsKeeps ==
  ASSUME FleetIInv, LockIInv', NEW t \in Threads, DropVols(t) PROVE FleetIInv'
  BY DropVolsOnKeeps, DropVolsOffKeeps

\* What holds when a request has the statefulset to itself, and when nobody is
\* at work.
LEMMA AloneKnows ==
  ASSUME FleetIInv, NEW t \in Threads, chan = <<>>, \A s \in Threads \ {t} : thr[s].pc = "idle",
         t = Loop => thr[t].pc = "idle"
  PROVE  /\ \A n \in Dark(frozen, pods) : Owes(thr[t], n)
         /\ \A n \in Missing(desired, frozen, stranded, pods) : Makes(thr[t], n)
         /\ desired = None => Standing(pods) = {}
         /\ desired # None => /\ status.hash = desired.spec /\ Extra(desired, pods) = {}
                              /\ \A n \in Stale(desired, frozen, pods) : Owes(thr[t], n)
         /\ FrozenDown(frozen, pods) /\ NoneBare(vols)
         /\ \A s \in Threads \ {t} : thr[s].op = "none"
BY Parts, IdleNone, IdleOwesNothing, LoopIsThread DEF FleetIInv, Settled, Dark, Stale, Missing, Standing,
   FleetTrue, DarkOwed, MissingMade, GoneWhenDeleted, DoneWhenQuiet, StaleOwed

LEMMA WriteFrozenKeeps ==
  ASSUME FleetIInv, LockIInv', NEW t \in Threads, WriteFrozen(t) PROVE FleetIInv'
<1>1. PICK q \in Thread : q = thr[t]
  BY Parts
<1>2. /\ thr \in [Threads -> Thread] /\ Equipped(q) /\ Fits(desired, q) /\ FrozenKnown(desired, frozen, q)
      /\ ExtrasGo(desired, pods, q) /\ StaleGo(desired, frozen, status.hash, pods, q) /\ Replaced(desired, pods, q)
      /\ StoppedIs(pods, q) /\ PodsGo(pods, q) /\ VolumesGo(vols, q)
  BY <1>1, Parts
<1>3. /\ TypeOK /\ pods \in [Ordinals -> Pod \cup {None}] /\ vols \in [Ordinals -> {"none", "kept", "bare"}]
      /\ FleetTrue(desired, chan, frozen, stranded, status.hash, pods, vols, thr)
  BY DEF FleetIInv, LockIInv, TypeOK
<1>4. PICK r : r = thr'[t]
  OBVIOUS
<1>5. /\ q.pc = "writeFrozen"
      /\ r.op = q.op /\ r.m = q.m /\ r.live = q.live /\ r.frz = q.frz /\ r.todo = q.todo /\ r.n = q.n /\ r.back = q.back /\ r.ret = q.ret
      /\ r.pc = (IF q.op = "stop" THEN "leave" ELSE "clear")
      /\ frozen' = (IF q.op = "stop" THEN q.frz \cup {q.n} ELSE IF q.n \in q.frz THEN q.frz \ {q.n} ELSE frozen)
  BY <1>1, <1>2, <1>4, SMT DEF WriteFrozen, At, Goto, Set, Thread
<1>6. /\ \A s \in Threads \ {t} : thr'[s] = thr[s]
      /\ UNCHANGED <<desired, chan, status, pods, vols, stranded>>
  BY <1>2, <1>1, <1>5 DEF WriteFrozen, Goto, Set
<1>7. q.op \in {"stop", "start"}
  BY <1>2, <1>5 DEF Fits, ApplyPcs, RollbackPcs, Rolls
<1>b. t \in Https
  <2>1. t # Loop
    BY <1>1, <1>7 DEF FleetIInv, Alone
  <2>. QED  BY <2>1 DEF Threads
<1>c. chan = <<>> /\ \A s \in Threads \ {t} : thr[s].pc = "idle" /\ thr[s].op = "none"
  BY <1>1, <1>5, <1>7, <1>b, AtItAlone DEF Overlaps
<1>d. /\ \A n \in Dark(frozen, pods) : Owes(q, n)
      /\ \A n \in Missing(desired, frozen, stranded, pods) : Makes(q, n)
      /\ desired = None => Standing(pods) = {}
      /\ desired # None => /\ status.hash = desired.spec /\ Extra(desired, pods) = {}
                           /\ \A n \in Stale(desired, frozen, pods) : Owes(q, n)
      /\ FrozenDown(frozen, pods) /\ NoneBare(vols)
  BY <1>1, <1>b, <1>c, AloneKnows, LoopIsThread
<1>8. PICK n \in Ordinals : n = q.n /\ pods[n] # None
  BY <1>2, <1>5, <1>7 DEF Equipped, HasOrdinal, StoppedIs
<1>9. /\ q.op = "stop" => frozen' = frozen \cup {n} /\ ~pods[n].up
      /\ q.op = "start" => frozen' = frozen \ {n}
  BY <1>2, <1>5, <1>7, <1>8 DEF FrozenKnown, KnowsFrozen, StoppedIs
<1>10. Claims(desired, frozen', status.hash, pods, vols, r)
  BY <1>2, <1>5, <1>7, <1>8, <1>9 DEF Fits, OnDesired, ApplyPcs, RollbackPcs, Rolls, FrozenKnown,
     KnowsFrozen, Fills, InHand, ExtrasGo, Trimmed, StaleGo, Renewed, Stamped, Replaced, StoppedIs, PodsGo,
     VolumesGo, Claims
<1>11. FrozenDown(frozen', pods)
  BY <1>7, <1>8, <1>9, <1>d DEF FrozenDown
<1>12. \A k \in Ordinals : Owes(q, k) <=> k = n
  BY <1>5, <1>7, <1>8 DEF Owes, Rolls
<1>13. \A k \in Ordinals : ~Makes(q, k)
  BY <1>5, <1>7 DEF Makes, InHand, Fills
<1>14. q.op = "start" => Owes(r, n)
  BY <1>5, <1>8 DEF Owes
<1>15. \A k \in Dark(frozen', pods) : Owes(r, k)
  BY <1>7, <1>8, <1>9, <1>12, <1>d, <1>14 DEF Dark, Standing
<1>16. desired # None => \A k \in Stale(desired, frozen', pods) : Owes(r, k)
  BY <1>7, <1>8, <1>9, <1>12, <1>d, <1>14 DEF Stale, Standing
<1>17. Missing(desired, frozen', stranded, pods) = {}
  BY <1>13, <1>d, <1>7, <1>8, <1>9 DEF Missing, Wanted, Standing
<1>18. r.pc # "decide" /\ r.op # "remove"
  BY <1>5, <1>7
<1>. QED  BY <1>4, <1>6, <1>10, <1>11, <1>15, <1>16, <1>17, <1>18, <1>b, <1>c, <1>d, LoopIsThread, OnlyOne

\* The manifest put is desired from here on, and the loop will hear of it.
LEMMA PutKeeps ==
  ASSUME FleetIInv, LockIInv', NEW t \in Threads, Put(t) PROVE FleetIInv'
<1>1. PICK q \in Thread : q = thr[t]
  BY Parts
<1>2. /\ thr \in [Threads -> Thread] /\ Equipped(q) /\ Fits(desired, q) /\ FrozenKnown(desired, frozen, q)
      /\ ExtrasGo(desired, pods, q) /\ StaleGo(desired, frozen, status.hash, pods, q) /\ Replaced(desired, pods, q)
      /\ StoppedIs(pods, q) /\ PodsGo(pods, q) /\ VolumesGo(vols, q)
  BY <1>1, Parts
<1>3. /\ TypeOK /\ pods \in [Ordinals -> Pod \cup {None}] /\ vols \in [Ordinals -> {"none", "kept", "bare"}]
      /\ FleetTrue(desired, chan, frozen, stranded, status.hash, pods, vols, thr)
  BY DEF FleetIInv, LockIInv, TypeOK
<1>4. PICK r : r = thr'[t]
  OBVIOUS
<1>5. /\ q.pc = "put"
      /\ r.op = q.op /\ r.m = q.m /\ r.live = q.live /\ r.frz = q.frz /\ r.todo = q.todo /\ r.n = q.n /\ r.back = q.back /\ r.ret = q.ret
      /\ r.pc = (IF q.op = "rollback" THEN "append" ELSE "leave")
      /\ desired' = q.m /\ chan' = Append(chan, q.m)
  BY <1>1, <1>2, <1>4, SMT DEF Put, At, Goto, Set, Thread, Emit
<1>6. /\ \A s \in Threads \ {t} : thr'[s] = thr[s]
      /\ UNCHANGED <<frozen, status, pods, vols, stranded>>
  BY <1>2, <1>1, <1>5 DEF Put, Goto, Set
<1>7. q.op \in {"start", "rollback"}
  BY <1>2, <1>5 DEF Fits, ApplyPcs, RollbackPcs, Rolls
<1>b. t \in Https
  <2>1. t # Loop
    BY <1>1, <1>7 DEF FleetIInv, Alone
  <2>. QED  BY <2>1 DEF Threads
<1>c. chan = <<>> /\ \A s \in Threads \ {t} : thr[s].pc = "idle" /\ thr[s].op = "none"
  BY <1>1, <1>5, <1>7, <1>b, AtItAlone DEF Overlaps
<1>d. /\ \A n \in Dark(frozen, pods) : Owes(q, n)
      /\ \A n \in Missing(desired, frozen, stranded, pods) : Makes(q, n)
      /\ desired = None => Standing(pods) = {}
      /\ desired # None => /\ status.hash = desired.spec /\ Extra(desired, pods) = {}
                           /\ \A n \in Stale(desired, frozen, pods) : Owes(q, n)
      /\ FrozenDown(frozen, pods) /\ NoneBare(vols)
  BY <1>1, <1>b, <1>c, AloneKnows, LoopIsThread
<1>8. desired # None /\ (q.op = "start" => q.m = desired) /\ q.m # None
  BY <1>2, <1>5, <1>7, StatefulsetAssumption DEF Equipped, HasManifest, Fits, OnDesired, ApplyPcs,
     RollbackPcs, Rolls
<1>9. chan' = <<desired'>>
  BY <1>5, <1>c
<1>10. Claims(desired', frozen, status.hash, pods, vols, r)
  BY <1>2, <1>5, <1>7, <1>8 DEF Fits, OnDesired, ApplyPcs, RollbackPcs, Rolls, FrozenKnown, KnowsFrozen,
     Fills, InHand, ExtrasGo, Trimmed, StaleGo, Renewed, Stamped, Replaced, StoppedIs, PodsGo, VolumesGo,
     Claims
<1>11. \A k : ~Owes(q, k)
  BY <1>5, <1>7 DEF Owes, Rolls
<1>12. Dark(frozen, pods) = {}
  BY <1>11, <1>d
<1>13. status.hash \in {None, desired'.spec} => Stale(desired', frozen, pods) = {}
  BY <1>8, <1>11, <1>d, <1>3, StatefulsetAssumption DEF TypeOK, Stale
<1>14. Overlaps(r) /\ r.pc # "decide" /\ r.op # "remove"
  BY <1>5, <1>7 DEF Overlaps
<1>15. chan' # <<>>
  BY <1>9
<1>. QED  BY <1>4, <1>6, <1>9, <1>10, <1>12, <1>13, <1>14, <1>15, <1>b, <1>c, <1>d, LoopIsThread, OnlyOne

-----------------------------------------------------------------------------
(* The loop takes its event.                                                  *)

LEMMA NextEventKeeps ==
  ASSUME FleetIInv, LockIInv', NextEvent PROVE FleetIInv'
<1>0. /\ Alone(desired, chan, thr) /\ thr \in [Threads -> Thread]
      /\ \A s \in Threads : Claims(desired, frozen, status.hash, pods, vols, thr[s])
      /\ FleetTrue(desired, chan, frozen, stranded, status.hash, pods, vols, thr)
  BY LoopIsThread, Parts DEF FleetIInv, AllClaim
<1>1. chan # <<>> /\ thr[Loop].pc = "idle"
  BY DEF NextEvent, At
<1>2. chan = <<desired>>
  BY <1>0, <1>1 DEF Alone
<1>3. chan' = <<>>
  BY <1>2 DEF NextEvent
<1>4. /\ \A s \in Threads \ {Loop} : thr'[s] = thr[s]
      /\ UNCHANGED <<desired, frozen, status, pods, vols, stranded>>
  BY <1>0 DEF NextEvent, Set
<1>5. PICK r : r = thr'[Loop]
  OBVIOUS
<1>6. /\ r.live = {} /\ r.frz = {} /\ r.todo = {} /\ r.n = None /\ r.back = "up" /\ r.ret = "leave"
      /\ IF desired = None THEN r.op = "remove" /\ r.pc = "doomed" ELSE r.op = "apply" /\ r.pc = "list" /\ r.m = desired
  <2>1. r = IF desired = None THEN [Idle EXCEPT !.op = "remove", !.pc = "doomed"]
            ELSE [Idle EXCEPT !.op = "apply", !.pc = "list", !.m = desired]
    <3>1. Head(chan) = desired
      BY <1>2
    <3>2. thr' = [thr EXCEPT ![Loop] = IF desired = None THEN [Idle EXCEPT !.op = "remove", !.pc = "doomed"]
                                       ELSE [Idle EXCEPT !.op = "apply", !.pc = "list", !.m = desired]]
      BY <3>1 DEF NextEvent, Set
    <3>. QED  BY <1>0, <1>5, <3>2, LoopIsThread
  <2>. QED  BY <2>1 DEF Idle
<1>7. Claims(desired, frozen, status.hash, pods, vols, r)
  BY <1>6 DEF Fits, OnDesired, ApplyPcs, Rolls, Fills, KnowsFrozen, Trimmed, Renewed, Stamped, FrozenKnown,
     ExtrasGo, StaleGo, Replaced, StoppedIs, PodsGo, VolumesGo, Claims
<1>8. AllClaim(desired', frozen', status'.hash, pods', vols', thr')
  BY <1>0, <1>4, <1>5, <1>7 DEF AllClaim
<1>9. Alone(desired', chan', thr')
  BY <1>4, LoopIsThread, <1>1, <1>5, <1>6, <1>0, <1>3 DEF Settled, Alone
<1>10. DarkOwed(frozen', pods', thr') /\ StaleOwed(desired', frozen', status'.hash, pods', thr')
  BY <1>4, LoopIsThread, <1>0 DEF FleetTrue, DarkOwed, StaleOwed
<1>11. MissingMade(desired', chan', frozen', stranded', pods', thr')
  BY <1>4, LoopIsThread, <1>5, <1>6 DEF MissingMade, Missing, Wanted, Makes
<1>12. TakenBack(desired', frozen', pods', thr')
  BY <1>4, <1>5, <1>6, <1>0, <1>1 DEF TakenBack, FleetTrue, InHand
<1>13. GoneWhenDeleted(desired', chan', pods', thr') /\ DoneWhenQuiet(desired', chan', status'.hash, pods', thr')
  BY <1>5, <1>6 DEF GoneWhenDeleted, DoneWhenQuiet, Settled
<1>14. FrozenDown(frozen', pods') /\ NoneBare(vols')
  BY <1>0, <1>4 DEF FleetTrue
<1>15. FleetTrue(desired', chan', frozen', stranded', status'.hash, pods', vols', thr')
  BY <1>10, <1>11, <1>12, <1>13, <1>14 DEF FleetTrue
<1>. QED  BY <1>8, <1>9, <1>15 DEF FleetIInv

-----------------------------------------------------------------------------
(* Operators who wait until all is quiet, and crashes.                        *)

LEMMA QuietKnows ==
  ASSUME FleetIInv, Quiet
  PROVE  /\ chan = <<>> /\ thr \in [Threads -> Thread] /\ pods \in [Ordinals -> Pod \cup {None}]
         /\ \A s \in Threads : thr[s].pc = "idle" /\ thr[s].op = "none"
         /\ Dark(frozen, pods) = {} /\ Missing(desired, frozen, stranded, pods) = {}
         /\ desired = None => Standing(pods) = {}
         /\ desired # None => /\ status.hash = desired.spec /\ status.hash # None
                              /\ Extra(desired, pods) = {} /\ Stale(desired, frozen, pods) = {}
         /\ FrozenDown(frozen, pods) /\ NoneBare(vols) /\ frozen \subseteq Ordinals
BY Parts, IdleNone, LoopIsThread, IdleOwesNothing, AloneKnows, StatefulsetAssumption DEF Quiet, At,
   FleetIInv, LockIInv, TypeOK

\* An operator changes the manifest, and no goroutine is at work yet.
LEMMA ApplyKeeps ==
  ASSUME Patient, FleetIInv, LockIInv', NEW m \in Manifests, Apply(m) PROVE FleetIInv'
BY QuietKnows, IdleClaims, LoopIsThread, OnlyOne DEF Apply, Request, Emit, Stale

LEMMA DeleteKeeps ==
  ASSUME Patient, FleetIInv, LockIInv', Delete PROVE FleetIInv'
BY QuietKnows, IdleClaims, LoopIsThread, OnlyOne DEF Delete, Request, Emit

\* The controller comes back with everyone idle and the manifest to handle again.
LEMMA CrashKeeps ==
  ASSUME Patient, FleetIInv, LockIInv', Crash PROVE FleetIInv'
BY LoopIsThread, IdleClaims, QuietKnows, OnlyOne DEF Crash, Request, Idle


\* A request starts on a statefulset at rest.
LEMMA DeletePruneKeeps ==
  ASSUME Patient, FleetIInv, LockIInv', NEW t \in Https, DeletePrune(t) PROVE FleetIInv'
<1>1. Quiet /\ t \in Threads
  BY LoopIsThread DEF DeletePrune, Request
<1>2. UNCHANGED <<frozen, status, pods, vols, stranded>> /\ \A s \in Threads \ {t} : thr'[s] = thr[s]
  BY <1>1, QuietKnows DEF DeletePrune, Set
<1>3. PICK r : r = thr'[t]
  OBVIOUS
<1>4. r.op = "prune" /\ r.pc = "listPods" /\ r.n = None /\ r.back = "up"
  BY <1>1, <1>3, QuietKnows DEF DeletePrune, Set, Idle
<1>5. chan' = <<None>> /\ desired' = None
  BY <1>1, QuietKnows DEF DeletePrune, Emit
<1>6. \A s \in Threads \ {t} : thr'[s].op = "none" /\ thr'[s].pc = "idle"
  BY <1>1, <1>2, QuietKnows
<1>7. Claims(None, frozen, status.hash, pods, vols, r)
  BY <1>4 DEF Fits, Rolls, Fills, KnowsFrozen, Trimmed, Renewed, Stamped, FrozenKnown, ExtrasGo, StaleGo,
     Replaced, StoppedIs, PodsGo, VolumesGo, Claims
<1>8. Overlaps(r) /\ r.pc # "decide" /\ r.op # "remove"
  BY <1>4 DEF Overlaps
<1>9. chan' = <<desired'>> /\ chan' # <<>>
  BY <1>5
<1>. QED  BY <1>1, <1>2, <1>3, <1>5, <1>6, <1>7, <1>8, <1>9, QuietKnows, LoopIsThread, OnlyOne

LEMMA RestartKeeps ==
  ASSUME Patient, FleetIInv, LockIInv', NEW t \in Https, Restart(t) PROVE FleetIInv'
<1>1. Quiet /\ t \in Threads
  BY LoopIsThread DEF Restart, Request
<1>2. UNCHANGED <<desired, chan, status, pods, vols>> /\ \A s \in Threads \ {t} : thr'[s] = thr[s]
  BY <1>1, QuietKnows DEF Restart, Set
<1>3. PICK r : r = thr'[t]
  OBVIOUS
<1>4. r.op = "restart" /\ r.pc = "get" /\ r.n = None /\ r.back = "up" /\ r.ret = "leave"
  BY <1>1, <1>3, QuietKnows DEF Restart, Set, Idle
<1>5. frozen' = {} /\ stranded' = stranded \cup (frozen \ Live)
  BY DEF Restart
<1>6. \A s \in Threads \ {t} : thr'[s].op = "none" /\ thr'[s].pc = "idle"
  BY <1>1, <1>2, QuietKnows
<1>7. Claims(desired, {}, status.hash, pods, vols, r)
  BY <1>4 DEF Fits, Rolls, Fills, KnowsFrozen, Trimmed, Renewed, Stamped, FrozenKnown, ExtrasGo, StaleGo,
     Replaced, StoppedIs, PodsGo, VolumesGo, Claims
<1>8. r.pc # "decide" /\ r.op # "remove" /\ \A n : Owes(r, n)
  BY <1>4 DEF Owes
<1>9. FrozenDown({}, pods)
  BY DEF FrozenDown
<1>10. Missing(desired, {}, stranded', pods) = {}
  BY <1>5, <1>1, QuietKnows DEF Missing, Wanted, Standing, Live
<1>. QED  BY <1>1, <1>2, <1>3, <1>5, <1>6, <1>7, <1>8, <1>9, <1>10, QuietKnows, LoopIsThread, OnlyOne

LEMMA RollbackKeeps ==
  ASSUME Patient, FleetIInv, LockIInv', NEW t \in Https, Rollback(t) PROVE FleetIInv'
<1>1. Quiet /\ t \in Threads
  BY LoopIsThread DEF Rollback, Request
<1>2. UNCHANGED <<desired, chan, frozen, status, pods, vols, stranded>> /\ \A s \in Threads \ {t} : thr'[s] = thr[s]
  BY <1>1, QuietKnows DEF Rollback, Set
<1>3. PICK r : r = thr'[t]
  OBVIOUS
<1>4. r.op = "rollback" /\ r.pc = "put" /\ r.n = None /\ r.back = "up"
  BY <1>1, <1>3, QuietKnows DEF Rollback, Set, Idle
<1>5. desired # None
  BY DEF Rollback
<1>6. \A s \in Threads \ {t} : thr'[s].op = "none" /\ thr'[s].pc = "idle"
  BY <1>1, <1>2, QuietKnows
<1>7. Claims(desired, frozen, status.hash, pods, vols, r)
  BY <1>4, <1>5 DEF Fits, Rolls, Fills, KnowsFrozen, Trimmed, Renewed, Stamped, FrozenKnown, ExtrasGo,
     StaleGo, Replaced, StoppedIs, PodsGo, VolumesGo, Claims
<1>8. r.pc # "decide" /\ r.op # "remove"
  BY <1>4
<1>. QED  BY <1>1, <1>2, <1>3, <1>5, <1>6, <1>7, <1>8, QuietKnows, LoopIsThread, OnlyOne

LEMMA PodStartKeeps ==
  ASSUME Patient, FleetIInv, LockIInv', NEW t \in Https, NEW n \in Ordinals, PodStart(t, n) PROVE FleetIInv'
<1>1. Quiet /\ t \in Threads
  BY LoopIsThread DEF PodStart, Request
<1>2. UNCHANGED <<desired, chan, frozen, status, pods, vols, stranded>> /\ \A s \in Threads \ {t} : thr'[s] = thr[s]
  BY <1>1, QuietKnows DEF PodStart, Set
<1>3. PICK r : r = thr'[t]
  OBVIOUS
<1>4. r.op = "start" /\ r.pc = "readFrozen" /\ r.n = n /\ r.back = "up"
  BY <1>1, <1>3, QuietKnows DEF PodStart, Set, Idle
<1>5. pods[n] # None /\ desired # None
  BY <1>1, QuietKnows DEF PodStart, Standing
<1>6. \A s \in Threads \ {t} : thr'[s].op = "none" /\ thr'[s].pc = "idle"
  BY <1>1, <1>2, QuietKnows
<1>7. Claims(desired, frozen, status.hash, pods, vols, r)
  BY <1>4, <1>5 DEF Fits, Rolls, Fills, KnowsFrozen, Trimmed, Renewed, Stamped, FrozenKnown, ExtrasGo,
     StaleGo, Replaced, StoppedIs, PodsGo, VolumesGo, Claims
<1>8. r.pc # "decide" /\ r.op # "remove"
  BY <1>4
<1>. QED  BY <1>1, <1>2, <1>3, <1>5, <1>6, <1>7, <1>8, QuietKnows, LoopIsThread, OnlyOne

LEMMA PodStopKeeps ==
  ASSUME Patient, FleetIInv, LockIInv', NEW t \in Https, NEW n \in Ordinals, PodStop(t, n) PROVE FleetIInv'
<1>1. Quiet /\ t \in Threads
  BY LoopIsThread DEF PodStop, Request
<1>2. UNCHANGED <<desired, chan, frozen, status, vols, stranded>> /\ \A s \in Threads \ {t} : thr'[s] = thr[s]
  BY <1>1, QuietKnows DEF PodStop, Set
<1>3. PICK r : r = thr'[t]
  OBVIOUS
<1>4. r.op = "stop" /\ r.pc = "readFrozen" /\ r.n = n /\ r.back = "up"
  BY <1>1, <1>3, QuietKnows DEF PodStop, Set, Idle
<1>5. pods[n] # None /\ desired # None
  BY <1>1, QuietKnows DEF PodStop, Standing
<1>a. PICK e \in Pod : e = pods[n]
  BY <1>1, <1>5, QuietKnows
<1>b. PICK g : g = [e EXCEPT !.up = FALSE]
  OBVIOUS
<1>c. g \in Pod /\ g.spec = e.spec /\ g.up = FALSE
  BY <1>b DEF Pod
<1>d. pods'[n] = g /\ \A k \in Ordinals \ {n} : pods'[k] = pods[k]
  BY <1>1, <1>a, <1>b, QuietKnows DEF PodStop
<1>e. g # None
  BY <1>c, NoneIsNoPod
<1>f. Standing(pods') = Standing(pods)
  BY <1>5, <1>d, <1>e DEF Standing
<1>g. pods'[n] # None /\ ~pods'[n].up
  BY <1>c, <1>d, <1>e
<1>h. \A k \in Standing(pods) : pods'[k].spec = pods[k].spec
  BY <1>a, <1>c, <1>d DEF Standing
<1>i. /\ Extra(desired, pods') = Extra(desired, pods) /\ Stale(desired, frozen, pods') = Stale(desired, frozen, pods)
      /\ Missing(desired, frozen, stranded, pods') = Missing(desired, frozen, stranded, pods)
  BY <1>f, <1>h DEF Extra, Stale, Missing
<1>j. \A k \in Dark(frozen, pods') : k = n \/ k \in Dark(frozen, pods)
  BY <1>d, <1>f DEF Dark, Standing
<1>k. FrozenDown(frozen, pods')
  BY <1>1, <1>d, <1>g, QuietKnows DEF FrozenDown
<1>6. \A s \in Threads \ {t} : thr'[s].op = "none" /\ thr'[s].pc = "idle"
  BY <1>1, <1>2, QuietKnows
<1>7. Claims(desired, frozen, status.hash, pods', vols, r)
  BY <1>4, <1>5, <1>g DEF Fits, Rolls, Fills, KnowsFrozen, Trimmed, Renewed, Stamped, FrozenKnown, ExtrasGo,
     StaleGo, Replaced, StoppedIs, PodsGo, VolumesGo, Claims
<1>8. r.pc # "decide" /\ r.op # "remove" /\ Owes(r, n)
  BY <1>4 DEF Owes
<1>9. \A k \in Dark(frozen, pods') : Owes(r, k)
  BY <1>1, <1>8, <1>j, QuietKnows
<1>. QED  BY <1>1, <1>2, <1>3, <1>5, <1>6, <1>7, <1>8, <1>9, <1>i, <1>k, QuietKnows, LoopIsThread, OnlyOne

LEMMA RebootstrapKeeps ==
  ASSUME Patient, FleetIInv, LockIInv', NEW t \in Https, NEW n \in Ordinals, NEW prune \in BOOLEAN, Rebootstrap(t, n, prune) PROVE FleetIInv'
<1>1. Quiet /\ t \in Threads
  BY LoopIsThread DEF Rebootstrap, Request
<1>2. UNCHANGED <<desired, chan, frozen, status, vols, stranded>> /\ \A s \in Threads \ {t} : thr'[s] = thr[s]
  BY <1>1, QuietKnows DEF Rebootstrap, Set
<1>3. PICK r : r = thr'[t]
  OBVIOUS
<1>4. r.op = "rebootstrap" /\ r.pc = (IF prune THEN "listVols" ELSE "reget") /\ r.n = n /\ r.back = "up"
  BY <1>1, <1>3, QuietKnows DEF Rebootstrap, Set, Idle
<1>5. desired # None /\ n # None /\ pods' = [pods EXCEPT ![n] = None]
  BY StatefulsetAssumption DEF Rebootstrap
<1>a. TypeOK
  BY DEF FleetIInv, LockIInv
<1>b. /\ pods'[n] = None /\ \A k \in Ordinals \ {n} : pods'[k] = pods[k]
      /\ Standing(pods') = Standing(pods) \ {n} /\ Extra(desired, pods') = Extra(desired, pods) \ {n}
      /\ Stale(desired, frozen, pods') = Stale(desired, frozen, pods) \ {n} /\ Dark(frozen, pods') = Dark(frozen, pods) \ {n}
  BY <1>5, <1>a, PodGone
<1>c. FrozenDown(frozen, pods')
  BY <1>1, <1>b, QuietKnows DEF FrozenDown
<1>6. \A s \in Threads \ {t} : thr'[s].op = "none" /\ thr'[s].pc = "idle"
  BY <1>1, <1>2, QuietKnows
<1>7. Claims(desired, frozen, status.hash, pods', vols, r)
  BY <1>4, <1>5 DEF Fits, Rolls, Fills, KnowsFrozen, Trimmed, Renewed, Stamped, FrozenKnown, ExtrasGo,
     StaleGo, Replaced, StoppedIs, PodsGo, VolumesGo, Claims
<1>8. r.pc # "decide" /\ r.op # "remove" /\ \A k : Makes(r, k)
  BY <1>4 DEF Makes
<1>9. Dark(frozen, pods') = {} /\ Extra(desired, pods') = {} /\ Stale(desired, frozen, pods') = {}
  BY <1>1, <1>5, <1>b, QuietKnows
<1>. QED  BY <1>1, <1>2, <1>3, <1>5, <1>6, <1>7, <1>8, <1>9, <1>c, QuietKnows, LoopIsThread, OnlyOne

LEMMA OperatorKeeps ==
  ASSUME Patient, FleetIInv, LockIInv', Operator PROVE FleetIInv'
BY ApplyKeeps, DeleteKeeps, DeletePruneKeeps, RestartKeeps, RollbackKeeps, PodStopKeeps, PodStartKeeps,
   RebootstrapKeeps DEF Operator

LEMMA ThreadStepKeeps ==
  ASSUME FleetIInv, LockIInv', NEW t \in Threads, ApplyStep(t) \/ RollStep(t) \/ RequestStep(t) PROVE FleetIInv'
BY ListKeeps, DecideKeeps, UpKeeps, MountKeeps, RunKeeps, PruneKeeps, TrimKeeps, DriftKeeps, StampKeeps,
   RecordKeeps, LeaveKeeps, DoomedKeeps, RemovePodsKeeps, LockKeeps, TakeKeeps, UnlockKeeps, ListPodsKeeps,
   PrunePodsKeeps, ListVolsKeeps, DropVolsKeeps, RegetKeeps, RestartGetKeeps, RestartLookKeeps,
   ReadFrozenKeeps, WriteFrozenKeeps, ClearPodKeeps, FetchKeeps, PutKeeps, AppendRecordKeeps,
   RelistForRollKeeps, ScaleUpKeeps, RestaleKeeps DEF ApplyStep, RollStep, RequestStep

LEMMA FleetInductive ==
  ASSUME Patient, FleetIInv, [Next]_vars PROVE FleetIInv'
BY LockInductive, NextEventKeeps, ThreadStepKeeps, OperatorKeeps, CrashKeeps DEF FleetIInv, vars, Next

LEMMA InitFleet == Init => FleetIInv
<1>. SUFFICES ASSUME Init PROVE FleetIInv
  OBVIOUS
<1>1. LockIInv
  BY InitLocks
<1>2. \A t \in Threads : thr[t].op = "none" /\ thr[t].pc = "idle"
  BY DEF Init, Idle
<1>3. Alone(desired, chan, thr)
  BY <1>2, LoopIsThread DEF Init, Alone, Settled
<1>4. AllClaim(desired, frozen, status.hash, pods, vols, thr)
  BY <1>2, IdleClaims DEF AllClaim
<1>5. Standing(pods) = {} /\ desired = None
  BY DEF Init, Standing
<1>6. FleetTrue(desired, chan, frozen, stranded, status.hash, pods, vols, thr)
  BY <1>5, <1>2 DEF Dark, Missing, Wanted, Init, FrozenDown, NoneBare, TakenBack, FleetTrue, DarkOwed,
     StaleOwed, MissingMade, GoneWhenDeleted, DoneWhenQuiet
<1>. QED  BY <1>1, <1>3, <1>4, <1>6 DEF FleetIInv

\* FleetSafe holds of every instance whose operators wait for earlier work: at
\* rest each wanted ordinal that is not frozen runs the desired spec and none
\* above the count is left (apply, pruneOrdinalsAbove), a pod stopped with
\* freeze stays down (handlePodStop), a rollback writes its status with every
\* pod on the target (rolloutRollback), a pruning delete leaves no volume
\* (applyDelete), and no two rolls replace pods at once (rolloutLocks).
THEOREM FleetCorrect ==
  ASSUME Patient PROVE Spec => []FleetSafe
<1>1. Init => FleetIInv
  BY InitFleet
<1>2. FleetIInv /\ [Next]_vars => FleetIInv'
  BY FleetInductive
<1>3. FleetIInv => FleetSafe
  BY FleetIsSafe
<1>. QED  BY <1>1, <1>2, <1>3, PTL DEF Spec

-----------------------------------------------------------------------------
(* The primary goes last.                                                     *)

LEMMA OthersStay ==
  ASSUME FleetIInv, NEW t \in Threads, NEW s \in Threads \ {t}, ApplyStep(t) \/ RollStep(t) \/ RequestStep(t)
  PROVE  thr'[s] = thr[s]
<1>0. thr \in [Threads -> Thread]
  BY Parts
<1>1. \E r : thr' = [thr EXCEPT ![t] = r]
  BY DEF List, Set, Goto, Decide, Up, Mount, Run, Prune, Trim, RemoveHighest, Drift, Stamp, Record, Leave,
     Done, Doomed, RemovePods, ListPods, PrunePods, ListVols, DropVols, Reget, RestartGet, RestartLook,
     ReadFrozen, WriteFrozen, ClearPod, Fetch, Put, AppendRecord, RelistForRoll, ScaleUp, Restale, Lock, Take,
     Unlock, ApplyStep, RollStep, RequestStep
<1>. QED  BY <1>0, <1>1

LEMMA OnlyRollsWalk ==
  ASSUME NEW t \in Threads, thr[t].pc = "roll" PROVE ~ApplyStep(t) /\ ~RequestStep(t) /\ ~Lock(t)
BY DEF ApplyStep, At, List, Decide, Up, Mount, Run, Prune, Trim, Drift, Stamp, Record, Leave, Doomed,
   RemovePods, RequestStep, Lock, ListPods, PrunePods, ListVols, DropVols, Reget, RestartGet, RestartLook,
   ReadFrozen, WriteFrozen, ClearPod, Fetch, Put, AppendRecord, RelistForRoll, ScaleUp, Restale

LEMMA TakesPrimaryLast ==
  ASSUME FleetIInv, [Next]_vars, NEW t \in Threads, thr[t].pc = "roll", thr'[t].n = 0, NEW n \in thr[t].live \ {0}
  PROVE  pods[n] # None /\ pods[n].spec = thr[t].m.spec
<1>1. PICK q \in Thread : q = thr[t]
  BY Parts
<1>2. Fits(desired, q) /\ Replaced(desired, pods, q) /\ thr \in [Threads -> Thread]
  BY <1>1, Parts
<1>3. Rolls(q) /\ q.pc = "roll"
  BY <1>1 DEF Rolls
<1>4. q.op \in {"apply", "rollback", "restart"} /\ q.m = desired
  BY <1>2, <1>3 DEF Fits, OnDesired, ApplyPcs, RollbackPcs
<1>5. q.n = None /\ thr'[t] # thr[t]
  <2>1. q.n = None
    BY <1>2, <1>3, <1>4 DEF Replaced
  <2>. QED  BY <1>1, <2>1, StatefulsetAssumption
<1>6. Take(t)
  <2>1. CASE UNCHANGED vars
    BY <1>5, <2>1 DEF vars
  <2>2. CASE NextEvent
    BY <1>1, <1>2, <1>3, <1>5, <2>2 DEF NextEvent, Set, At
  <2>3. CASE Crash
    BY <2>3, StatefulsetAssumption DEF Crash, Idle
  <2>4. CASE Operator
    BY <1>5, <2>4, <1>1, <1>2, <1>3 DEF Apply, Delete, Operator, DeletePrune, Restart, Rollback, PodStop,
       PodStart, Rebootstrap, Set, At
  <2>5. CASE \E u \in Threads : ApplyStep(u) \/ RollStep(u) \/ RequestStep(u)
    <3>1. PICK u \in Threads : ApplyStep(u) \/ RollStep(u) \/ RequestStep(u)
      BY <2>5
    <3>2. u = t
      BY <1>5, <3>1, OthersStay
    <3>3. Take(t) \/ Unlock(t)
      BY <1>1, <1>3, <3>1, <3>2, OnlyRollsWalk DEF RollStep
    <3>4. ~Unlock(t)
      BY <1>1, <1>2, <1>5, StatefulsetAssumption DEF Unlock, Goto, Set, Thread
    <3>. QED  BY <3>3, <3>4
  <2>. QED  BY <2>1, <2>2, <2>3, <2>4, <2>5 DEF Next
<1>7. q.todo # {} /\ q.todo \in SUBSET Ordinals /\ q.live \in SUBSET Ordinals
  BY <1>1, <1>6 DEF Take, Thread
<1>8. Highest(q.todo) = 0
  <2>1. thr'[t].n = Highest(q.todo)
    BY <1>1, <1>2, <1>6 DEF Take, Set, Thread
  <2>. QED  BY <2>1
<1>9. \A k \in q.todo : k = 0
  BY <1>7, <1>8, HighestIs, StatefulsetAssumption
<1>10. n \in q.live \ q.todo /\ n # None
  BY <1>1, <1>7, <1>9, StatefulsetAssumption
<1>. QED  BY <1>1, <1>2, <1>3, <1>4, <1>5, <1>10 DEF Replaced

\* PrimaryLast holds of every instance whose operators wait for earlier work:
\* rollingReplaceTopDown, from apply, restart or rollback, takes pod 0 down
\* only when every other pod it listed is there and runs the spec it brings.
THEOREM PrimaryGoesLast ==
  ASSUME Patient PROVE Spec => PrimaryLast
<1>1. Init => FleetIInv
  BY InitFleet
<1>2. FleetIInv /\ [Next]_vars => FleetIInv'
  BY FleetInductive
<1>3. FleetIInv /\ [Next]_vars =>
        [\A t \in Threads :
           At(t, "roll") /\ thr'[t].n = 0 =>
             \A n \in thr[t].live \ {0} : pods[n] # None /\ pods[n].spec = thr[t].m.spec]_vars
  BY TakesPrimaryLast DEF At
<1>. QED  BY <1>1, <1>2, <1>3, PTL DEF Spec, PrimaryLast

=============================================================================
