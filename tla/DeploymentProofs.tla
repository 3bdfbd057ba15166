-------------------------- MODULE DeploymentProofs --------------------------
(***************************************************************************)
(* Theorems about Deployment, for every value of its constants.            *)
(***************************************************************************)
EXTENDS Deployment, TLAPS, FiniteSetTheorems, NaturalsInduction, WellFoundedInduction

\* Steps that a thread takes with no manifest in hand.
NoManifest == {"idle", "listDoomed", "remove", "ok", "failed", "again", "sleep",
               "materialize", "find", "leave", "readFrozen", "writeFrozen", "discard"}

\* Steps of a push, a release or a rollback that still need their build.
NeedsBuild == {"build", "swap", "commands", "listRelease", "recordRelease",
               "putTarget", "appendRecord", "retag"}

\* A thread that is about to use a manifest or a build has one.
Equipped == {r \in Thread : /\ r.pc \notin NoManifest => r.m \in Manifests
                            /\ r.pc \in NeedsBuild \/ r.ret = "recordRelease"
                                 => r.img \in Builds
                            /\ r.pc \in {"listDoomed", "remove", "readFrozen",
                                         "writeFrozen", "discard"} => r.ret = "idle"}

\* The strengthening: type correctness alone does not say that the record
\* a replica or a stamp is made from is not None.
IInv == TypeOK /\ thr \in [Threads -> Equipped]

-----------------------------------------------------------------------------
LEMMA MovableIn == \A S \in SUBSET Ids : Movable(S) \in SUBSET Ids
  BY DEF Movable

LEMMA EquippedIdle == Idle \in Equipped
  BY BoundsAssumption DEF Idle, Equipped, Thread, NoManifest, NeedsBuild, Pcs, Rets, OpNames

\* A thread's new record is all that has to be looked at after a step.
LEMMA SetThread ==
  ASSUME IInv, NEW t \in Threads, NEW r \in Equipped, Set(t, r)
  PROVE  thr' \in [Threads -> Equipped]
  BY DEF IInv, Set

LEMMA EquippedIsThread == Equipped \subseteq Thread
  BY DEF Equipped

\* Goto keeps everything but the place.
LEMMA GotoThread ==
  ASSUME IInv, NEW t \in Threads, NEW pc \in Pcs,
         pc \in NoManifest \/ thr[t].m \in Manifests,
         pc \in NeedsBuild => thr[t].img \in Builds,
         pc \notin {"listDoomed", "remove", "readFrozen", "writeFrozen", "discard"},
         Goto(t, pc)
  PROVE  thr' \in [Threads -> Equipped]
BY SetThread DEF IInv, Equipped, Thread, Goto

LEMMA BlobType == ASSUME IInv PROVE Blob \in Status
  BY DEF IInv, TypeOK, Blob, Blank, Status

LEMMA StampType ==
  ASSUME IInv, NEW m \in Manifests PROVE Stamp(m) \in Status
  BY BlobType, ManifestsAssumption DEF Stamp, Status

LEMMA ReplicaType ==
  ASSUME IInv, NEW t \in Threads, thr[t].m \in Manifests
  PROVE  NewReplica(t) \in Replica
  BY ManifestsAssumption DEF IInv, TypeOK, NewReplica, Replica, Equipped, Thread

LEMMA SpawnType ==
  ASSUME IInv, NEW t \in Threads, thr[t].m \in Manifests, NEW i \in Ids, Spawn(t, i)
  PROVE  ctrs' \in [Ids -> Replica \cup {None}]
  BY ReplicaType DEF IInv, TypeOK, Spawn

LEMMA RemoveType ==
  ASSUME IInv, NEW i, Remove(i)
  PROVE  ctrs' \in [Ids -> Replica \cup {None}]
  BY DEF IInv, TypeOK, Remove

LEMMA EmitType ==
  ASSUME IInv, NEW e \in Event, Emit(e)
  PROVE  chan' \in Seq(Event)
  BY DEF IInv, TypeOK, Emit

\* The idle thread's record with an operation, a place and a manifest.
LEMMA IdleWith ==
  ASSUME NEW op \in OpNames, NEW pc \in Pcs, NEW m \in Manifests \cup {None},
         pc \notin NeedsBuild, pc \notin NoManifest => m # None
  PROVE  [Idle EXCEPT !.op = op, !.pc = pc, !.m = m] \in Equipped
<1> DEFINE s == [Idle EXCEPT !.op = op, !.pc = pc, !.m = m]
<1>1. Idle \in Thread /\ Idle.ret = "idle"
  BY EquippedIdle DEF Equipped, Idle
<1>2. s \in Thread /\ s.pc = pc /\ s.m = m /\ s.ret = "idle"
  BY <1>1 DEF Thread
<1> HIDE DEF s
<1>3. s \in Equipped
  BY <1>2 DEF Equipped
<1>. QED  BY <1>3 DEF s

LEMMA JobEquipped == \A e \in Event : Job(e) \in Equipped
<1> SUFFICES ASSUME NEW e \in Event PROVE Job(e) \in Equipped
  OBVIOUS
<1> DEFINE op == IF e = None THEN "remove" ELSE "apply"
           pc == IF e = None THEN "listDoomed" ELSE "link"
<1>1. op \in OpNames /\ pc \in Pcs /\ e \in Manifests \cup {None}
  BY DEF OpNames, Pcs, Event
<1>2. pc \notin NeedsBuild /\ (pc \notin NoManifest => e # None)
  BY DEF NeedsBuild, NoManifest
<1>3. [Idle EXCEPT !.op = op, !.pc = pc, !.m = e] \in Equipped
  <2> HIDE DEF op, pc
  <2>. QED  BY <1>1, <1>2, IdleWith
<1>. QED  BY <1>3 DEF Job

LEMMA RecordedType ==
  ASSUME IInv, NEW t \in Threads, thr[t].m \in Manifests, NEW blob \in Status,
         NEW b \in Builds
  PROVE  Recorded(t, blob, b) \in Status
BY DEF Record, Recorded, Status

\* The error path of a docker call.
LEMMA FailType ==
  ASSUME IInv, NEW t \in Threads, DockerFails(t),
         thr[t].ret # "record" \/ thr[t].m \in Manifests
  PROVE  thr' \in [Threads -> Equipped] /\ UNCHANGED ctrs
<1>1. thr[t] \in Thread /\ thr[t] \in Equipped
  BY DEF IInv, Equipped
<1>2. OnError(t) \in {"record", "failed", "leave"}
  BY DEF OnError
<1>3. OnError(t) = "record" => thr[t].m \in Manifests
  BY DEF OnError
<1>4. [thr[t] EXCEPT !.pc = OnError(t), !.todo = {}, !.old = None] \in Equipped
  <2>0. OnError(t) \in Pcs
    BY <1>2 DEF Pcs
  <2>1. [thr[t] EXCEPT !.pc = OnError(t), !.todo = {}, !.old = None] \in Thread
    BY <2>0, <1>1, <1>2, <1>3 DEF Thread
  <2>. QED  BY <1>1, <1>2, <1>3, <2>1 DEF Equipped, Thread, NoManifest, NeedsBuild
<1>. QED  BY <1>4, SetThread DEF DockerFails

-----------------------------------------------------------------------------
(* One lemma per group of actions.                                         *)

LEMMA LoopSteps ==
  ASSUME IInv, LoopStep PROVE IInv'
<1>. USE DEF IInv, TypeOK
<1>0. Loop \in Threads
  BY DEF Threads
<1>1. CASE ListAll
  BY EquippedIdle, JobEquipped, <1>0, <1>1, SetThread, EquippedIsThread DEF Event, ListAll
<1>2. CASE OpenWatch
  BY <1>2 DEF OpenWatch
<1>3. CASE NextEvent
  BY <1>3, <1>0, JobEquipped, SetThread, EquippedIsThread DEF NextEvent
<1>. QED  BY <1>1, <1>2, <1>3 DEF LoopStep

\* What is left to show when a step moves threads and changes at most one
\* thing beside them.
LEMMA OnlyThreads ==
  ASSUME IInv, thr' \in [Threads -> Equipped],
         UNCHANGED <<desired, chan, phase, bucket, file, img, current, built, ctrs, status, frozen, lock, ops>>
  PROVE  IInv'
  BY EquippedIsThread DEF IInv, TypeOK

LEMMA ThreadsAndStatus ==
  ASSUME IInv, thr' \in [Threads -> Equipped], status' \in Status \cup {None},
         UNCHANGED <<desired, chan, phase, bucket, file, img, current, built, ctrs, frozen, lock, ops>>
  PROVE  IInv'
  BY EquippedIsThread DEF IInv, TypeOK

LEMMA ThreadsAndCtrs ==
  ASSUME IInv, thr' \in [Threads -> Equipped], ctrs' \in [Ids -> Replica \cup {None}],
         UNCHANGED <<desired, chan, phase, bucket, file, img, current, built, status, frozen, lock, ops>>
  PROVE  IInv'
  BY EquippedIsThread DEF IInv, TypeOK

LEMMA ThreadsAndFile ==
  ASSUME IInv, thr' \in [Threads -> Equipped], file' \in File,
         UNCHANGED <<desired, chan, phase, bucket, img, current, built, ctrs, status, frozen, lock, ops>>
  PROVE  IInv'
  BY EquippedIsThread DEF IInv, TypeOK

\* A record of a thread that has its manifest.
LEMMA Holding ==
  ASSUME IInv, NEW t \in Threads
  PROVE  /\ thr[t] \in Thread /\ thr[t] \in Equipped
         /\ thr[t].pc \notin NoManifest => thr[t].m \in Manifests
         /\ ctrs \in [Ids -> Replica \cup {None}] /\ Live \subseteq Ids
  BY DEF IInv, TypeOK, Equipped, Live

\* How a handled event ends, and the retry of a transient error.
LEMMA EndSteps ==
  ASSUME IInv, NEW t \in Threads, Outcome(t) \/ GiveUp(t) \/ ScheduleRetry(t) \/ Retry(t)
  PROVE  IInv'
<1>0. thr[t] \in Thread /\ thr[t] \in Equipped /\ Idle \in Thread /\ Idle \in Equipped
  BY EquippedIdle, Holding DEF Equipped
<1>1. CASE Outcome(t)
  BY <1>1, BlobType, <1>0, SetThread, ThreadsAndStatus DEF At, Outcome, Status
<1>2. CASE GiveUp(t)
  BY <1>2, BlobType, <1>0, SetThread, ThreadsAndStatus DEF GiveUp, Status
<1>3. CASE ScheduleRetry(t)
  <2>1. PICK r \in Retries : thr' = [thr EXCEPT ![t] = Idle,
                  ![r] = [Idle EXCEPT !.pc = "sleep", !.att = thr[t].att + 1]]
    BY <1>3 DEF ScheduleRetry
  <2>2. thr[t].att + 1 \in 1..MaxAttempts
    BY <1>0, <1>3, BoundsAssumption DEF ScheduleRetry, LastAttempt, Thread
  <2>3. [Idle EXCEPT !.pc = "sleep", !.att = thr[t].att + 1] \in Equipped
    <3>1. [Idle EXCEPT !.pc = "sleep"] \in Thread
      BY <1>0 DEF Thread, Pcs
    <3>2. [Idle EXCEPT !.pc = "sleep", !.att = thr[t].att + 1] \in Thread
      BY <1>0, <2>2, <3>1 DEF Thread
    <3>. QED  BY <1>0, <3>2 DEF Equipped, Thread, NoManifest, NeedsBuild
  <2>4. thr' \in [Threads -> Equipped]
    BY <1>0, <2>1, <2>3 DEF Threads, IInv
  <2>. QED  BY <1>3, <2>4, OnlyThreads DEF ScheduleRetry
<1>4. CASE Retry(t)
  <2>1. PICK m \in {desired} \cup {None} :
          Set(t, IF m = None THEN Idle ELSE [Job(m) EXCEPT !.att = thr[t].att])
    BY <1>4 DEF Retry
  <2>2. ASSUME m # None
        PROVE  [Job(m) EXCEPT !.att = thr[t].att] \in Equipped
    <3>1. Job(m) \in Equipped
      BY <2>2, JobEquipped DEF Event, IInv, TypeOK
    <3>. QED  BY <1>0, <3>1 DEF Equipped, Thread
  <2>3. thr' \in [Threads -> Equipped]
    BY <1>0, <2>1, <2>2, SetThread
  <2>. QED  BY <1>4, <2>3, OnlyThreads DEF Retry
<1>. QED  BY <1>1, <1>2, <1>3, <1>4

\* apply up to the pruning of extra replicas.
LEMMA LinkStep ==
  ASSUME IInv, NEW t \in Threads, LinkEnv(t) PROVE IInv'
<1>1. thr[t] \in Thread /\ thr[t] \in Equipped /\ thr[t].m \in Manifests /\ thr[t].pc = "link"
  BY Holding DEF LinkEnv, At, NoManifest
<1>2. file' \in File
  BY FlagsAssumption DEF IInv, TypeOK, LinkEnv, Merged, File
<1>3. [thr[t] EXCEPT !.pc = "roll", !.ret = "leave", !.todo = Movable(thr[t].live), !.live = {}]
        \in Equipped
  <2>0. "roll" \in Pcs /\ "leave" \in Rets
    BY DEF Pcs, Rets
  <2>1. [thr[t] EXCEPT !.pc = "roll", !.ret = "leave", !.todo = Movable(thr[t].live), !.live = {}] \in Thread
    BY MovableIn, <1>1, <2>0 DEF Thread
  <2>. QED  BY <1>1, <2>1 DEF Equipped, Thread, NoManifest, NeedsBuild
<1>4. \A f \in SUBSET {"changed"} :
        [thr[t] EXCEPT !.pc = "list", !.flags = f] \in Equipped
  BY <1>1 DEF Pcs, Thread, Equipped, NoManifest, NeedsBuild
<1>5. ASSUME NEW f \in SUBSET {"changed"}, Set(t, [thr[t] EXCEPT !.pc = "list", !.flags = f])
      PROVE  thr' \in [Threads -> Equipped]
  BY <1>4, <1>5, SetThread
<1>6. CASE Goto(t, "leave") \/ Goto(t, "again")
  <2>. thr' \in [Threads -> Equipped]
    BY <1>6, GotoThread DEF Pcs, NoManifest, NeedsBuild
  <2>. QED  BY <1>2, ThreadsAndFile DEF LinkEnv
<1>7. CASE Set(t, IF thr[t].op = "restart"
                  THEN [thr[t] EXCEPT !.pc = "roll", !.ret = "leave", !.todo = Movable(thr[t].live),
                                      !.live = {}]
                  ELSE [thr[t] EXCEPT !.pc = "list",
                                      !.flags = IF file = Merged THEN {} ELSE {"changed"}])
  <2>1. CASE thr[t].op = "restart"
    <3>. thr' \in [Threads -> Equipped]
      BY <1>3, <1>7, <2>1, SetThread
    <3>. QED  BY <1>2, ThreadsAndFile DEF LinkEnv
  <2>2. CASE thr[t].op # "restart"
    <3>1. Set(t, [thr[t] EXCEPT !.pc = "list",
                                !.flags = IF file = Merged THEN {} ELSE {"changed"}])
      BY <1>7, <2>2
    <3>2. (IF file = Merged THEN {} ELSE {"changed"}) \in SUBSET {"changed"}
      OBVIOUS
    <3>. HIDE DEF Set
    <3>3. thr' \in [Threads -> Equipped]
      BY <1>5, <3>1, <3>2
    <3>. QED  BY <1>2, <3>3, ThreadsAndFile DEF LinkEnv
  <2>. QED  BY <2>1, <2>2
<1>. QED  BY <1>6, <1>7 DEF LinkEnv

LEMMA ListSteps ==
  ASSUME IInv, NEW t \in Threads, ListLive(t) \/ Decide(t)
  PROVE  IInv'
<1>1. CASE ListLive(t)
  <2>1. thr[t] \in Thread /\ thr[t] \in Equipped /\ thr[t].m \in Manifests /\ Live \subseteq Ids
    BY <1>1, Holding DEF ListLive, At, NoManifest
  <2>2. [thr[t] EXCEPT !.pc = "decide", !.live = Live] \in Equipped
    <3>0. "decide" \in Pcs
      BY DEF Pcs
    <3>1. [thr[t] EXCEPT !.pc = "decide", !.live = Live] \in Thread
      BY <3>0, <2>1 DEF Thread
    <3>. QED  BY <2>1, <3>1 DEF Equipped, Thread, NoManifest, NeedsBuild
  <2>3. thr' \in [Threads -> Equipped] /\ UNCHANGED ctrs
    BY <1>1, <2>1, <2>2, FailType, SetThread DEF ListLive
  <2>. QED  BY <1>1, <2>3, OnlyThreads DEF ListLive
<1>2. CASE Decide(t)
  <2>1. thr[t] \in Thread /\ thr[t] \in Equipped /\ thr[t].m \in Manifests
    BY <1>2, Holding DEF Decide, At, NoManifest
  <2>2. [thr[t] EXCEPT !.pc = "scale", !.flags = thr[t].flags \cup {"minted"}] \in Equipped
    <3>0. "scale" \in Pcs
      BY DEF Pcs
    <3>1. [thr[t] EXCEPT !.pc = "scale", !.flags = thr[t].flags \cup {"minted"}] \in Thread
      BY <3>0, <2>1 DEF Thread
    <3>. QED  BY <2>1, <3>1 DEF Equipped, Thread, NoManifest, NeedsBuild
  <2>5. Goto(t, "scale")
          \/ Set(t, [thr[t] EXCEPT !.pc = "scale", !.flags = thr[t].flags \cup {"minted"}])
    BY <1>2 DEF Decide
  <2>6. thr' \in [Threads -> Equipped]
    BY <2>1, GotoThread, <2>2, SetThread, <2>5 DEF Pcs, NeedsBuild
  <2>. QED  BY <1>2, <2>6, OnlyThreads DEF Decide
<1>. QED  BY <1>1, <1>2
LEMMA ScaleStep ==
  ASSUME IInv, NEW t \in Threads, Scale(t) PROVE IInv'
<1>1. thr[t] \in Thread /\ thr[t] \in Equipped /\ thr[t].m \in Manifests /\ thr[t].pc = "scale"
  BY Holding DEF Scale, At, NoManifest
<1>2. CASE Missing(t) /\ \E i \in Ids :
             Spawn(t, i) /\ Set(t, [thr[t] EXCEPT !.made = thr[t].made \cup {i}])
  BY <1>2, <1>1, SetThread, SpawnType, ThreadsAndCtrs DEF Equipped, Thread, NoManifest, NeedsBuild, Scale
<1>3. CASE DockerFails(t)
  BY <1>1, <1>3, FailType, OnlyThreads DEF Scale
<1>4. CASE /\ Set(t, [thr[t] EXCEPT !.pc = AfterScale(t),
                        !.todo = IF thr[t].op = "rollback" THEN {}
                                 ELSE Extras(thr[t].live, thr[t].m.want)])
           /\ UNCHANGED ctrs
  <2>1. (IF thr[t].op = "rollback" THEN {} ELSE Extras(thr[t].live, thr[t].m.want))
          \in SUBSET Ids
    BY <1>1 DEF Extras, Thread
  <2>2. AfterScale(t) \in {"restamp", "prune"}
    BY DEF AfterScale
  <2>3. \A S \in SUBSET Ids :
          [thr[t] EXCEPT !.pc = AfterScale(t), !.todo = S] \in Equipped
    <3>1. ASSUME NEW S \in SUBSET Ids, NEW pc \in {"restamp", "prune"}
          PROVE  [thr[t] EXCEPT !.pc = pc, !.todo = S] \in Thread
      <4>1. pc \in Pcs
        BY <3>1 DEF Pcs
      <4>. QED  BY <1>1, <3>1, <4>1 DEF Thread
    <3>2. AfterScale(t) \notin NeedsBuild /\ AfterScale(t) \notin {"listDoomed", "remove"}
      BY <2>2 DEF NeedsBuild
    <3>. QED  BY <1>1, <2>2, <3>1, <3>2 DEF Equipped, Thread
  <2>4. thr' \in [Threads -> Equipped]
    BY <1>4, <2>1, <2>3, SetThread
  <2>. QED  BY <1>4, <2>4, OnlyThreads DEF Scale
<1>. QED  BY <1>2, <1>3, <1>4 DEF Scale

LEMMA PruneStep ==
  ASSUME IInv, NEW t \in Threads, Prune(t) PROVE IInv'
<1>1. thr[t] \in Thread /\ thr[t] \in Equipped /\ thr[t].m \in Manifests /\ thr[t].pc = "prune"
  BY Holding DEF Prune, At, NoManifest
<1>2. CASE \E i \in thr[t].todo :
             Remove(i) /\ Set(t, [thr[t] EXCEPT !.todo = thr[t].todo \ {i}])
  BY <1>2, <1>1, SetThread, RemoveType, ThreadsAndCtrs DEF Equipped, Thread, NoManifest, NeedsBuild, Prune
<1>3. CASE \/ Set(t, [thr[t] EXCEPT !.pc = AfterPrune(t), !.live = {}]) /\ UNCHANGED ctrs
           \/ Set(t, [thr[t] EXCEPT !.pc = AfterPrune(t), !.live = {}, !.todo = {}])
                /\ UNCHANGED ctrs
  <2>1. AfterPrune(t) \in {"listRolled", "stampNew", "relist"}
    BY DEF AfterPrune
  <2>0. AfterPrune(t) \in Pcs /\ AfterPrune(t) \notin NeedsBuild
    BY <2>1 DEF Pcs, NeedsBuild
  <2>a. [thr[t] EXCEPT !.pc = AfterPrune(t), !.live = {}] \in Equipped
    BY <1>1, <2>0, <2>1 DEF Thread, Equipped
  <2>b. [thr[t] EXCEPT !.pc = AfterPrune(t), !.live = {}, !.todo = {}] \in Equipped
    BY <1>1, <2>0, <2>1 DEF Thread, Equipped
  <2>3. thr' \in [Threads -> Equipped]
    BY <1>3, <2>a, <2>b, SetThread
  <2>. QED  BY <1>3, <2>3, OnlyThreads DEF Prune
<1>4. CASE DockerFails(t)
  BY <1>1, <1>4, FailType, OnlyThreads DEF Prune
<1>. QED  BY <1>2, <1>3, <1>4 DEF Prune

\* apply from the hash it persists to the endpoints it publishes.
LEMMA StampNewStep ==
  ASSUME IInv, NEW t \in Threads, StampNew(t) PROVE IInv'
BY Holding, GotoThread, StampType, ThreadsAndStatus DEF StampNew, At, NoManifest, Pcs, NeedsBuild

LEMMA RelistStep ==
  ASSUME IInv, NEW t \in Threads, Relist(t) PROVE IInv'
<1>1. thr[t] \in Thread /\ thr[t] \in Equipped /\ thr[t].m \in Manifests /\ Live \subseteq Ids
  BY Holding DEF Relist, At, NoManifest
<1>2. [thr[t] EXCEPT !.pc = "drift", !.todo = Live \ thr[t].made] \in Equipped
  <2>0. "drift" \in Pcs
    BY DEF Pcs
  <2>1. [thr[t] EXCEPT !.pc = "drift", !.todo = Live \ thr[t].made] \in Thread
    BY <2>0, <1>1 DEF Thread
  <2>. QED  BY <1>1, <2>1 DEF Equipped, Thread, NoManifest, NeedsBuild
<1>3. CASE Set(t, [thr[t] EXCEPT !.pc = "drift", !.todo = Live \ thr[t].made])
             /\ UNCHANGED ctrs
  BY <1>2, <1>3, SetThread, OnlyThreads DEF Relist
<1>4. CASE DockerFails(t)
  BY <1>1, <1>4, FailType, OnlyThreads DEF Relist
<1>. QED  BY <1>3, <1>4 DEF Relist

LEMMA DriftStep ==
  ASSUME IInv, NEW t \in Threads, Drift(t) PROVE IInv'
<1>1. thr[t] \in Thread /\ thr[t] \in Equipped /\ thr[t].m \in Manifests
  BY Holding DEF Drift, At, NoManifest
<1>2. [thr[t] EXCEPT !.pc = "rollEnv", !.todo = {}] \in Equipped
  <2>0. "rollEnv" \in Pcs
    BY DEF Pcs
  <2>1. [thr[t] EXCEPT !.pc = "rollEnv", !.todo = {}] \in Thread
    BY <2>0, <1>1 DEF Thread
  <2>. QED  BY <1>1, <2>1 DEF Equipped, Thread, NoManifest, NeedsBuild
<1>3. [thr[t] EXCEPT !.pc = "roll", !.ret = "stampRolled", !.todo = Movable(thr[t].todo)] \in Equipped
  <2>0. "roll" \in Pcs /\ "stampRolled" \in Rets
    BY DEF Pcs, Rets
  <2>1. [thr[t] EXCEPT !.pc = "roll", !.ret = "stampRolled", !.todo = Movable(thr[t].todo)] \in Thread
    BY MovableIn, <2>0, <1>1 DEF Thread
  <2>. QED  BY <1>1, <2>1 DEF Equipped, Thread, NoManifest, NeedsBuild
<1>4. status' = status \/ status' = Stamp(thr[t].m)
  BY DEF Drift
<1>5. \/ Set(t, [thr[t] EXCEPT !.pc = "rollEnv", !.todo = {}])
      \/ Set(t, [thr[t] EXCEPT !.pc = "roll", !.ret = "stampRolled", !.todo = Movable(thr[t].todo)])
  BY DEF Drift
<1>6. thr' \in [Threads -> Equipped]
  BY <1>2, <1>3, <1>5, SetThread
<1>7. status' \in Status \cup {None}
  BY <1>1, <1>4, StampType DEF IInv, TypeOK
<1>. QED  BY <1>6, <1>7, ThreadsAndStatus DEF Drift

LEMMA StampRolledStep ==
  ASSUME IInv, NEW t \in Threads, StampRolled(t) PROVE IInv'
<1>1. thr[t] \in Thread /\ thr[t] \in Equipped /\ thr[t].m \in Manifests
  BY Holding DEF StampRolled, At, NoManifest
<1>2. [thr[t] EXCEPT !.pc = "rollEnv", !.flags = thr[t].flags \cup {"rolled"}] \in Equipped
  <2>0. "rollEnv" \in Pcs
    BY DEF Pcs
  <2>1. [thr[t] EXCEPT !.pc = "rollEnv", !.flags = thr[t].flags \cup {"rolled"}] \in Thread
    BY <2>0, <1>1 DEF Thread
  <2>. QED  BY <1>1, <2>1 DEF Equipped, Thread, NoManifest, NeedsBuild
<1>3. thr' \in [Threads -> Equipped]
  BY <1>2, SetThread DEF StampRolled
<1>. QED  BY <1>1, <1>3, StampType, ThreadsAndStatus DEF StampRolled

LEMMA RollEnvStep ==
  ASSUME IInv, NEW t \in Threads, RollEnv(t) PROVE IInv'
<1>1. thr[t] \in Thread /\ thr[t] \in Equipped /\ thr[t].m \in Manifests /\ Live \subseteq Ids
  BY Holding DEF RollEnv, At, NoManifest
<1>2. [thr[t] EXCEPT !.pc = "roll", !.ret = "record", !.todo = Movable(Live \ thr[t].made)]
        \in Equipped
  <2>0. "roll" \in Pcs /\ "record" \in Rets
    BY DEF Pcs, Rets
  <2>1. [thr[t] EXCEPT !.pc = "roll", !.ret = "record", !.todo = Movable(Live \ thr[t].made)] \in Thread
    BY MovableIn, <2>0, <1>1 DEF Thread
  <2>. QED  BY <1>1, <2>1 DEF Equipped, Thread, NoManifest, NeedsBuild
<1>3. CASE Goto(t, "record")
  <2>. thr' \in [Threads -> Equipped]
    BY <1>1, <1>3, GotoThread DEF Pcs, NeedsBuild
  <2>. QED  BY OnlyThreads DEF RollEnv
<1>4. CASE Set(t, [thr[t] EXCEPT !.pc = "roll", !.ret = "record",
                                 !.todo = Movable(Live \ thr[t].made)])
  <2>. thr' \in [Threads -> Equipped]
    BY <1>2, <1>4, SetThread
  <2>. QED  BY OnlyThreads DEF RollEnv
<1>. QED  BY <1>3, <1>4 DEF RollEnv

LEMMA RecordStep ==
  ASSUME IInv, NEW t \in Threads, RecordRelease(t) PROVE IInv'
BY Holding, GotoThread, StampType, BlobType, RecordedType, ThreadsAndStatus DEF RecordRelease, At,
   NoManifest, Pcs, NeedsBuild, IInv, TypeOK

LEMMA PublishStep ==
  ASSUME IInv, NEW t \in Threads, Publish(t) PROVE IInv'
<1>1. thr[t].m \in Manifests
  BY Holding DEF Publish, At, NoManifest
<1>2. Goto(t, "ok") \/ Goto(t, "again")
  BY DEF Publish
<1>3. thr' \in [Threads -> Equipped]
  BY <1>1, GotoThread, <1>2 DEF Pcs, NeedsBuild
<1>. QED  BY <1>3, OnlyThreads DEF Publish
\* Where a roll leads is the place its caller named: a place with a manifest.
LEMMA RetPcs == /\ Rets \subseteq Pcs
                /\ Rets \cap NeedsBuild = {"recordRelease"}
                /\ Rets \cap {"listDoomed", "remove", "readFrozen", "writeFrozen", "discard"} = {}
  BY DEF Rets, Pcs, NeedsBuild

\* rollingReplaceReplicas.
LEMMA RollNextStep ==
  ASSUME IInv, NEW t \in Threads, RollNext(t) PROVE IInv'
<1>1. thr[t] \in Thread /\ thr[t] \in Equipped /\ thr[t].m \in Manifests /\ thr[t].ret \in Rets
  BY Holding DEF RollNext, At, NoManifest, Thread
<1>2. CASE \E o \in thr[t].todo, i \in Ids :
             /\ Spawn(t, i)
             /\ Set(t, [thr[t] EXCEPT !.pc = "await", !.old = o, !.todo = thr[t].todo \ {o}])
  <2>1. PICK o \in thr[t].todo, i \in Ids :
             /\ Spawn(t, i)
             /\ Set(t, [thr[t] EXCEPT !.pc = "await", !.old = o, !.todo = thr[t].todo \ {o}])
    BY <1>2
  <2>2. [thr[t] EXCEPT !.pc = "await", !.old = o, !.todo = thr[t].todo \ {o}] \in Equipped
    <3>0. "await" \in Pcs
      BY DEF Pcs
    <3>1. [thr[t] EXCEPT !.pc = "await", !.old = o, !.todo = thr[t].todo \ {o}] \in Thread
      BY <3>0, <1>1 DEF Thread
    <3>. QED  BY <1>1, <3>1 DEF Equipped, Thread, NoManifest, NeedsBuild
  <2>3. thr' \in [Threads -> Equipped]
    BY <2>1, <2>2, SetThread
  <2>4. ctrs' \in [Ids -> Replica \cup {None}]
    BY <1>1, <2>1, SpawnType
  <2>. QED  BY <2>3, <2>4, ThreadsAndCtrs DEF RollNext
<1>3. CASE \E o \in thr[t].todo :
             /\ Remove(o)
             /\ Set(t, [thr[t] EXCEPT !.pc = "respawn", !.todo = thr[t].todo \ {o}])
  <2>1. PICK o \in thr[t].todo :
             /\ Remove(o)
             /\ Set(t, [thr[t] EXCEPT !.pc = "respawn", !.todo = thr[t].todo \ {o}])
    BY <1>3
  <2>2. [thr[t] EXCEPT !.pc = "respawn", !.todo = thr[t].todo \ {o}] \in Equipped
    <3>0. "respawn" \in Pcs
      BY DEF Pcs
    <3>1. [thr[t] EXCEPT !.pc = "respawn", !.todo = thr[t].todo \ {o}] \in Thread
      BY <3>0, <1>1 DEF Thread
    <3>. QED  BY <1>1, <3>1 DEF Equipped, Thread, NoManifest, NeedsBuild
  <2>3. thr' \in [Threads -> Equipped]
    BY <2>1, <2>2, SetThread
  <2>4. ctrs' \in [Ids -> Replica \cup {None}]
    BY <2>1, RemoveType
  <2>. QED  BY <2>3, <2>4, ThreadsAndCtrs DEF RollNext
<1>4. CASE DockerFails(t)
  BY <1>1, <1>4, FailType, OnlyThreads DEF RollNext
<1>5. CASE (\E pc \in {thr[t].ret, "again", OnError(t)} : Goto(t, pc)) /\ UNCHANGED ctrs
  <2>1. PICK pc \in {thr[t].ret, "again", OnError(t)} : Goto(t, pc)
    BY <1>5
  <2>2. OnError(t) \in {"record", "failed", "leave"}
    BY DEF OnError
  <2>3. /\ pc \in Pcs /\ pc \notin {"listDoomed", "remove", "readFrozen", "writeFrozen", "discard"}
        /\ pc \in NeedsBuild => thr[t].ret = "recordRelease"
    <3>1. CASE pc = thr[t].ret
      BY <1>1, <3>1, RetPcs
    <3>2. CASE pc \in {"again", "record", "failed", "leave"}
      BY <3>2 DEF Pcs, NeedsBuild
    <3>. QED  BY <2>1, <2>2, <3>1, <3>2
  <2>4. thr' \in [Threads -> Equipped]
    BY <1>1, <2>1, <2>3, GotoThread DEF Equipped
  <2>. QED  BY <1>5, <2>4, OnlyThreads DEF RollNext
<1>. QED  BY <1>2, <1>3, <1>4, <1>5 DEF RollNext

LEMMA RetireStep ==
  ASSUME IInv, NEW t \in Threads, Retire(t) PROVE IInv'
<1>1. thr[t] \in Thread /\ thr[t] \in Equipped /\ thr[t].m \in Manifests
  BY Holding DEF Retire, At, NoManifest
<1>2. CASE Remove(thr[t].old) /\ Set(t, [thr[t] EXCEPT !.pc = "roll", !.old = None])
  <2>1. [thr[t] EXCEPT !.pc = "roll", !.old = None] \in Equipped
    <3>0. "roll" \in Pcs
      BY DEF Pcs
    <3>1. [thr[t] EXCEPT !.pc = "roll", !.old = None] \in Thread
      BY <3>0, <1>1 DEF Thread
    <3>. QED  BY <1>1, <3>1 DEF Equipped, Thread, NoManifest, NeedsBuild
  <2>2. thr' \in [Threads -> Equipped]
    BY <1>2, <2>1, SetThread
  <2>3. ctrs' \in [Ids -> Replica \cup {None}]
    BY <1>2, RemoveType
  <2>. QED  BY <2>2, <2>3, ThreadsAndCtrs DEF Retire
<1>3. CASE DockerFails(t)
  BY <1>1, <1>3, FailType, OnlyThreads DEF Retire
<1>. QED  BY <1>2, <1>3 DEF Retire

LEMMA RespawnStep ==
  ASSUME IInv, NEW t \in Threads, Respawn(t) PROVE IInv'
<1>1. thr[t] \in Thread /\ thr[t] \in Equipped /\ thr[t].m \in Manifests
  BY Holding DEF Respawn, At, NoManifest
<1>2. CASE \E i \in Ids : Spawn(t, i) /\ Goto(t, "roll")
  BY <1>1, <1>2, GotoThread, SpawnType, ThreadsAndCtrs DEF Pcs, NeedsBuild, Respawn
<1>3. CASE DockerFails(t)
  BY <1>1, <1>3, FailType, OnlyThreads DEF Respawn
<1>. QED  BY <1>2, <1>3 DEF Respawn

\* remove.
LEMMA ListDoomedStep ==
  ASSUME IInv, NEW t \in Threads, ListDoomed(t) PROVE IInv'
<1>1. thr[t] \in Thread /\ thr[t] \in Equipped /\ Live \subseteq Ids /\ thr[t].ret = "idle"
  BY Holding DEF ListDoomed, At, Equipped
<1>2. [thr[t] EXCEPT !.pc = "remove", !.todo = Live] \in Equipped
  <2>1. [thr[t] EXCEPT !.pc = "remove", !.todo = Live] \in Thread
    BY <1>1 DEF Thread, Pcs
  <2>. QED  BY <1>1, <2>1 DEF Equipped, Thread, NoManifest, NeedsBuild
<1>3. CASE Set(t, [thr[t] EXCEPT !.pc = "remove", !.todo = Live]) /\ UNCHANGED ctrs
  BY <1>2, <1>3, SetThread, OnlyThreads DEF ListDoomed
<1>4. CASE DockerFails(t)
  BY <1>1, <1>4, FailType, OnlyThreads DEF ListDoomed
<1>. QED  BY <1>3, <1>4 DEF ListDoomed

LEMMA RemoveNextStep ==
  ASSUME IInv, NEW t \in Threads, RemoveNext(t) PROVE IInv'
<1>1. thr[t] \in Thread /\ thr[t] \in Equipped /\ thr[t].ret = "idle" /\ thr[t].pc = "remove"
  BY Holding DEF RemoveNext, At, Equipped
<1>2. CASE /\ \E i \in thr[t].todo :
                Remove(i) /\ Set(t, [thr[t] EXCEPT !.todo = thr[t].todo \ {i}])
           /\ UNCHANGED status
  BY <1>2, <1>1, SetThread, RemoveType, ThreadsAndCtrs DEF Equipped, Thread, NoManifest, NeedsBuild,
     RemoveNext
<1>3. CASE DockerFails(t) /\ UNCHANGED status
  BY <1>1, <1>3, FailType, OnlyThreads DEF RemoveNext
<1>4. CASE status' = None /\ Goto(t, "ok") /\ UNCHANGED ctrs
  BY <1>4, GotoThread, ThreadsAndStatus DEF Pcs, NoManifest, NeedsBuild, RemoveNext
<1>. QED  BY <1>2, <1>3, <1>4 DEF RemoveNext

-----------------------------------------------------------------------------
(* Requests.                                                               *)

\* A step that puts a manifest back.
LEMMA ThreadsAndDesired ==
  ASSUME IInv, thr' \in [Threads -> Equipped], NEW e \in Event, desired' = e, Emit(e),
         UNCHANGED <<phase, bucket, file, img, current, built, ctrs, status, frozen, lock>>,
         ops' \in 0..MaxOps
  PROVE  IInv'
BY EmitType, EquippedIsThread DEF Event, IInv, TypeOK

LEMMA ConfigSteps ==
  ASSUME IInv, NEW t \in Threads, Materialize(t) \/ FindAffected(t) \/ Put(t) \/ Leave(t)
  PROVE  IInv'
<1>0. thr[t] \in Thread /\ thr[t] \in Equipped /\ Idle \in Equipped
  BY Holding, EquippedIdle
<1>1. CASE Materialize(t)
  BY <1>1, GotoThread, ThreadsAndFile DEF Materialize, File, IInv, TypeOK, Pcs, NoManifest, NeedsBuild
<1>2. CASE FindAffected(t)
  <2>1. CASE desired = None
    BY <1>0, <1>2, <2>1, SetThread, OnlyThreads DEF FindAffected
  <2>2. CASE desired # None
    <3>1. desired \in Manifests
      BY <2>2 DEF IInv, TypeOK
    <3>2. ASSUME NEW pc \in {"listRestart", "put"}
          PROVE  [thr[t] EXCEPT !.pc = pc, !.m = desired] \in Equipped
      <4>1. [thr[t] EXCEPT !.pc = pc, !.m = desired] \in Thread
        BY <1>0, <3>1 DEF Thread, Pcs, OpNames
      <4>2. pc \notin NeedsBuild /\ pc \notin {"listDoomed", "remove", "readFrozen", "writeFrozen", "discard"}
        BY DEF NeedsBuild
      <4>. QED  BY <1>0, <3>1, <4>1, <4>2 DEF Equipped, Thread
    <3>4. (IF thr[t].op = "restart" THEN "listRestart" ELSE "put") \in {"listRestart", "put"}
      OBVIOUS
    <3>3. thr' \in [Threads -> Equipped]
      BY <1>2, <2>2, <3>2, <3>4, SetThread DEF FindAffected
    <3>. QED  BY <1>2, <3>3, OnlyThreads DEF FindAffected
  <2>. QED  BY <2>1, <2>2
<1>3. CASE Put(t)
  BY <1>3, Holding, <1>0, SetThread, ThreadsAndDesired DEF Put, At, NoManifest, Event, IInv, TypeOK
<1>4. CASE Leave(t)
  BY <1>0, <1>4, SetThread, EquippedIsThread DEF Leave, IInv, TypeOK
<1>. QED  BY <1>1, <1>2, <1>3, <1>4

LEMMA ReleaseSteps ==
  ASSUME IInv, NEW t \in Threads,
         ListRestart(t) \/ Commands(t) \/ ListRelease(t) \/ ReleaseDone(t)
  PROVE  IInv'
<1>0. thr[t] \in Thread /\ thr[t] \in Equipped /\ Live \subseteq Ids /\ thr[t].m \in Manifests
  BY Holding DEF ListRestart, Commands, ListRelease, ReleaseDone, At, NoManifest
<1>1. CASE ListRestart(t)
  <2>1. [thr[t] EXCEPT !.pc = "link", !.live = Live] \in Equipped
    <3>0. "link" \in Pcs
      BY DEF Pcs
    <3>1. [thr[t] EXCEPT !.pc = "link", !.live = Live] \in Thread
      BY <3>0, <1>0 DEF Thread
    <3>. QED  BY <1>0, <3>1 DEF Equipped, Thread, NoManifest, NeedsBuild
  <2>2. CASE /\ Set(t, IF Live = {} THEN Idle ELSE [thr[t] EXCEPT !.pc = "link", !.live = Live])
             /\ UNCHANGED ctrs
    BY <2>1, <2>2, EquippedIdle, SetThread, <1>1, OnlyThreads DEF ListRestart
  <2>3. CASE DockerFails(t)
    BY <1>0, <1>1, <2>3, FailType, OnlyThreads DEF ListRestart
  <2>. QED  BY <1>1, <2>2, <2>3 DEF ListRestart
<1>2. CASE Commands(t)
  <2>1. file' \in File
    BY <1>2, FlagsAssumption DEF Commands, Merged, File, IInv, TypeOK
  <2>2. thr' \in [Threads -> Equipped]
    BY <1>0, <1>2, GotoThread DEF Commands, At, NeedsBuild, Equipped, Pcs
  <2>. QED  BY <1>2, <2>1, <2>2, ThreadsAndFile DEF Commands
<1>3. CASE ListRelease(t)
  <2>0. thr[t].img \in Builds
    BY <1>0, <1>3 DEF ListRelease, At, NeedsBuild, Equipped
  <2>1. [thr[t] EXCEPT !.pc = "recordRelease"] \in Equipped
    BY <1>0, <2>0 DEF Pcs, Thread, Equipped, NoManifest, NeedsBuild
  <2>2. [thr[t] EXCEPT !.pc = "roll", !.ret = "recordRelease", !.todo = Movable(Live)] \in Equipped
    <3>0. "roll" \in Pcs /\ "recordRelease" \in Rets
      BY DEF Pcs, Rets
    <3>1. [thr[t] EXCEPT !.pc = "roll", !.ret = "recordRelease", !.todo = Movable(Live)] \in Thread
      BY MovableIn, <3>0, <1>0, <2>0 DEF Thread
    <3>. QED  BY <1>0, <2>0, <3>1 DEF Equipped, Thread, NoManifest, NeedsBuild
  <2>3. CASE DockerFails(t)
    BY <1>0, <1>3, <2>3, FailType, OnlyThreads DEF ListRelease
  <2>4. CASE /\ Set(t, IF Live = {} THEN [thr[t] EXCEPT !.pc = "recordRelease"]
                       ELSE [thr[t] EXCEPT !.pc = "roll", !.ret = "recordRelease",
                                           !.todo = Movable(Live)])
             /\ UNCHANGED ctrs
    BY <2>1, <2>2, <2>4, SetThread, <1>3, OnlyThreads DEF ListRelease
  <2>. QED  BY <1>3, <2>3, <2>4 DEF ListRelease
<1>4. CASE ReleaseDone(t)
  BY <1>0, <1>4, BlobType, RecordedType, GotoThread, ThreadsAndStatus DEF ReleaseDone, At, NeedsBuild,
     Equipped, Pcs
<1>. QED  BY <1>1, <1>2, <1>3, <1>4
\* The frozen list read and written back, and a started replica's removal.
LEMMA FrozenSteps ==
  ASSUME IInv, NEW t \in Threads, ReadFrozen(t) \/ WriteFrozen(t) \/ Discard(t)
  PROVE  IInv'
<1>0. thr[t] \in Thread /\ thr[t] \in Equipped /\ Idle \in Equipped /\ frozen \in SUBSET Ids
  BY Holding, EquippedIdle DEF IInv, TypeOK
<1>1. CASE ReadFrozen(t)
  <2>1. ASSUME NEW S \in SUBSET Ids
        PROVE  [thr[t] EXCEPT !.pc = "writeFrozen", !.live = S] \in Equipped
    <3>1. [thr[t] EXCEPT !.pc = "writeFrozen", !.live = S] \in Thread
      BY <1>0 DEF Thread, Pcs
    <3>. QED  BY <1>0, <1>1, <3>1 DEF Equipped, Thread, NoManifest, NeedsBuild, ReadFrozen, At
  <2>2. [thr[t] EXCEPT !.pc = "discard"] \in Equipped
    <3>1. [thr[t] EXCEPT !.pc = "discard"] \in Thread
      BY <1>0 DEF Thread, Pcs
    <3>. QED  BY <1>0, <1>1, <3>1 DEF Equipped, Thread, NoManifest, NeedsBuild, ReadFrozen, At
  <2>3. frozen \cup thr[t].todo \in SUBSET Ids /\ frozen \ thr[t].todo \in SUBSET Ids
    BY <1>0 DEF Thread
  <2>4. thr' \in [Threads -> Equipped]
    BY <1>1, <2>1, <2>2, <2>3, SetThread DEF ReadFrozen
  <2>. QED  BY <1>1, <2>4, OnlyThreads DEF ReadFrozen
<1>2. CASE WriteFrozen(t)
  <2>0. [thr[t] EXCEPT !.pc = "discard"] \in Equipped
    <3>1. [thr[t] EXCEPT !.pc = "discard"] \in Thread
      BY <1>0 DEF Thread, Pcs
    <3>. QED  BY <1>0, <1>2, <3>1 DEF Equipped, Thread, NoManifest, NeedsBuild, WriteFrozen, At
  <2>1. thr' \in [Threads -> Equipped]
    BY <1>0, <1>2, <2>0, SetThread DEF WriteFrozen, Goto
  <2>2. frozen' \in SUBSET Ids
    BY <1>0, <1>2 DEF WriteFrozen, Thread
  <2>. QED  BY <1>2, <2>1, <2>2, EquippedIsThread DEF WriteFrozen, IInv, TypeOK
<1>3. CASE Discard(t)
  <2>1. CASE DockerFails(t)
    <3>1. thr[t].ret = "idle"
      BY <1>0, <1>3 DEF Discard, At, Equipped
    <3>. QED  BY <3>1, <1>3, <2>1, FailType, OnlyThreads DEF Discard
  <2>2. CASE \E i \in thr[t].todo : Remove(i) /\ Set(t, [Idle EXCEPT !.op = "start", !.pc = "find"])
    <3>1. [Idle EXCEPT !.op = "start", !.pc = "find"] \in Thread
      <4>1. Idle \in Thread
        BY EquippedIsThread, <1>0
      <4>. QED  BY <4>1 DEF Thread, Pcs, OpNames
    <3>2. [Idle EXCEPT !.op = "start", !.pc = "find"] \in Equipped
      BY <1>0, <3>1 DEF Equipped, Thread, NoManifest, NeedsBuild
    <3>3. thr' \in [Threads -> Equipped]
      BY <2>2, <3>2, SetThread
    <3>4. ctrs' \in [Ids -> Replica \cup {None}]
      BY <2>2, RemoveType
    <3>. QED  BY <1>3, <3>3, <3>4, ThreadsAndCtrs DEF Discard
  <2>. QED  BY <1>3, <2>1, <2>2 DEF Discard
<1>. QED  BY <1>1, <1>2, <1>3

LEMMA BuildSteps ==
  ASSUME IInv, NEW t \in Threads, Build(t) \/ SwapCurrent(t)
  PROVE  IInv'
<1>0. thr[t] \in Thread /\ thr[t] \in Equipped /\ thr[t].m \in Manifests /\ thr[t].img \in Builds
  BY Holding DEF Build, SwapCurrent, At, NoManifest, NeedsBuild, Equipped
<1>1. CASE Build(t)
  <2>1. Goto(t, "swap") \/ Goto(t, "leave")
    BY <1>1 DEF Build
  <2>2. thr' \in [Threads -> Equipped]
    BY <1>0, GotoThread, <2>1 DEF Pcs, NeedsBuild
  <2>3. img' \in Builds
    BY <1>0, <1>1 DEF Build, IInv, TypeOK
  <2>4. built' \in [Builds -> Kept]
    BY <1>0, <1>1 DEF Build, Kept, IInv, TypeOK
  <2>. QED  BY <1>1, <2>2, <2>3, <2>4, EquippedIsThread DEF Build, IInv, TypeOK
<1>2. CASE SwapCurrent(t)
  BY <1>0, <1>2, GotoThread, EquippedIsThread DEF SwapCurrent, Pcs, NeedsBuild, IInv, TypeOK
<1>. QED  BY <1>1, <1>2

LEMMA PutTargetSteps ==
  ASSUME IInv, NEW t \in Threads, PutTarget(t) \/ AppendRecord(t) \/ Retag(t)
  PROVE  IInv'
<1>0. thr[t] \in Thread /\ thr[t] \in Equipped /\ thr[t].m \in Manifests /\ thr[t].img \in Builds
  BY Holding DEF PutTarget, AppendRecord, Retag, At, NoManifest, NeedsBuild, Equipped
<1>1. CASE PutTarget(t)
  BY <1>0, <1>1, GotoThread, ThreadsAndDesired DEF PutTarget, Pcs, NeedsBuild, IInv, TypeOK, Event
<1>2. CASE AppendRecord(t)
  BY <1>0, <1>2, BlobType, RecordedType, GotoThread, ThreadsAndStatus DEF AppendRecord, Pcs
<1>3. CASE Retag(t)
  <2>1. Goto(t, "listExtra") \/ Goto(t, "leave")
    BY <1>3 DEF Retag
  <2>2. thr' \in [Threads -> Equipped]
    BY <1>0, GotoThread, <2>1 DEF Pcs, NeedsBuild
  <2>3. img' \in Builds
    BY <1>0, <1>3 DEF Retag, IInv, TypeOK
  <2>. QED  BY <1>3, <2>2, <2>3, EquippedIsThread DEF Retag, IInv, TypeOK
<1>. QED  BY <1>1, <1>2, <1>3

LEMMA RollbackSteps ==
  ASSUME IInv, NEW t \in Threads,
         ListExtra(t) \/ ListRolled(t) \/ Grow(t) \/ Restamp(t) \/ StampBack(t)
  PROVE  IInv'
<1>0. thr[t] \in Thread /\ thr[t] \in Equipped /\ thr[t].m \in Manifests /\ Live \subseteq Ids
  BY Holding DEF ListExtra, ListRolled, Grow, Restamp, StampBack, ReadFrozen, WriteFrozen, Discard, At, NoManifest
<1>r. ASSUME DockerFails(t),
             UNCHANGED <<desired, chan, phase, bucket, file, img, current, built, status, frozen, lock, ops>>
      PROVE  IInv'
  BY <1>0, <1>r, FailType, OnlyThreads
<1>1. CASE ListExtra(t)
  <2>1. Extras(Live, thr[t].m.want) \in SUBSET Ids
    BY <1>0 DEF Extras
  <2>2. [thr[t] EXCEPT !.pc = "prune", !.todo = Extras(Live, thr[t].m.want)] \in Equipped
    <3>0. "prune" \in Pcs
      BY DEF Pcs
    <3>1. [thr[t] EXCEPT !.pc = "prune", !.todo = Extras(Live, thr[t].m.want)] \in Thread
      BY <3>0, <1>0, <2>1 DEF Thread
    <3>. QED  BY <1>0, <2>1, <3>1 DEF Equipped, Thread, NoManifest, NeedsBuild
  <2>3. [thr[t] EXCEPT !.pc = "roll", !.ret = "grow", !.todo = Movable(Live)] \in Equipped
    <3>0. "roll" \in Pcs /\ "grow" \in Rets
      BY DEF Pcs, Rets
    <3>1. [thr[t] EXCEPT !.pc = "roll", !.ret = "grow", !.todo = Movable(Live)] \in Thread
      BY MovableIn, <3>0, <1>0 DEF Thread
    <3>. QED  BY <1>0, <3>1 DEF Equipped, Thread, NoManifest, NeedsBuild
  <2>4. CASE /\ Set(t, IF Cardinality(Live) > thr[t].m.want
                       THEN [thr[t] EXCEPT !.pc = "prune",
                                           !.todo = Extras(Live, thr[t].m.want)]
                       ELSE [thr[t] EXCEPT !.pc = "roll", !.ret = "grow", !.todo = Movable(Live)])
             /\ UNCHANGED ctrs
    BY <2>2, <2>3, <2>4, SetThread, <1>1, OnlyThreads DEF ListExtra
  <2>. QED  BY <1>1, <1>r, <2>4 DEF ListExtra
<1>2. CASE ListRolled(t)
  <2>1. [thr[t] EXCEPT !.pc = "roll", !.ret = "grow", !.todo = Movable(Live)] \in Equipped
    <3>0. "roll" \in Pcs /\ "grow" \in Rets
      BY DEF Pcs, Rets
    <3>1. [thr[t] EXCEPT !.pc = "roll", !.ret = "grow", !.todo = Movable(Live)] \in Thread
      BY MovableIn, <3>0, <1>0 DEF Thread
    <3>. QED  BY <1>0, <3>1 DEF Equipped, Thread, NoManifest, NeedsBuild
  <2>2. CASE /\ Set(t, [thr[t] EXCEPT !.pc = "roll", !.ret = "grow", !.todo = Movable(Live)])
             /\ UNCHANGED ctrs
    BY <1>2, <2>1, <2>2, SetThread, OnlyThreads DEF ListRolled
  <2>. QED  BY <1>2, <1>r, <2>2 DEF ListRolled
<1>3. CASE Grow(t)
  <2>1. [thr[t] EXCEPT !.pc = "scale", !.live = Live] \in Equipped
    <3>0. "scale" \in Pcs
      BY DEF Pcs
    <3>1. [thr[t] EXCEPT !.pc = "scale", !.live = Live] \in Thread
      BY <3>0, <1>0 DEF Thread
    <3>. QED  BY <1>0, <3>1 DEF Equipped, Thread, NoManifest, NeedsBuild
  <2>2. CASE Set(t, [thr[t] EXCEPT !.pc = "scale", !.live = Live]) /\ UNCHANGED ctrs
    BY <1>3, <2>1, <2>2, SetThread, OnlyThreads DEF Grow
  <2>. QED  BY <1>3, <1>r, <2>2 DEF Grow
<1>4. CASE Restamp(t)
  <2>1. Unstamped(t) \subseteq Ids
    BY <1>0 DEF Unstamped
  <2>2. [thr[t] EXCEPT !.pc = "stampBack"] \in Equipped
    BY <1>0 DEF Equipped, Thread, NoManifest, NeedsBuild, Pcs
  <2>3. [thr[t] EXCEPT !.pc = "roll", !.ret = "stampBack", !.todo = Movable(Unstamped(t)),
                       !.live = {}, !.made = {}] \in Equipped
    <3>0. "roll" \in Pcs /\ "stampBack" \in Rets
      BY DEF Pcs, Rets
    <3>1. [thr[t] EXCEPT !.pc = "roll", !.ret = "stampBack", !.todo = Movable(Unstamped(t)), !.live = {}, !.made = {}] \in Thread
      BY MovableIn, <3>0, <1>0, <2>1 DEF Thread
    <3>. QED  BY <1>0, <2>1, <3>1 DEF Equipped, Thread, NoManifest, NeedsBuild
  <2>4. CASE /\ Set(t, IF Unstamped(t) = {} THEN [thr[t] EXCEPT !.pc = "stampBack"]
                       ELSE [thr[t] EXCEPT !.pc = "roll", !.ret = "stampBack",
                                           !.todo = Movable(Unstamped(t)), !.live = {}, !.made = {}])
             /\ UNCHANGED ctrs
    BY <2>2, <2>3, <2>4, SetThread, <1>4, OnlyThreads DEF Restamp
  <2>. QED  BY <1>4, <1>r, <2>4 DEF Restamp
<1>5. CASE StampBack(t)
  BY <1>0, <1>5, GotoThread, StampType, ThreadsAndStatus DEF StampBack, Pcs, NeedsBuild
<1>. QED  BY <1>1, <1>2, <1>3, <1>4, <1>5

\* A request admitted is counted within the bound.
LEMMA RequestCount ==
  ASSUME IInv, NEW op, Request(op) PROVE ops' \in 0..MaxOps
  BY BoundsAssumption DEF IInv, TypeOK, Request

LEMMA OperatorSteps ==
  ASSUME IInv, Operator PROVE IInv'
<1>0. Idle \in Equipped /\ Idle \in Thread
  BY EquippedIdle DEF Equipped
<1>1. ASSUME NEW m \in Manifests, Apply(m) PROVE IInv'
  BY <1>1, RequestCount, ThreadsAndDesired DEF Apply, IInv, Event
<1>2. CASE Delete
  BY <1>2, RequestCount, ThreadsAndDesired DEF Delete, IInv, Event
<1>3. ASSUME NEW t \in Https PROVE t \in Threads
  BY <1>3 DEF Threads
<1>4. ASSUME NEW t \in Https, NEW e \in Envs, ConfigSet(t, e) PROVE IInv'
  <2>1. [Idle EXCEPT !.op = "config", !.pc = "materialize"] \in Equipped
    <3>1. [Idle EXCEPT !.op = "config", !.pc = "materialize"]
            \in Thread
      BY <1>0 DEF Thread, Pcs, OpNames
    <3>. QED  BY <1>0, <3>1 DEF Equipped, Thread, NoManifest, NeedsBuild
  <2>2. thr' \in [Threads -> Equipped]
    BY <1>3, <1>4, <2>1, SetThread DEF ConfigSet
  <2>3. ops' \in 0..MaxOps
    BY <1>4, RequestCount DEF ConfigSet
  <2>. QED  BY <1>4, <2>2, <2>3, EquippedIsThread DEF ConfigSet, IInv, TypeOK
<1>5. ASSUME NEW t \in Https, NEW b \in Builds, NEW m \in Manifests, Push(t, b, m)
      PROVE  IInv'
  <2>1. ASSUME NEW pc \in {"build", "swap"}
        PROVE  [Idle EXCEPT !.op = "deploy", !.pc = pc, !.m = m, !.img = b] \in Equipped
    <3>1. [Idle EXCEPT !.op = "deploy", !.pc = pc, !.m = m, !.img = b] \in Thread
      BY <1>0 DEF Thread, Pcs, OpNames
    <3>. QED  BY <1>0, <3>1 DEF Equipped, Thread, NoManifest
  <2>2. (IF built[b] = "no" THEN "build" ELSE "swap") \in {"build", "swap"}
    OBVIOUS
  <2>3. thr' \in [Threads -> Equipped]
    BY <1>3, <1>5, <2>1, <2>2, SetThread DEF Push
  <2>4. ops' \in 0..MaxOps
    BY <1>5, RequestCount DEF Push
  <2>. QED  BY <1>5, <2>3, <2>4, EquippedIsThread DEF Push, IInv, TypeOK
<1>6. ASSUME NEW t \in Https, Restart(t) PROVE IInv'
  <2>1. [Idle EXCEPT !.op = "restart", !.pc = "find"] \in Equipped
    <3>1. [Idle EXCEPT !.op = "restart", !.pc = "find"] \in Thread
      BY <1>0 DEF Thread, Pcs, OpNames
    <3>. QED  BY <1>0, <3>1 DEF Equipped, Thread, NoManifest, NeedsBuild
  <2>2. thr' \in [Threads -> Equipped]
    BY <1>3, <1>6, <2>1, SetThread DEF Restart
  <2>3. ops' \in 0..MaxOps
    BY <1>6, RequestCount DEF Restart
  <2>. QED  BY <1>6, <2>2, <2>3, EquippedIsThread DEF Restart, IInv, TypeOK
<1>9. ASSUME NEW t \in Https, NEW i \in Ids, Stop(t, i) \/ Start(t, i) PROVE IInv'
  <2>1. ASSUME NEW op \in {"stop", "start"}
        PROVE  [Idle EXCEPT !.op = op, !.pc = "readFrozen", !.todo = {i}] \in Equipped
    <3>0. op \in OpNames /\ "readFrozen" \in Pcs /\ Idle.ret = "idle"
      BY DEF OpNames, Pcs, Idle
    <3>1. [Idle EXCEPT !.op = op, !.pc = "readFrozen", !.todo = {i}] \in Thread
      BY <1>0, <3>0 DEF Thread
    <3>. QED  BY <1>0, <3>0, <3>1 DEF Equipped, Thread, NoManifest, NeedsBuild
  <2>2. thr' \in [Threads -> Equipped]
    BY <1>3, <1>9, <2>1, SetThread DEF Stop, Start
  <2>3. ops' \in 0..MaxOps
    BY <1>9, RequestCount DEF Stop, Start
  <2>. QED  BY <1>9, <2>2, <2>3, EquippedIsThread DEF Stop, Start, IInv, TypeOK
<1>7. ASSUME NEW t \in Https, Release(t) PROVE IInv'
  <2>0. desired \in Manifests /\ current \in Builds
    BY <1>7 DEF Release, IInv, TypeOK
  <2>1. [Idle EXCEPT !.op = "release", !.pc = "commands", !.m = desired, !.img = current]
          \in Equipped
    <3>1. [Idle EXCEPT !.op = "release", !.pc = "commands", !.m = desired, !.img = current]
            \in Thread
      BY <1>0, <2>0 DEF Thread, Pcs, OpNames
    <3>. QED  BY <1>0, <2>0, <3>1 DEF Equipped, Thread, NoManifest, NeedsBuild
  <2>2. thr' \in [Threads -> Equipped]
    BY <1>3, <1>7, <2>1, SetThread DEF Release
  <2>3. ops' \in 0..MaxOps
    BY <1>7, RequestCount DEF Release
  <2>. QED  BY <1>7, <2>2, <2>3, EquippedIsThread DEF Release, IInv, TypeOK
<1>8. ASSUME NEW t \in Https, Rollback(t) PROVE IInv'
  <2>1. ops' \in 0..MaxOps
    BY <1>8, RequestCount DEF Rollback
  <2>2. PICK rec \in Blob.hist : Set(t, [Idle EXCEPT !.op = "rollback", !.pc = "putTarget",
                                            !.m = rec.m, !.img = rec.img, !.rid = ops'])
    BY <1>8 DEF Rollback
  <2>3. rec.m \in Manifests /\ rec.img \in Builds
    BY <2>2, BlobType DEF Status, Record
  <2>4. [Idle EXCEPT !.op = "rollback", !.pc = "putTarget", !.m = rec.m, !.img = rec.img,
                     !.rid = ops'] \in Equipped
    <3>1. [Idle EXCEPT !.op = "rollback", !.pc = "putTarget", !.m = rec.m, !.img = rec.img, !.rid = ops']
            \in Thread
      BY <1>0, <2>1, <2>3 DEF Thread, Pcs, OpNames
    <3>. QED  BY <1>0, <2>1, <2>3, <3>1 DEF Equipped, Thread, NoManifest, NeedsBuild
  <2>5. thr' \in [Threads -> Equipped]
    BY <1>3, <2>2, <2>4, SetThread
  <2>. QED  BY <1>8, <2>1, <2>5, EquippedIsThread DEF Rollback, IInv, TypeOK
<1>. QED  BY <1>1, <1>2, <1>4, <1>5, <1>6, <1>7, <1>8, <1>9 DEF Operator

LEMMA CrashStep == ASSUME IInv, Crash PROVE IInv'
BY EquippedIdle, BoundsAssumption, EquippedIsThread DEF Crash, IInv, TypeOK
-----------------------------------------------------------------------------
(* Type correctness.                                                       *)

LEMMA InitTyped == ASSUME Init PROVE IInv
<1>1. desired \in Manifests \cup {None}
  BY StartsAssumption DEF Init
<1>2. ASSUME desired \in Manifests PROVE SettledReplica(desired) \in Replica
  BY <1>2, ManifestsAssumption, StartsAssumption, FlagsAssumption, BoundsAssumption
     DEF SettledReplica, Replica, File
<1>3. ctrs \in [Ids -> Replica \cup {None}]
  <2>1. PICK old \in Specs :
          ctrs = [i \in Ids |-> IF desired = None \/ i \notin First(Ids, desired.want) THEN None
                                ELSE IF i \in frozen
                                     THEN [SettledReplica(desired) EXCEPT !.spec = old]
                                     ELSE SettledReplica(desired)]
    BY DEF Init
  <2>2. desired # None => [SettledReplica(desired) EXCEPT !.spec = old] \in Replica
    BY <1>1, <1>2 DEF Replica
  <2>. QED  BY <1>1, <1>2, <2>1, <2>2
<1>9. frozen \in SUBSET Ids
  BY DEF Init, First
<1>4. status \in Status \cup {None}
  <2>1. CASE desired = None
    BY <2>1 DEF Init
  <2>2. CASE desired # None
    BY <1>1, <2>2, StartsAssumption, ManifestsAssumption DEF Record, Init, Status
  <2>. QED  BY <2>1, <2>2
<1>5. file \in File
  BY StartsAssumption DEF Init, File
<1>6. thr \in [Threads -> Equipped] /\ thr \in [Threads -> Thread]
  BY EquippedIdle, EquippedIsThread DEF Init
<1>7. ops \in 0..MaxOps /\ chan \in Seq(Event) /\ lock \in Https \cup {None}
  BY BoundsAssumption DEF Init
<1>8. /\ phase \in {"replay", "gap", "watch"} /\ bucket \in Envs
      /\ img \in Builds /\ current \in Builds /\ built \in [Builds -> Kept]
  BY StartsAssumption DEF Init, Kept
<1>. QED  BY <1>1, <1>3, <1>4, <1>5, <1>6, <1>7, <1>8, <1>9 DEF IInv, TypeOK

LEMMA NextTyped == ASSUME IInv, [Next]_vars PROVE IInv'
BY EndSteps, LinkStep, ListSteps, ScaleStep, PruneStep, StampNewStep, RelistStep, DriftStep,
   StampRolledStep, RollEnvStep, RecordStep, PublishStep, RollNextStep, RetireStep, RespawnStep,
   ListDoomedStep, RemoveNextStep, BuildSteps, ConfigSteps, ReleaseSteps, PutTargetSteps, RollbackSteps,
   FrozenSteps, LoopSteps, OperatorSteps, CrashStep DEF ReconcileStep, RequestStep, IInv, TypeOK, vars, Next

\* Every variable keeps its type through every handler, failure, retry and
\* crash, and no retry counts past maxRetryAttempts (scheduleRetry).
THEOREM TypeCorrect == Spec => []TypeOK
<1>1. Init => IInv
  BY InitTyped
<1>2. IInv /\ [Next]_vars => IInv'
  BY NextTyped
<1>3. IInv => TypeOK
  BY DEF IInv
<1>. QED  BY <1>1, <1>2, <1>3, PTL DEF Spec

\* A thread never takes a step of apply, of a roll, of a release or of a
\* rollback without the manifest it works from (DeploymentHandler's decoded
\* spec), nor restores a build it was not given (retagToTargetBuild).
THEOREM ManifestInHand == Spec => [](\A t \in Threads : thr[t] \in Equipped)
<1>1. Init => IInv
  BY InitTyped
<1>2. IInv /\ [Next]_vars => IInv'
  BY NextTyped
<1>3. IInv => \A t \in Threads : thr[t] \in Equipped
  BY DEF IInv
<1>. QED  BY <1>1, <1>2, <1>3, PTL DEF Spec

-----------------------------------------------------------------------------
(* What each handler's step does, restated field by field: the invariants  *)
(* below look at a handler only through these lemmas.                      *)

Rolling == {"roll", "await", "respawn"}
Workers == {Loop} \cup Retries

\* A step of t leaves the others where they are, and t with its request.
Turns(t) == \A s \in Threads : s # t => thr'[s] = thr[s]
Same(t)  == /\ thr'[t].op = thr[t].op /\ thr'[t].m = thr[t].m
            /\ thr'[t].rid = thr[t].rid /\ thr'[t].img = thr[t].img
Keeps(t) == /\ Turns(t) /\ Same(t) /\ thr'[t].live = thr[t].live /\ thr'[t].made = thr[t].made
            /\ thr'[t].flags = thr[t].flags /\ thr'[t].att = thr[t].att
Stays(t) == /\ Keeps(t) /\ thr'[t].todo = thr[t].todo /\ thr'[t].old = thr[t].old /\ thr'[t].ret = thr[t].ret

\* Where a docker call fails.
Fails(t) == /\ Keeps(t) /\ thr'[t].ret = thr[t].ret /\ thr'[t].todo = {} /\ thr'[t].old = None
            /\ thr'[t].pc = OnError(t) /\ UNCHANGED ctrs /\ May("fail")

Elsewhere == <<desired, chan, phase, bucket, file, img, current, built, frozen, lock, ops>>

LEMMA ThreadRecord ==
  ASSUME IInv, NEW t \in Threads
  PROVE  thr[t] \in Thread /\ DOMAIN thr = Threads
BY DEF IInv, Equipped

LEMMA SetDoes ==
  ASSUME IInv, NEW t \in Threads, NEW r, Set(t, r)
  PROVE  thr'[t] = r /\ Turns(t)
BY ThreadRecord DEF Set, Turns, IInv

LEMMA GotoDoes ==
  ASSUME IInv, NEW t \in Threads, NEW pc, Goto(t, pc)
  PROVE  thr'[t].pc = pc /\ Stays(t)
BY ThreadRecord, SetDoes DEF Goto, Thread, Stays, Keeps, Same

LEMMA FailsDoes ==
  ASSUME IInv, NEW t \in Threads, DockerFails(t)
  PROVE  Fails(t)
<1>1. /\ thr[t] \in Thread /\ Turns(t) /\ UNCHANGED ctrs /\ May("fail")
      /\ thr'[t] = [thr[t] EXCEPT !.pc = OnError(t), !.todo = {}, !.old = None]
  BY ThreadRecord, SetDoes DEF DockerFails
<1> QED
  BY <1>1 DEF Thread, Fails, Keeps, Same

LEMMA LinkDoes ==
  ASSUME IInv, NEW t \in Threads, LinkEnv(t)
  PROVE  /\ At(t, "link")
         /\ UNCHANGED <<desired, chan, phase, bucket, img, current, built, ctrs, status, frozen, lock, ops>>
         /\ Turns(t) /\ Same(t)
         /\ thr'[t].made = thr[t].made /\ thr'[t].att = thr[t].att /\ thr'[t].old = thr[t].old
         /\ \/ /\ thr[t].op = "restart" /\ file' = Merged /\ thr'[t].pc = "roll" /\ thr'[t].ret = "leave"
               /\ thr'[t].todo = Movable(thr[t].live)
            \/ /\ thr[t].op # "restart" /\ file' = Merged /\ thr'[t].pc = "list" /\ thr'[t].ret = thr[t].ret
               /\ thr'[t].live = thr[t].live /\ thr'[t].todo = thr[t].todo
               /\ thr'[t].flags = IF file = Merged THEN {} ELSE {"changed"}
            \/ /\ thr[t].op = "restart" /\ May("transient") /\ UNCHANGED file /\ Stays(t) /\ thr'[t].pc = "leave"
            \/ /\ thr[t].op # "restart" /\ May("transient") /\ RetryFree(t) /\ UNCHANGED file
               /\ Stays(t) /\ thr'[t].pc = "again"
<1>1. thr[t] \in Thread
  BY ThreadRecord
<1>2. CASE /\ file' = Merged /\ thr[t].op = "restart"
           /\ Set(t, [thr[t] EXCEPT !.pc = "roll", !.ret = "leave", !.todo = Movable(thr[t].live), !.live = {}])
  <2>1. /\ Turns(t)
        /\ thr'[t] = [thr[t] EXCEPT !.pc = "roll", !.ret = "leave", !.todo = Movable(thr[t].live), !.live = {}]
    BY <1>2, SetDoes
  <2> QED
    BY <1>1, <1>2, <2>1 DEF LinkEnv, Thread, Same
<1>3. CASE /\ file' = Merged /\ thr[t].op # "restart"
           /\ Set(t, [thr[t] EXCEPT !.pc = "list", !.flags = IF file = Merged THEN {} ELSE {"changed"}])
  <2>1. /\ Turns(t)
        /\ thr'[t] = [thr[t] EXCEPT !.pc = "list", !.flags = IF file = Merged THEN {} ELSE {"changed"}]
    BY <1>3, SetDoes
  <2> QED
    BY <1>1, <1>3, <2>1 DEF LinkEnv, Thread, Same
<1>4. CASE May("transient") /\ thr[t].op = "restart" /\ Goto(t, "leave") /\ UNCHANGED file
  BY <1>4, GotoDoes DEF LinkEnv, Stays, Keeps
<1>5. CASE May("transient") /\ thr[t].op # "restart" /\ RetryFree(t) /\ Goto(t, "again") /\ UNCHANGED file
  BY <1>5, GotoDoes DEF LinkEnv, Stays, Keeps
<1> QED
  BY <1>2, <1>3, <1>4, <1>5 DEF LinkEnv

LEMMA ListDoes ==
  ASSUME IInv, NEW t \in Threads, ListLive(t)
  PROVE  /\ At(t, "list") /\ UNCHANGED <<Elsewhere, status, ctrs>>
         /\ \/ Fails(t)
            \/ /\ thr'[t].pc = "decide" /\ Turns(t) /\ Same(t) /\ thr'[t].live = Live
               /\ thr'[t].made = thr[t].made /\ thr'[t].todo = thr[t].todo /\ thr'[t].old = thr[t].old
               /\ thr'[t].ret = thr[t].ret /\ thr'[t].flags = thr[t].flags
<1>1. thr[t] \in Thread
  BY ThreadRecord
<1>2. CASE Set(t, [thr[t] EXCEPT !.pc = "decide", !.live = Live]) /\ UNCHANGED ctrs
  <2>1. Turns(t) /\ thr'[t] = [thr[t] EXCEPT !.pc = "decide", !.live = Live]
    BY <1>2, SetDoes
  <2> QED
    BY <1>1, <1>2, <2>1 DEF ListLive, Thread, Same, Elsewhere
<1>3. CASE DockerFails(t)
  BY <1>3, FailsDoes DEF ListLive, Elsewhere, Fails
<1> QED
  BY <1>2, <1>3 DEF ListLive

LEMMA DecideDoes ==
  ASSUME IInv, NEW t \in Threads, Decide(t)
  PROVE  /\ At(t, "decide") /\ UNCHANGED <<Elsewhere, status, ctrs>>
         /\ thr'[t].pc = "scale" /\ Turns(t) /\ Same(t) /\ thr'[t].live = thr[t].live
         /\ thr'[t].made = thr[t].made /\ thr'[t].todo = thr[t].todo /\ thr'[t].old = thr[t].old
         /\ thr'[t].ret = thr[t].ret /\ thr'[t].flags \in {thr[t].flags, thr[t].flags \cup {"minted"}}
<1>1. thr[t] \in Thread
  BY ThreadRecord
<1>2. CASE Set(t, [thr[t] EXCEPT !.pc = "scale", !.flags = @ \cup {"minted"}])
  <2>1. Turns(t) /\ thr'[t] = [thr[t] EXCEPT !.pc = "scale", !.flags = @ \cup {"minted"}]
    BY <1>2, SetDoes
  <2> QED
    BY <1>1, <1>2, <2>1 DEF Decide, Thread, Same, Elsewhere
<1>3. CASE Goto(t, "scale")
  BY <1>3, GotoDoes DEF Decide, Elsewhere, Stays, Keeps
<1> QED
  BY <1>2, <1>3 DEF Decide

\* A name that docker has not, nor any goroutine remembers, gets a replica.
SpawnsFor(t, i) ==
  /\ i \in Fresh /\ thr[t].m \in Manifests
  /\ ctrs'[i] = NewReplica(t) /\ \A j \in Ids : j # i => ctrs'[j] = ctrs[j]
Removes(i) == ctrs'[i] = None /\ \A j \in Ids : j # i => ctrs'[j] = ctrs[j]

LEMMA SpawnDoes ==
  ASSUME IInv, NEW t \in Threads, NEW i \in Ids, Spawn(t, i), thr[t].m \in Manifests
  PROVE  SpawnsFor(t, i)
BY DEF IInv, TypeOK, Spawn, SpawnsFor

LEMMA RemoveDoes ==
  ASSUME IInv, NEW i \in Ids, Remove(i)
  PROVE  Removes(i)
BY DEF IInv, TypeOK, Remove, Removes

LEMMA HoldsManifest ==
  ASSUME IInv, NEW t \in Threads, thr[t].pc \notin NoManifest
  PROVE  thr[t].m \in Manifests
BY DEF IInv, Equipped

LEMMA ScaleDoes ==
  ASSUME IInv, NEW t \in Threads, Scale(t)
  PROVE  /\ At(t, "scale") /\ UNCHANGED <<Elsewhere, status>>
         /\ \/ Fails(t) /\ Missing(t)
            \/ /\ Missing(t) /\ thr'[t].pc = "scale" /\ Turns(t) /\ Same(t) /\ thr'[t].live = thr[t].live
               /\ thr'[t].todo = thr[t].todo /\ thr'[t].old = thr[t].old /\ thr'[t].ret = thr[t].ret
               /\ thr'[t].flags = thr[t].flags
               /\ \E i \in Ids : SpawnsFor(t, i) /\ thr'[t].made = thr[t].made \cup {i}
            \/ /\ ~Missing(t) /\ UNCHANGED ctrs /\ Keeps(t) /\ thr'[t].pc = AfterScale(t)
               /\ thr'[t].old = thr[t].old /\ thr'[t].ret = thr[t].ret
               /\ thr'[t].todo = IF thr[t].op = "rollback" THEN {} ELSE Extras(thr[t].live, thr[t].m.want)
<1>1. thr[t] \in Thread
  BY ThreadRecord
<1>2. At(t, "scale") => thr[t].m \in Manifests
  BY HoldsManifest DEF At, NoManifest
<1>3. ASSUME Missing(t), NEW i \in Ids, Spawn(t, i), Set(t, [thr[t] EXCEPT !.made = @ \cup {i}]), Scale(t)
      PROVE  /\ Missing(t) /\ thr'[t].pc = "scale" /\ Turns(t) /\ Same(t) /\ thr'[t].live = thr[t].live
             /\ thr'[t].todo = thr[t].todo /\ thr'[t].old = thr[t].old /\ thr'[t].ret = thr[t].ret
             /\ thr'[t].flags = thr[t].flags
             /\ SpawnsFor(t, i) /\ thr'[t].made = thr[t].made \cup {i}
  BY <1>3, SetDoes, <1>2, SpawnDoes, <1>1 DEF Scale, Thread, Same, At
<1>4. CASE Missing(t) /\ DockerFails(t)
  BY <1>4, FailsDoes DEF Scale, Elsewhere
<1>5. CASE /\ ~Missing(t) /\ UNCHANGED ctrs
           /\ Set(t, [thr[t] EXCEPT !.pc = AfterScale(t),
                        !.todo = IF thr[t].op = "rollback" THEN {}
                                 ELSE Extras(thr[t].live, thr[t].m.want)])
  <2>1. /\ Turns(t)
        /\ thr'[t] = [thr[t] EXCEPT !.pc = AfterScale(t),
                        !.todo = IF thr[t].op = "rollback" THEN {}
                                 ELSE Extras(thr[t].live, thr[t].m.want)]
    BY <1>5, SetDoes
  <2> QED
    BY <1>1, <1>5, <2>1 DEF Scale, Thread, Same, Keeps, Elsewhere
<1>6. At(t, "scale") /\ UNCHANGED <<Elsewhere, status>>
  BY DEF Scale, Elsewhere
<1>7. CASE Missing(t) /\ \E i \in Ids : Spawn(t, i) /\ Set(t, [thr[t] EXCEPT !.made = @ \cup {i}])
  BY <1>3, <1>6, <1>7
<1> QED
  BY <1>4, <1>5, <1>7 DEF Scale

LEMMA PruneDoes ==
  ASSUME IInv, NEW t \in Threads, Prune(t)
  PROVE  /\ At(t, "prune") /\ UNCHANGED <<Elsewhere, status>>
         /\ \/ Fails(t) /\ thr[t].op = "rollback" /\ thr[t].todo # {}
            \/ \E i \in thr[t].todo :
                 /\ i \in Ids /\ Removes(i) /\ Keeps(t) /\ thr'[t].pc = "prune" /\ thr'[t].todo = thr[t].todo \ {i}
                 /\ thr'[t].old = thr[t].old /\ thr'[t].ret = thr[t].ret
            \/ /\ UNCHANGED ctrs /\ Turns(t) /\ Same(t) /\ thr'[t].made = thr[t].made
               /\ thr'[t].flags = thr[t].flags
               /\ thr'[t].old = thr[t].old /\ thr'[t].ret = thr[t].ret /\ thr'[t].pc = AfterPrune(t)
               /\ thr'[t].todo = {} /\ (thr[t].todo # {} => thr[t].op = "apply" /\ May("fail"))
<1>1. thr[t] \in Thread
  BY ThreadRecord
<1>2. ASSUME NEW i \in thr[t].todo, Remove(i), Set(t, [thr[t] EXCEPT !.todo = @ \ {i}]), Prune(t)
      PROVE  /\ i \in Ids /\ Removes(i) /\ Keeps(t) /\ thr'[t].pc = "prune" /\ thr'[t].todo = thr[t].todo \ {i}
             /\ thr'[t].old = thr[t].old /\ thr'[t].ret = thr[t].ret
  BY <1>1, <1>2, SetDoes, RemoveDoes DEF Thread, Prune, Same, Keeps, At
<1>3. CASE /\ thr[t].todo = {} /\ UNCHANGED ctrs
           /\ Set(t, [thr[t] EXCEPT !.pc = AfterPrune(t), !.live = {}])
  <2>1. Turns(t) /\ thr'[t] = [thr[t] EXCEPT !.pc = AfterPrune(t), !.live = {}]
    BY <1>3, SetDoes
  <2> QED
    BY <1>1, <1>3, <2>1 DEF Prune, Thread, Same, Elsewhere
<1>4. CASE /\ thr[t].todo # {} /\ thr[t].op = "apply" /\ May("fail") /\ UNCHANGED ctrs
           /\ Set(t, [thr[t] EXCEPT !.pc = AfterPrune(t), !.live = {}, !.todo = {}])
  <2>1. Turns(t) /\ thr'[t] = [thr[t] EXCEPT !.pc = AfterPrune(t), !.live = {}, !.todo = {}]
    BY <1>4, SetDoes
  <2> QED
    BY <1>1, <1>4, <2>1 DEF Prune, Thread, Same, Elsewhere
<1>5. CASE thr[t].todo # {} /\ thr[t].op = "rollback" /\ DockerFails(t)
  BY <1>5, FailsDoes DEF Prune, Elsewhere
<1>6. At(t, "prune") /\ UNCHANGED <<Elsewhere, status>>
  BY DEF Prune, Elsewhere
<1>7. CASE \E i \in thr[t].todo : Remove(i) /\ Set(t, [thr[t] EXCEPT !.todo = @ \ {i}])
  BY <1>2, <1>6, <1>7
<1> QED
  BY <1>3, <1>4, <1>5, <1>7 DEF Prune

LEMMA StampNewDoes ==
  ASSUME IInv, NEW t \in Threads, StampNew(t)
  PROVE  At(t, "stampNew") /\ UNCHANGED <<Elsewhere, ctrs>> /\ status' = Stamp(thr[t].m)
         /\ Stays(t) /\ thr'[t].pc = "relist"
BY GotoDoes DEF StampNew, Elsewhere

LEMMA RelistDoes ==
  ASSUME IInv, NEW t \in Threads, Relist(t)
  PROVE  /\ At(t, "relist") /\ UNCHANGED <<Elsewhere, status, ctrs>>
         /\ \/ Fails(t)
            \/ /\ Keeps(t) /\ thr'[t].pc = "drift" /\ thr'[t].todo = Live \ thr[t].made
               /\ thr'[t].old = thr[t].old /\ thr'[t].ret = thr[t].ret
<1>1. thr[t] \in Thread
  BY ThreadRecord
<1>2. CASE Set(t, [thr[t] EXCEPT !.pc = "drift", !.todo = Live \ thr[t].made]) /\ UNCHANGED ctrs
  <2>1. Turns(t) /\ thr'[t] = [thr[t] EXCEPT !.pc = "drift", !.todo = Live \ thr[t].made]
    BY <1>2, SetDoes
  <2> QED
    BY <1>1, <1>2, <2>1 DEF Relist, Thread, Same, Keeps, Elsewhere
<1>3. CASE DockerFails(t)
  BY <1>3, FailsDoes DEF Relist, Elsewhere, Fails
<1> QED
  BY <1>2, <1>3 DEF Relist

\* The canary that is looked at has drifted.
Drifted(t) == \E canary \in thr[t].todo : ImageDrift(canary)
LEMMA DriftDoes ==
  ASSUME IInv, NEW t \in Threads, Drift(t)
  PROVE  /\ At(t, "drift") /\ UNCHANGED <<Elsewhere, ctrs>> /\ Keeps(t) /\ thr'[t].old = thr[t].old
         /\ \/ /\ status = None /\ status' = Stamp(thr[t].m)
               /\ thr'[t].pc = "rollEnv" /\ thr'[t].todo = {} /\ thr'[t].ret = thr[t].ret
            \/ /\ status # None /\ UNCHANGED status /\ (SpecDrift(t) => thr[t].m.gate)
               /\ thr'[t].pc = "rollEnv" /\ thr'[t].todo = {} /\ thr'[t].ret = thr[t].ret
            \/ /\ status # None /\ UNCHANGED status /\ ~thr[t].m.gate /\ (SpecDrift(t) \/ Drifted(t))
               /\ thr'[t].pc = "roll" /\ thr'[t].ret = "stampRolled"
               /\ thr'[t].todo = Movable(thr[t].todo)
<1>1. thr[t] \in Thread
  BY ThreadRecord
<1>2. CASE /\ status = None /\ status' = Stamp(thr[t].m)
           /\ Set(t, [thr[t] EXCEPT !.pc = "rollEnv", !.todo = {}])
  <2>1. Turns(t) /\ thr'[t] = [thr[t] EXCEPT !.pc = "rollEnv", !.todo = {}]
    BY <1>2, SetDoes
  <2> QED
    BY <1>1, <1>2, <2>1 DEF Drift, Thread, Same, Keeps, Elsewhere
<1>3. CASE /\ status # None /\ UNCHANGED status /\ (SpecDrift(t) => thr[t].m.gate)
           /\ Set(t, [thr[t] EXCEPT !.pc = "rollEnv", !.todo = {}])
  <2>1. Turns(t) /\ thr'[t] = [thr[t] EXCEPT !.pc = "rollEnv", !.todo = {}]
    BY <1>3, SetDoes
  <2> QED
    BY <1>1, <1>3, <2>1 DEF Drift, Thread, Same, Keeps, Elsewhere
<1>4. CASE /\ status # None /\ UNCHANGED status /\ ~thr[t].m.gate /\ (SpecDrift(t) \/ Drifted(t))
           /\ Set(t, [thr[t] EXCEPT !.pc = "roll", !.ret = "stampRolled", !.todo = Movable(thr[t].todo)])
  <2>1. Turns(t) /\ thr'[t] = [thr[t] EXCEPT !.pc = "roll", !.ret = "stampRolled", !.todo = Movable(thr[t].todo)]
    BY <1>4, SetDoes
  <2> QED
    BY <1>1, <1>4, <2>1 DEF Drift, Thread, Same, Keeps, Elsewhere
<1> QED
  BY <1>2, <1>3, <1>4 DEF Drift, Drifted

LEMMA StampRolledDoes ==
  ASSUME IInv, NEW t \in Threads, StampRolled(t)
  PROVE  /\ At(t, "stampRolled") /\ UNCHANGED <<Elsewhere, ctrs>> /\ status' = Stamp(thr[t].m)
         /\ Turns(t) /\ Same(t) /\ thr'[t].pc = "rollEnv" /\ thr'[t].flags = thr[t].flags \cup {"rolled"}
         /\ thr'[t].live = thr[t].live /\ thr'[t].made = thr[t].made /\ thr'[t].todo = thr[t].todo
         /\ thr'[t].old = thr[t].old /\ thr'[t].ret = thr[t].ret
<1>1. thr[t] \in Thread
  BY ThreadRecord
<1>2. Turns(t) /\ thr'[t] = [thr[t] EXCEPT !.pc = "rollEnv", !.flags = @ \cup {"rolled"}]
  BY SetDoes DEF StampRolled
<1> QED
  BY <1>1, <1>2 DEF StampRolled, Thread, Same, Elsewhere

LEMMA RollEnvDoes ==
  ASSUME IInv, NEW t \in Threads, RollEnv(t)
  PROVE  /\ At(t, "rollEnv") /\ UNCHANGED <<Elsewhere, status, ctrs>> /\ Keeps(t) /\ thr'[t].old = thr[t].old
         /\ \/ /\ EnvChanged(t) /\ thr'[t].pc = "roll" /\ thr'[t].ret = "record"
               /\ thr'[t].todo = Movable(Live \ thr[t].made)
            \/ /\ ~EnvChanged(t) \/ Live \ thr[t].made = {} \/ May("fail")
               /\ Stays(t) /\ thr'[t].pc = "record"
<1>1. thr[t] \in Thread
  BY ThreadRecord
<1>2. CASE EnvChanged(t) /\ Set(t, [thr[t] EXCEPT !.pc = "roll", !.ret = "record", !.todo = Movable(Live \ thr[t].made)])
  <2>1. Turns(t) /\ thr'[t] = [thr[t] EXCEPT !.pc = "roll", !.ret = "record", !.todo = Movable(Live \ thr[t].made)]
    BY <1>2, SetDoes
  <2> QED
    BY <1>1, <1>2, <2>1 DEF RollEnv, Thread, Same, Keeps, Elsewhere
<1>3. CASE /\ ~EnvChanged(t) \/ Live \ thr[t].made = {} \/ May("fail")
           /\ Goto(t, "record")
  BY <1>3, GotoDoes DEF RollEnv, Elsewhere, Stays
<1> QED
  BY <1>2, <1>3 DEF RollEnv

LEMMA RecordDoes ==
  ASSUME IInv, NEW t \in Threads, RecordRelease(t)
  PROVE  /\ At(t, "record") /\ UNCHANGED <<Elsewhere, ctrs>> /\ Stays(t) /\ thr'[t].pc = "publish"
         /\ \/ UNCHANGED status
            \/ status' = Recorded(t, Stamp(thr[t].m), current)
            \/ status' = Recorded(t, Blob, current)
BY GotoDoes DEF RecordRelease, Elsewhere

LEMMA PublishDoes ==
  ASSUME IInv, NEW t \in Threads, Publish(t)
  PROVE  /\ At(t, "publish") /\ UNCHANGED <<Elsewhere, status, ctrs>> /\ Stays(t)
         /\ thr'[t].pc = "ok" \/ (thr'[t].pc = "again" /\ May("transient") /\ RetryFree(t))
BY GotoDoes DEF Publish, Elsewhere

LEMMA RollNextDoes ==
  ASSUME IInv, NEW t \in Threads, RollNext(t)
  PROVE  /\ At(t, "roll") /\ UNCHANGED <<Elsewhere, status>>
         /\ \/ /\ CanSurge
               /\ \E o \in thr[t].todo, i \in Ids :
                    /\ SpawnsFor(t, i) /\ Keeps(t) /\ thr'[t].pc = "await" /\ thr'[t].ret = thr[t].ret
                    /\ thr'[t].old = o /\ thr'[t].todo = thr[t].todo \ {o}
            \/ /\ ~CanSurge
               /\ \E o \in thr[t].todo :
                    /\ o \in Ids /\ Removes(o) /\ Keeps(t) /\ thr'[t].pc = "respawn" /\ thr'[t].ret = thr[t].ret
                    /\ thr'[t].old = thr[t].old /\ thr'[t].todo = thr[t].todo \ {o}
            \/ thr[t].todo # {} /\ Fails(t)
            \/ thr[t].todo = {} /\ UNCHANGED ctrs /\ Stays(t) /\ thr'[t].pc = thr[t].ret
            \/ /\ thr[t].todo = {} /\ UNCHANGED ctrs /\ Stays(t) /\ May("transient")
               /\ IF thr[t].op = "apply" /\ thr[t].ret = "stampRolled"
                  THEN RetryFree(t) /\ thr'[t].pc = "again" ELSE thr'[t].pc = OnError(t)
<1>1. thr[t] \in Thread
  BY ThreadRecord
<1>2. At(t, "roll") /\ UNCHANGED <<Elsewhere, status>>
  BY DEF RollNext, Elsewhere
<1>3. ASSUME NEW o \in thr[t].todo, NEW i \in Ids, Spawn(t, i),
             Set(t, [thr[t] EXCEPT !.pc = "await", !.old = o, !.todo = @ \ {o}])
      PROVE  /\ SpawnsFor(t, i) /\ Keeps(t) /\ thr'[t].pc = "await" /\ thr'[t].ret = thr[t].ret
             /\ thr'[t].old = o /\ thr'[t].todo = thr[t].todo \ {o}
  <2>1. Turns(t) /\ thr'[t] = [thr[t] EXCEPT !.pc = "await", !.old = o, !.todo = @ \ {o}]
    BY <1>3, SetDoes
  <2>2. SpawnsFor(t, i)
    BY <1>2, <1>3, SpawnDoes, HoldsManifest DEF At, NoManifest
  <2> QED
    BY <1>1, <2>1, <2>2 DEF Thread, Same, Keeps
<1>4. ASSUME NEW o \in thr[t].todo, Remove(o),
             Set(t, [thr[t] EXCEPT !.pc = "respawn", !.todo = @ \ {o}])
      PROVE  /\ o \in Ids /\ Removes(o) /\ Keeps(t) /\ thr'[t].pc = "respawn" /\ thr'[t].ret = thr[t].ret
             /\ thr'[t].old = thr[t].old /\ thr'[t].todo = thr[t].todo \ {o}
  <2>1. Turns(t) /\ thr'[t] = [thr[t] EXCEPT !.pc = "respawn", !.todo = @ \ {o}]
    BY <1>4, SetDoes
  <2>2. o \in Ids
    BY <1>1 DEF Thread
  <2>3. Removes(o)
    BY <1>4, <2>2, RemoveDoes
  <2> QED
    BY <1>1, <2>1, <2>2, <2>3 DEF Thread, Same, Keeps
<1>5. CASE thr[t].todo # {} /\ DockerFails(t)
  BY <1>2, <1>5, FailsDoes
<1>6. CASE thr[t].todo = {} /\ UNCHANGED ctrs /\ Goto(t, thr[t].ret)
  BY <1>2, <1>6, GotoDoes
<1>7. CASE /\ thr[t].todo = {} /\ UNCHANGED ctrs /\ May("transient")
           /\ IF thr[t].op = "apply" /\ thr[t].ret = "stampRolled"
              THEN RetryFree(t) /\ Goto(t, "again") ELSE Goto(t, OnError(t))
  BY <1>2, <1>7, GotoDoes
<1>8. CASE /\ CanSurge
           /\ \E o \in thr[t].todo, i \in Ids :
                Spawn(t, i) /\ Set(t, [thr[t] EXCEPT !.pc = "await", !.old = o, !.todo = @ \ {o}])
  BY <1>2, <1>3, <1>8
<1>9. CASE /\ ~CanSurge
           /\ \E o \in thr[t].todo :
                Remove(o) /\ Set(t, [thr[t] EXCEPT !.pc = "respawn", !.todo = @ \ {o}])
  BY <1>2, <1>4, <1>9
<1> QED
  BY <1>5, <1>6, <1>7, <1>8, <1>9 DEF RollNext

LEMMA RetireDoes ==
  ASSUME IInv, NEW t \in Threads, Retire(t)
  PROVE  /\ At(t, "await") /\ UNCHANGED <<Elsewhere, status>>
         /\ \/ Fails(t)
            \/ /\ thr[t].old \in Ids => Removes(thr[t].old)
               /\ thr[t].old \notin Ids => UNCHANGED ctrs
               /\ Keeps(t) /\ thr'[t].pc = "roll"
               /\ thr'[t].old = None /\ thr'[t].todo = thr[t].todo /\ thr'[t].ret = thr[t].ret
<1>1. thr[t] \in Thread
  BY ThreadRecord
<1>2. CASE Remove(thr[t].old) /\ Set(t, [thr[t] EXCEPT !.pc = "roll", !.old = None])
  <2>1. Turns(t) /\ thr'[t] = [thr[t] EXCEPT !.pc = "roll", !.old = None]
    BY <1>2, SetDoes
  <2>2. thr[t].old \in Ids => Removes(thr[t].old)
    BY <1>2, RemoveDoes
  <2>3. thr[t].old \notin Ids => UNCHANGED ctrs
    BY <1>2 DEF Remove, IInv, TypeOK
  <2> QED
    BY <1>1, <2>1, <2>2, <2>3 DEF Retire, Thread, Same, Keeps, Elsewhere
<1>3. CASE DockerFails(t)
  BY <1>3, FailsDoes DEF Retire, Elsewhere
<1> QED
  BY <1>2, <1>3 DEF Retire

LEMMA RespawnDoes ==
  ASSUME IInv, NEW t \in Threads, Respawn(t)
  PROVE  /\ At(t, "respawn") /\ UNCHANGED <<Elsewhere, status>>
         /\ Fails(t) \/ (Stays(t) /\ thr'[t].pc = "roll" /\ \E i \in Ids : SpawnsFor(t, i))
BY HoldsManifest, FailsDoes, SpawnDoes, GotoDoes DEF Respawn, Elsewhere, At, NoManifest

LEMMA ListDoomedDoes ==
  ASSUME IInv, NEW t \in Threads, ListDoomed(t)
  PROVE  /\ At(t, "listDoomed") /\ UNCHANGED <<Elsewhere, status, ctrs>>
         /\ \/ Fails(t)
            \/ /\ Keeps(t) /\ thr'[t].pc = "remove" /\ thr'[t].todo = Live
               /\ thr'[t].old = thr[t].old /\ thr'[t].ret = thr[t].ret
<1>1. thr[t] \in Thread
  BY ThreadRecord
<1>2. CASE Set(t, [thr[t] EXCEPT !.pc = "remove", !.todo = Live]) /\ UNCHANGED ctrs
  <2>1. Turns(t) /\ thr'[t] = [thr[t] EXCEPT !.pc = "remove", !.todo = Live]
    BY <1>2, SetDoes
  <2> QED
    BY <1>1, <1>2, <2>1 DEF ListDoomed, Thread, Same, Keeps, Elsewhere
<1>3. CASE DockerFails(t)
  BY <1>3, FailsDoes DEF ListDoomed, Elsewhere, Fails
<1> QED
  BY <1>2, <1>3 DEF ListDoomed

LEMMA RemoveNextDoes ==
  ASSUME IInv, NEW t \in Threads, RemoveNext(t)
  PROVE  /\ At(t, "remove") /\ UNCHANGED Elsewhere
         /\ \/ Fails(t) /\ UNCHANGED status
            \/ \E i \in thr[t].todo :
                 /\ i \in Ids /\ Removes(i) /\ UNCHANGED status /\ Keeps(t) /\ thr'[t].pc = "remove"
                 /\ thr'[t].todo = thr[t].todo \ {i} /\ thr'[t].old = thr[t].old /\ thr'[t].ret = thr[t].ret
            \/ /\ thr[t].todo = {} /\ UNCHANGED ctrs /\ status' = None /\ Stays(t) /\ thr'[t].pc = "ok"
<1>1. thr[t] \in Thread
  BY ThreadRecord
<1>2. At(t, "remove") /\ UNCHANGED Elsewhere
  BY DEF RemoveNext, Elsewhere
<1>3. ASSUME NEW i \in thr[t].todo, Remove(i), Set(t, [thr[t] EXCEPT !.todo = @ \ {i}])
      PROVE  /\ i \in Ids /\ Removes(i) /\ Keeps(t) /\ thr'[t].pc = "remove"
             /\ thr'[t].todo = thr[t].todo \ {i} /\ thr'[t].old = thr[t].old /\ thr'[t].ret = thr[t].ret
  BY <1>1, <1>3, SetDoes, RemoveDoes, <1>2 DEF Thread, Same, Keeps, At
<1>4. CASE thr[t].todo # {} /\ DockerFails(t) /\ UNCHANGED status
  BY <1>2, <1>4, FailsDoes
<1>5. CASE thr[t].todo = {} /\ status' = None /\ Goto(t, "ok") /\ UNCHANGED ctrs
  BY <1>2, <1>5, GotoDoes
<1>6. CASE UNCHANGED status /\ \E i \in thr[t].todo : Remove(i) /\ Set(t, [thr[t] EXCEPT !.todo = @ \ {i}])
  BY <1>2, <1>3, <1>6
<1> QED
  BY <1>4, <1>5, <1>6 DEF RemoveNext

\* A goroutine that waits for its retry.
Sleeps(r) == thr'[r] \in Thread /\ thr'[r].op = "none" /\ thr'[r].pc = "sleep" /\ thr'[r].rid = 0

LEMMA OutcomeDoes ==
  ASSUME IInv, NEW t \in Threads, Outcome(t)
  PROVE  /\ thr[t].pc \in {"ok", "failed"} /\ UNCHANGED <<Elsewhere, ctrs>> /\ Turns(t) /\ thr'[t] = Idle
         /\ status' = [Blob EXCEPT !.err = At(t, "failed")]
BY SetDoes DEF Outcome, Elsewhere

LEMMA GiveUpDoes ==
  ASSUME IInv, NEW t \in Threads, GiveUp(t)
  PROVE  /\ At(t, "again") /\ UNCHANGED <<Elsewhere, ctrs>> /\ Turns(t) /\ thr'[t] = Idle
         /\ status' = [Blob EXCEPT !.err = TRUE]
BY SetDoes DEF GiveUp, Elsewhere

LEMMA ScheduleRetryDoes ==
  ASSUME IInv, NEW t \in Threads, ScheduleRetry(t)
  PROVE  /\ At(t, "again") /\ UNCHANGED <<Elsewhere, status, ctrs>>
         /\ \E r \in Retries :
              /\ r = t \/ At(r, "idle")
              /\ Sleeps(r) /\ (r # t => thr'[t] = Idle)
              /\ \A s \in Threads : s \notin {r, t} => thr'[s] = thr[s]
<1>1. PICK r \in Retries :
        /\ r = t \/ At(r, "idle")
        /\ thr' = [thr EXCEPT ![t] = Idle, ![r] = [Idle EXCEPT !.pc = "sleep", !.att = thr[t].att + 1]]
  BY DEF ScheduleRetry
<1>2. r \in Threads /\ DOMAIN thr = Threads /\ thr[t] \in Thread
  BY ThreadRecord DEF Threads
<1>3. thr[t].att + 1 \in 1 .. MaxAttempts
  BY <1>2, BoundsAssumption DEF ScheduleRetry, LastAttempt, Thread
<1>4. PICK x : x = [Idle EXCEPT !.pc = "sleep", !.att = thr[t].att + 1]
  OBVIOUS
<1>5. x \in Thread /\ x.op = "none" /\ x.pc = "sleep" /\ x.rid = 0
  <2>1. Idle \in Thread /\ Idle.op = "none" /\ Idle.rid = 0
    BY EquippedIdle, EquippedIsThread DEF Idle
  <2>2. [Idle EXCEPT !.pc = "sleep"] \in Thread
    BY <2>1 DEF Thread, Pcs
  <2>3. x = [[Idle EXCEPT !.pc = "sleep"] EXCEPT !.att = thr[t].att + 1]
    BY <1>4, <2>1 DEF Thread
  <2>4. x \in Thread
    BY <1>3, <2>2, <2>3 DEF Thread
  <2> QED
    BY <1>4, <2>1, <2>4 DEF Thread
<1>6. thr'[r] = x /\ (r # t => thr'[t] = Idle) /\ \A s \in Threads : s \notin {r, t} => thr'[s] = thr[s]
  BY <1>1, <1>2, <1>4 DEF IInv
<1>7. At(t, "again") /\ UNCHANGED <<Elsewhere, status, ctrs>>
  BY DEF ScheduleRetry, Elsewhere
<1>8. Sleeps(r) /\ (r = t \/ At(r, "idle"))
  BY <1>1, <1>5, <1>6 DEF Sleeps
<1> QED
  BY <1>6, <1>7, <1>8

\* A goroutine takes up the manifest m, or the deletion.
TakesUp(t, m) ==
  /\ thr'[t].m = m /\ thr'[t].rid = 0 /\ thr'[t].live = {} /\ thr'[t].made = {} /\ thr'[t].todo = {}
  /\ thr'[t].old = None /\ thr'[t].ret = "idle" /\ thr'[t].flags = {}
  /\ IF m = None THEN thr'[t].op = "remove" /\ thr'[t].pc = "listDoomed"
                 ELSE thr'[t].op = "apply" /\ thr'[t].pc = "link"

LEMMA RetryDoes ==
  ASSUME IInv, NEW t \in Threads, Retry(t)
  PROVE  /\ At(t, "sleep") /\ UNCHANGED <<Elsewhere, status, ctrs>> /\ Turns(t)
         /\ \/ thr'[t] = Idle /\ (desired = None \/ May("etcd"))
            \/ desired # None /\ TakesUp(t, desired)
<1>1. PICK m \in {desired} \cup {None : f \in Ops \cap {"etcd"}} :
        Set(t, IF m = None THEN Idle ELSE [Job(m) EXCEPT !.att = thr[t].att])
  BY DEF Retry
<1>2. At(t, "sleep") /\ UNCHANGED <<Elsewhere, status, ctrs>>
  BY DEF Retry, Elsewhere
<1>3. CASE m = None
  BY <1>1, <1>2, <1>3, SetDoes DEF May
<1>4. CASE m # None
  <2>1. Turns(t) /\ thr'[t] = [Job(m) EXCEPT !.att = thr[t].att] /\ m = desired
    BY <1>1, <1>4, SetDoes
  <2> QED
    BY <1>2, <1>4, <2>1 DEF Job, Idle, TakesUp
<1> QED
  BY <1>3, <1>4

LEMMA NextEventDoes ==
  ASSUME IInv, NextEvent
  PROVE  /\ phase = "watch" /\ At(Loop, "idle") /\ chan # <<>> /\ chan' = Tail(chan)
         /\ UNCHANGED <<desired, phase, bucket, file, img, current, built, ctrs, status, frozen, lock, ops>>
         /\ Turns(Loop) /\ TakesUp(Loop, Head(chan))
<1>1. Loop \in Threads
  BY DEF Threads
<1>2. Turns(Loop) /\ thr'[Loop] = Job(Head(chan))
  BY <1>1, SetDoes DEF NextEvent
<1> QED
  BY <1>2 DEF NextEvent, Job, Idle, TakesUp

LEMMA ListAllDoes ==
  ASSUME IInv, ListAll
  PROVE  /\ phase = "replay" /\ At(Loop, "idle") /\ phase' = "gap"
         /\ UNCHANGED <<desired, chan, bucket, file, img, current, built, ctrs, status, frozen, lock, ops>>
         /\ Turns(Loop)
         /\ IF desired = None THEN thr'[Loop] = Idle ELSE TakesUp(Loop, desired)
<1>1. Loop \in Threads
  BY DEF Threads
<1>2. Turns(Loop) /\ thr'[Loop] = IF desired = None THEN Idle ELSE Job(desired)
  BY <1>1, SetDoes DEF ListAll
<1> QED
  BY <1>2 DEF ListAll, Job, Idle, TakesUp

-----------------------------------------------------------------------------
\* A request's end.
Rests(t) == Turns(t) /\ thr'[t] = Idle

LEMMA BuildDoes ==
  ASSUME IInv, NEW t \in Threads, Build(t)
  PROVE  /\ At(t, "build") /\ UNCHANGED <<desired, chan, phase, bucket, file, current, ctrs, status, frozen, lock, ops>>
         /\ Stays(t) /\ thr'[t].pc \in {"swap", "leave"}
BY GotoDoes DEF Build

LEMMA SwapDoes ==
  ASSUME IInv, NEW t \in Threads, SwapCurrent(t)
  PROVE  /\ At(t, "swap") /\ UNCHANGED <<desired, chan, phase, bucket, file, img, built, ctrs, status, frozen, lock, ops>>
         /\ Stays(t) /\ thr'[t].pc = "put"
BY GotoDoes DEF SwapCurrent

LEMMA MaterializeDoes ==
  ASSUME IInv, NEW t \in Threads, Materialize(t)
  PROVE  /\ At(t, "materialize")
         /\ UNCHANGED <<desired, chan, phase, bucket, img, current, built, ctrs, status, frozen, lock, ops>>
         /\ file' = [cfg |-> bucket, full |-> FALSE] /\ Stays(t) /\ thr'[t].pc = "find"
BY GotoDoes DEF Materialize

LEMMA FindDoes ==
  ASSUME IInv, NEW t \in Threads, FindAffected(t)
  PROVE  /\ At(t, "find") /\ UNCHANGED <<Elsewhere, status, ctrs>>
         /\ \/ desired = None /\ Rests(t)
            \/ /\ desired # None /\ Turns(t) /\ thr'[t].m = desired
               /\ thr'[t].pc = IF thr[t].op = "restart" THEN "listRestart" ELSE "put"
               /\ thr'[t].op = thr[t].op /\ thr'[t].rid = thr[t].rid
<1>1. thr[t] \in Thread /\ Turns(t)
      /\ thr'[t] = IF desired = None THEN Idle
                   ELSE [thr[t] EXCEPT !.pc = IF thr[t].op = "restart" THEN "listRestart" ELSE "put",
                                       !.m = desired]
  BY ThreadRecord, SetDoes DEF FindAffected
<1> QED
  BY <1>1 DEF FindAffected, Thread, Elsewhere, Rests

LEMMA PutDoes ==
  ASSUME IInv, NEW t \in Threads, Put(t)
  PROVE  /\ At(t, "put") /\ UNCHANGED <<phase, bucket, file, img, current, built, ctrs, status, frozen, lock, ops>>
         /\ desired' = thr[t].m /\ Emit(thr[t].m) /\ Rests(t)
BY SetDoes DEF Put, Rests

LEMMA LeaveDoes ==
  ASSUME IInv, NEW t \in Threads, Leave(t)
  PROVE  /\ At(t, "leave")
         /\ UNCHANGED <<desired, chan, phase, bucket, file, img, current, built, ctrs, status, frozen, ops>>
         /\ Rests(t)
BY SetDoes DEF Leave, Rests

LEMMA ListRestartDoes ==
  ASSUME IInv, NEW t \in Threads, ListRestart(t)
  PROVE  /\ At(t, "listRestart") /\ UNCHANGED <<Elsewhere, status, ctrs>>
         /\ \/ Fails(t) \/ Rests(t)
            \/ Turns(t) /\ Same(t) /\ thr'[t].pc = "link" /\ thr'[t].ret = thr[t].ret /\ thr'[t].live = Live
<1>1. thr[t] \in Thread
  BY ThreadRecord
<1>2. At(t, "listRestart") /\ UNCHANGED <<Elsewhere, status>>
  BY DEF ListRestart, Elsewhere
<1>3. CASE Live = {} /\ Set(t, Idle) /\ UNCHANGED ctrs
  BY <1>2, <1>3, SetDoes DEF Rests
<1>4. CASE Set(t, [thr[t] EXCEPT !.pc = "link", !.live = Live]) /\ UNCHANGED ctrs
  <2>1. Turns(t) /\ thr'[t] = [thr[t] EXCEPT !.pc = "link", !.live = Live]
    BY <1>4, SetDoes
  <2> QED
    BY <1>1, <1>2, <1>4, <2>1 DEF Thread, Same
<1>5. CASE DockerFails(t)
  BY <1>2, <1>5, FailsDoes DEF Fails, Elsewhere
<1> QED
  BY <1>3, <1>4, <1>5 DEF ListRestart

LEMMA CommandsDoes ==
  ASSUME IInv, NEW t \in Threads, Commands(t)
  PROVE  /\ At(t, "commands")
         /\ UNCHANGED <<desired, chan, phase, bucket, img, current, built, ctrs, status, frozen, lock, ops>>
         /\ Stays(t) /\ thr'[t].pc \in {"listRelease", "leave"}
BY GotoDoes DEF Commands

\* The listing that t goes on to roll.
ListsFor(t, ret, listing) ==
  /\ Turns(t) /\ Same(t) /\ thr'[t].pc = "roll" /\ thr'[t].ret = ret
  /\ thr'[t].todo = listing /\ thr'[t].old = thr[t].old

LEMMA ListReleaseDoes ==
  ASSUME IInv, NEW t \in Threads, ListRelease(t)
  PROVE  /\ At(t, "listRelease") /\ UNCHANGED <<Elsewhere, status, ctrs>>
         /\ \/ Fails(t)
            \/ Live = {} /\ Stays(t) /\ thr'[t].pc = "recordRelease"
            \/ ListsFor(t, "recordRelease", Movable(Live))
<1>1. thr[t] \in Thread
  BY ThreadRecord
<1>2. At(t, "listRelease") /\ UNCHANGED <<Elsewhere, status>>
  BY DEF ListRelease, Elsewhere
<1>3. CASE Live = {} /\ Set(t, [thr[t] EXCEPT !.pc = "recordRelease"]) /\ UNCHANGED ctrs
  BY <1>3, <1>2, GotoDoes DEF Goto
<1>4. CASE /\ Set(t, [thr[t] EXCEPT !.pc = "roll", !.ret = "recordRelease", !.todo = Movable(Live)]) /\ UNCHANGED ctrs
  <2>1. Turns(t) /\ thr'[t] = [thr[t] EXCEPT !.pc = "roll", !.ret = "recordRelease", !.todo = Movable(Live)]
    BY <1>4, SetDoes
  <2> QED
    BY <1>1, <1>2, <1>4, <2>1 DEF Thread, Same, ListsFor
<1>5. CASE DockerFails(t)
  BY <1>2, <1>5, FailsDoes DEF Fails, Elsewhere
<1> QED
  BY <1>3, <1>4, <1>5 DEF ListRelease

LEMMA ReleaseDoneDoes ==
  ASSUME IInv, NEW t \in Threads, ReleaseDone(t)
  PROVE  /\ At(t, "recordRelease") /\ UNCHANGED <<Elsewhere, ctrs>> /\ Stays(t) /\ thr'[t].pc = "leave"
         /\ status' = Recorded(t, Blob, thr[t].img)
BY GotoDoes DEF ReleaseDone, Elsewhere

LEMMA PutTargetDoes ==
  ASSUME IInv, NEW t \in Threads, PutTarget(t)
  PROVE  /\ At(t, "putTarget") /\ UNCHANGED <<phase, bucket, file, img, current, built, ctrs, status, frozen, lock, ops>>
         /\ desired' = thr[t].m /\ Emit(thr[t].m) /\ Stays(t) /\ thr'[t].pc = "appendRecord"
BY GotoDoes DEF PutTarget

LEMMA AppendRecordDoes ==
  ASSUME IInv, NEW t \in Threads, AppendRecord(t)
  PROVE  /\ At(t, "appendRecord") /\ UNCHANGED <<Elsewhere, ctrs>> /\ Stays(t) /\ thr'[t].pc = "retag"
         /\ status' = Recorded(t, Blob, thr[t].img)
BY GotoDoes DEF AppendRecord, Elsewhere

LEMMA RetagDoes ==
  ASSUME IInv, NEW t \in Threads, Retag(t)
  PROVE  /\ At(t, "retag")
         /\ UNCHANGED <<desired, chan, phase, bucket, file, current, built, ctrs, status, frozen, lock, ops>>
         /\ Stays(t)
         /\ (img' = thr[t].img /\ thr'[t].pc = "listExtra") \/ (UNCHANGED img /\ thr'[t].pc = "leave")
BY GotoDoes DEF Retag

LEMMA ListExtraDoes ==
  ASSUME IInv, NEW t \in Threads, ListExtra(t)
  PROVE  /\ At(t, "listExtra") /\ UNCHANGED <<Elsewhere, status, ctrs>>
         /\ \/ Fails(t)
            \/ Keeps(t) /\ thr'[t].pc = "prune" /\ thr'[t].ret = thr[t].ret
            \/ ListsFor(t, "grow", Movable(Live))
<1>1. thr[t] \in Thread
  BY ThreadRecord
<1>2. At(t, "listExtra") /\ UNCHANGED <<Elsewhere, status>>
  BY DEF ListExtra, Elsewhere
<1>3. CASE Set(t, [thr[t] EXCEPT !.pc = "prune", !.todo = Extras(Live, thr[t].m.want)]) /\ UNCHANGED ctrs
  <2>1. Turns(t) /\ thr'[t] = [thr[t] EXCEPT !.pc = "prune", !.todo = Extras(Live, thr[t].m.want)]
    BY <1>3, SetDoes
  <2> QED
    BY <1>1, <1>2, <1>3, <2>1 DEF Thread, Keeps, Same
<1>4. CASE Set(t, [thr[t] EXCEPT !.pc = "roll", !.ret = "grow", !.todo = Movable(Live)]) /\ UNCHANGED ctrs
  <2>1. Turns(t) /\ thr'[t] = [thr[t] EXCEPT !.pc = "roll", !.ret = "grow", !.todo = Movable(Live)]
    BY <1>4, SetDoes
  <2> QED
    BY <1>1, <1>2, <1>4, <2>1 DEF Thread, Same, ListsFor
<1>5. CASE DockerFails(t)
  BY <1>2, <1>5, FailsDoes DEF Fails, Elsewhere
<1> QED
  BY <1>3, <1>4, <1>5 DEF ListExtra

LEMMA ListRolledDoes ==
  ASSUME IInv, NEW t \in Threads, ListRolled(t)
  PROVE  /\ At(t, "listRolled") /\ UNCHANGED <<Elsewhere, status, ctrs>>
         /\ Fails(t) \/ ListsFor(t, "grow", Movable(Live))
<1>1. thr[t] \in Thread
  BY ThreadRecord
<1>2. At(t, "listRolled") /\ UNCHANGED <<Elsewhere, status>>
  BY DEF ListRolled, Elsewhere
<1>4. CASE Set(t, [thr[t] EXCEPT !.pc = "roll", !.ret = "grow", !.todo = Movable(Live)]) /\ UNCHANGED ctrs
  <2>1. Turns(t) /\ thr'[t] = [thr[t] EXCEPT !.pc = "roll", !.ret = "grow", !.todo = Movable(Live)]
    BY <1>4, SetDoes
  <2> QED
    BY <1>1, <1>2, <1>4, <2>1 DEF Thread, Same, ListsFor
<1>5. CASE DockerFails(t)
  BY <1>2, <1>5, FailsDoes DEF Fails, Elsewhere
<1> QED
  BY <1>4, <1>5 DEF ListRolled

LEMMA GrowDoes ==
  ASSUME IInv, NEW t \in Threads, Grow(t)
  PROVE  /\ At(t, "grow") /\ UNCHANGED <<Elsewhere, status, ctrs>>
         /\ \/ Fails(t)
            \/ Turns(t) /\ Same(t) /\ thr'[t].pc = "scale" /\ thr'[t].ret = thr[t].ret /\ thr'[t].live = Live
<1>1. thr[t] \in Thread
  BY ThreadRecord
<1>2. At(t, "grow") /\ UNCHANGED <<Elsewhere, status>>
  BY DEF Grow, Elsewhere
<1>4. CASE Set(t, [thr[t] EXCEPT !.pc = "scale", !.live = Live]) /\ UNCHANGED ctrs
  <2>1. Turns(t) /\ thr'[t] = [thr[t] EXCEPT !.pc = "scale", !.live = Live]
    BY <1>4, SetDoes
  <2> QED
    BY <1>1, <1>2, <1>4, <2>1 DEF Thread, Same
<1>5. CASE DockerFails(t)
  BY <1>2, <1>5, FailsDoes DEF Fails, Elsewhere
<1> QED
  BY <1>4, <1>5 DEF Grow

LEMMA RestampDoes ==
  ASSUME IInv, NEW t \in Threads, Restamp(t)
  PROVE  /\ At(t, "restamp") /\ UNCHANGED <<Elsewhere, status, ctrs>>
         /\ \/ Fails(t)
            \/ Unstamped(t) = {} /\ Stays(t) /\ thr'[t].pc = "stampBack"
            \/ ListsFor(t, "stampBack", Movable(Unstamped(t)))
<1>1. thr[t] \in Thread
  BY ThreadRecord
<1>2. At(t, "restamp") /\ UNCHANGED <<Elsewhere, status>>
  BY DEF Restamp, Elsewhere
<1>3. CASE Unstamped(t) = {} /\ Set(t, [thr[t] EXCEPT !.pc = "stampBack"]) /\ UNCHANGED ctrs
  <2>1. Goto(t, "stampBack")
    BY <1>3 DEF Goto
  <2> QED
    BY <1>2, <1>3, <2>1, GotoDoes
<1>4. CASE /\ Set(t, [thr[t] EXCEPT !.pc = "roll", !.ret = "stampBack", !.todo = Movable(Unstamped(t)),
                                    !.live = {}, !.made = {}]) /\ UNCHANGED ctrs
  <2>1. Turns(t) /\ thr'[t] = [thr[t] EXCEPT !.pc = "roll", !.ret = "stampBack", !.todo = Movable(Unstamped(t)),
                                             !.live = {}, !.made = {}]
    BY <1>4, SetDoes
  <2> QED
    BY <1>1, <1>2, <1>4, <2>1 DEF Thread, Same, ListsFor
<1>5. CASE DockerFails(t)
  BY <1>2, <1>5, FailsDoes DEF Fails, Elsewhere
<1> QED
  BY <1>3, <1>4, <1>5 DEF Restamp

LEMMA StampBackDoes ==
  ASSUME IInv, NEW t \in Threads, StampBack(t)
  PROVE  /\ At(t, "stampBack") /\ UNCHANGED <<Elsewhere, ctrs>> /\ Stays(t) /\ thr'[t].pc = "leave"
         /\ status' = Stamp(thr[t].m)
BY GotoDoes DEF StampBack, Elsewhere

LEMMA ReadFrozenDoes ==
  ASSUME IInv, NEW t \in Threads, ReadFrozen(t)
  PROVE  /\ At(t, "readFrozen") /\ UNCHANGED <<Elsewhere, status, ctrs>> /\ Turns(t) /\ Same(t)
         /\ thr'[t].pc = "writeFrozen" \/ (thr'[t].pc = "discard" /\ thr[t].op # "stop")
<1>1. thr[t] \in Thread
  BY ThreadRecord
<1>2. /\ Turns(t)
      /\ \/ \E S \in SUBSET Ids : thr'[t] = [thr[t] EXCEPT !.pc = "writeFrozen", !.live = S]
         \/ thr[t].op # "stop" /\ thr'[t] = [thr[t] EXCEPT !.pc = "discard"]
  BY <1>1, SetDoes DEF ReadFrozen, Thread, IInv, TypeOK
<1> QED
  BY <1>1, <1>2 DEF ReadFrozen, Elsewhere, Same, Thread

LEMMA WriteFrozenDoes ==
  ASSUME IInv, NEW t \in Threads, WriteFrozen(t)
  PROVE  /\ At(t, "writeFrozen")
         /\ UNCHANGED <<desired, chan, phase, bucket, file, img, current, built, ctrs, status, lock, ops>>
         /\ Rests(t) \/ (Stays(t) /\ thr'[t].pc = "discard" /\ thr[t].op # "stop")
BY GotoDoes, SetDoes DEF WriteFrozen, Rests

LEMMA DiscardDoes ==
  ASSUME IInv, NEW t \in Threads, Discard(t)
  PROVE  /\ At(t, "discard") /\ UNCHANGED <<Elsewhere, status>>
         /\ \/ Fails(t)
            \/ /\ \E i \in Ids : Removes(i)
               /\ Turns(t) /\ thr'[t].op = "start" /\ thr'[t].pc = "find" /\ thr'[t].rid = 0
<1>1. thr[t] \in Thread
  BY ThreadRecord
<1>2. CASE DockerFails(t)
  BY <1>2, FailsDoes DEF Discard, Elsewhere
<1>3. CASE \E i \in thr[t].todo : Remove(i) /\ Set(t, [Idle EXCEPT !.op = "start", !.pc = "find"])
  <2>1. PICK i \in Ids : Remove(i) /\ Set(t, [Idle EXCEPT !.op = "start", !.pc = "find"])
    BY <1>1, <1>3 DEF Thread
  <2>2. Removes(i)
    BY <2>1, RemoveDoes
  <2>3. Turns(t) /\ thr'[t] = [Idle EXCEPT !.op = "start", !.pc = "find"]
    BY <2>1, SetDoes
  <2> QED
    BY <2>2, <2>3 DEF Discard, Elsewhere, Idle
<1> QED
  BY <1>2, <1>3 DEF Discard

-----------------------------------------------------------------------------
(* Nothing a release or a rollback should have moved is left behind.       *)

ApplyPcs == {"link", "list", "decide", "scale", "prune", "stampNew", "relist", "drift", "stampRolled",
             "rollEnv", "record", "publish", "ok", "failed", "again"} \cup Rolling

\* The loop and the retries reconcile: they hold no release id.
WorkerRole(r) ==
  /\ r.rid = 0
  /\ \/ r.op = "none" /\ r.pc \in {"idle", "sleep"}
     \/ r.op = "remove" /\ r.pc \in {"listDoomed", "remove", "ok", "failed"} /\ r.ret = "idle"
     \/ /\ r.op = "apply" /\ r.pc \in ApplyPcs /\ r.m \in Manifests
        /\ r.pc \in Rolling => r.ret \in {"stampRolled", "record"}

\* A goroutine of a request is on that request's way.
HttpRole(r) ==
  \/ r.op = "none" /\ r.pc = "idle"
  \/ r.op = "config" /\ r.pc \in {"materialize", "find", "put"} /\ r.rid = 0
  \/ r.op = "deploy" /\ r.pc \in {"build", "swap", "put", "leave"} /\ r.rid = 0
  \/ r.op = "stop" /\ r.pc \in {"readFrozen", "writeFrozen"} /\ r.rid = 0
  \/ /\ r.op = "start" /\ r.pc \in {"readFrozen", "writeFrozen", "discard", "find", "put", "leave"}
     /\ r.rid = 0
  \/ /\ r.op = "restart" /\ r.pc \in {"find", "listRestart", "link", "leave"} \cup Rolling /\ r.rid = 0
     /\ r.pc \in Rolling => r.ret = "leave"
  \/ /\ r.op = "release" /\ r.pc \in {"commands", "listRelease", "recordRelease", "leave"} \cup Rolling
     /\ r.pc \in Rolling => r.ret = "recordRelease"
     /\ r.rid = 0
  \/ /\ r.op = "rollback"
     /\ r.pc \in {"putTarget", "appendRecord", "retag", "listExtra", "prune", "listRolled", "grow",
                  "scale", "restamp", "stampBack", "leave"} \cup Rolling
     /\ r.pc \in Rolling => r.ret \in {"grow", "stampBack"}
     /\ r.rid # 0

Roles == (\A s \in Workers : WorkerRole(thr[s])) /\ (\A t \in Https : HttpRole(thr[t]))

LEMMA Apart == Workers \cap Https = {} /\ Threads = Workers \cup Https /\ Loop \in Workers
BY ThreadsAssumption DEF Workers, Threads

LEMMA IdleRoles == WorkerRole(Idle) /\ HttpRole(Idle)
BY DEF WorkerRole, HttpRole, Idle

LEMMA TakesUpRole ==
  ASSUME NEW t \in Threads, NEW m \in Event, TakesUp(t, m)
  PROVE  WorkerRole(thr'[t])
BY NoneAssumption DEF TakesUp, WorkerRole, ApplyPcs, Rolling, Event

\* One worker's step, seen from that worker.
LEMMA WorkerActs ==
  ASSUME IInv, NEW t \in Workers, WorkerRole(thr[t]), ReconcileStep(t), ~ScheduleRetry(t)
  PROVE  WorkerRole(thr'[t]) /\ Turns(t)
<1> USE DEF WorkerRole, ApplyPcs, Rolling, At
<1>0. t \in Threads
  BY Apart
<1>1. CASE Outcome(t) \/ GiveUp(t)
  BY <1>0, <1>1, OutcomeDoes, GiveUpDoes, IdleRoles
<1>2. CASE Retry(t)
  <2>1. desired \in Event
    BY DEF IInv, TypeOK, Event
  <2> QED
    BY <1>0, <1>2, <2>1, RetryDoes, IdleRoles, TakesUpRole
<1>3. CASE LinkEnv(t)
  BY <1>0, <1>3, LinkDoes DEF Same, Stays, Keeps
<1>4. CASE ListLive(t)
  BY <1>0, <1>4, ListDoes DEF Same, Fails, Keeps, OnError
<1>5. CASE Decide(t)
  BY <1>0, <1>5, DecideDoes DEF Same
<1>6. CASE Scale(t)
  BY <1>0, <1>6, ScaleDoes DEF Same, Fails, Keeps, OnError, AfterScale
<1>7. CASE Prune(t)
  BY <1>0, <1>7, PruneDoes DEF Same, Fails, Keeps, OnError, AfterPrune
<1>8. CASE StampNew(t)
  BY <1>0, <1>8, StampNewDoes DEF Same, Stays, Keeps
<1>9. CASE Relist(t)
  BY <1>0, <1>9, RelistDoes DEF Same, Fails, Keeps, OnError
<1>10. CASE Drift(t)
  BY <1>0, <1>10, DriftDoes DEF Same, Keeps
<1>11. CASE StampRolled(t)
  BY <1>0, <1>11, StampRolledDoes DEF Same
<1>12. CASE RollEnv(t)
  BY <1>0, <1>12, RollEnvDoes DEF Same, Stays, Keeps
<1>13. CASE RecordRelease(t) \/ Publish(t)
  BY <1>0, <1>13, RecordDoes, PublishDoes DEF Same, Stays, Keeps
<1>14. CASE RollNext(t)
  BY <1>0, <1>14, RollNextDoes DEF Same, Fails, Stays, Keeps, OnError
<1>15. CASE Retire(t)
  BY <1>0, <1>15, RetireDoes DEF Same, Fails, Keeps, OnError
<1>16. CASE Respawn(t)
  BY <1>0, <1>16, RespawnDoes DEF Same, Fails, Stays, Keeps, OnError
<1>17. CASE ListDoomed(t)
  BY <1>0, <1>17, ListDoomedDoes DEF Same, Fails, Keeps, OnError
<1>18. CASE RemoveNext(t)
  BY <1>0, <1>18, RemoveNextDoes DEF Same, Fails, Stays, Keeps, OnError
<1> QED
  BY <1>1, <1>2, <1>3, <1>4, <1>5, <1>6, <1>7, <1>8, <1>9, <1>10, <1>11, <1>12, <1>13, <1>14,
     <1>15, <1>16, <1>17, <1>18 DEF ReconcileStep

\* No request runs on a worker.
LEMMA WorkersServeNobody ==
  ASSUME IInv, NEW t \in Workers, WorkerRole(thr[t]), RequestStep(t)
  PROVE  FALSE
BY DEF RequestStep, WorkerRole, ApplyPcs, Rolling, At, Build, SwapCurrent, Materialize, FindAffected, Put,
       Leave, ListRestart, Commands, ListRelease, ReleaseDone, PutTarget, AppendRecord, Retag, ListExtra,
       ListRolled, Grow, Restamp, StampBack, ReadFrozen, WriteFrozen, Discard

\* A step of a request's goroutine, seen from that goroutine.
LEMMA HttpReconciles ==
  ASSUME IInv, NEW t \in Https, HttpRole(thr[t]), ReconcileStep(t)
  PROVE  /\ HttpRole(thr'[t]) /\ Turns(t)
         /\ LinkEnv(t) \/ Scale(t) \/ Prune(t) \/ RollNext(t) \/ Retire(t) \/ Respawn(t)
<1> USE DEF HttpRole, Rolling, At
<1>0. t \in Threads
  BY Apart
<1>1. CASE LinkEnv(t)
  BY <1>0, <1>1, LinkDoes DEF Same, Stays, Keeps
<1>2. CASE Scale(t)
  BY <1>0, <1>2, ScaleDoes DEF Same, Fails, Keeps, OnError, AfterScale
<1>3. CASE Prune(t)
  BY <1>0, <1>3, PruneDoes DEF Same, Fails, Keeps, OnError, AfterPrune
<1>4. CASE RollNext(t)
  BY <1>0, <1>4, RollNextDoes DEF Same, Fails, Stays, Keeps, OnError
<1>5. CASE Retire(t)
  BY <1>0, <1>5, RetireDoes DEF Same, Fails, Keeps, OnError
<1>6. CASE Respawn(t)
  BY <1>0, <1>6, RespawnDoes DEF Same, Fails, Stays, Keeps, OnError
<1>7. ~(\/ Outcome(t) \/ GiveUp(t) \/ ScheduleRetry(t) \/ Retry(t) \/ ListLive(t) \/ Decide(t)
        \/ StampNew(t) \/ Relist(t) \/ Drift(t) \/ StampRolled(t) \/ RollEnv(t) \/ RecordRelease(t)
        \/ Publish(t) \/ ListDoomed(t) \/ RemoveNext(t))
  BY DEF Outcome, GiveUp, ScheduleRetry, Retry, ListLive, Decide, StampNew, Relist, Drift, StampRolled,
         RollEnv, RecordRelease, Publish, ListDoomed, RemoveNext
<1> QED
  BY <1>1, <1>2, <1>3, <1>4, <1>5, <1>6, <1>7 DEF ReconcileStep

LEMMA HttpServes ==
  ASSUME IInv, NEW t \in Https, HttpRole(thr[t]), RequestStep(t)
  PROVE  HttpRole(thr'[t]) /\ Turns(t)
<1> USE DEF HttpRole, Rolling, At
<1>0. t \in Threads
  BY Apart
<1>1. CASE Build(t) \/ SwapCurrent(t) \/ Materialize(t)
  BY <1>0, <1>1, BuildDoes, SwapDoes, MaterializeDoes DEF Same, Stays, Keeps
<1>2. CASE FindAffected(t) \/ Put(t) \/ Leave(t)
  BY <1>0, <1>2, FindDoes, PutDoes, LeaveDoes, IdleRoles DEF Rests
<1>3. CASE ListRestart(t)
  BY <1>0, <1>3, ListRestartDoes, IdleRoles DEF Rests, Same, Fails, Keeps, OnError
<1>4. CASE Commands(t) \/ ReleaseDone(t) \/ PutTarget(t) \/ AppendRecord(t) \/ StampBack(t)
  BY <1>0, <1>4, CommandsDoes, ReleaseDoneDoes, PutTargetDoes, AppendRecordDoes, StampBackDoes
     DEF Same, Stays, Keeps
<1>5. CASE ListRelease(t)
  BY <1>0, <1>5, ListReleaseDoes DEF ListsFor, Same, Fails, Stays, Keeps, OnError
<1>6. CASE Retag(t)
  BY <1>0, <1>6, RetagDoes DEF Same, Stays, Keeps
<1>7. CASE ListExtra(t)
  BY <1>0, <1>7, ListExtraDoes DEF ListsFor, Same, Fails, Keeps, OnError
<1>8. CASE ListRolled(t)
  BY <1>0, <1>8, ListRolledDoes DEF ListsFor, Same, Fails, Keeps, OnError
<1>9. CASE Grow(t)
  BY <1>0, <1>9, GrowDoes DEF Same, Fails, Keeps, OnError
<1>10. CASE Restamp(t)
  BY <1>0, <1>10, RestampDoes DEF ListsFor, Same, Fails, Stays, Keeps, OnError
<1>11. CASE ReadFrozen(t)
  BY <1>0, <1>11, ReadFrozenDoes DEF Same
<1>12. CASE WriteFrozen(t)
  BY <1>0, <1>12, WriteFrozenDoes, IdleRoles DEF Rests, Same, Stays, Keeps
<1>13. CASE Discard(t)
  BY <1>0, <1>13, DiscardDoes DEF Same, Fails, Keeps, OnError
<1> QED
  BY <1>1, <1>2, <1>3, <1>4, <1>5, <1>6, <1>7, <1>8, <1>9, <1>10, <1>11, <1>12, <1>13 DEF RequestStep

\* Somebody takes a step of its work.
Works(t) == ReconcileStep(t) \/ RequestStep(t)

LEMMA EmitDoes ==
  ASSUME NEW e, Emit(e)
  PROVE  chan' = IF phase = "watch" THEN Append(chan, e) ELSE chan
BY DEF Emit

\* The goroutine t takes up a request, nothing else having work.
Begins(t) ==
  /\ UNCHANGED <<desired, chan, phase, file, img, current, built, ctrs, status>> /\ Turns(t) /\ At(t, "idle")
  /\ thr'[t].pc = "readFrozen" => \E i \in Ids : thr'[t].todo = {i}
  /\ \/ thr'[t].op = "config" /\ thr'[t].pc = "materialize" /\ thr'[t].rid = 0
     \/ thr'[t].op = "deploy" /\ thr'[t].pc \in {"build", "swap"} /\ thr'[t].rid = 0
     \/ thr'[t].op = "restart" /\ May("restart") /\ thr'[t].pc = "find" /\ thr'[t].rid = 0
     \/ thr'[t].op = "stop" /\ May("stop") /\ thr'[t].pc = "readFrozen" /\ thr'[t].rid = 0
     \/ thr'[t].op = "start" /\ May("start") /\ thr'[t].pc = "readFrozen" /\ thr'[t].rid = 0
     \/ thr'[t].op = "release" /\ May("release") /\ thr'[t].pc = "commands" /\ thr'[t].rid = 0
     \/ thr'[t].op = "rollback" /\ May("rollback") /\ thr'[t].pc = "putTarget" /\ thr'[t].rid = ops'

LEMMA BeginsDoes ==
  ASSUME IInv, NEW t \in Https,
         \/ \E e \in Envs : ConfigSet(t, e)
         \/ \E b \in Builds, m \in Manifests : Push(t, b, m)
         \/ \E i \in Ids : Stop(t, i) \/ Start(t, i)
         \/ Restart(t) \/ Release(t) \/ Rollback(t)
  PROVE  Begins(t) /\ ops' = ops + 1 /\ (Patient => Quiet)
<1>0. t \in Threads
  BY DEF Threads
<1>1. ASSUME NEW e \in Envs, ConfigSet(t, e) PROVE Begins(t) /\ ops' = ops + 1 /\ (Patient => Quiet)
  <2>1. Turns(t) /\ thr'[t] = [Idle EXCEPT !.op = "config", !.pc = "materialize"]
    BY <1>0, <1>1, SetDoes DEF ConfigSet
  <2> QED
    BY <1>1, <2>1 DEF ConfigSet, Request, Begins, Idle
<1>2. ASSUME NEW b \in Builds, NEW m \in Manifests, Push(t, b, m)
      PROVE  Begins(t) /\ ops' = ops + 1 /\ (Patient => Quiet)
  <2>1. Turns(t) /\ thr'[t] = [Idle EXCEPT !.op = "deploy", !.pc = IF built[b] = "no" THEN "build" ELSE "swap",
                                           !.m = m, !.img = b]
    BY <1>0, <1>2, SetDoes DEF Push
  <2> QED
    BY <1>2, <2>1 DEF Push, Request, Begins, Idle
<1>3. CASE Restart(t)
  <2>1. Turns(t) /\ thr'[t] = [Idle EXCEPT !.op = "restart", !.pc = "find"]
    BY <1>0, <1>3, SetDoes DEF Restart
  <2> QED
    BY <1>3, <2>1 DEF Restart, Request, Begins, Idle
<1>4. CASE Release(t)
  <2>1. Turns(t) /\ thr'[t] = [Idle EXCEPT !.op = "release", !.pc = "commands", !.m = desired, !.img = current]
    BY <1>0, <1>4, SetDoes DEF Release
  <2> QED
    BY <1>4, <2>1 DEF Release, Request, Begins, Idle
<1>5. CASE Rollback(t)
  <2>1. PICK rec \in Blob.hist : Set(t, [Idle EXCEPT !.op = "rollback", !.pc = "putTarget",
                                                     !.m = rec.m, !.img = rec.img, !.rid = ops'])
    BY <1>5 DEF Rollback
  <2>2. Turns(t) /\ thr'[t] = [Idle EXCEPT !.op = "rollback", !.pc = "putTarget",
                                           !.m = rec.m, !.img = rec.img, !.rid = ops']
    BY <1>0, <2>1, SetDoes
  <2> QED
    BY <1>5, <2>2 DEF Rollback, Request, Begins, Idle
<1>6. ASSUME NEW i \in Ids, Stop(t, i) \/ Start(t, i)
      PROVE  Begins(t) /\ ops' = ops + 1 /\ (Patient => Quiet)
  <2>1. CASE Stop(t, i)
    <3>1. Turns(t) /\ thr'[t] = [Idle EXCEPT !.op = "stop", !.pc = "readFrozen", !.todo = {i}]
      BY <1>0, <2>1, SetDoes DEF Stop
    <3> QED
      BY <2>1, <3>1 DEF Stop, Request, Begins, Idle
  <2>2. CASE Start(t, i)
    <3>1. Turns(t) /\ thr'[t] = [Idle EXCEPT !.op = "start", !.pc = "readFrozen", !.todo = {i}]
      BY <1>0, <2>2, SetDoes DEF Start
    <3> QED
      BY <2>2, <3>1 DEF Start, Request, Begins, Idle
  <2> QED
    BY <1>6, <2>1, <2>2
<1> QED
  BY <1>1, <1>2, <1>3, <1>4, <1>5, <1>6

\* An operator's step.
LEMMA OperatorDoes ==
  ASSUME IInv, Operator
  PROVE  /\ ops' = ops + 1 /\ (Patient => Quiet) /\ UNCHANGED <<phase, ctrs, img, file, status>>
         /\ \/ /\ UNCHANGED <<thr, bucket, frozen>> /\ desired' \in Event /\ Emit(desired')
            \/ \E t \in Https : Begins(t)
BY BeginsDoes DEF Apply, Request, Event, Delete, Begins, Operator

\* Threads after a step.
LEMMA WorksThreads ==
  ASSUME IInv, Roles, NEW t \in Threads, Works(t)
  PROVE  /\ Roles'
         /\ \/ Turns(t)
            \/ /\ t \in Workers /\ ScheduleRetry(t)
               /\ \A s \in Threads : s # t => thr'[s] = thr[s] \/ (s \in Retries /\ At(s, "idle") /\ Sleeps(s))
<1>1. CASE t \in Https
  BY <1>1, HttpReconciles, HttpServes, Apart DEF Roles, Works, Turns
<1>2. CASE t \in Workers /\ ~ScheduleRetry(t)
  BY <1>2, WorkerActs, WorkersServeNobody, Apart DEF Roles, Works, Turns
<1>3. CASE t \in Workers /\ ScheduleRetry(t)
  BY <1>3, ScheduleRetryDoes, IdleRoles, Apart DEF Workers, WorkerRole, Sleeps, Roles
<1> QED
  BY <1>1, <1>2, <1>3, Apart

LEMMA RolesKept ==
  ASSUME IInv, Roles, [Next]_vars
  PROVE  Roles'
<1>1. CASE LoopStep
  <2>1. TypeOK /\ Loop \in Threads /\ Loop \in Workers
    BY Apart DEF IInv
  <2>2. CASE NextEvent
    <3>1. Head(chan) \in Event
      BY <2>1, <2>2, NextEventDoes DEF TypeOK
    <3>2. WorkerRole(thr'[Loop]) /\ Turns(Loop)
      BY <2>1, <2>2, <3>1, NextEventDoes, TakesUpRole
    <3> QED
      BY <2>1, <3>2, Apart DEF Roles, Turns
  <2>3. CASE ListAll
    BY <2>1, <2>3, ListAllDoes, TakesUpRole, IdleRoles, Apart DEF TypeOK, Event, Roles, Turns
  <2>4. CASE OpenWatch
    BY <2>4 DEF OpenWatch, Roles
  <2> QED
    BY <1>1, <2>2, <2>3, <2>4 DEF LoopStep
<1>2. ASSUME NEW t \in Threads, Works(t) PROVE Roles'
  BY <1>2, WorksThreads
<1>3. CASE Operator
  <2>1. CASE UNCHANGED thr
    BY <2>1 DEF Roles
  <2>2. ASSUME NEW t \in Https, Begins(t), ops' = ops + 1 PROVE Roles'
    BY <2>2, Apart DEF IInv, TypeOK, Begins, HttpRole, Rolling, Roles, Turns
  <2> QED
    BY <1>3, <2>1, <2>2, OperatorDoes
<1>4. CASE Crash
  BY <1>4, Apart, IdleRoles DEF Crash, Roles
<1>5. CASE UNCHANGED vars
  BY <1>5 DEF vars, Roles
<1> QED
  BY <1>1, <1>2, <1>3, <1>4, <1>5 DEF Next, Works

-----------------------------------------------------------------------------
\* What a working step may do to the replicas: it takes one away, or makes one.
Makes(t, i) == /\ ctrs[i] = None /\ ctrs'[i] = NewReplica(t) /\ thr[t].m \in Manifests
               /\ thr[t].pc \in {"scale", "roll", "respawn"}

LEMMA SpawnsMakes ==
  ASSUME NEW t \in Threads, NEW i \in Ids, SpawnsFor(t, i), thr[t].pc \in {"scale", "roll", "respawn"}
  PROVE  \A j \in Ids : ctrs'[j] = ctrs[j] \/ Makes(t, j)
BY DEF SpawnsFor, Makes, Fresh

LEMMA WorksCtrs ==
  ASSUME IInv, NEW t \in Threads, Works(t)
  PROVE  \A i \in Ids : ctrs'[i] = ctrs[i] \/ ctrs'[i] = None \/ Makes(t, i)
<1>1. CASE Scale(t)
  BY <1>1, ScaleDoes, SpawnsMakes DEF Fails, At
<1>2. CASE Prune(t)
  BY <1>2, PruneDoes DEF Fails, Removes
<1>3. CASE RollNext(t)
  BY <1>3, RollNextDoes, SpawnsMakes DEF At, Fails, Removes
<1>4. CASE Retire(t)
  BY <1>4, RetireDoes DEF Fails, Removes
<1>5. CASE Respawn(t)
  BY <1>5, RespawnDoes, SpawnsMakes DEF At, Fails
<1>6. CASE RemoveNext(t)
  BY <1>6, RemoveNextDoes DEF Fails, Removes
<1>8. CASE Discard(t)
  BY <1>8, DiscardDoes DEF Fails, Removes
<1>7. CASE UNCHANGED ctrs
  BY <1>7
<1> QED
  BY <1>1, <1>2, <1>3, <1>4, <1>5, <1>6, <1>7, <1>8
     DEF Works, ReconcileStep, RequestStep, Outcome, GiveUp, ScheduleRetry, Retry, LinkEnv, ListLive, Decide,
         StampNew, Relist, Drift, StampRolled, RollEnv, RecordRelease, Publish, ListDoomed, Build, SwapCurrent,
         Materialize, FindAffected, Put, Leave, ListRestart, Commands, ListRelease, ReleaseDone, PutTarget,
         AppendRecord, Retag, ListExtra, ListRolled, Grow, Restamp, StampBack, ReadFrozen, WriteFrozen, Discard, DockerFails

\* ... and to what else the proofs below look at.
LEMMA WorksElse ==
  ASSUME IInv, NEW t \in Threads, Works(t)
  PROVE  /\ UNCHANGED <<phase, ops, bucket>>
         /\ UNCHANGED <<desired, chan>> \/ Put(t) \/ PutTarget(t)
         /\ UNCHANGED img \/ Build(t) \/ Retag(t)
BY DEF Works, ReconcileStep, RequestStep, Outcome, GiveUp, ScheduleRetry, Retry, LinkEnv, ListLive, Decide,
   Scale, Prune, StampNew, Relist, Drift, StampRolled, RollEnv, RecordRelease, Publish, RollNext, Retire,
   Respawn, ListDoomed, RemoveNext, Build, SwapCurrent, Materialize, FindAffected, Put, Leave, ListRestart,
   Commands, ListRelease, ReleaseDone, PutTarget, AppendRecord, Retag, ListExtra, ListRolled, Grow, Restamp,
   StampBack, ReadFrozen, WriteFrozen, Discard

\* Nobody who works parks a replica or takes one back, but to write the list.
LEMMA WorksFrozen ==
  ASSUME IInv, NEW t \in Threads, Works(t)
  PROVE  UNCHANGED frozen \/ WriteFrozen(t)
BY DEF Works, ReconcileStep, RequestStep, Outcome, GiveUp, ScheduleRetry, Retry, LinkEnv, ListLive, Decide,
   Scale, Prune, StampNew, Relist, Drift, StampRolled, RollEnv, RecordRelease, Publish, RollNext, Retire,
   Respawn, ListDoomed, RemoveNext, Build, SwapCurrent, Materialize, FindAffected, Put, Leave, ListRestart,
   Commands, ListRelease, ReleaseDone, PutTarget, AppendRecord, Retag, ListExtra, ListRolled, Grow, Restamp,
   StampBack, ReadFrozen, Discard

\* The replicas a roll still has in hand.
InHand(t) == thr[t].todo \cup (IF At(t, "await") THEN {thr[t].old} ELSE {})

\* A roll leaves nothing behind: when all that is not in hand is good and what
\* is made is good, so it is after the step, and at its end everything is good.
LEMMA RollKeeps ==
  ASSUME IInv, NEW t \in Threads, RollNext(t) \/ Retire(t) \/ Respawn(t),
         NEW Good, NewReplica(t) \in Good, \A i \in Unfrozen : ctrs[i] \in Good \/ i \in InHand(t)
  PROVE  /\ thr'[t].pc \in Rolling /\ thr'[t].ret = thr[t].ret =>
                \A i \in Unfrozen' : ctrs'[i] \in Good \/ i \in InHand(t)'
         /\ \/ thr'[t].pc \in Rolling \cup {OnError(t), "again"}
            \/ thr'[t].pc = thr[t].ret /\ \A i \in Unfrozen' : ctrs'[i] \in Good
         /\ thr'[t].ret = thr[t].ret /\ Same(t)
<1> USE DEF At, Rolling
<1>0. UNCHANGED frozen
  BY DEF RollNext, Retire, Respawn
<1>1. ASSUME NEW i \in Ids, SpawnsFor(t, i) PROVE \A j \in Unfrozen' : j # i => j \in Unfrozen /\ ctrs'[j] = ctrs[j]
  BY <1>0, <1>1 DEF SpawnsFor, Live, Unfrozen
<1>2. ASSUME NEW i \in Ids, SpawnsFor(t, i) PROVE ctrs'[i] \in Good
  BY <1>2 DEF SpawnsFor
<1>3. ASSUME NEW i \in Ids, Removes(i) PROVE \A j \in Unfrozen' : j # i /\ j \in Unfrozen /\ ctrs'[j] = ctrs[j]
  BY <1>0, <1>3 DEF Removes, Live, Unfrozen
<1>4. UNCHANGED ctrs => \A j \in Unfrozen' : j \in Unfrozen /\ ctrs'[j] = ctrs[j]
  BY <1>0 DEF Live, Unfrozen
<1>5. CASE RollNext(t)
  <2>1. At(t, "roll")
    BY <1>5, RollNextDoes
  <2>2. InHand(t) = thr[t].todo
    BY <2>1 DEF InHand
  <2>3. ASSUME NEW o \in thr[t].todo, NEW i \in Ids, SpawnsFor(t, i), Keeps(t), thr'[t].pc = "await",
               thr'[t].ret = thr[t].ret, thr'[t].old = o, thr'[t].todo = thr[t].todo \ {o}
        PROVE  \A j \in Unfrozen' : ctrs'[j] \in Good \/ j \in InHand(t)'
    BY <2>3, <1>1, <1>2, <2>2 DEF InHand
  <2>4. ASSUME NEW o \in thr[t].todo, o \in Ids, Removes(o), thr'[t].pc = "respawn",
               thr'[t].todo = thr[t].todo \ {o}
        PROVE  \A j \in Unfrozen' : ctrs'[j] \in Good \/ j \in InHand(t)'
    BY <2>4, <1>3, <2>2 DEF InHand
  <2>5. CASE thr[t].todo = {} /\ UNCHANGED ctrs /\ Stays(t) /\ thr'[t].pc = thr[t].ret
    BY <1>4, <2>2, <2>5 DEF Stays, Keeps
  <2>6. CASE Fails(t)
    BY <2>6 DEF Fails, Keeps, OnError
  <2>7. CASE /\ thr[t].todo = {} /\ UNCHANGED ctrs /\ Stays(t)
             /\ thr'[t].pc \in {"again", OnError(t)}
    BY <2>7 DEF Stays, Keeps, OnError
  <2> QED
    BY <1>5, RollNextDoes, <2>3, <2>4, <2>5, <2>6, <2>7 DEF Keeps
<1>6. CASE Retire(t)
  <2>1. At(t, "await")
    BY <1>6, RetireDoes
  <2>2. CASE Fails(t)
    BY <2>2 DEF Fails, Keeps, OnError
  <2>3. CASE /\ thr[t].old \in Ids => Removes(thr[t].old)
             /\ thr[t].old \notin Ids => UNCHANGED ctrs
             /\ Keeps(t) /\ thr'[t].pc = "roll"
             /\ thr'[t].old = None /\ thr'[t].todo = thr[t].todo /\ thr'[t].ret = thr[t].ret
    BY <2>1, <2>3, <1>3, <1>4 DEF InHand, Live, Unfrozen, Keeps
  <2> QED
    BY <1>6, RetireDoes, <2>2, <2>3
<1>7. CASE Respawn(t)
  <2>1. At(t, "respawn")
    BY <1>7, RespawnDoes
  <2>2. CASE Fails(t)
    BY <2>2 DEF Fails, Keeps, OnError
  <2>3. ASSUME NEW i \in Ids, SpawnsFor(t, i), Stays(t), thr'[t].pc = "roll"
        PROVE  \A j \in Unfrozen' : ctrs'[j] \in Good \/ j \in InHand(t)'
    BY <2>1, <2>3, <1>1, <1>2 DEF InHand, Stays
  <2> QED
    BY <1>7, RespawnDoes, <2>2, <2>3 DEF Stays, Keeps
<1> QED
  BY <1>5, <1>6, <1>7

-----------------------------------------------------------------------------
\* Release ids grow: none in use, and none a request holds, is still to come.
Numbered == (\A i \in Live : ctrs[i].rid <= ops) /\ (\A t \in Https : thr[t].rid <= ops)

\* All that anybody does beside a rollback that has put its target: follow it.
Followed(m) == /\ m \in Manifests /\ desired = m /\ (\A n \in 1 .. Len(chan) : chan[n] = m)
               /\ \A s \in Workers : thr[s].op \in {"none", "apply"} /\ (thr[s].op = "apply" => thr[s].m = m)
Alone(t) == chan = <<>> /\ \A s \in Threads : s # t => At(s, "idle")

\* Patient operators: at most one request is under way, and it is alone, or a
\* rollback whose target the reconciler follows.
Served ==
  \A t \in Https : ~At(t, "idle") =>
    /\ phase = "watch" /\ \A s \in Https : s # t => At(s, "idle")
    /\ Alone(t) \/ (thr[t].op = "rollback" /\ ~At(t, "putTarget") /\ Followed(thr[t].m))

\* A request's goroutine keeps what it was asked for, or rests.
LEMMA HttpKeeps ==
  ASSUME IInv, Roles, NEW t \in Https, Works(t)
  PROVE  thr'[t] = Idle \/ (thr'[t].op = thr[t].op /\ thr'[t].rid = thr[t].rid)
<1>0. t \in Threads
  BY Apart
<1>3. CASE ReadFrozen(t) \/ WriteFrozen(t)
  BY <1>0, <1>3, ReadFrozenDoes, WriteFrozenDoes DEF Rests, Same, Stays, Keeps
<1>4. CASE Discard(t)
  BY <1>0, <1>4, DiscardDoes DEF Roles, HttpRole, Rolling, At, Same, Keeps, Fails
<1>1. CASE RequestStep(t)
  BY <1>0, BuildDoes, SwapDoes, MaterializeDoes, FindDoes, PutDoes, LeaveDoes, ListRestartDoes,
     CommandsDoes, ListReleaseDoes, ReleaseDoneDoes, PutTargetDoes, AppendRecordDoes, RetagDoes, ListExtraDoes,
     ListRolledDoes, GrowDoes, RestampDoes, StampBackDoes, <1>1, <1>3, <1>4
     DEF Rests, Same, Stays, Keeps, Fails, ListsFor, RequestStep
<1>2. CASE ReconcileStep(t)
  BY <1>0, <1>2, HttpReconciles, LinkDoes, ScaleDoes, PruneDoes, RollNextDoes, RetireDoes, RespawnDoes
     DEF Roles, Same, Fails, Stays, Keeps
<1> QED
  BY <1>1, <1>2 DEF Works

LEMMA NumberedKept ==
  ASSUME IInv, Roles, Numbered, [Next]_vars
  PROVE  Numbered'
<1>0. /\ ops \in Nat
      /\ \A i \in Live : i \in Ids /\ ctrs[i] \in Replica /\ ctrs[i].rid \in Nat
      /\ \A t \in Threads : thr[t].rid \in Nat
  BY BoundsAssumption, ThreadRecord DEF Replica, Thread, IInv, TypeOK, Live
<1>1. CASE LoopStep
  BY <1>1, ListAllDoes, NextEventDoes, Apart DEF LoopStep, OpenWatch, Turns, Numbered, Live
<1>2. ASSUME NEW t \in Threads, Works(t) PROVE Numbered'
  <2>1. UNCHANGED ops
    BY <1>2, WorksElse
  <2>2. \A i \in Live' : ctrs'[i].rid <= ops
    <3>1. \A i \in Ids : Makes(t, i) => ctrs'[i].rid = thr[t].rid
      BY DEF Makes, NewReplica
    <3>2. thr[t].rid <= ops
      BY <1>0, <1>2, Apart DEF Roles, WorkerRole, Numbered
    <3> QED
      BY <1>2, <3>1, <3>2, WorksCtrs DEF Numbered, Live
  <2>3. \A s \in Https : thr'[s].rid <= ops
    <3>1. ASSUME NEW s \in Https, s # t PROVE thr'[s].rid <= ops
      BY <1>2, <3>1, WorksThreads, Apart, ThreadsAssumption DEF Numbered, Turns
    <3>2. CASE t \in Https
      BY <1>2, <3>2, HttpKeeps, <1>0, <3>1 DEF Idle, Numbered
    <3> QED
      BY <3>1, <3>2
  <2> QED
    BY <2>1, <2>2, <2>3 DEF Numbered
<1>3. CASE Operator
  BY <1>3, OperatorDoes, <1>0, Apart DEF Numbered, Live, Begins, Turns
<1>4. CASE Crash
  BY <1>4, <1>0, Apart DEF Crash, Numbered, Live, Idle
<1>5. CASE UNCHANGED vars
  BY <1>5 DEF vars, Numbered, Live
<1> QED
  BY <1>1, <1>2, <1>3, <1>4, <1>5 DEF Next, Works

\* Whoever waits, or waits to retry, takes no step of work.
LEMMA IdleRests ==
  ASSUME NEW t \in Threads, At(t, "idle"), Works(t)
  PROVE  FALSE
BY DEF Works, ReconcileStep, RequestStep, Outcome, GiveUp, ScheduleRetry, Retry, LinkEnv, ListLive, Decide,
       Scale, Prune, StampNew, Relist, Drift, StampRolled, RollEnv, RecordRelease, Publish, RollNext, Retire,
       Respawn, ListDoomed, RemoveNext, Build, SwapCurrent, Materialize, FindAffected, Put, Leave, ListRestart,
       Commands, ListRelease, ReleaseDone, PutTarget, AppendRecord, Retag, ListExtra, ListRolled, Grow,
       Restamp, StampBack, ReadFrozen, WriteFrozen, Discard, At

\* A worker keeps its manifest, rests, or takes up the one that is desired.
LEMMA WorkerFollows ==
  ASSUME IInv, NEW t \in Workers, WorkerRole(thr[t]), Works(t)
  PROVE  \A s \in Workers : /\ thr'[s].op \in {"none", thr[s].op} \/ (thr'[s].op = "apply" /\ thr'[s].m = desired)
                            /\ thr'[s].op = "apply" => thr'[s].m \in {thr[s].m, desired}
                            /\ thr'[s].op = "remove" => thr[s].op = "remove"
<1>0. t \in Threads /\ Workers \subseteq Threads
  BY Apart
<1>1. CASE ScheduleRetry(t)
  BY <1>0, <1>1, ScheduleRetryDoes DEF Sleeps, Idle
<1>2. CASE ~ScheduleRetry(t)
  <2>1. ReconcileStep(t)
    BY WorkersServeNobody DEF Works
  <2>2. Turns(t)
    BY <1>2, <2>1, WorkerActs
  <2>3. CASE Outcome(t) \/ GiveUp(t)
    <3>1. thr'[t] = Idle
      BY <1>0, <2>3, OutcomeDoes, GiveUpDoes
    <3> QED
      BY <1>0, <2>2, <3>1 DEF Turns, Idle
  <2>4. CASE Retry(t)
    BY <1>0, <2>4, RetryDoes, <2>2 DEF TakesUp, Turns, Idle
  <2>5. CASE Same(t)
    BY <1>0, <2>2, <2>5 DEF Turns, Same
  <2>6. Outcome(t) \/ GiveUp(t) \/ Retry(t) \/ Same(t)
    <3>1. CASE LinkEnv(t) \/ ListLive(t) \/ Decide(t) \/ StampNew(t) \/ Relist(t)
      BY <1>0, <3>1, LinkDoes, ListDoes, DecideDoes, StampNewDoes, RelistDoes DEF Fails, Stays, Keeps
    <3>2. CASE Scale(t) \/ Prune(t) \/ ListDoomed(t) \/ RemoveNext(t)
      BY <1>0, <3>2, ScaleDoes, PruneDoes, ListDoomedDoes, RemoveNextDoes DEF Fails, Stays, Keeps
    <3>3. CASE Drift(t) \/ StampRolled(t) \/ RollEnv(t) \/ RecordRelease(t) \/ Publish(t)
      BY <1>0, <3>3, DriftDoes, StampRolledDoes, RollEnvDoes, RecordDoes, PublishDoes DEF Fails, Stays, Keeps
    <3>4. CASE RollNext(t) \/ Retire(t) \/ Respawn(t)
      BY <1>0, <3>4, RollNextDoes, RetireDoes, RespawnDoes DEF Fails, Stays, Keeps
    <3> QED
      BY <1>2, <2>1, <3>1, <3>2, <3>3, <3>4 DEF ReconcileStep
  <2> QED
    BY <2>3, <2>4, <2>5, <2>6
<1> QED
  BY <1>1, <1>2

LEMMA ServedKept ==
  ASSUME Patient, IInv, Roles, Served, [Next]_vars
  PROVE  Served'
<1>0. /\ chan \in Seq(Event) /\ desired \in Event /\ Loop \in Workers
      /\ Workers \cap Https = {} /\ Threads = Workers \cup Https
  BY Apart DEF IInv, TypeOK, Event
<1>1. CASE LoopStep
  <2>1. Turns(Loop) /\ UNCHANGED desired
    BY <1>1, ListAllDoes, NextEventDoes, <1>0 DEF LoopStep, OpenWatch, Turns
  <2>2. SUFFICES ASSUME NEW t \in Https, ~At(t, "idle")'
                 PROVE  /\ phase' = "watch" /\ \A s \in Https : s # t => At(s, "idle")'
                        /\ Alone(t)' \/ (thr'[t].op = "rollback" /\ ~At(t, "putTarget")' /\ Followed(thr[t].m)')
    BY DEF Served
  <2>3. thr'[t] = thr[t] /\ ~At(t, "idle") /\ \A s \in Https : thr'[s] = thr[s]
    BY <1>0, <2>1, <2>2 DEF Turns, At
  <2>4. /\ phase = "watch" /\ \A s \in Https : s # t => At(s, "idle")
        /\ Alone(t) \/ (thr[t].op = "rollback" /\ ~At(t, "putTarget") /\ Followed(thr[t].m))
    BY <2>3 DEF Served
  <2>5. NextEvent
    BY <1>1, <2>4 DEF LoopStep, ListAll, OpenWatch
  <2>6. /\ chan # <<>> /\ chan' = Tail(chan) /\ TakesUp(Loop, Head(chan)) /\ phase' = phase
    BY <2>5, NextEventDoes
  <2>7. Followed(thr[t].m) /\ thr[t].op = "rollback" /\ ~At(t, "putTarget")
    BY <2>4, <2>6 DEF Alone
  <2>8. Head(chan) = thr[t].m /\ \A n \in 1 .. Len(chan') : chan'[n] = thr[t].m
    BY <1>0, <2>6, <2>7 DEF Followed
  <2>9. thr'[Loop].op = "apply" /\ thr'[Loop].m = thr[t].m
    BY <2>6, <2>7, <2>8, NoneAssumption DEF TakesUp, Followed
  <2>10. Followed(thr[t].m)'
    BY <1>0, <2>1, <2>3, <2>7, <2>8, <2>9 DEF Followed, Turns
  <2> QED
    BY <2>3, <2>4, <2>6, <2>7, <2>10 DEF At
<1>2. ASSUME NEW u \in Threads, Works(u) PROVE Served'
  <2>1. UNCHANGED phase /\ ~At(u, "idle")
    BY <1>2, WorksElse, IdleRests
  <2>2. CASE u \in Https
    <3>1. Turns(u) /\ phase = "watch" /\ \A s \in Https : s # u => At(s, "idle")
      BY <1>0, <1>2, <2>1, <2>2, WorksThreads DEF Served
    <3>2. SUFFICES ASSUME ~At(u, "idle")'
                   PROVE  Alone(u)' \/ (thr'[u].op = "rollback" /\ ~At(u, "putTarget")' /\ Followed(thr[u].m)')
      BY <1>0, <2>1, <2>2, <3>1 DEF Served, Turns, At
    <3>3. CASE Put(u)
      BY <1>2, <3>2, <3>3, PutDoes DEF Rests, Idle, At
    <3>4. CASE PutTarget(u)
      BY <1>2, <2>1, <2>2, <3>4, PutTargetDoes, HoldsManifest, <3>1, EmitDoes, <1>0 DEF Served, Stays,
         Keeps, At, NoManifest, Roles, HttpRole, Rolling, Alone, Turns, WorkerRole, ApplyPcs, Followed, Same
    <3>5. CASE ~Put(u) /\ ~PutTarget(u)
      <4>1. UNCHANGED <<desired, chan>>
        BY <1>2, <3>5, WorksElse
      <4>2. CASE Alone(u)
        BY <1>0, <3>1, <4>1, <4>2 DEF Alone, Turns, At
      <4>3. CASE thr[u].op = "rollback" /\ ~At(u, "putTarget") /\ Followed(thr[u].m)
        <5>1. thr'[u] = Idle \/ (Same(u) /\ thr'[u].pc # "putTarget")
          <6>0. HttpRole(thr[u])
            BY <2>2 DEF Roles
          <6>1. CASE ReconcileStep(u)
            BY <1>2, <2>2, <4>3, <6>0, <6>1, HttpReconciles, LinkDoes, ScaleDoes, PruneDoes, RollNextDoes,
               RetireDoes, RespawnDoes
               DEF Fails, Stays, Keeps, HttpRole, At, Rolling, AfterScale, AfterPrune, OnError
          <6>2. CASE RequestStep(u)
            BY <4>3, <6>0, <1>2, AppendRecordDoes, RetagDoes, StampBackDoes, LeaveDoes, ListExtraDoes,
               ListRolledDoes, GrowDoes, RestampDoes, <3>5, <6>2 DEF HttpRole, Rolling, At, Build, SwapCurrent,
               Materialize, FindAffected, ListRestart, Commands, ListRelease, ReleaseDone, ReadFrozen,
               WriteFrozen, Discard, Stays, Keeps, Rests, Fails, ListsFor, OnError, RequestStep
          <6> QED
            BY <1>2, <6>1, <6>2 DEF Works
        <5>2. Same(u) /\ thr'[u].pc # "putTarget"
          BY <3>2, <5>1 DEF Idle, At
        <5>3. Followed(thr[u].m)'
          BY <1>0, <2>2, <3>1, <4>1, <4>3, <5>2 DEF Followed, Turns, Same
        <5> QED
          BY <4>3, <5>2, <5>3 DEF Same, At
      <4> QED
        BY <2>1, <2>2, <4>2, <4>3 DEF Served
    <3> QED
      BY <3>3, <3>4, <3>5
  <2>3. CASE u \in Workers
    BY <1>0, <1>2, <2>3, WorksThreads, ThreadsAssumption, <2>1, WorksElse, WorkersServeNobody, WorkerFollows
       DEF Served, Turns, At, Alone, Roles, RequestStep, Followed
  <2> QED
    BY <1>0, <2>2, <2>3
<1>3. CASE Operator
  <2>1. Quiet /\ UNCHANGED phase
    BY <1>3, OperatorDoes
  <2>2. CASE UNCHANGED thr
    BY <1>0, <2>1, <2>2 DEF Quiet, Served, At
  <2>3. ASSUME NEW t \in Https, Begins(t) PROVE Served'
    BY <2>1, <2>3, <1>0 DEF Begins, Quiet, Turns, At, Served, Alone
  <2> QED
    BY <1>3, <2>2, <2>3, OperatorDoes
<1>4. CASE Crash
  BY <1>0, <1>4 DEF Crash, At, Idle, Served
<1>5. CASE UNCHANGED vars
  BY <1>5 DEF vars, Served, Alone, Followed, At
<1> QED
  BY <1>1, <1>2, <1>3, <1>4, <1>5 DEF Next, Works

-----------------------------------------------------------------------------
\* A release moves what it listed; what it makes is of its spec.
ReleaseTrue ==
  \A t \in Https : thr[t].op = "release" =>
    /\ thr[t].pc \in Rolling => \A i \in Unfrozen : ctrs[i].spec = thr[t].m.spec \/ i \in InHand(t)
    /\ At(t, "recordRelease") => \A i \in Unfrozen : ctrs[i].spec = thr[t].m.spec

\* A rollback's own replicas bear its release id; the others are of its build
\* once the tag is back, and those of before are in hand at its last roll.
BeforeRetag == {"putTarget", "appendRecord", "retag", "leave"}
Back(t, i) == ctrs[i].spec = thr[t].m.spec /\ ctrs[i].img = thr[t].img
RollbackTrue ==
  \A t \in Https : thr[t].op = "rollback" =>
    /\ thr[t].pc \notin BeforeRetag => img = thr[t].img
    /\ \A i \in Live : ctrs[i].rid = thr[t].rid => Back(t, i)
    /\ thr[t].pc \in Rolling /\ thr[t].ret = "stampBack" => \A i \in Unfrozen : Back(t, i) \/ i \in InHand(t)
    /\ At(t, "stampBack") => \A i \in Unfrozen : Back(t, i)

LandIInv == Roles /\ Numbered /\ Served /\ ReleaseTrue /\ RollbackTrue

LEMMA NewReplicaIs ==
  ASSUME IInv, NEW t \in Threads, thr[t].m \in Manifests
  PROVE  /\ NewReplica(t) \in Replica /\ NewReplica(t).spec = thr[t].m.spec /\ NewReplica(t).img = img
         /\ NewReplica(t).rid = thr[t].rid
BY ReplicaType DEF NewReplica

LEMMA LiveReplica == ASSUME IInv, NEW i \in Live PROVE i \in Ids /\ ctrs[i] \in Replica
BY DEF IInv, TypeOK, Live

\* The threads a step leaves alone, and their records.
LEMMA OthersStay ==
  ASSUME IInv, Roles, NEW u \in Threads, Works(u), NEW t \in Https, t # u
  PROVE  thr'[t] = thr[t]
BY WorksThreads, Apart, ThreadsAssumption DEF Turns

\* Neither a worker nor a release nor a rollback parks a replica.
LEMMA ParksNobody ==
  ASSUME IInv, Roles, NEW u \in Threads, Works(u), u \in Https => thr[u].op \in {"release", "rollback"}
  PROVE  UNCHANGED frozen /\ ~ReadFrozen(u) /\ ~WriteFrozen(u) /\ ~Discard(u)
BY Apart, WorksFrozen DEF Roles, HttpRole, WorkerRole, ApplyPcs, Rolling, At, ReadFrozen, WriteFrozen, Discard

LEMMA ReleaseKept ==
  ASSUME IInv, LandIInv, NEW u \in Threads, Works(u)
  PROVE  ReleaseTrue'
<1>0. Workers \cap Https = {} /\ Threads = Workers \cup Https
  BY Apart
<1>1. SUFFICES ASSUME NEW t \in Https, thr'[t].op = "release"
               PROVE  /\ thr'[t].pc \in Rolling =>
                            \A i \in Unfrozen' : ctrs'[i].spec = thr'[t].m.spec \/ i \in InHand(t)'
                      /\ thr'[t].pc = "recordRelease" => \A i \in Unfrozen' : ctrs'[i].spec = thr'[t].m.spec
  BY DEF ReleaseTrue, At
<1>2. CASE u # t
  BY <1>0, <1>1, <1>2, OthersStay, IdleRests DEF LandIInv, Roles, HttpRole, Rolling, At, Served, Alone
<1>3. CASE u = t
  <2>0. HttpRole(thr[t]) /\ t \in Threads
    BY <1>0 DEF LandIInv, Roles
  <2>1. CASE RollNext(t) \/ Retire(t) \/ Respawn(t)
    <3>1. thr[t].pc \in Rolling /\ thr[t].m \in Manifests /\ thr[t].pc \in {"roll", "await", "respawn"}
      BY <2>0, <2>1, HoldsManifest DEF RollNext, Retire, Respawn, At, Rolling, NoManifest
    <3>2. PICK G : G = {r \in Replica : r.spec = thr[t].m.spec}
      OBVIOUS
    <3>3. thr'[t].op = thr[t].op /\ thr[t].op = "release"
      BY <1>1, <2>0, <2>1, RollNextDoes, RetireDoes, RespawnDoes DEF Same, Fails, Stays, Keeps
    <3>4. \A i \in Unfrozen : ctrs[i] \in G \/ i \in InHand(t)
      BY <3>1, <3>2, <3>3, LiveReplica DEF LandIInv, ReleaseTrue, Unfrozen
    <3>5. NewReplica(t) \in G
      BY <2>0, <3>1, <3>2, NewReplicaIs
    <3>6. /\ thr'[t].pc \in Rolling /\ thr'[t].ret = thr[t].ret =>
                \A i \in Unfrozen' : ctrs'[i] \in G \/ i \in InHand(t)'
          /\ \/ thr'[t].pc \in Rolling \cup {OnError(t), "again"}
             \/ thr'[t].pc = thr[t].ret /\ \A i \in Unfrozen' : ctrs'[i] \in G
          /\ thr'[t].ret = thr[t].ret /\ Same(t)
      BY <2>0, <2>1, <3>4, <3>5, RollKeeps
    <3> QED
      BY <3>2, <3>3, <3>6 DEF Same, OnError, Rolling
  <2>2. CASE ListRelease(t)
    <3>1. UNCHANGED <<frozen, ctrs>> /\ Unfrozen' = Unfrozen
      BY <2>0, <2>2, ListReleaseDoes DEF Elsewhere, Live, Unfrozen
    <3>2. CASE Fails(t)
      BY <1>1, <2>0, <2>2, <3>2 DEF Fails, Keeps, Same, OnError, Rolling, HttpRole, ListRelease, At
    <3>3. CASE ~Fails(t)
      BY <2>0, <2>2, <3>1, <3>3, ListReleaseDoes, <1>1
         DEF Unfrozen, Movable, Stays, Keeps, Same, Rolling, ListsFor, InHand
    <3> QED
      BY <3>2, <3>3
  <2>3. CASE ~(RollNext(t) \/ Retire(t) \/ Respawn(t) \/ ListRelease(t))
    <3>1. CASE Commands(t) \/ ReleaseDone(t)
      BY <2>0, <3>1, CommandsDoes, ReleaseDoneDoes DEF Rolling
    <3>2. CASE Leave(t) \/ Put(t)
      BY <1>1, <2>0, <3>2, LeaveDoes, PutDoes DEF Rests, Idle
    <3>3. CASE LinkEnv(t) \/ Scale(t) \/ Prune(t)
      BY <1>1, <2>0, <3>3, LinkDoes, ScaleDoes, PruneDoes DEF HttpRole, Same, Fails, Stays, Keeps, At, Rolling
    <3>4. CASE Build(t) \/ SwapCurrent(t) \/ Materialize(t) \/ PutTarget(t)
               \/ AppendRecord(t) \/ Retag(t) \/ StampBack(t)
      BY <1>1, <2>0, <3>4, BuildDoes, SwapDoes, MaterializeDoes, PutTargetDoes, AppendRecordDoes, RetagDoes,
         StampBackDoes
         DEF HttpRole, Same, Stays, Keeps, At, Rolling
    <3>5. CASE FindAffected(t) \/ ListRestart(t) \/ ListExtra(t) \/ ListRolled(t) \/ Grow(t) \/ Restamp(t)
      BY <1>1, <2>0, <3>5, FindDoes, ListRestartDoes, ListExtraDoes, ListRolledDoes, GrowDoes, RestampDoes
         DEF HttpRole, Same, Fails, Stays, Keeps, ListsFor, Rests, Idle, At, Rolling
    <3>6. CASE ReadFrozen(t) \/ WriteFrozen(t) \/ Discard(t)
      <4>1. thr[t].op \in {"stop", "start"}
        BY <2>0, <3>6 DEF ReadFrozen, WriteFrozen, Discard, HttpRole, At, Rolling
      <4> QED
        BY <1>1, <2>0, <3>6, <4>1, ReadFrozenDoes, WriteFrozenDoes, DiscardDoes
           DEF Same, Stays, Keeps, Fails, Rests, Idle
    <3> QED
      BY <1>3, <2>0, <2>3, <3>1, <3>2, <3>3, <3>4, <3>5, <3>6, HttpReconciles DEF Works, RequestStep
  <2> QED
    BY <2>1, <2>2, <2>3
<1> QED
  BY <1>2, <1>3

\* A worker beside a rollback makes what the rollback makes.
LEMMA WorkerMakes ==
  ASSUME IInv, Roles, NEW u \in Workers, NEW m \in Manifests, Followed(m), NEW i \in Ids, Makes(u, i)
  PROVE  ctrs'[i].spec = m.spec /\ ctrs'[i].img = img /\ ctrs'[i].rid = 0
BY Apart, NewReplicaIs DEF Makes, Roles, WorkerRole, Followed

LEMMA RollbackBeside ==
  ASSUME IInv, LandIInv, NEW u \in Threads, Works(u), NEW t \in Https, u # t, thr[t].op = "rollback"
  PROVE  /\ thr'[t] = thr[t] /\ img' = img /\ frozen' = frozen
         /\ \A i \in Live' : \/ i \in Live /\ ctrs'[i] = ctrs[i]
                             \/ ctrs'[i].spec = thr[t].m.spec /\ ctrs'[i].img = img /\ ctrs'[i].rid = 0
<1>1. u \in Workers
  <2>1. ~At(u, "idle")
    BY IdleRests
  <2>2. ~At(t, "idle")
    BY DEF LandIInv, Roles, HttpRole, Rolling, At
  <2> QED
    BY <2>1, <2>2, Apart DEF LandIInv, Served
<1>2. frozen' = frozen
  BY <1>1, ParksNobody, Apart DEF LandIInv
<1> QED
  BY <1>2, OthersStay, IdleRests, Apart, WorksElse, WorkersServeNobody, WorksCtrs, WorkerMakes DEF LandIInv, Roles,
     HttpRole, Rolling, At, Served, Alone, RequestStep, Followed, Live

LEMMA RollbackKept ==
  ASSUME IInv, LandIInv, NEW u \in Threads, Works(u)
  PROVE  RollbackTrue'
<1>0. Workers \cap Https = {} /\ Threads = Workers \cup Https
  BY Apart
<1>1. SUFFICES ASSUME NEW t \in Https, thr'[t].op = "rollback"
               PROVE  /\ thr'[t].pc \notin BeforeRetag => img' = thr'[t].img
                      /\ \A i \in Live' : ctrs'[i].rid = thr'[t].rid => Back(t, i)'
                      /\ thr'[t].pc \in Rolling /\ thr'[t].ret = "stampBack" =>
                            \A i \in Unfrozen' : Back(t, i)' \/ i \in InHand(t)'
                      /\ thr'[t].pc = "stampBack" => \A i \in Unfrozen' : Back(t, i)'
  BY DEF RollbackTrue, At
<1>2. CASE u # t
  <2>1. thr'[t] = thr[t] /\ thr[t].op = "rollback" /\ thr[t].rid # 0 /\ InHand(t)' = InHand(t)
    BY <1>0, <1>1, <1>2, OthersStay DEF LandIInv, Roles, HttpRole, InHand, At
  <2>2. /\ img' = img /\ frozen' = frozen
        /\ \A i \in Live' : \/ i \in Live /\ ctrs'[i] = ctrs[i]
                            \/ ctrs'[i].spec = thr[t].m.spec /\ ctrs'[i].img = img /\ ctrs'[i].rid = 0
    BY <1>2, <2>1, RollbackBeside
  <2>3. /\ thr[t].pc \notin BeforeRetag => img = thr[t].img
        /\ \A i \in Live : ctrs[i].rid = thr[t].rid => Back(t, i)
        /\ thr[t].pc \in Rolling /\ thr[t].ret = "stampBack" => \A i \in Unfrozen : Back(t, i) \/ i \in InHand(t)
        /\ thr[t].pc = "stampBack" => \A i \in Unfrozen : Back(t, i)
    BY <2>1 DEF LandIInv, RollbackTrue, At
  <2> QED
    BY <2>1, <2>2, <2>3 DEF Back, Unfrozen, Rolling, BeforeRetag
<1>3. CASE u = t
  <2>0. HttpRole(thr[t]) /\ t \in Threads
    BY <1>0 DEF LandIInv, Roles
  <2>1. /\ thr[t].op = "rollback" /\ Same(t) /\ thr[t].rid # 0
        /\ thr'[t].pc \notin BeforeRetag => thr[t].pc \notin BeforeRetag \/ Retag(t)
        /\ thr'[t].pc \in Rolling /\ thr'[t].ret = "stampBack" =>
             RollNext(t) \/ Retire(t) \/ Respawn(t) \/ ListsFor(t, "stampBack", Movable(Unstamped(t)))
        /\ thr'[t].pc = "stampBack" =>
             RollNext(t) \/ Retire(t) \/ Respawn(t) \/ (Unstamped(t) = {} /\ UNCHANGED ctrs)
    <3> USE DEF HttpRole, BeforeRetag, Rolling, At
    <3>1. CASE LinkEnv(t) \/ Scale(t) \/ Prune(t)
      BY <1>1, <2>0, <3>1, LinkDoes, ScaleDoes, PruneDoes
         DEF Same, Fails, Stays, Keeps, OnError, AfterScale, AfterPrune
    <3>2. CASE RollNext(t) \/ Retire(t) \/ Respawn(t)
      BY <1>1, <2>0, <3>2, RollNextDoes, RetireDoes, RespawnDoes DEF Same, Fails, Stays, Keeps
    <3>3. CASE Build(t) \/ SwapCurrent(t) \/ Materialize(t)
      BY <1>1, <2>0, <3>3, BuildDoes, SwapDoes, MaterializeDoes DEF Same, Stays, Keeps
    <3>4. CASE FindAffected(t) \/ Put(t) \/ Leave(t) \/ ListRestart(t)
      BY <1>1, <2>0, <3>4, FindDoes, PutDoes, LeaveDoes, ListRestartDoes DEF Same, Fails, Keeps, Rests, Idle
    <3>5. CASE Commands(t) \/ ReleaseDone(t) \/ StampBack(t)
      BY <1>1, <2>0, <3>5, CommandsDoes, ReleaseDoneDoes, StampBackDoes DEF Same, Stays, Keeps
    <3>6. CASE PutTarget(t) \/ AppendRecord(t) \/ Retag(t)
      BY <1>1, <2>0, <3>6, PutTargetDoes, AppendRecordDoes, RetagDoes DEF Same, Stays, Keeps
    <3>7. CASE ListRelease(t) \/ ListExtra(t) \/ ListRolled(t)
      BY <1>1, <2>0, <3>7, ListReleaseDoes, ListExtraDoes, ListRolledDoes
         DEF ListsFor, Same, Fails, Stays, Keeps, OnError
    <3>8. CASE Grow(t) \/ Restamp(t)
      BY <1>1, <2>0, <3>8, GrowDoes, RestampDoes DEF ListsFor, Same, Fails, Stays, Keeps, OnError
    <3>9. CASE ReadFrozen(t) \/ WriteFrozen(t) \/ Discard(t)
      <4>1. thr[t].op \in {"stop", "start"}
        BY <2>0, <3>9 DEF ReadFrozen, WriteFrozen, Discard
      <4> QED
        BY <1>1, <2>0, <3>9, <4>1, ReadFrozenDoes, WriteFrozenDoes, DiscardDoes
           DEF Same, Stays, Keeps, Fails, Rests, Idle
    <3> QED
      BY <1>3, <2>0, <3>1, <3>2, <3>3, <3>4, <3>5, <3>6, <3>7, <3>8, <3>9, HttpReconciles
         DEF Works, RequestStep
  <2>11. UNCHANGED frozen /\ ~ReadFrozen(t) /\ ~WriteFrozen(t) /\ ~Discard(t)
    BY <1>3, <2>0, <2>1, ParksNobody DEF LandIInv
  <2>2. img' = IF Retag(t) /\ img' = thr[t].img THEN thr[t].img ELSE img
    <3>1. ~Build(t)
      BY <2>0, <2>1 DEF HttpRole, Rolling, Build, At
    <3> QED
      BY <1>3, <2>0, <3>1, WorksElse, RetagDoes
  <2>3. thr'[t].pc \notin BeforeRetag => img' = thr'[t].img
    BY <2>0, RetagDoes, <2>1, <2>2 DEF BeforeRetag, Stays, Keeps, Same, LandIInv, RollbackTrue
  <2>4. \A i \in Ids : Makes(t, i) => Back(t, i)'
    <3>1. ASSUME NEW i \in Ids, Makes(t, i) PROVE Back(t, i)'
      BY <2>1, <3>1, <2>0, NewReplicaIs DEF Makes, BeforeRetag, LandIInv, RollbackTrue, Back, Same
    <3> QED
      BY <3>1
  <2>5. \A i \in Live' : (i \in Live /\ ctrs'[i] = ctrs[i] /\ (Back(t, i)' <=> Back(t, i))) \/ Back(t, i)'
    BY <1>3, <2>0, <2>1, <2>4, WorksCtrs DEF Live, Back, Same
  <2>6. \A i \in Live' : ctrs'[i].rid = thr'[t].rid => Back(t, i)'
    BY <2>1, <2>5 DEF LandIInv, RollbackTrue, Same
  <2>7. ASSUME RollNext(t) \/ Retire(t) \/ Respawn(t), thr'[t].pc \in Rolling \cup {"stampBack"},
               thr'[t].ret = "stampBack" \/ thr'[t].pc = "stampBack"
        PROVE  /\ thr'[t].pc \in Rolling => \A i \in Unfrozen' : Back(t, i)' \/ i \in InHand(t)'
               /\ thr'[t].pc = "stampBack" => \A i \in Unfrozen' : Back(t, i)'
    <3>1. thr[t].pc \in Rolling /\ thr[t].m \in Manifests /\ thr[t].pc \notin BeforeRetag
      BY <2>0, <2>7, HoldsManifest DEF RollNext, Retire, Respawn, At, Rolling, NoManifest, BeforeRetag
    <3>2. PICK G : G = {r \in Replica : r.spec = thr[t].m.spec /\ r.img = thr[t].img}
      OBVIOUS
    <3>3. NewReplica(t) \in G
      BY <2>0, <2>1, <3>1, <3>2, NewReplicaIs DEF LandIInv, RollbackTrue
    <3>4. thr[t].ret = "stampBack"
      BY <2>0, <2>7, RollNextDoes, RetireDoes, RespawnDoes, <2>1 DEF Fails, Stays, Keeps, OnError
    <3>5. \A i \in Unfrozen : ctrs[i] \in G \/ i \in InHand(t)
      BY <2>1, <3>1, <3>2, <3>4, LiveReplica DEF LandIInv, RollbackTrue, Back, Unfrozen
    <3>6. /\ thr'[t].pc \in Rolling /\ thr'[t].ret = thr[t].ret =>
                \A i \in Unfrozen' : ctrs'[i] \in G \/ i \in InHand(t)'
          /\ \/ thr'[t].pc \in Rolling \cup {OnError(t), "again"}
             \/ thr'[t].pc = thr[t].ret /\ \A i \in Unfrozen' : ctrs'[i] \in G
          /\ thr'[t].ret = thr[t].ret /\ Same(t)
      BY <2>0, <2>7, <3>3, <3>5, RollKeeps
    <3>7. \A i \in Unfrozen' : ctrs'[i] \in G => Back(t, i)'
      BY <2>1, <3>2 DEF Back, Same
    <3> QED
      BY <2>1, <3>6, <3>7 DEF OnError, Rolling
  <2>8. CASE ListsFor(t, "stampBack", Movable(Unstamped(t))) /\ UNCHANGED ctrs
    BY <2>8, <2>1, <2>11, <2>6, <2>3 DEF ListsFor, InHand, At, Live, Unfrozen, Movable, Unstamped, Same
  <2>9. CASE Unstamped(t) = {} /\ UNCHANGED ctrs
    BY <2>9, <2>1, <2>11, <2>6, <2>3 DEF Live, Unfrozen, Unstamped, Same
  <2>10. ListsFor(t, "stampBack", Movable(Unstamped(t))) => UNCHANGED ctrs \/ RollNext(t) \/ Retire(t) \/ Respawn(t)
    <3>1. CASE Restamp(t)
      BY <2>0, <3>1, RestampDoes
    <3>2. CASE UNCHANGED ctrs
      BY <3>2
    <3>3. CASE Scale(t) \/ Prune(t) \/ RemoveNext(t)
      BY <2>0, <2>1, <3>3, ScaleDoes, PruneDoes, RemoveNextDoes
         DEF ListsFor, Fails, Keeps, OnError, AfterScale, AfterPrune, HttpRole, At, Rolling
    <3> QED
      BY <1>3, <2>11, <3>1, <3>2, <3>3
         DEF Works, ReconcileStep, RequestStep, Outcome, GiveUp, ScheduleRetry, Retry, LinkEnv, ListLive,
             Decide, StampNew, Relist, Drift, StampRolled, RollEnv, RecordRelease, Publish, ListDoomed, Build,
             SwapCurrent, Materialize, FindAffected, Put, Leave, ListRestart, Commands, ListRelease,
             ReleaseDone, PutTarget, AppendRecord, Retag, ListExtra, ListRolled, Grow, StampBack, DockerFails
  <2> QED
    BY <2>1, <2>3, <2>6, <2>7, <2>8, <2>9, <2>10 DEF Rolling
<1> QED
  BY <1>2, <1>3

\* The invariant a release and a rollback keep.
LEMMA LandInit == ASSUME Init PROVE LandIInv
<1>1. /\ \A t \in Threads : thr[t] = Idle
      /\ \A i \in Live : ctrs[i].rid = 0
      /\ ops = 0 /\ \A t \in Threads : At(t, "idle")
  BY DEF Init, Live, SettledReplica, At, Idle
<1>2. Roles
  BY <1>1, IdleRoles, Apart DEF Roles
<1>3. Numbered
  BY <1>1, Apart DEF Numbered, Idle
<1>4. Served /\ ReleaseTrue /\ RollbackTrue
  BY <1>1, Apart DEF Served, ReleaseTrue, RollbackTrue, Idle, At
<1> QED
  BY <1>2, <1>3, <1>4 DEF LandIInv

LEMMA LandNext ==
  ASSUME Patient, IInv, LandIInv, [Next]_vars
  PROVE  LandIInv'
<1>0. Workers \cap Https = {} /\ Threads = Workers \cup Https
  BY Apart
<1>1. Roles' /\ Numbered' /\ Served'
  BY RolesKept, NumberedKept, ServedKept DEF LandIInv
<1>2. CASE \E u \in Threads : Works(u)
  BY <1>1, <1>2, ReleaseKept, RollbackKept DEF LandIInv
<1>3. CASE /\ \A t \in Https : thr'[t] = thr[t]
           /\ UNCHANGED <<ctrs, img, frozen>>
  BY <1>1, <1>3 DEF LandIInv, ReleaseTrue, RollbackTrue, Back, InHand, Live, Unfrozen, At
<1>4. CASE Operator
  <2>1. UNCHANGED <<ctrs, img>> /\ ops' = ops + 1 /\ Live' = Live
    BY <1>4, OperatorDoes DEF Live
  <2>2. CASE UNCHANGED <<thr, frozen>>
    BY <1>3, <2>1, <2>2
  <2>4. Quiet
    BY <1>4, OperatorDoes
  <2>3. ASSUME NEW t \in Https, Begins(t) PROVE LandIInv'
    <3>0. \A s \in Https : thr[s].op = "none"
      BY <1>0, <2>4 DEF LandIInv, Roles, HttpRole, Rolling, At, Quiet
    <3>1. \A s \in Https : s # t => thr'[s] = thr[s]
      BY <1>0, <2>3 DEF Begins, Turns
    <3>2. \A i \in Live : ctrs[i].rid # ops + 1
      BY LiveReplica, BoundsAssumption DEF IInv, TypeOK, Replica, LandIInv, Numbered
    <3>3. RollbackTrue'
      BY <2>1, <2>3, <3>0, <3>1, <3>2 DEF Begins, LandIInv, RollbackTrue, BeforeRetag, Rolling, Back, At
    <3>4. ReleaseTrue'
      BY <2>3, <3>0, <3>1 DEF Begins, ReleaseTrue, Rolling, At
    <3> QED
      BY <1>1, <3>3, <3>4 DEF LandIInv
  <2> QED
    BY <1>4, <2>2, <2>3, OperatorDoes
<1>5. CASE Crash
  BY <1>0, <1>5, <1>1 DEF Crash, LandIInv, ReleaseTrue, RollbackTrue, Idle
<1>6. CASE LoopStep
  <2>1. UNCHANGED frozen
    BY <1>6 DEF LoopStep, OpenWatch, ListAll, NextEvent
  <2> QED
    BY <1>0, <1>3, <1>6, <2>1, ListAllDoes, NextEventDoes, Apart DEF LoopStep, OpenWatch, Turns
<1>7. CASE UNCHANGED vars
  BY <1>3, <1>7 DEF vars
<1> QED
  BY <1>2, <1>4, <1>5, <1>6, <1>7 DEF Next, Works

\* Where operators wait for what is under way, neither a release nor a
\* rollback ends with a replica of another spec or build, but those that were
\* parked (rolloutRelease, rolloutRollback), whatever the reconciler does beside
\* the rollback with the manifest it put, and whatever fails.
THEOREM Lands == ASSUME Patient PROVE Spec => []Landed
<1>1. Init => IInv /\ LandIInv
  BY InitTyped, LandInit
<1>2. IInv /\ LandIInv /\ [Next]_vars => (IInv /\ LandIInv)'
  BY NextTyped, LandNext
<1>3. IInv /\ LandIInv => Landed
  BY DEF Landed, ReleaseLands, RollbackLands, LandIInv, Roles, HttpRole, Rolling, At, ReleaseTrue,
     RollbackTrue, Back
<1> QED
  BY <1>1, <1>2, <1>3, PTL DEF Spec

-----------------------------------------------------------------------------
(* No roll takes a parked replica.                                         *)

\* What a roll still has in hand is not parked, nor what a start is to remove.
HandsOff(t) ==
  /\ thr[t].pc \in Rolling => InHand(t) \cap frozen = {}
  /\ At(t, "readFrozen") => \E i \in Ids : thr[t].todo = {i}
  /\ At(t, "writeFrozen") /\ thr[t].op = "start" => thr[t].todo \cap thr[t].live = {}
  /\ At(t, "discard") => thr[t].todo \cap frozen = {}
ParkIInv == Roles /\ Served /\ \A t \in Threads : HandsOff(t)

LEMMA ElsewhereHandsOff ==
  ASSUME NEW t \in Threads, thr[t].pc \notin Rolling \cup {"readFrozen", "writeFrozen", "discard"}
  PROVE  HandsOff(t)
BY DEF HandsOff, At

\* A goroutine's own step of a roll, or onto one, keeps its hands off.
LEMMA RollsHandsOff ==
  ASSUME IInv, NEW t \in Threads, WorkerRole(thr[t]) \/ HttpRole(thr[t]), HandsOff(t),
         RollNext(t) \/ Retire(t) \/ Respawn(t)
  PROVE  HandsOff(t)'
<1> USE DEF Rolling, At
<1>1. thr[t].pc \in Rolling /\ InHand(t) \cap frozen = {} /\ UNCHANGED frozen
      /\ thr[t].ret \notin Rolling \cup {"readFrozen", "writeFrozen", "discard"}
      /\ OnError(t) \notin Rolling \cup {"readFrozen", "writeFrozen", "discard"}
  BY DEF RollNext, Retire, Respawn, HandsOff, WorkerRole, HttpRole, ApplyPcs, OnError
<1>2. \/ thr'[t].pc \in {thr[t].ret, OnError(t), "again"}
      \/ thr'[t].pc \in Rolling /\ InHand(t)' \subseteq InHand(t)
  <2>1. CASE RollNext(t)
    BY <2>1, RollNextDoes DEF Fails, Stays, Keeps, InHand
  <2>2. CASE Retire(t)
    BY <2>2, RetireDoes DEF Fails, InHand
  <2>3. CASE Respawn(t)
    BY <2>3, RespawnDoes DEF Fails, Stays, InHand
  <2> QED
    BY <2>1, <2>2, <2>3
<1> QED
  BY <1>1, <1>2 DEF HandsOff

LEMMA ListsHandsOff ==
  ASSUME IInv, NEW t \in Threads, WorkerRole(thr[t]) \/ HttpRole(thr[t]),
         \/ LinkEnv(t) \/ Drift(t) \/ RollEnv(t)
         \/ ListRelease(t) \/ ListExtra(t) \/ ListRolled(t) \/ Restamp(t)
  PROVE  HandsOff(t)'
<1> USE DEF Rolling, At
<1>1. UNCHANGED frozen /\ OnError(t) \notin Rolling \cup {"readFrozen", "writeFrozen", "discard"}
  BY DEF LinkEnv, Drift, RollEnv, ListRelease, ListExtra, ListRolled, Restamp, OnError
<1>2. \/ thr'[t].pc \in {OnError(t), "list", "leave", "again", "rollEnv", "record", "recordRelease", "prune",
                         "stampBack"}
      \/ thr'[t].pc = "roll" /\ \E S \in SUBSET Ids : thr'[t].todo = Movable(S)
  <2>0. Live \in SUBSET Ids /\ thr[t].live \in SUBSET Ids /\ thr[t].todo \in SUBSET Ids
    BY ThreadRecord DEF Live, Thread
  <2>1. CASE LinkEnv(t) \/ Drift(t) \/ RollEnv(t)
    <3>1. Live \ thr[t].made \in SUBSET Ids
      BY <2>0
    <3> QED
      BY <2>0, <2>1, <3>1, LinkDoes, DriftDoes, RollEnvDoes DEF Stays
  <2>2. CASE ListRelease(t) \/ ListExtra(t) \/ ListRolled(t) \/ Restamp(t)
    <3>1. Unstamped(t) \in SUBSET Ids
      BY DEF Unstamped, Live
    <3> QED
      BY <2>0, <2>2, <3>1, ListReleaseDoes, ListExtraDoes, ListRolledDoes, RestampDoes DEF Fails, ListsFor
  <2> QED
    BY <2>1, <2>2
<1> QED
  BY <1>1, <1>2 DEF HandsOff, InHand, Movable

\* A start removes what it has taken off the list; who else writes it is alone.
LEMMA ParksHandsOff ==
  ASSUME IInv, NEW t \in Threads, HttpRole(thr[t]), HandsOff(t),
         ReadFrozen(t) \/ WriteFrozen(t) \/ Discard(t)
  PROVE  HandsOff(t)'
<1> USE DEF At, Rolling
<1>1. CASE ReadFrozen(t)
  <2>1. PICK i \in Ids : thr[t].todo = {i}
    BY <1>1 DEF ReadFrozen, HandsOff
  <2>2. thr[t] \in Thread /\ thr'[t] = IF thr[t].op = "stop"
          THEN [thr[t] EXCEPT !.pc = "writeFrozen", !.live = frozen \cup thr[t].todo]
          ELSE IF thr[t].todo \subseteq frozen
          THEN [thr[t] EXCEPT !.pc = "writeFrozen", !.live = frozen \ thr[t].todo]
          ELSE [thr[t] EXCEPT !.pc = "discard"]
    BY <1>1, SetDoes, ThreadRecord DEF ReadFrozen
  <2>3. UNCHANGED frozen
    BY <1>1 DEF ReadFrozen
  <2>4. CASE thr[t].op = "stop"
    BY <2>2, <2>4 DEF HandsOff, Thread
  <2>5. CASE thr[t].op # "stop" /\ thr[t].todo \subseteq frozen
    BY <2>2, <2>5 DEF HandsOff, Thread
  <2>6. CASE thr[t].op # "stop" /\ ~(thr[t].todo \subseteq frozen)
    BY <2>1, <2>2, <2>3, <2>6 DEF HandsOff, Thread
  <2> QED
    BY <2>4, <2>5, <2>6
<1>2. CASE WriteFrozen(t)
  <2>1. thr[t].op \in {"stop", "start"} /\ frozen' = thr[t].live
    BY <1>2 DEF WriteFrozen, HttpRole
  <2>2. Rests(t) \/ (thr'[t].pc = "discard" /\ thr'[t].todo = thr[t].todo /\ thr[t].op = "start")
    BY <1>2, <2>1, WriteFrozenDoes DEF Stays
  <2> QED
    BY <1>2, <2>1, <2>2 DEF WriteFrozen, HandsOff, Rests, Idle
<1>3. CASE Discard(t)
  BY <1>3, DiscardDoes DEF Fails, HandsOff, OnError
<1> QED
  BY <1>1, <1>2, <1>3

\* The other steps lead to none of the places the claim is about, but from one to
\* the same with the same in hand.
LEMMA WorksHandsOff ==
  ASSUME IInv, Roles, NEW t \in Threads, Works(t), HandsOff(t)
  PROVE  HandsOff(t)'
<1> USE DEF At, Rolling
<1>0. WorkerRole(thr[t]) \/ HttpRole(thr[t])
  BY Apart DEF Roles
<1>1. OnError(t) \in {"record", "failed", "leave"} /\ AfterScale(t) \in {"restamp", "prune"}
      /\ AfterPrune(t) \in {"listRolled", "stampNew", "relist"}
  BY DEF OnError, AfterScale, AfterPrune
<1>2. CASE RollNext(t) \/ Retire(t) \/ Respawn(t)
  BY <1>0, <1>2, RollsHandsOff
<1>3. CASE LinkEnv(t) \/ Drift(t) \/ RollEnv(t) \/ ListRelease(t) \/ ListExtra(t) \/ ListRolled(t) \/ Restamp(t)
  BY <1>0, <1>3, ListsHandsOff
<1>4. CASE ReadFrozen(t) \/ WriteFrozen(t) \/ Discard(t)
  <2>1. HttpRole(thr[t])
    BY <1>0, <1>4 DEF WorkerRole, ApplyPcs, ReadFrozen, WriteFrozen, Discard
  <2> QED
    BY <1>4, <2>1, ParksHandsOff
<1>5. CASE Outcome(t) \/ GiveUp(t) \/ ScheduleRetry(t) \/ Retry(t)
  <2>1. thr'[t] = Idle \/ thr'[t].pc \in {"idle", "sleep", "link", "listDoomed"}
    BY <1>5, OutcomeDoes, GiveUpDoes, ScheduleRetryDoes, RetryDoes DEF TakesUp, Sleeps
  <2> QED
    BY <2>1 DEF HandsOff, Idle
<1>6. CASE ListLive(t) \/ Decide(t) \/ Scale(t) \/ Prune(t) \/ StampNew(t) \/ Relist(t) \/ StampRolled(t)
           \/ RecordRelease(t) \/ Publish(t) \/ ListDoomed(t) \/ RemoveNext(t)
  <2>1. thr'[t].pc \notin Rolling \cup {"readFrozen", "writeFrozen", "discard"}
    BY <1>1, <1>6, ListDoes, DecideDoes, ScaleDoes, PruneDoes, StampNewDoes, RelistDoes, StampRolledDoes,
       RecordDoes, PublishDoes, ListDoomedDoes, RemoveNextDoes DEF Fails
  <2> QED
    BY <2>1 DEF HandsOff
<1>7. CASE Build(t) \/ SwapCurrent(t) \/ Materialize(t) \/ FindAffected(t) \/ Put(t) \/ Leave(t)
           \/ ListRestart(t) \/ Commands(t) \/ ReleaseDone(t) \/ PutTarget(t) \/ AppendRecord(t)
           \/ Retag(t) \/ Grow(t) \/ StampBack(t)
  <2>1. thr'[t].pc \notin Rolling \cup {"readFrozen", "writeFrozen", "discard"}
    BY <1>1, <1>7, BuildDoes, SwapDoes, MaterializeDoes, FindDoes, PutDoes, LeaveDoes, ListRestartDoes,
       CommandsDoes, ReleaseDoneDoes, PutTargetDoes, AppendRecordDoes, RetagDoes, GrowDoes, StampBackDoes
       DEF Fails, Rests, Idle
  <2> QED
    BY <2>1 DEF HandsOff
<1> QED
  BY <1>2, <1>3, <1>4, <1>5, <1>6, <1>7 DEF Works, ReconcileStep, RequestStep

LEMMA ParkKept ==
  ASSUME Patient, IInv, ParkIInv, [Next]_vars
  PROVE  ParkIInv'
<1> USE DEF At
<1>0. /\ Roles' /\ Served' /\ Workers \cap Https = {} /\ Threads = Workers \cup Https
      /\ Loop \in Workers
  BY RolesKept, ServedKept, Apart DEF ParkIInv
<1>1. ASSUME NEW s \in Threads, thr'[s] = thr[s], UNCHANGED frozen PROVE HandsOff(s)'
  BY <1>1 DEF ParkIInv, HandsOff, InHand
<1>2. ASSUME NEW s \in Threads, thr'[s].pc \in {"idle", "sleep", "link", "listDoomed"} PROVE HandsOff(s)'
  BY <1>2 DEF HandsOff, Rolling
<1>3. ASSUME NEW u \in Threads, Works(u), NEW s \in Threads PROVE HandsOff(s)'
  <2>1. CASE s = u
    BY <1>3, <2>1, WorksHandsOff DEF ParkIInv
  <2>2. CASE s # u /\ UNCHANGED frozen
    <3>1. thr'[s] = thr[s] \/ Sleeps(s)
      BY <1>3, <2>2, WorksThreads DEF ParkIInv, Turns
    <3> QED
      BY <2>2, <3>1, <1>1, <1>2 DEF Sleeps
  <2>3. CASE s # u /\ WriteFrozen(u)
    <3>1. u \in Https /\ ~At(u, "idle") /\ thr[u].op # "rollback"
      BY <1>0, <2>3 DEF WriteFrozen, ParkIInv, Roles, WorkerRole, HttpRole, ApplyPcs, Rolling
    <3>2. thr[s].pc = "idle"
      BY <2>3, <3>1 DEF ParkIInv, Served, Alone
    <3>3. thr'[s] = thr[s]
      BY <1>0, <2>3, WriteFrozenDoes DEF Stays, Keeps, Rests, Turns
    <3> QED
      BY <3>2, <3>3, <1>2
  <2> QED
    BY <1>3, <2>1, <2>2, <2>3, WorksFrozen
<1>4. CASE Operator
  <2>1. Quiet
    BY <1>4, OperatorDoes
  <2>2. CASE UNCHANGED <<thr, frozen>>
    BY <1>0, <1>1, <2>2 DEF ParkIInv
  <2>3. ASSUME NEW t \in Https, Begins(t) PROVE ParkIInv'
    <3>1. HandsOff(t)'
      BY <2>3 DEF Begins, HandsOff, Rolling
    <3> QED
      BY <1>0, <1>2, <2>1, <2>3, <3>1 DEF Begins, Turns, Quiet, ParkIInv
  <2>4. CASE Delete \/ \E m \in Manifests : Apply(m)
    BY <2>2, <2>4 DEF Delete, Apply
  <2> QED
    BY <1>4, <2>3, <2>4, BeginsDoes DEF Operator
<1>5. CASE Crash
  BY <1>0, <1>2, <1>5 DEF Crash, Idle, ParkIInv
<1>6. CASE LoopStep
  <2>1. UNCHANGED frozen /\ Turns(Loop)
    BY <1>0, <1>6, ListAllDoes, NextEventDoes DEF LoopStep, OpenWatch, Turns
  <2>2. thr'[Loop] = thr[Loop] \/ thr'[Loop].pc \in {"idle", "link", "listDoomed"}
    BY <1>6, ListAllDoes, NextEventDoes DEF LoopStep, OpenWatch, TakesUp, Idle
  <2> QED
    BY <1>0, <1>1, <1>2, <2>1, <2>2 DEF Turns, ParkIInv
<1>7. CASE UNCHANGED vars
  BY <1>0, <1>1, <1>7 DEF vars, ParkIInv
<1> QED
  BY <1>0, <1>3, <1>4, <1>5, <1>6, <1>7 DEF Next, Works, ParkIInv

\* Whoever takes a parked replica away scales down, or removes the deployment.
LEMMA TakesNoParked ==
  ASSUME IInv, ParkIInv, [Next]_vars, NEW i \in Live \cap frozen, ctrs'[i] = None
  PROVE  \E t \in Threads : thr[t].pc \in {"prune", "remove"} /\ thr'[t] # thr[t]
<1> USE DEF At
<1>0. i \in Ids /\ i \in frozen /\ ctrs[i] # None /\ ctrs'[i] # ctrs[i]
  BY DEF Live
<1>1. PICK t \in Threads : Works(t)
  <2>1. CASE LoopStep \/ Operator \/ Crash \/ UNCHANGED vars
    BY <1>0, <2>1, ListAllDoes, NextEventDoes, OperatorDoes DEF LoopStep, OpenWatch, Crash, vars
  <2> QED
    BY <2>1 DEF Next, Works
<1>2. HandsOff(t) /\ thr[t] \in Thread
  BY ThreadRecord DEF ParkIInv
<1>3. CASE RollNext(t) \/ Retire(t) \/ Respawn(t)
  <2>1. ASSUME NEW j \in Ids, SpawnsFor(t, j) PROVE FALSE
    BY <1>0, <2>1, NoneAssumption, HoldsManifest, NewReplicaIs DEF SpawnsFor, Fresh
  <2>2. i \notin InHand(t)
    BY <1>0, <1>2, <1>3 DEF HandsOff, Rolling, RollNext, Retire, Respawn
  <2>3. CASE RollNext(t)
    BY <1>0, <2>1, <2>2, <2>3, RollNextDoes DEF Fails, Removes, InHand
  <2>4. CASE Retire(t)
    BY <1>0, <2>2, <2>4, RetireDoes DEF Fails, Removes, InHand
  <2>5. CASE Respawn(t)
    BY <1>0, <2>1, <2>5, RespawnDoes DEF Fails
  <2> QED
    BY <1>3, <2>3, <2>4, <2>5
<1>4. CASE Discard(t)
  <2>1. PICK j \in thr[t].todo : Remove(j)
    BY <1>0, <1>4 DEF Discard, DockerFails
  <2>2. j # i /\ j \in Ids
    BY <1>0, <1>2, <1>4 DEF Discard, HandsOff, Thread
  <2>3. Removes(j)
    BY <2>1, <2>2, RemoveDoes
  <2> QED
    BY <1>0, <2>2, <2>3 DEF Removes
<1>5. CASE Scale(t)
  BY <1>0, <1>5, ScaleDoes DEF Fails, SpawnsFor, Fresh
<1>6. CASE Prune(t)
  <2>1. CASE UNCHANGED ctrs
    BY <1>0, <2>1
  <2>2. CASE \E j \in thr[t].todo : thr'[t].todo = thr[t].todo \ {j}
    BY <1>6, <2>2, PruneDoes
  <2> QED
    BY <1>6, <2>1, <2>2, PruneDoes DEF Fails
<1>7. CASE RemoveNext(t)
  <2>1. CASE UNCHANGED ctrs
    BY <1>0, <2>1
  <2>2. CASE \E j \in thr[t].todo : thr'[t].todo = thr[t].todo \ {j}
    BY <1>7, <2>2, RemoveNextDoes
  <2> QED
    BY <1>7, <2>1, <2>2, RemoveNextDoes DEF Fails
<1>8. CASE UNCHANGED ctrs
  BY <1>0, <1>8
<1> QED
  BY <1>1, <1>3, <1>4, <1>5, <1>6, <1>7, <1>8
     DEF Works, ReconcileStep, RequestStep, Outcome, GiveUp, ScheduleRetry, Retry, LinkEnv, ListLive, Decide,
         StampNew, Relist, Drift, StampRolled, RollEnv, RecordRelease, Publish, ListDoomed, Build, SwapCurrent,
         Materialize, FindAffected, Put, Leave, ListRestart, Commands, ListRelease, ReleaseDone, PutTarget,
         AppendRecord, Retag, ListExtra, ListRolled, Grow, Restamp, StampBack, ReadFrozen, WriteFrozen, DockerFails

\* Where operators wait for what is under way, a parked replica stays put across
\* every roll (rollingReplaceReplicas): an apply's, a retry's, a Restart's once
\* it has emptied the list, a release's, a rollback's, whatever fails.
THEOREM ParkedStay == ASSUME Patient PROVE Spec => StaysParked
<1>1. Init => IInv /\ ParkIInv
  BY InitTyped, LandInit, ElsewhereHandsOff DEF Init, Idle, ParkIInv, LandIInv, Rolling
<1>2. IInv /\ ParkIInv /\ [Next]_vars => (IInv /\ ParkIInv)'
  BY NextTyped, ParkKept
<1>3. ASSUME IInv /\ ParkIInv /\ [Next]_vars
      PROVE  [\A i \in Live \cap frozen :
                ctrs'[i] = None => \E t \in Threads : thr[t].pc \in {"prune", "remove"}
                                                      /\ thr'[t] # thr[t]]_vars
  BY <1>3, TakesNoParked
<1> QED
  BY <1>1, <1>2, <1>3, PTL DEF Spec, StaysParked

-----------------------------------------------------------------------------
(* Counting replicas.                                                      *)

\* A finite set has at least n members among its first n, or fewer than n.
LEMMA FirstEnough ==
  ASSUME NEW S, IsFiniteSet(S), S \subseteq Nat, NEW n \in Nat, Cardinality(S) >= n
  PROVE  Cardinality(First(S, n)) >= n
<1> DEFINE F == First(S, n)
           E == S \ F
<1>1. F \subseteq S /\ IsFiniteSet(F) /\ Cardinality(S) \in Nat /\ Cardinality(F) \in Nat
  BY FS_Subset, FS_CardinalityType DEF First
<1>2. SUFFICES ASSUME Cardinality(F) < n PROVE FALSE
  BY <1>1
<1>3. E # {} /\ E \subseteq Nat
  <2>1. ASSUME S \subseteq F PROVE FALSE
    <3>1. S = F
      BY <1>1, <2>1
    <3> HIDE DEF F
    <3> QED
      BY <1>1, <1>2, <3>1
  <2> QED
    BY <2>1
<1>4. PICK e \in E : \A y \in E : ~(<<y, e>> \in OpToRel(<, Nat))
  <2> HIDE DEF E
  <2> QED
    BY <1>3, NatLessThanWellFounded, WFMin
<1>5. \A y \in E : ~(y < e)
  BY <1>3, <1>4 DEF OpToRel
<1> DEFINE B == {j \in S : j < e}
<1>6. B \subseteq F
  BY <1>5
<1>7. Cardinality(B) <= Cardinality(F) /\ Cardinality(B) \in Nat
  <2> HIDE DEF B, F
  <2> QED
    BY <1>1, <1>6, FS_Subset, FS_CardinalityType
<1>8. e \in F
  BY <1>1, <1>2, <1>7 DEF First
<1> QED
  BY <1>8

\* What pruneExtraReplicas keeps, and that it takes nothing where nothing is
\* too many.
LEMMA ExtrasCount ==
  ASSUME NEW S, IsFiniteSet(S), S \subseteq Nat, NEW n \in Nat
  PROVE  /\ Extras(S, n) \subseteq S
         /\ Cardinality(S) >= n => Cardinality(S) >= n + Cardinality(Extras(S, n))
         /\ Cardinality(S) <= n => Extras(S, n) = {}
<1>1. Extras(S, n) = S \ First(S, n) /\ First(S, n) \subseteq S
  BY DEF Extras, First
<1>2. IsFiniteSet(First(S, n)) /\ Cardinality(First(S, n)) \in Nat /\ Cardinality(S) \in Nat
  BY <1>1, FS_Subset, FS_CardinalityType
<1>3. Cardinality(Extras(S, n)) = Cardinality(S) - Cardinality(First(S, n))
  BY <1>1, FS_Difference
<1>4. ASSUME Cardinality(S) >= n PROVE Cardinality(S) >= n + Cardinality(Extras(S, n))
  <2>1. Cardinality(First(S, n)) >= n
    BY <1>4, FirstEnough
  <2> QED
    BY <1>2, <1>3, <2>1
<1>5. ASSUME Cardinality(S) <= n PROVE Extras(S, n) = {}
  <2>1. ASSUME NEW i \in S PROVE i \in First(S, n)
    <3> DEFINE B == {j \in S : j < i}
    <3>1. B \subseteq S \ {i} /\ IsFiniteSet(S \ {i}) /\ Cardinality(S \ {i}) = Cardinality(S) - 1
      BY <2>1, FS_RemoveElement
    <3>2. Cardinality(B) <= Cardinality(S) - 1 /\ Cardinality(B) \in Nat
      <4> HIDE DEF B
      <4> QED
        BY <3>1, FS_Subset, FS_CardinalityType
    <3> QED
      BY <1>2, <1>5, <2>1, <3>2 DEF First
  <2> QED
    BY <1>1, <2>1
<1> QED
  BY <1>1, <1>4, <1>5

LEMMA LiveFinite == IsFiniteSet(Live) /\ Live \subseteq Nat /\ Cardinality(Live) \in Nat
BY IdsAssumption, FS_Subset, FS_CardinalityType DEF Live

LEMMA LiveFinitePrime == IsFiniteSet(Live') /\ Live' \subseteq Nat /\ Cardinality(Live') \in Nat
BY IdsAssumption, FS_Subset, FS_CardinalityType DEF Live

LEMMA SpawnCounts ==
  ASSUME NEW t \in Threads, NEW i \in Ids, IInv, SpawnsFor(t, i)
  PROVE  /\ Live' = Live \cup {i} /\ i \notin Live /\ Cardinality(Live') = Cardinality(Live) + 1
         /\ i \notin thr[t].live \cup thr[t].made
<1>1. NewReplica(t) # None
  BY NewReplicaIs, NoneIsNoRecord DEF SpawnsFor
<1>2. Live' = Live \cup {i} /\ i \notin Live
  BY <1>1 DEF SpawnsFor, Live, Fresh
<1> QED
  BY <1>2, LiveFinite, FS_AddElement DEF SpawnsFor, Fresh

LEMMA RemoveCounts ==
  ASSUME NEW i \in Ids, Removes(i)
  PROVE  /\ Live' = Live \ {i}
         /\ Cardinality(Live') = IF i \in Live THEN Cardinality(Live) - 1 ELSE Cardinality(Live)
<1>1. Live' = Live \ {i}
  BY DEF Removes, Live
<1> QED
  BY <1>1, LiveFinite, FS_RemoveElement

-----------------------------------------------------------------------------
(* One goroutine at a time works on the replicas: where operators are      *)
(* patient, and where nothing but the loop works on them at all.           *)

\* Nobody serves a request that is never made.
Asked == \A t \in Https : thr[t].op \in {"restart", "release", "rollback", "start"} => May(thr[t].op)

LEMMA AskedKept ==
  ASSUME IInv, Roles, Asked, [Next]_vars
  PROVE  Asked'
<1>1. CASE LoopStep
  BY <1>1, ListAllDoes, NextEventDoes, Apart DEF LoopStep, OpenWatch, Turns, Asked
<1>2. ASSUME NEW u \in Threads, Works(u), NEW t \in Https,
             thr'[t].op \in {"restart", "release", "rollback", "start"}
      PROVE  May(thr'[t].op)
  BY <1>2, HttpKeeps, OthersStay DEF Asked, Idle
<1>3. CASE Operator
  BY Apart, <1>3, OperatorDoes DEF Asked, Begins, Turns
<1>4. CASE Crash
  BY <1>4, Apart DEF Crash, Asked, Idle
<1>5. CASE UNCHANGED vars
  BY <1>5 DEF vars, Asked
<1>6. CASE \E u \in Threads : Works(u)
  BY <1>2, <1>6 DEF Asked
<1> QED
  BY <1>1, <1>3, <1>4, <1>5, <1>6 DEF Next, Works

\* Patient operators, and no rollback: one event or one goroutine at a time.
OneAtATime ==
  /\ \A s, t \in Threads : ~At(s, "idle") /\ ~At(t, "idle") => s = t
  /\ (\E s \in Threads : ~At(s, "idle")) => chan = <<>> /\ phase # "replay"
  /\ Len(chan) <= 1
  /\ phase # "watch" => chan = <<>>
  /\ \A t \in Https : ~At(t, "idle") => phase = "watch"

LEMMA OneAtATimeKept ==
  ASSUME Patient, ~May("rollback"), IInv, Roles, Asked, OneAtATime, [Next]_vars
  PROVE  OneAtATime'
<1>0. chan \in Seq(Event) /\ Workers \cap Https = {} /\ Threads = Workers \cup Https /\ Loop \in Workers
  BY Apart DEF IInv, TypeOK
<1>1. CASE LoopStep
  <2>1. CASE NextEvent
    BY <2>1, NextEventDoes, <1>0 DEF OneAtATime, Turns, At
  <2>2. CASE ListAll
    BY <2>2, ListAllDoes, <1>0 DEF OneAtATime, Turns, At
  <2>3. CASE OpenWatch
    BY <2>3 DEF OpenWatch, OneAtATime, At
  <2> QED
    BY <1>1, <2>1, <2>2, <2>3 DEF LoopStep
<1>2. ASSUME NEW u \in Threads, Works(u) PROVE OneAtATime'
  <2>1. UNCHANGED phase /\ ~At(u, "idle")
    BY <1>2, WorksElse, IdleRests
  <2>2. chan = <<>> /\ phase # "replay" /\ \A s \in Threads : s # u => At(s, "idle")
    BY <1>2, <2>1 DEF OneAtATime
  <2>3. CASE UNCHANGED <<desired, chan>> /\ Turns(u)
    BY <1>0, <1>2, <2>1, <2>2, <2>3 DEF OneAtATime, Turns, At
  <2>4. CASE UNCHANGED <<desired, chan>> /\ ScheduleRetry(u) /\ u \in Workers
    BY <1>2, <2>4, ScheduleRetryDoes, <2>2, <1>0, <2>1 DEF At, Idle, Workers, OneAtATime
  <2>5. CASE Put(u)
    <3>1. Rests(u) /\ Emit(thr[u].m)
      BY <1>2, <2>5, PutDoes
    <3>2. u \in Https
      BY <1>0, <2>5, WorkersServeNobody DEF Roles, RequestStep
    <3>3. phase = "watch" /\ chan' = <<thr[u].m>>
      BY <2>1, <2>2, <3>1, <3>2, EmitDoes DEF OneAtATime
    <3>4. \A s \in Threads : At(s, "idle")'
      BY <2>2, <3>1 DEF Rests, Turns, At, Idle
    <3> QED
      BY <1>0, <2>1, <3>3, <3>4 DEF OneAtATime
  <2>6. ~PutTarget(u)
    BY <1>0, WorkersServeNobody DEF Roles, HttpRole, Rolling, Asked, PutTarget, At, RequestStep
  <2> QED
    BY <1>2, <2>3, <2>4, <2>5, <2>6, WorksThreads, WorksElse
<1>3. CASE Operator
  <2>1. Quiet /\ UNCHANGED phase
    BY <1>3, OperatorDoes
  <2>2. CASE UNCHANGED thr /\ Emit(desired')
    <3>1. chan' = <<desired'>>
      BY <2>1, <2>2, EmitDoes DEF Quiet
    <3> QED
      BY <2>1, <2>2, <3>1 DEF Quiet, OneAtATime, At
  <2>3. ASSUME NEW t \in Https, Begins(t) PROVE OneAtATime'
    BY <2>1, <2>3 DEF Begins, Quiet, Turns, At, OneAtATime
  <2> QED
    BY <1>3, <2>2, <2>3, OperatorDoes
<1>4. CASE Crash
  BY <1>4, <1>0 DEF Crash, At, Idle, OneAtATime
<1>5. CASE UNCHANGED vars
  BY <1>5 DEF vars, OneAtATime, At
<1> QED
  BY <1>1, <1>2, <1>3, <1>4, <1>5 DEF Next, Works

\* Whose work is on the replicas.
Touches(s) == thr[s].op \in {"apply", "remove", "restart", "release", "rollback", "start"}
Solo == \A s, t \in Threads : Touches(s) /\ Touches(t) => s = t

\* Operators wait, or there is no retry and no restart, release, rollback or
\* start of a replica.
Waits == Patient /\ ~May("rollback")
LoopOnly == Retries = {} /\ \A op \in {"restart", "release", "rollback", "start"} : ~May(op)
CalmInv == Roles /\ Asked /\ (Waits => OneAtATime)

LEMMA TouchersWork ==
  ASSUME Roles, NEW s \in Threads, Touches(s)
  PROVE  ~At(s, "idle")
BY Apart DEF Roles, WorkerRole, HttpRole, ApplyPcs, Rolling, Touches, At

LEMMA SoloFrom ==
  ASSUME CalmInv, Waits \/ LoopOnly
  PROVE  Solo
<1>1. CASE Waits
  BY <1>1, TouchersWork DEF CalmInv, OneAtATime, Solo
<1>2. CASE LoopOnly
  BY <1>2, Apart DEF LoopOnly, CalmInv, Roles, HttpRole, Asked, Touches, Workers, Solo
<1> QED
  BY <1>1, <1>2

\* Whoever's work is not on the replicas leaves them alone.
LEMMA Untouched ==
  ASSUME IInv, Roles, NEW u \in Threads, Works(u), ~Touches(u)
  PROVE  UNCHANGED ctrs
BY Apart DEF Roles, WorkerRole, HttpRole, ApplyPcs, Touches, Rolling, Scale, Prune, RollNext, Retire, Respawn,
   RemoveNext, At, Works, ReconcileStep, RequestStep, Outcome, GiveUp, ScheduleRetry, Retry, LinkEnv, ListLive,
   Decide, StampNew, Relist, Drift, StampRolled, RollEnv, RecordRelease, Publish, ListDoomed, Build,
   SwapCurrent, Materialize, FindAffected, Put, Leave, ListRestart, Commands, ListRelease, ReleaseDone,
   PutTarget, AppendRecord, Retag, ListExtra, ListRolled, Grow, Restamp, StampBack, ReadFrozen, WriteFrozen, Discard, DockerFails

-----------------------------------------------------------------------------
(* What an apply has counted when it removes.                              *)

\* Steps of an apply behind its scale-down.
Settled == {"stampNew", "relist", "drift", "roll", "respawn", "stampRolled", "rollEnv", "record", "publish", "ok"}

CountedFor(w) ==
  /\ thr[w].pc \in {"link", "list", "decide"} => thr[w].made = {}
  /\ thr[w].pc \in {"link", "list", "decide", "scale"} => thr[w].ret = "idle"
  /\ At(w, "decide") => thr[w].live = Live
  /\ At(w, "scale") => /\ Live = thr[w].live \cup thr[w].made /\ thr[w].live \cap thr[w].made = {}
                       /\ thr[w].made = {} \/ Cardinality(Live) <= thr[w].m.want
  /\ At(w, "prune") => thr[w].todo \subseteq Live /\ Cardinality(Live) >= thr[w].m.want + Cardinality(thr[w].todo)
  /\ thr[w].pc \in Settled => Cardinality(Live) >= thr[w].m.want
  /\ At(w, "await") => Cardinality(Live) >= thr[w].m.want + 1

Counted == \A w \in Workers : thr[w].op = "apply" => CountedFor(w)

LEMMA TakesUpCounted ==
  ASSUME NEW w \in Threads, NEW m, TakesUp(w, m), thr'[w].op = "apply"
  PROVE  CountedFor(w)'
BY DEF TakesUp, CountedFor, Settled, At

\* The counts that make the arithmetic below.
LEMMA Wants == \A m \in Manifests : m.want \in Nat
BY ManifestsAssumption

LEMMA ScaleCounts ==
  ASSUME Surge, IInv, NEW w \in Workers, WorkerRole(thr[w]), thr[w].op = "apply", CountedFor(w), Scale(w)
  PROVE  CountedFor(w)'
<1> USE DEF At
<1>0. /\ w \in Threads /\ At(w, "scale") /\ thr[w].m \in Manifests /\ thr[w].m.want \in Nat
      /\ thr[w].ret = "idle" /\ Live = thr[w].live \cup thr[w].made /\ thr[w].live \cap thr[w].made = {}
      /\ thr[w].made = {} \/ Cardinality(Live) <= thr[w].m.want
  BY Apart, Wants, ScaleDoes DEF CountedFor, WorkerRole
<1>1. /\ IsFiniteSet(thr[w].live) /\ IsFiniteSet(thr[w].made)
      /\ Cardinality(thr[w].live) \in Nat /\ Cardinality(thr[w].made) \in Nat
      /\ Cardinality(Live) = Cardinality(thr[w].live) + Cardinality(thr[w].made)
      /\ thr[w].live \subseteq Nat
  <2>1. IsFiniteSet(thr[w].live) /\ IsFiniteSet(thr[w].made)
    BY <1>0, LiveFinite, FS_Subset
  <2>2. Cardinality(thr[w].live) \in Nat /\ Cardinality(thr[w].made) \in Nat
    BY <2>1, FS_CardinalityType
  <2>3. Cardinality(thr[w].live \cap thr[w].made) = 0
    BY <1>0, FS_EmptySet
  <2>4. Cardinality(thr[w].live \cup thr[w].made)
          = Cardinality(thr[w].live) + Cardinality(thr[w].made) - Cardinality(thr[w].live \cap thr[w].made)
    BY <2>1, FS_Union
  <2>5. Cardinality(Live) = Cardinality(thr[w].live) + Cardinality(thr[w].made)
    BY <1>0, <2>2, <2>3, <2>4
  <2> QED
    BY <1>0, <2>1, <2>2, <2>5, LiveFinite
<1>2. CASE Fails(w)
  BY <1>0, <1>2 DEF Fails, OnError, CountedFor, Settled
<1>3. ASSUME Missing(w), thr'[w].pc = "scale", Same(w), thr'[w].live = thr[w].live,
             thr'[w].ret = thr[w].ret, NEW i \in Ids, SpawnsFor(w, i), thr'[w].made = thr[w].made \cup {i}
      PROVE  CountedFor(w)'
  <2>1. /\ Live' = Live \cup {i} /\ i \notin Live /\ Cardinality(Live') = Cardinality(Live) + 1
        /\ i \notin thr[w].live \cup thr[w].made
    BY <1>0, <1>3, SpawnCounts
  <2>2. Live' = thr'[w].live \cup thr'[w].made /\ thr'[w].live \cap thr'[w].made = {}
    BY <1>0, <1>3, <2>1
  <2>3. Cardinality(Live') <= thr'[w].m.want
    BY <1>0, <1>1, <1>3, <2>1 DEF Missing, Same
  <2> QED
    BY <1>0, <1>3, <2>2, <2>3 DEF CountedFor, Settled
<1>4. CASE /\ ~Missing(w) /\ UNCHANGED ctrs /\ Keeps(w) /\ thr'[w].pc = AfterScale(w)
           /\ thr'[w].todo = IF thr[w].op = "rollback" THEN {} ELSE Extras(thr[w].live, thr[w].m.want)
  <2>1. Live' = Live
    BY <1>4 DEF Live
  <2>2. Extras(thr[w].live, thr[w].m.want) \subseteq Live
    BY <1>0, <1>1, ExtrasCount
  <2>3. Cardinality(Live) >= thr[w].m.want + Cardinality(Extras(thr[w].live, thr[w].m.want))
    <3>1. CASE Cardinality(thr[w].live) >= thr[w].m.want
      BY <1>0, <1>1, <3>1, ExtrasCount, <2>2, LiveFinite, FS_Subset, FS_CardinalityType
    <3>2. CASE Cardinality(thr[w].live) < thr[w].m.want
      <4>1. Extras(thr[w].live, thr[w].m.want) = {}
        BY <1>0, <1>1, <3>2, ExtrasCount
      <4>2. Cardinality(Extras(thr[w].live, thr[w].m.want)) = 0
        BY <4>1, FS_EmptySet
      <4> QED
        BY <1>0, <1>1, <1>4, <4>2 DEF Missing
    <3> QED
      BY <1>0, <1>1, <3>1, <3>2
  <2>4. /\ thr'[w].pc = "prune" /\ thr'[w].todo = Extras(thr[w].live, thr[w].m.want) /\ thr'[w].m = thr[w].m
    BY <1>4 DEF AfterScale, Keeps, Same
  <2> QED
    BY <2>1, <2>2, <2>3, <2>4 DEF CountedFor, Settled
<1> QED
  BY <1>0, <1>2, <1>3, <1>4, ScaleDoes

\* What a removal while scaling down or rolling leaves.
LEMMA PruneCounts ==
  ASSUME Surge, IInv, NEW w \in Workers, WorkerRole(thr[w]), thr[w].op = "apply", CountedFor(w), Prune(w)
  PROVE  CountedFor(w)' /\ Cardinality(Live') >= thr[w].m.want
<1> USE DEF At
<1>0. /\ w \in Threads /\ At(w, "prune") /\ thr[w].m \in Manifests /\ thr[w].m.want \in Nat
      /\ thr[w].todo \subseteq Live /\ Cardinality(Live) >= thr[w].m.want + Cardinality(thr[w].todo)
      /\ IsFiniteSet(thr[w].todo) /\ Cardinality(thr[w].todo) \in Nat /\ Cardinality(Live) \in Nat
  BY Apart, Wants, PruneDoes, LiveFinite, FS_Subset, FS_CardinalityType DEF CountedFor, WorkerRole
<1>1. ASSUME NEW i \in thr[w].todo, i \in Ids, Removes(i), Keeps(w), thr'[w].pc = "prune",
             thr'[w].todo = thr[w].todo \ {i}
      PROVE  CountedFor(w)' /\ Cardinality(Live') >= thr[w].m.want
  <2>1. Live' = Live \ {i} /\ Cardinality(Live') = Cardinality(Live) - 1
    BY <1>0, <1>1, RemoveCounts
  <2>2. Cardinality(thr'[w].todo) = Cardinality(thr[w].todo) - 1
    BY <1>0, <1>1, FS_RemoveElement
  <2>3. thr'[w].m = thr[w].m /\ thr'[w].todo \subseteq Live'
    BY <1>0, <1>1, <2>1 DEF Keeps, Same
  <2>4. Cardinality(Live') >= thr'[w].m.want + Cardinality(thr'[w].todo)
    BY <1>0, <2>1, <2>2, <2>3
  <2>5. Cardinality(thr'[w].todo) >= 0 /\ Cardinality(thr'[w].todo) \in Int
    BY <1>0, <1>1, <2>2, FS_EmptySet, FS_RemoveElement, FS_CardinalityType
  <2> QED
    BY <1>0, <1>1, <2>1, <2>3, <2>4, <2>5 DEF CountedFor, Settled
<1>2. CASE UNCHANGED ctrs /\ Same(w) /\ thr'[w].pc = AfterPrune(w)
  BY <1>2, <1>0 DEF AfterPrune, Same, Live, CountedFor, Settled
<1> QED
  BY <1>0, <1>1, <1>2, PruneDoes

LEMMA RollCounts ==
  ASSUME Surge, IInv, NEW w \in Workers, WorkerRole(thr[w]), thr[w].op = "apply", CountedFor(w),
         RollNext(w) \/ Retire(w) \/ Respawn(w)
  PROVE  CountedFor(w)' /\ Cardinality(Live') >= thr[w].m.want
<1> USE DEF At, Settled
<1>0. /\ w \in Threads /\ thr[w].m \in Manifests /\ thr[w].m.want \in Nat
      /\ Cardinality(Live) >= thr[w].m.want /\ Cardinality(Live) \in Nat
      /\ thr[w].pc \in Rolling /\ thr[w].ret \in {"stampRolled", "record"}
  BY Apart, Wants, LiveFinite, RollNextDoes, RetireDoes, RespawnDoes DEF CountedFor, WorkerRole, Rolling
<1>1. ASSUME UNCHANGED ctrs, Same(w), thr'[w].pc \in {"stampRolled", "record", "failed", "again"}
      PROVE  CountedFor(w)' /\ Cardinality(Live') >= thr[w].m.want
  BY <1>1, <1>0 DEF Same, Live, CountedFor
<1>2. CASE RollNext(w)
  <2>1. ASSUME NEW i \in Ids, SpawnsFor(w, i), Keeps(w), thr'[w].pc = "await"
        PROVE  CountedFor(w)' /\ Cardinality(Live') >= thr[w].m.want
    BY <1>0, <2>1, SpawnCounts DEF Keeps, Same, CountedFor
  <2>2. CASE Fails(w)
    BY <1>1, <2>2 DEF Fails, Keeps, OnError
  <2> QED
    BY <1>0, <1>1, <1>2, <2>1, <2>2, RollNextDoes DEF CanSurge, Stays, Keeps, OnError
<1>3. CASE Retire(w)
  <2>1. Cardinality(Live) >= thr[w].m.want + 1
    BY <1>0, <1>3, RetireDoes DEF CountedFor
  <2>2. CASE Fails(w)
    BY <1>1, <2>2 DEF Fails, Keeps, OnError
  <2>3. CASE /\ thr[w].old \in Ids => Removes(thr[w].old)
             /\ thr[w].old \notin Ids => UNCHANGED ctrs
             /\ Keeps(w) /\ thr'[w].pc = "roll"
    <3>1. Cardinality(Live') >= Cardinality(Live) - 1 /\ Cardinality(Live') \in Nat
      <4>1. CASE thr[w].old \in Ids
        BY <1>0, <2>1, <2>3, <4>1, RemoveCounts
      <4>2. CASE Live' = Live
        BY <1>0, <4>2
      <4> QED
        BY <2>3, <4>1, <4>2 DEF Live
    <3> QED
      BY <1>0, <2>1, <2>3, <3>1 DEF CountedFor, Keeps, Same
  <2> QED
    BY <1>0, <1>3, <2>2, <2>3, RetireDoes
<1>4. CASE Respawn(w)
  <2>1. ASSUME NEW i \in Ids, SpawnsFor(w, i), Stays(w), thr'[w].pc = "roll"
        PROVE  CountedFor(w)' /\ Cardinality(Live') >= thr[w].m.want
    BY <1>0, <2>1, SpawnCounts DEF Stays, Keeps, Same, CountedFor
  <2>2. CASE Fails(w)
    BY <1>1, <2>2 DEF Fails, Keeps, OnError
  <2> QED
    BY <1>0, <1>4, <2>1, <2>2, RespawnDoes
<1> QED
  BY <1>2, <1>3, <1>4

\* The other steps of an apply.
LEMMA ApplyCounts ==
  ASSUME Surge, IInv, NEW w \in Workers, WorkerRole(thr[w]), thr[w].op = "apply", CountedFor(w),
         ReconcileStep(w), ~ScheduleRetry(w), thr'[w].op = "apply"
  PROVE  CountedFor(w)'
<1> USE DEF At, Settled
<1>0. w \in Threads
  BY Apart
<1>1. CASE Scale(w) \/ Prune(w) \/ RollNext(w) \/ Retire(w) \/ Respawn(w)
  BY <1>1, ScaleCounts, PruneCounts, RollCounts
<1>2. CASE Outcome(w) \/ GiveUp(w)
  BY <1>0, <1>2, OutcomeDoes, GiveUpDoes DEF Idle
<1>3. CASE Retry(w) \/ ListDoomed(w) \/ RemoveNext(w)
  BY <1>0, <1>3, RetryDoes, ListDoomedDoes, RemoveNextDoes DEF WorkerRole, ApplyPcs, Rolling
<1>4. CASE LinkEnv(w)
  BY <1>0, <1>4, LinkDoes DEF CountedFor, Stays, Keeps
<1>5. CASE ListLive(w)
  BY <1>0, <1>5, ListDoes DEF Live, CountedFor, Fails, OnError
<1>6. CASE Decide(w)
  BY <1>0, <1>6, DecideDoes DEF Live, CountedFor
<1>7. CASE StampNew(w) \/ Relist(w) \/ Drift(w)
  <2>1. Live' = Live /\ thr[w].pc \in Settled /\ thr'[w].m = thr[w].m
    BY <1>0, <1>7, StampNewDoes, RelistDoes, DriftDoes DEF Live, Stays, Keeps, Same, Fails
  <2>2. thr'[w].pc \in {"relist", "drift", "rollEnv", "roll", "failed", "record"}
    BY <1>0, <1>7, StampNewDoes, RelistDoes, DriftDoes DEF Fails, OnError
  <2> QED
    BY <2>1, <2>2 DEF CountedFor
<1>8. CASE StampRolled(w) \/ RollEnv(w) \/ RecordRelease(w) \/ Publish(w)
  <2>1. Live' = Live /\ thr[w].pc \in Settled /\ thr'[w].m = thr[w].m
    <3>1. CASE StampRolled(w)
      BY <1>0, <3>1, StampRolledDoes DEF Live, Same
    <3>3. CASE RollEnv(w)
      BY <1>0, <3>3, RollEnvDoes DEF Live, Keeps, Same
    <3>2. CASE RecordRelease(w) \/ Publish(w)
      BY <1>0, <3>2, RecordDoes, PublishDoes DEF Live, Stays, Keeps, Same
    <3> QED
      BY <1>8, <3>1, <3>2, <3>3
  <2>2. thr'[w].pc \in {"rollEnv", "roll", "record", "publish", "ok", "again"}
    BY <1>0, <1>8, StampRolledDoes, RollEnvDoes, RecordDoes, PublishDoes
  <2> QED
    BY <2>1, <2>2 DEF CountedFor
<1> QED
  BY <1>1, <1>2, <1>3, <1>4, <1>5, <1>6, <1>7, <1>8 DEF ReconcileStep

\* A worker whose operation goes on has not changed hands.
LEMMA OthersWorkers ==
  ASSUME IInv, Roles, NEW u \in Threads, Works(u), NEW w \in Workers, w # u, thr'[w].op # "none"
  PROVE  thr'[w] = thr[w]
BY WorksThreads, Apart DEF Turns, Sleeps

LEMMA CountedKept ==
  ASSUME Surge, Waits \/ LoopOnly, IInv, CalmInv, Counted, [Next]_vars
  PROVE  Counted'
<1>0. Solo /\ Roles /\ Workers \subseteq Threads /\ Loop \in Workers
  BY SoloFrom, Apart DEF CalmInv
<1>1. CASE LoopStep
  <2>1. Turns(Loop) /\ Live' = Live
    BY <1>0, <1>1, ListAllDoes, NextEventDoes DEF LoopStep, OpenWatch, Turns, Live
  <2>2. thr'[Loop] = thr[Loop] \/ thr'[Loop] = Idle \/ \E m \in Event : TakesUp(Loop, m)
    BY <1>1, ListAllDoes, NextEventDoes DEF IInv, TypeOK, LoopStep, OpenWatch, Event
  <2>3. ASSUME NEW w \in Workers, thr'[w].op = "apply" PROVE CountedFor(w)'
    BY <2>1, <2>3, <1>0, <2>2, TakesUpCounted DEF Counted, CountedFor, At, Idle, Turns
  <2> QED
    BY <2>3 DEF Counted
<1>2. ASSUME NEW u \in Threads, Works(u), NEW w \in Workers, thr'[w].op = "apply"
      PROVE  CountedFor(w)'
  <2>1. CASE u # w
    BY <1>0, <1>2, <2>1, OthersWorkers, Untouched DEF Solo, Touches, Live, Counted, CountedFor, At
  <2>2. CASE u = w
    <3>1. WorkerRole(thr[w]) /\ ReconcileStep(w)
      BY <1>0, <1>2, <2>2, WorkersServeNobody DEF Roles, Works
    <3>2. ~ScheduleRetry(w)
      BY <1>0, <1>2, ScheduleRetryDoes DEF Sleeps, Idle
    <3>3. CASE thr[w].op = "apply"
      BY <1>2, <3>1, <3>2, <3>3, ApplyCounts DEF Counted
    <3>4. CASE thr[w].op # "apply"
      <4>1. Retry(w) \/ Outcome(w) \/ ListDoomed(w) \/ RemoveNext(w)
        BY <3>1, <3>2, <3>4
           DEF WorkerRole, ReconcileStep, GiveUp, LinkEnv, ListLive, Decide, Scale, Prune, StampNew, Relist,
               Drift, StampRolled, RollEnv, RecordRelease, Publish, RollNext, Retire, Respawn, At
      <4>2. CASE Outcome(w)
        BY <1>0, <1>2, <4>2, OutcomeDoes DEF Idle
      <4>3. CASE ListDoomed(w) \/ RemoveNext(w)
        BY <1>0, <1>2, <3>4, <4>3, ListDoomedDoes, RemoveNextDoes DEF Fails, Stays, Keeps, Same
      <4>4. CASE Retry(w)
        BY <1>0, <1>2, <4>4, RetryDoes, TakesUpCounted DEF Idle
      <4> QED
        BY <4>1, <4>2, <4>3, <4>4
    <3> QED
      BY <3>3, <3>4
  <2> QED
    BY <2>1, <2>2
<1>3. CASE Operator
  BY <1>0, <1>3, OperatorDoes, Apart DEF Begins, Turns, Live, Counted, CountedFor, At
<1>4. CASE Crash
  BY <1>0, <1>4 DEF Crash, Counted, Idle
<1>5. CASE UNCHANGED vars
  BY <1>5 DEF vars, Counted, CountedFor, At, Live
<1> QED
  BY <1>1, <1>2, <1>3, <1>4, <1>5 DEF Next, Works, Counted

LEMMA CalmInit == ASSUME Init PROVE CalmInv /\ Counted
<1>1. /\ \A t \in Threads : thr[t] = Idle /\ At(t, "idle")
      /\ chan = <<>> /\ phase = "replay"
  BY DEF Init, At, Idle
<1>2. Roles /\ Asked /\ Counted
  BY <1>1, IdleRoles, Apart DEF Roles, Asked, Counted, Idle
<1>3. OneAtATime
  BY <1>1, Apart DEF OneAtATime
<1> QED
  BY <1>2, <1>3 DEF CalmInv

LEMMA CalmKept == ASSUME IInv, CalmInv, [Next]_vars PROVE CalmInv'
BY RolesKept, AskedKept, OneAtATimeKept DEF CalmInv, Waits

\* A removal is an apply's, in its scale-down or its roll.
LEMMA RemovalsLeaveEnough ==
  ASSUME Surge, Waits \/ LoopOnly, IInv, CalmInv, Counted, [Next]_vars, NEW t \in Workers,
         thr[t].op = "apply", thr'[t] # thr[t], \E i \in Live : ctrs'[i] = None
  PROVE  Cardinality(Live') >= thr[t].m.want
<1>0. Solo /\ Roles /\ t \in Threads /\ WorkerRole(thr[t]) /\ Live \subseteq Ids
  BY SoloFrom, Apart DEF CalmInv, Roles, Live
<1>1. ~UNCHANGED ctrs
  BY DEF Live
<1>2. PICK u \in Threads : Works(u)
  BY <1>1, ListAllDoes, NextEventDoes, OperatorDoes DEF LoopStep, OpenWatch, Crash, vars, Next, Works
<1>3. u = t
  <2>1. Touches(u)
    BY <1>0, <1>1, <1>2, Untouched
  <2> QED
    BY <1>0, <2>1 DEF Solo, Touches
<1>4. ReconcileStep(t) /\ CountedFor(t)
  BY <1>0, <1>2, <1>3, WorkersServeNobody DEF Works, Counted
<1>5. Scale(t) \/ Prune(t) \/ RollNext(t) \/ Retire(t) \/ Respawn(t)
  <2>1. ~RemoveNext(t)
    BY <1>0, RemoveNextDoes DEF WorkerRole, ApplyPcs, Rolling, At
  <2> QED
    BY <1>1, <1>4, <2>1
       DEF ReconcileStep, Outcome, GiveUp, ScheduleRetry, Retry, LinkEnv, ListLive, Decide, StampNew, Relist,
           Drift, StampRolled, RollEnv, RecordRelease, Publish, ListDoomed, DockerFails
<1>6. ~Scale(t)
  <2>1. SUFFICES ASSUME Scale(t) PROVE FALSE
    OBVIOUS
  <2>2. ASSUME NEW i \in Ids, SpawnsFor(t, i) PROVE FALSE
    BY <1>0, <2>2, SpawnCounts DEF Live
  <2> QED
    BY <1>0, <1>1, <2>1, <2>2, ScaleDoes DEF Fails
<1> QED
  BY <1>0, <1>4, <1>5, <1>6, PruneCounts, RollCounts

\* With surge, no removal by the loop or by a retry leaves fewer replicas than
\* the manifest it applies wants (pruneExtraReplicas, rollingReplaceReplicas):
\* where operators wait for what is under way and roll nothing back, and where
\* nothing but the loop works on the replicas.  Another roll or another
\* scale-down beside it, by a retry, a Restart, a release or a rollback, is what
\* the theorem has to exclude, each having a listing of its own, and so is a
\* start, which removes the replica it is to renew.
THEOREM KeepsEnough ==
  ASSUME Surge,
         \/ Patient /\ "rollback" \notin Ops
         \/ Retries = {} /\ Ops \cap {"restart", "release", "rollback", "start"} = {}
  PROVE  Spec => NeverBelowWant
<1>0. Waits \/ LoopOnly
  BY DEF Waits, LoopOnly, May
<1>1. Init => IInv /\ CalmInv /\ Counted
  BY InitTyped, CalmInit
<1>2. IInv /\ CalmInv /\ Counted /\ [Next]_vars => (IInv /\ CalmInv /\ Counted)'
  BY <1>0, NextTyped, CalmKept, CountedKept
<1>3. IInv /\ CalmInv /\ Counted /\ [Next]_vars =>
        [\A t \in {Loop} \cup Retries :
           thr[t].op = "apply" /\ thr'[t] # thr[t] /\ (\E i \in Live : ctrs'[i] = None)
             => Cardinality(Live') >= thr[t].m.want]_vars
  BY <1>0, RemovalsLeaveEnough DEF Workers
<1> QED
  BY <1>1, <1>2, <1>3, PTL DEF Spec, NeverBelowWant

-----------------------------------------------------------------------------
(* What patient operators find once the reconciler rests.                  *)

\* The reconciler follows the store: what it applies, and what it will be
\* told of, is what is desired.
Following ==
  /\ \A w \in Workers : thr[w].op = "apply" => thr[w].m = desired
  /\ \A w \in Workers : thr[w].op = "remove" => desired = None
  /\ chan # <<>> => Head(chan) = desired

\* It has nothing left to do, and reported no error.
Resting == /\ desired # None /\ phase # "replay" /\ chan = <<>> /\ (status # None => ~status.err)
           /\ \A w \in Workers : At(w, "idle")

\* A restart or a release that has spawned a replacement has one to spare.
Enough == Resting => /\ Cardinality(Live) >= desired.want
                     /\ \A t \in Threads : At(t, "await") => Cardinality(Live) >= desired.want + 1

LEMMA FollowingKept ==
  ASSUME Patient, ~May("rollback"), IInv, Roles, Asked, OneAtATime, Following, [Next]_vars
  PROVE  Following'
<1>0. chan \in Seq(Event) /\ Workers \cap Https = {} /\ Threads = Workers \cup Https /\ Loop \in Workers
  BY Apart DEF IInv, TypeOK
<1>1. CASE LoopStep
  <2>1. CASE NextEvent
    BY <2>1, NextEventDoes, <1>0 DEF Following, OneAtATime, Turns, TakesUp
  <2>2. CASE ListAll
    BY <2>2, ListAllDoes, <1>0 DEF Turns, Following, TakesUp, Idle
  <2>3. CASE OpenWatch
    BY <2>3 DEF OpenWatch, Following
  <2> QED
    BY <1>1, <2>1, <2>2, <2>3 DEF LoopStep
<1>2. ASSUME NEW u \in Threads, Works(u) PROVE Following'
  <2>1. ~At(u, "idle") /\ chan = <<>> /\ phase # "replay" /\ \A s \in Threads : s # u => At(s, "idle")
    BY <1>2, IdleRests DEF OneAtATime
  <2>2. ~PutTarget(u)
    BY <1>0, WorkersServeNobody DEF Roles, HttpRole, Rolling, Asked, PutTarget, At, RequestStep
  <2>3. CASE u \in Workers
    BY <2>3, WorkersServeNobody, <1>2, <2>2, WorksElse, <2>1, WorkerFollows DEF Roles, RequestStep,
       Following
  <2>4. CASE u \in Https
    <3>1. \A w \in Workers : thr'[w] = thr[w] /\ thr[w].op = "none"
      BY <1>0, <1>2, <2>1, <2>4, WorksThreads DEF Turns, Roles, WorkerRole, ApplyPcs, Rolling, At
    <3>2. CASE Put(u)
      BY <2>1, <2>4, <3>2, PutDoes, EmitDoes, <3>1 DEF OneAtATime, Following
    <3>3. CASE UNCHANGED <<desired, chan>>
      BY <2>1, <3>1, <3>3 DEF Following
    <3> QED
      BY <1>2, <2>2, <3>2, <3>3, WorksElse
  <2> QED
    BY <1>0, <2>3, <2>4
<1>3. CASE Operator
  <2>1. Quiet
    BY <1>3, OperatorDoes
  <2>2. \A w \in Workers : thr[w].op = "none"
    BY <1>0, <2>1 DEF Quiet, Roles, WorkerRole, ApplyPcs, Rolling, At
  <2>3. CASE UNCHANGED thr /\ Emit(desired')
    BY <2>1, <2>3, EmitDoes, <2>2 DEF Quiet, Following
  <2>4. ASSUME NEW t \in Https, Begins(t) PROVE Following'
    BY <1>0, <2>4 DEF Begins, Turns, Following
  <2> QED
    BY <1>3, <2>3, <2>4, OperatorDoes
<1>4. CASE Crash
  BY <1>0, <1>4 DEF Crash, Following, Idle
<1>5. CASE UNCHANGED vars
  BY <1>5 DEF vars, Following
<1> QED
  BY <1>1, <1>2, <1>3, <1>4, <1>5 DEF Next, Works

\* A restart or a release: what it leaves of the error, and of the replicas.
LEMMA ErrorStays ==
  ASSUME IInv, Roles, Asked, ~May("rollback"), NEW u \in Https, Works(u), status' # None => ~status'.err
  PROVE  status # None => ~status.err
<1>0. u \in Threads /\ HttpRole(thr[u]) /\ thr[u].op # "rollback" /\ thr[u].pc # "ok"
  BY Apart DEF Roles, Asked, HttpRole, Rolling
<1>1. CASE ReleaseDone(u)
  BY <1>0, <1>1, ReleaseDoneDoes, BlobType, RecordedType, NoneIsNoRecord DEF IInv, Equipped, At, NoManifest,
     NeedsBuild, Recorded, Status, Blob
<1>2. CASE UNCHANGED status
  BY <1>2
<1>3. CASE ReconcileStep(u)
  BY <1>0, <1>2, <1>3, HttpReconciles, LinkDoes, ScaleDoes, PruneDoes, RollNextDoes, RetireDoes, RespawnDoes
     DEF Roles
<1>4. CASE RequestStep(u)
  BY <1>0, <1>1, <1>2, <1>4 DEF AppendRecord, StampBack, HttpRole, Rolling, At, RequestStep, Build,
     SwapCurrent, Materialize, FindAffected, Put, Leave, ListRestart, Commands, ListRelease, PutTarget, Retag,
     ListExtra, ListRolled, Grow, Restamp, ReadFrozen, WriteFrozen, Discard, DockerFails
<1> QED
  BY <1>3, <1>4 DEF Works

\* Only a roll awaits a replacement.
LEMMA RequestNotAwait ==
  ASSUME IInv, NEW u \in Threads, HttpRole(thr[u]), thr[u].op \notin {"rollback", "apply", "remove"},
         RequestStep(u)
  PROVE  thr'[u].pc # "await"
BY BuildDoes, SwapDoes, MaterializeDoes, FindDoes, PutDoes, LeaveDoes, ListRestartDoes, CommandsDoes,
   ListReleaseDoes, ReleaseDoneDoes, PutTargetDoes, AppendRecordDoes, RetagDoes, ListExtraDoes, ListRolledDoes,
   GrowDoes, RestampDoes, StampBackDoes, ReadFrozenDoes, WriteFrozenDoes, DiscardDoes
   DEF Rests, Idle, ListsFor, Fails, OnError, RequestStep

LEMMA RequestCounts ==
  ASSUME Surge, IInv, Roles, Asked, ~May("rollback"), ~May("start"), NEW u \in Https, Works(u)
  PROVE  \/ Live' = Live /\ thr'[u].pc # "await"
         \/ Cardinality(Live') = Cardinality(Live) + 1
         \/ At(u, "await") /\ thr'[u].pc # "await" /\ Cardinality(Live') >= Cardinality(Live) - 1
<1>0. /\ u \in Threads /\ HttpRole(thr[u]) /\ thr[u].op \notin {"rollback", "apply", "remove", "start"}
      /\ Cardinality(Live) \in Nat
  BY Apart, LiveFinite DEF Roles, Asked, HttpRole, Rolling
<1>1. ASSUME NEW i \in Ids, SpawnsFor(u, i) PROVE Cardinality(Live') = Cardinality(Live) + 1
  BY <1>0, <1>1, SpawnCounts
<1>2. CASE Fails(u)
  BY <1>0, <1>2 DEF Fails, OnError, Live
<1>3. CASE RollNext(u)
  BY <1>0, <1>3, RollNextDoes, <1>1, <1>2 DEF Live, HttpRole, Rolling, At, CanSurge, OnError
<1>4. CASE Retire(u)
  <2>1. CASE thr[u].old \in Ids /\ Removes(thr[u].old)
    BY <1>0, <1>2, <1>4, <2>1, RemoveCounts, RetireDoes
  <2>2. CASE UNCHANGED ctrs
    <3>1. Live' = Live
      BY <2>2 DEF Live
    <3> QED
      BY <1>0, <1>2, <1>4, <3>1, RetireDoes
  <2> QED
    BY <1>0, <1>2, <1>4, <2>1, <2>2, RetireDoes
<1>5. CASE Respawn(u)
  BY <1>0, <1>1, <1>2, <1>5, RespawnDoes
<1>6. CASE LinkEnv(u)
  BY <1>0, <1>6, LinkDoes DEF Live
<1>9. ~Discard(u)
  BY <1>0 DEF HttpRole, Rolling, Discard, At
<1>7. CASE RequestStep(u)
  BY <1>7, <1>0, <1>9, RequestNotAwait DEF RequestStep, Build, SwapCurrent, Materialize, FindAffected, Put, Leave,
     ListRestart, Commands, ListRelease, ReleaseDone, PutTarget, AppendRecord, Retag, ListExtra, ListRolled,
     Grow, Restamp, StampBack, ReadFrozen, WriteFrozen, DockerFails, Live
<1>8. ~Scale(u) /\ ~Prune(u)
  BY <1>0 DEF HttpRole, Rolling, Scale, Prune, At
<1> QED
  BY <1>0, <1>3, <1>4, <1>5, <1>6, <1>7, <1>8, HttpReconciles DEF Works

LEMMA EnoughKept ==
  ASSUME Surge, Patient, ~May("rollback"), ~May("start"), ~May("etcd"), IInv, CalmInv, Counted, Following, Enough, [Next]_vars
  PROVE  Enough'
<1> USE DEF At
<1>0. /\ Workers \cap Https = {} /\ Threads = Workers \cup Https /\ Loop \in Workers
      /\ Roles /\ Asked /\ OneAtATime
  BY Apart DEF CalmInv, Waits
<1>1. CASE LoopStep
  <2>1. CASE NextEvent
    <3>1. ~Resting'
      BY <1>0, <2>1, NextEventDoes DEF Resting, TakesUp
    <3> QED
      BY <3>1 DEF Enough
  <2>2. CASE ListAll
    <3>1. ~Resting'
      BY <1>0, <2>2, ListAllDoes DEF Resting, TakesUp
    <3> QED
      BY <3>1 DEF Enough
  <2>3. CASE OpenWatch
    BY <2>3 DEF OpenWatch, Resting, Live, Enough
  <2> QED
    BY <1>1, <2>1, <2>2, <2>3 DEF LoopStep
<1>2. ASSUME NEW u \in Workers, Works(u), Resting' PROVE Enough'
  <2>1. u \in Threads /\ ~At(u, "idle") /\ \A s \in Threads : s # u => At(s, "idle")
    BY <1>0, <1>2, IdleRests DEF OneAtATime
  <2>2. thr'[u].pc = "idle" /\ ReconcileStep(u) /\ WorkerRole(thr[u])
    BY <1>0, <1>2, WorkersServeNobody DEF Resting, Roles, Works
  <2>3. UNCHANGED desired /\ desired # None
    BY <1>0, <1>2, <2>2, WorkersServeNobody, <2>1, WorksElse DEF RequestStep, Resting
  <2>4. ~ScheduleRetry(u)
    BY <2>1, ScheduleRetryDoes, <1>2 DEF Resting, Sleeps, Workers
  <2>5. ~Retry(u)
    BY <2>1, <2>2, <2>3, RetryDoes DEF TakesUp
  <2>6. Outcome(u)
    <3>1. ~GiveUp(u)
      <4>1. SUFFICES ASSUME GiveUp(u) PROVE FALSE
        OBVIOUS
      <4>2. Blob \in Status /\ status' = [Blob EXCEPT !.err = TRUE]
        BY <2>1, <4>1, GiveUpDoes, BlobType
      <4>3. status' \in Status /\ status'.err
        BY <4>2 DEF Status
      <4> QED
        BY <1>2, <4>3, NoneIsNoRecord DEF Resting
    <3>2. ~(LinkEnv(u) \/ ListLive(u) \/ Decide(u) \/ Scale(u) \/ Prune(u) \/ StampNew(u) \/ Relist(u))
      BY <2>1, <2>2, LinkDoes, ListDoes, DecideDoes, ScaleDoes, PruneDoes, StampNewDoes, RelistDoes
         DEF Fails, OnError, AfterScale, AfterPrune
    <3>3. ~(Drift(u) \/ StampRolled(u) \/ RollEnv(u) \/ RecordRelease(u) \/ Publish(u))
      BY <2>1, <2>2, DriftDoes, StampRolledDoes, RollEnvDoes, RecordDoes, PublishDoes DEF Stays
    <3>4. ~(RollNext(u) \/ Retire(u) \/ Respawn(u))
      BY <2>1, <2>2, RollNextDoes, RetireDoes, RespawnDoes DEF WorkerRole, Rolling, Fails, OnError
    <3>5. ~(ListDoomed(u) \/ RemoveNext(u))
      BY <2>1, <2>2, ListDoomedDoes, RemoveNextDoes DEF Fails, OnError
    <3> QED
      BY <2>2, <2>4, <2>5, <3>1, <3>2, <3>3, <3>4, <3>5 DEF ReconcileStep
  <2>7. thr[u].pc = "ok" /\ UNCHANGED ctrs
    <3>1. /\ thr[u].pc \in {"ok", "failed"} /\ UNCHANGED ctrs
          /\ status' = [Blob EXCEPT !.err = (thr[u].pc = "failed")] /\ Blob \in Status
      BY <2>1, <2>6, OutcomeDoes, BlobType
    <3>2. status' \in Status /\ status'.err = (thr[u].pc = "failed")
      BY <3>1 DEF Status
    <3> QED
      BY <1>2, <3>1, <3>2, NoneIsNoRecord DEF Resting
  <2>8. thr[u].op = "apply" /\ thr[u].m = desired
    BY <1>2, <2>3, <2>2, <2>7 DEF Following, WorkerRole
  <2>9. Cardinality(Live') >= desired'.want
    BY <1>2, <2>3, <2>7, <2>8 DEF Counted, CountedFor, Settled, Live
  <2>10. \A t \in Threads : thr'[t].pc # "await"
    BY <2>1, <2>2, <2>6, OutcomeDoes DEF Turns
  <2> QED
    BY <2>9, <2>10 DEF Enough
<1>3. ASSUME NEW u \in Https, Works(u), Resting' PROVE Enough'
  <2>1. /\ u \in Threads /\ ~At(u, "idle") /\ chan = <<>> /\ phase # "replay"
        /\ \A s \in Threads : s # u => At(s, "idle")
    BY <1>0, <1>3, IdleRests DEF OneAtATime
  <2>2. Turns(u) /\ UNCHANGED phase
    BY <1>0, <1>3, <2>1, WorksThreads, WorksElse
  <2>3. UNCHANGED desired
    <3>1. ~PutTarget(u)
      BY <1>0 DEF Roles, HttpRole, Rolling, Asked, PutTarget
    <3>2. ~Put(u)
      BY <1>0, <1>3, <2>1, PutDoes, EmitDoes DEF OneAtATime, Resting
    <3> QED
      BY <1>3, <2>1, <3>1, <3>2, WorksElse
  <2>4. Resting /\ desired \in Manifests /\ desired.want \in Nat /\ Cardinality(Live) \in Nat
    BY <1>0, <1>3, ErrorStays, <2>1, <2>3, Wants, LiveFinite DEF Resting, IInv, TypeOK
  <2>5. \A t \in Threads : t # u => thr'[t].pc # "await"
    BY <2>1, <2>2 DEF Turns
  <2>6. CASE Live' = Live /\ thr'[u].pc # "await"
    BY <2>3, <2>4, <2>5, <2>6 DEF Enough
  <2>7. CASE Cardinality(Live') = Cardinality(Live) + 1
    BY <2>3, <2>4, <2>5, <2>7 DEF Enough
  <2>8. CASE At(u, "await") /\ thr'[u].pc # "await" /\ Cardinality(Live') >= Cardinality(Live) - 1
    BY <2>1, <2>4, <2>8, LiveFinitePrime, <2>3, <2>5 DEF Enough
  <2> QED
    BY <1>0, <1>3, <2>6, <2>7, <2>8, RequestCounts
<1>4. CASE Operator
  <2>1. Quiet /\ UNCHANGED <<phase, ctrs, status>>
    BY <1>4, OperatorDoes
  <2>2. CASE UNCHANGED thr /\ Emit(desired')
    BY <2>1, <2>2, EmitDoes DEF Quiet, Enough, Resting
  <2>3. ASSUME NEW t \in Https, Begins(t) PROVE Enough'
    BY <2>1, <2>3, <1>0 DEF Begins, Live, Turns, Quiet, Resting, Enough
  <2> QED
    BY <1>4, <2>2, <2>3, OperatorDoes
<1>5. CASE Crash
  BY <1>5 DEF Crash, Enough, Resting
<1>6. CASE UNCHANGED vars
  BY <1>6 DEF vars, Enough, Resting, Live
<1>7. CASE ~Resting'
  BY <1>7 DEF Enough
<1> QED
  BY <1>0, <1>1, <1>2, <1>3, <1>4, <1>5, <1>6, <1>7 DEF Next, Works

\* With surge, once all is quiet and no error is reported there are as many
\* replicas as the manifest wants, or more where a failed scale-down was only
\* logged (ensureReplicaCount, pruneExtraReplicas, rollingReplaceReplicas):
\* where operators wait, whatever fails and wherever the host goes down.  A
\* rollback scales down by a listing of its own, beside the loop; a start
\* removes its replica before it puts the manifest back; and a retry whose read
\* of the manifest fails gives up without a word (retry.go).
THEOREM ReachesEnough ==
  ASSUME Surge, Patient, {"rollback", "start", "etcd"} \cap Ops = {}
  PROVE  Spec => []EnoughReached
<1>0. ~May("rollback") /\ ~May("start") /\ ~May("etcd") /\ Waits
  BY DEF Waits, May
<1>1. Init => IInv /\ CalmInv /\ Counted /\ Following /\ Enough
  BY Apart, InitTyped, CalmInit DEF Init, Following, Enough, Resting, Idle
<1>2. IInv /\ CalmInv /\ Counted /\ Following /\ Enough /\ [Next]_vars =>
        (IInv /\ CalmInv /\ Counted /\ Following /\ Enough)'
  BY <1>0, NextTyped, CalmKept, CountedKept, FollowingKept, EnoughKept DEF CalmInv
<1>3. Enough => EnoughReached
  BY Apart DEF Enough, Resting, EnoughReached, Reported, Quiet
<1> QED
  BY <1>1, <1>2, <1>3, PTL DEF Spec

-----------------------------------------------------------------------------
(* Where nothing fails and only the loop works on the replicas.            *)

\* The first n of a finite set are no more than n: their ranks differ.
LEMMA FirstAtMost ==
  ASSUME NEW S, IsFiniteSet(S), S \subseteq Nat, NEW n \in Nat
  PROVE  Cardinality(First(S, n)) <= n
<1> DEFINE F == First(S, n)
           Below(i) == {j \in S : j < i}
           rank == [i \in F |-> Cardinality(Below(i))]
<1>1. F \subseteq S /\ IsFiniteSet(F) /\ Cardinality(F) \in Nat
  BY FS_Subset, FS_CardinalityType DEF First
<1>2. \A i \in S : IsFiniteSet(Below(i)) /\ Cardinality(Below(i)) \in Nat
  BY FS_Subset, FS_CardinalityType
<1>3. F \subseteq Nat /\ \A i \in F : i \in S /\ Cardinality(Below(i)) < n
  BY <1>1 DEF First
<1>4. rank \in [F -> 0 .. n - 1]
  <2>1. \A i \in F : Cardinality(Below(i)) \in 0 .. n - 1
    <3> HIDE DEF F, Below
    <3> QED
      BY <1>2, <1>3
  <2> QED
    BY <2>1
<1>5. ASSUME NEW i \in F, NEW k \in F, i < k PROVE rank[i] # rank[k]
  <2>1. i \in S /\ k \in S /\ Below(i) \cup {i} \subseteq Below(k) /\ i \notin Below(i)
    <3>1. i \in S /\ k \in S /\ i \in Nat /\ k \in Nat /\ i < k
      BY <1>3, <1>5
    <3>2. ~(i < i) /\ \A j \in S : j < i => j < k
      BY <3>1
    <3>3. i \notin Below(i)
      BY <3>2
    <3>4. i \in Below(k)
      BY <3>1
    <3>5. Below(i) \subseteq Below(k)
      BY <3>2
    <3> HIDE DEF Below
    <3> QED
      BY <3>1, <3>3, <3>4, <3>5
  <2>2. Cardinality(Below(i) \cup {i}) = Cardinality(Below(i)) + 1
    BY <1>2, <2>1, FS_AddElement
  <2>3. Cardinality(Below(i) \cup {i}) <= Cardinality(Below(k))
    BY <1>2, <2>1, FS_Subset
  <2> HIDE DEF Below
  <2>4. rank[i] = Cardinality(Below(i)) /\ rank[k] = Cardinality(Below(k))
    OBVIOUS
  <2> QED
    BY <1>2, <2>1, <2>2, <2>3, <2>4
<1>6. \A i, k \in F : i # k => rank[i] # rank[k]
  <2>1. \A i, k \in F : i # k => i < k \/ k < i
    <3> HIDE DEF F
    <3> QED
      BY <1>3
  <2> HIDE DEF F, rank
  <2> QED
    BY <1>5, <2>1
<1>7. IsFiniteSet(0 .. n - 1) /\ Cardinality(0 .. n - 1) = n
  BY FS_Interval
<1> HIDE DEF F, rank
<1>8. ~(n < Cardinality(F))
  BY <1>1, <1>4, <1>6, <1>7, FS_PigeonHole
<1> QED
  BY <1>1, <1>8 DEF F

\* What pruneExtraReplicas takes, where there are enough.
LEMMA ExtrasExact ==
  ASSUME NEW S, IsFiniteSet(S), S \subseteq Nat, NEW n \in Nat, Cardinality(S) >= n
  PROVE  Cardinality(S) = n + Cardinality(Extras(S, n))
<1>1. Extras(S, n) = S \ First(S, n) /\ First(S, n) \subseteq S
  BY DEF Extras, First
<1>2. IsFiniteSet(First(S, n)) /\ Cardinality(First(S, n)) \in Nat /\ Cardinality(S) \in Nat
  BY <1>1, FS_Subset, FS_CardinalityType
<1>3. Cardinality(First(S, n)) = n
  <2>1. Cardinality(First(S, n)) <= n
    BY FirstAtMost
  <2>2. Cardinality(First(S, n)) >= n
    BY FirstEnough
  <2> QED
    BY <1>2, <2>1, <2>2
<1>4. S \cap First(S, n) = First(S, n)
  BY <1>1
<1>5. Cardinality(Extras(S, n)) = Cardinality(S) - Cardinality(First(S, n))
  BY <1>1, <1>4, FS_Difference
<1> QED
  BY <1>2, <1>3, <1>5

\* No call fails, no host goes down, and no request rolls.
Plain == Retries = {} /\ Ops \subseteq {"apply", "delete", "config", "deploy"}

\* Requests come while the loop streams; they set config or push.  No replica
\* is parked, so that a roll takes all it lists.
PlainRequests ==
  /\ frozen = {}
  /\ \A t \in Https : /\ thr[t].op \in {"none", "config", "deploy"} /\ (thr[t].op = "deploy" => May("deploy"))
                      /\ ~At(t, "idle") => phase = "watch"

LEMMA NoneParked == frozen = {} => Unfrozen = Live /\ \A S : Movable(S) = S
BY DEF Unfrozen, Movable, Live

LEMMA OperatorParks == ASSUME Operator, ~May("restart") PROVE UNCHANGED frozen
BY DEF Operator, Apply, Delete, ConfigSet, Push, Stop, Start, Restart, Release, Rollback, Request

LEMMA PlainFacts ==
  ASSUME Plain
  PROVE  /\ \A f \in {"fail", "transient", "crash", "early", "etcd", "restart", "release", "rollback",
                     "stop", "start"} : ~May(f)
         /\ Workers = {Loop} /\ Threads = {Loop} \cup Https /\ Loop \notin Https
BY ThreadsAssumption DEF Plain, May, Workers, Threads

\* A request's goroutine: what it does to the store and to the env file.
Serves(u) ==
  /\ Turns(u) /\ UNCHANGED <<phase, bucket, ctrs, status>>
  /\ \/ /\ At(u, "materialize") /\ thr'[u].pc = "find" /\ UNCHANGED <<desired, chan>>
        /\ file' = [cfg |-> bucket, full |-> FALSE]
     \/ /\ At(u, "find") /\ UNCHANGED <<file, desired, chan>>
        /\ desired = None \/ thr'[u].pc = "put"
     \/ At(u, "put") /\ UNCHANGED file /\ desired' = thr[u].m /\ chan' = Append(chan, desired')
     \/ thr[u].pc \notin {"idle", "materialize", "find", "put"} /\ UNCHANGED <<file, desired, chan>>

LEMMA PlainServes ==
  ASSUME Plain, IInv, Roles, PlainRequests, NEW u \in Https, Works(u)
  PROVE  Serves(u) /\ (img' = img \/ May("deploy"))
<1> USE DEF At
<1>0. /\ u \in Threads /\ HttpRole(thr[u]) /\ thr[u].op \in {"none", "config", "deploy"} /\ thr[u].pc # "idle"
      /\ thr[u].pc \in {"materialize", "find", "put", "build", "swap", "leave"}
      /\ phase = "watch" /\ (thr[u].op = "deploy" => May("deploy"))
  BY PlainFacts, IdleRests DEF Roles, PlainRequests, HttpRole
<1>1. RequestStep(u) /\ ~ReconcileStep(u)
  BY <1>0, HttpReconciles DEF LinkEnv, Scale, Prune, RollNext, Retire, Respawn, Works
<1>2. CASE Materialize(u) \/ Put(u)
  BY <1>0, MaterializeDoes, PutDoes, EmitDoes, <1>2 DEF Serves, Stays, Keeps, Rests, Elsewhere
<1>4. CASE FindAffected(u)
  BY <1>0, <1>4, FindDoes DEF Serves, Rests, Elsewhere, Turns
<1>3. CASE Build(u) \/ SwapCurrent(u) \/ Leave(u)
  BY <1>0, <1>3, SwapDoes, LeaveDoes, BuildDoes DEF HttpRole, Build, Serves, Stays, Keeps, Rests
<1> QED
  BY <1>0, <1>1, <1>2, <1>3, <1>4
     DEF RequestStep, ListRestart, Commands, ListRelease, ReleaseDone, PutTarget, AppendRecord, Retag,
         ListExtra, ListRolled, Grow, Restamp, StampBack, ReadFrozen, WriteFrozen, Discard

\* How a step looks from the loop: it works, it takes up an event, or it waits
\* while others bring requests.
LoopWorks == Works(Loop) /\ Turns(Loop) /\ UNCHANGED <<desired, chan, phase, bucket>> /\ ~At(Loop, "idle")
LoopWaits == /\ thr'[Loop] = thr[Loop] /\ UNCHANGED <<ctrs, status>> /\ (file' = file \/ ~file'.full)
             /\ \/ UNCHANGED <<desired, chan>> /\ (phase' = phase \/ (phase = "gap" /\ phase' = "watch"))
                \/ phase = "watch" /\ phase' = phase /\ chan' = Append(chan, desired')

LEMMA OperatorStreams ==
  ASSUME IInv, Operator
  PROVE  /\ phase = "watch" \/ May("early")
         /\ bucket' = bucket \/ \E t \in Https : thr'[t].pc = "materialize"
         /\ UNCHANGED thr \/ \E t \in Https : Begins(t) /\ (thr'[t].op = "deploy" => May("deploy"))
<1>1. CASE (\E m \in Manifests : Apply(m)) \/ Delete
  BY <1>1 DEF Apply, Delete, Request
<1>2. ASSUME NEW t \in Https, Restart(t) \/ Release(t) \/ Rollback(t)
      PROVE  phase = "watch" \/ May("early")
  BY <1>2 DEF Restart, Release, Rollback, Request
<1>3. ASSUME NEW t \in Https, Restart(t) \/ Release(t) \/ Rollback(t)
      PROVE  bucket' = bucket /\ thr'[t].op # "deploy"
  <2>1. t \in Threads
    BY Apart
  <2>2. CASE Restart(t)
    <3>1. thr'[t] = [Idle EXCEPT !.op = "restart", !.pc = "find"]
      BY <2>1, <2>2, SetDoes DEF Restart
    <3> QED
      BY <2>2, <3>1 DEF Restart, Idle
  <2>3. CASE Release(t)
    <3>1. thr'[t] = [Idle EXCEPT !.op = "release", !.pc = "commands", !.m = desired, !.img = current]
      BY <2>1, <2>3, SetDoes DEF Release
    <3> QED
      BY <2>3, <3>1 DEF Release, Idle
  <2>4. CASE Rollback(t)
    <3>1. PICK rec \in Blob.hist :
            thr'[t] = [Idle EXCEPT !.op = "rollback", !.pc = "putTarget", !.m = rec.m, !.img = rec.img, !.rid = ops']
      BY <2>1, <2>4, SetDoes DEF Rollback
    <3> QED
      BY <2>4, <3>1 DEF Rollback, Idle
  <2> QED
    BY <1>3, <2>2, <2>3, <2>4
<1>4. ASSUME NEW t \in Https, NEW b \in Builds, NEW m \in Manifests, Push(t, b, m)
      PROVE  (phase = "watch" \/ May("early")) /\ bucket' = bucket /\ May("deploy")
  BY <1>4 DEF Push, Request
<1>5. ASSUME NEW t \in Https, NEW e \in Envs, ConfigSet(t, e)
      PROVE  (phase = "watch" \/ May("early")) /\ thr'[t].pc = "materialize" /\ thr'[t].op = "config"
  <2>1. t \in Threads
    BY Apart
  <2>2. thr'[t] = [Idle EXCEPT !.op = "config", !.pc = "materialize"]
    BY <1>5, <2>1, SetDoes DEF ConfigSet
  <2> QED
    BY <1>5, <2>2 DEF ConfigSet, Request, Idle
<1>6. ASSUME NEW t \in Https, NEW i \in Ids, Stop(t, i) \/ Start(t, i)
      PROVE  (phase = "watch" \/ May("early")) /\ bucket' = bucket /\ thr'[t].op # "deploy"
  <2>1. t \in Threads
    BY Apart
  <2>2. \/ thr'[t] = [Idle EXCEPT !.op = "stop", !.pc = "readFrozen", !.todo = {i}]
        \/ thr'[t] = [Idle EXCEPT !.op = "start", !.pc = "readFrozen", !.todo = {i}]
    BY <1>6, <2>1, SetDoes DEF Stop, Start
  <2>3. thr'[t].op # "deploy"
    BY <2>2 DEF Idle
  <2> QED
    BY <1>6, <2>3 DEF Stop, Start, Request
<1> QED
  BY <1>1, <1>2, <1>3, <1>4, <1>5, <1>6, BeginsDoes DEF Operator

LEMMA WorksIsLoopWorks ==
  ASSUME Plain, IInv, Roles, Works(Loop)
  PROVE  LoopWorks /\ img' = img /\ UNCHANGED frozen
BY Apart, WorksThreads, WorkersServeNobody, WorksElse, WorksFrozen, IdleRests DEF Plain, ScheduleRetry, Roles,
   RequestStep, LoopWorks

LEMMA PlainSteps ==
  ASSUME Plain, IInv, Roles, PlainRequests, [Next]_vars
  PROVE  /\ Roles' /\ PlainRequests'
         /\ LoopWorks \/ NextEvent \/ ListAll \/ LoopWaits
         /\ img' = img \/ May("deploy")
<1>0. /\ ~May("crash") /\ ~May("early") /\ Threads = {Loop} \cup Https /\ Loop \notin Https
      /\ Workers = {Loop} /\ Retries = {} /\ Roles' /\ ~May("restart") /\ ~May("release") /\ ~May("rollback")
  BY PlainFacts, RolesKept DEF Plain
<1>1. CASE LoopStep
  <2>1. UNCHANGED frozen
    BY <1>1 DEF LoopStep, OpenWatch, ListAll, NextEvent
  <2> QED
    BY <1>0, <1>1, <2>1, ListAllDoes, NextEventDoes DEF LoopStep, OpenWatch, Turns, PlainRequests, At, LoopWaits
<1>2. CASE Works(Loop)
  BY <1>2, WorksIsLoopWorks, <1>0 DEF LoopWorks, Turns, PlainRequests, At
<1>3. ASSUME NEW u \in Https, Works(u)
      PROVE  PlainRequests' /\ LoopWaits /\ (img' = img \/ May("deploy"))
  <2>1. UNCHANGED frozen
    BY <1>0, <1>3, WorksFrozen DEF Roles, HttpRole, Rolling, PlainRequests, WriteFrozen, At
  <2> QED
    BY <1>3, <2>1, PlainServes, <1>0, IdleRests, HttpKeeps DEF PlainRequests, Serves, LoopWaits, Turns, Idle, At
<1>4. CASE Operator
  <2>1. phase = "watch" /\ UNCHANGED <<phase, ctrs, img, file, status, frozen>>
    BY <1>0, <1>4, OperatorDoes, OperatorStreams, OperatorParks
  <2>2. PlainRequests'
    <3>1. CASE UNCHANGED thr
      BY <2>1, <3>1 DEF PlainRequests, At
    <3>2. ASSUME NEW t \in Https, Begins(t), thr'[t].op = "deploy" => May("deploy") PROVE PlainRequests'
      <4>1. \A s \in Https : thr'[s].op \in {"none", "config", "deploy"} /\ (thr'[s].op = "deploy" => May("deploy"))
        BY <1>0, PlainFacts, <3>2 DEF Begins, Turns, PlainRequests
      <4> QED
        BY <2>1, <4>1 DEF PlainRequests
    <3> QED
      BY <1>4, <3>1, <3>2, OperatorStreams
  <2>3. thr'[Loop] = thr[Loop] /\ (UNCHANGED <<desired, chan>> \/ chan' = Append(chan, desired'))
    BY <1>0, <1>4, <2>1, OperatorDoes, EmitDoes DEF Begins, Turns
  <2> QED
    BY <1>0, <2>1, <2>2, <2>3 DEF LoopWaits
<1>5. CASE UNCHANGED vars
  BY <1>0, <1>5 DEF vars, LoopWaits, PlainRequests, At
<1>6. ~Crash
  BY <1>0 DEF Crash
<1> QED
  BY <1>0, <1>1, <1>2, <1>3, <1>4, <1>5, <1>6 DEF Next, Works

\* What the loop was told last is what is desired.
Told ==
  /\ chan # <<>> => chan[Len(chan)] = desired /\ phase = "watch"
  /\ chan = <<>> /\ ~At(Loop, "idle") =>
       IF desired = None THEN thr[Loop].op = "remove" ELSE thr[Loop].op = "apply" /\ thr[Loop].m = desired
  /\ phase = "replay" => At(Loop, "idle")

\* A worker's operation goes on, or is over.
LEMMA LoopGoesOn ==
  ASSUME Plain, IInv, Roles, LoopWorks
  PROVE  /\ WorkerRole(thr[Loop]) /\ WorkerRole(thr'[Loop]) /\ ReconcileStep(Loop) /\ ~ScheduleRetry(Loop)
         /\ \/ Outcome(Loop) \/ GiveUp(Loop) \/ Retry(Loop)
            \/ Same(Loop) /\ thr'[Loop].pc # "idle"
<1>0. /\ Loop \in Threads /\ Loop \in Workers /\ WorkerRole(thr[Loop]) /\ Retries = {} /\ Works(Loop) /\ ~RequestStep(Loop)
  BY Apart, WorkersServeNobody DEF Plain, Roles, LoopWorks
<1>1. ReconcileStep(Loop) /\ ~ScheduleRetry(Loop)
  BY <1>0 DEF Works, ScheduleRetry
<1>2. WorkerRole(thr'[Loop])
  BY <1>0, <1>1, WorkerActs
<1> USE DEF At
<1>3. ASSUME LinkEnv(Loop) \/ ListLive(Loop) \/ Decide(Loop)
      PROVE  Same(Loop) /\ thr'[Loop].pc # "idle"
  BY <1>0, <1>3, LinkDoes, ListDoes, DecideDoes DEF Fails, Keeps, Stays, OnError
<1>4. ASSUME Scale(Loop)
      PROVE  Same(Loop) /\ thr'[Loop].pc # "idle"
  BY <1>0, <1>4, ScaleDoes DEF Fails, Keeps, OnError, AfterScale
<1>5. ASSUME Prune(Loop)
      PROVE  Same(Loop) /\ thr'[Loop].pc # "idle"
  BY <1>0, <1>5, PruneDoes DEF Fails, Keeps, OnError, AfterPrune
<1>6. ASSUME StampNew(Loop) \/ Relist(Loop)
      PROVE  Same(Loop) /\ thr'[Loop].pc # "idle"
  BY <1>0, <1>6, StampNewDoes, RelistDoes DEF Fails, Keeps, Stays, OnError
<1>7. ASSUME Drift(Loop) \/ StampRolled(Loop)
      PROVE  Same(Loop) /\ thr'[Loop].pc # "idle"
  BY <1>0, <1>7, DriftDoes, StampRolledDoes DEF Keeps
<1>8. ASSUME RollEnv(Loop) \/ RecordRelease(Loop) \/ Publish(Loop)
      PROVE  Same(Loop) /\ thr'[Loop].pc # "idle"
  BY <1>0, <1>8, RollEnvDoes, RecordDoes, PublishDoes DEF Keeps, Stays
<1>9. ASSUME RollNext(Loop)
      PROVE  Same(Loop) /\ thr'[Loop].pc # "idle"
  BY <1>0, <1>9, RollNextDoes DEF Fails, Keeps, Stays, OnError, WorkerRole, Rolling
<1>10. ASSUME Retire(Loop) \/ Respawn(Loop)
      PROVE  Same(Loop) /\ thr'[Loop].pc # "idle"
  BY <1>0, <1>10, RetireDoes, RespawnDoes DEF Fails, Keeps, Stays, OnError
<1>11. ASSUME ListDoomed(Loop) \/ RemoveNext(Loop)
      PROVE  Same(Loop) /\ thr'[Loop].pc # "idle"
  BY <1>0, <1>11, ListDoomedDoes, RemoveNextDoes DEF Fails, Keeps, Stays, Same, OnError
<1> QED
  BY <1>0, <1>1, <1>2, <1>3, <1>4, <1>5, <1>6, <1>7, <1>8, <1>9, <1>10, <1>11 DEF ReconcileStep

LEMMA LastOne ==
  ASSUME chan \in Seq(Event), chan # <<>>, Tail(chan) = <<>>
  PROVE  Head(chan) = chan[Len(chan)]
<1>1. Len(chan) \in Nat /\ Len(chan) # 0
  OBVIOUS
<1>2. Len(Tail(chan)) = Len(chan) - 1
  BY <1>1
<1>3. Len(Tail(chan)) = 0
  <2>1. Len(<<>>) = 0
    OBVIOUS
  <2> QED
    BY <2>1, Zenon
<1>4. Len(chan) = 1
  BY <1>1, <1>2, <1>3
<1> QED
  BY <1>4

LEMMA ToldKept ==
  ASSUME Plain, IInv, Roles, PlainRequests, Told, [Next]_vars
  PROVE  Told'
<1>0. chan \in Seq(Event) /\ Loop \in Threads
  BY Apart DEF IInv, TypeOK
<1>1. CASE LoopWorks
  <2>1. phase # "replay" /\ UNCHANGED <<desired, chan, phase>>
    BY <1>1 DEF LoopWorks, Told
  <2>2. CASE chan # <<>>
    BY <2>1, <2>2 DEF Told
  <2>3. CASE chan = <<>>
    BY <1>1, <2>3, LoopGoesOn, <1>0, OutcomeDoes, GiveUpDoes, <2>1 DEF Told, LoopWorks, WorkerRole,
       ApplyPcs, Rolling, Retry, At, Idle, Same
  <2> QED
    BY <2>2, <2>3
<1>2. CASE NextEvent
  BY <1>2, NextEventDoes, <1>0, LastOne DEF Told, TakesUp
<1>3. CASE ListAll
  BY <1>3, ListAllDoes DEF Told, TakesUp, Idle, At
<1>4. CASE LoopWaits
  <2>1. CASE UNCHANGED <<desired, chan>> /\ (phase' = phase \/ (phase = "gap" /\ phase' = "watch"))
    BY <1>4, <2>1 DEF LoopWaits, Told, At
  <2>2. CASE phase = "watch" /\ phase' = phase /\ chan' = Append(chan, desired')
    BY <1>0, <2>2 DEF Told
  <2> QED
    BY <1>4, <2>1, <2>2 DEF LoopWaits
<1> QED
  BY <1>1, <1>2, <1>3, <1>4, PlainSteps

\* A file that linkEnv did not write last will be written by it: an event is
\* under way.  A file of an older bucket will be written by who changed it.
Sent == ~file.full /\ desired # None =>
          chan # <<>> \/ At(Loop, "link") \/ \E t \in Https : thr[t].pc \in {"find", "put"}
Owed == file.full /\ file.cfg # bucket => \E t \in Https : At(t, "materialize")

\* Only linkEnv writes the file, at its step.
LEMMA LoopWrites ==
  ASSUME Plain, IInv, Roles, LoopWorks
  PROVE  IF At(Loop, "link") THEN LinkEnv(Loop) /\ file' = Merged ELSE file' = file
<1>0. /\ Loop \in Threads /\ ReconcileStep(Loop) /\ ~ScheduleRetry(Loop) /\ ~May("transient") /\ WorkerRole(thr[Loop])
  BY PlainFacts, LoopGoesOn, Apart
<1>1. CASE LinkEnv(Loop)
  BY <1>0, <1>1, LinkDoes
<1>2. CASE ~LinkEnv(Loop)
  BY <1>0, <1>2 DEF ReconcileStep, Outcome, GiveUp, Retry, ListLive, Decide, Scale, Prune, StampNew, Relist,
     Drift, StampRolled, RollEnv, RecordRelease, Publish, RollNext, Retire, Respawn, ListDoomed, RemoveNext, At
<1> QED
  BY <1>1, <1>2

LEMMA OwedKept ==
  ASSUME Plain, Shared, IInv, Roles, PlainRequests, Told, Sent, Owed, [Next]_vars
  PROVE  Sent' /\ Owed'
<1> USE DEF At
<1>0. /\ chan \in Seq(Event) /\ Threads = {Loop} \cup Https /\ Loop \notin Https /\ ~May("crash")
      /\ Merged.full /\ Merged.cfg = bucket
  BY PlainFacts DEF IInv, TypeOK, Merged
<1>1. CASE LoopStep
  <2>1. UNCHANGED <<desired, file, bucket>> /\ (\A t \in Https : thr'[t] = thr[t]) /\ (chan' = chan \/ NextEvent)
    BY <1>0, <1>1, ListAllDoes, NextEventDoes DEF LoopStep, OpenWatch, Turns
  <2>2. Owed'
    BY <2>1 DEF Owed
  <2>3. CASE NextEvent
    BY <2>3, NextEventDoes, <1>0, LastOne, <2>1, <2>2 DEF Told, Sent, TakesUp
  <2>4. CASE ListAll
    BY <2>1, <2>2, <2>4, ListAllDoes DEF Sent, TakesUp
  <2>5. CASE OpenWatch
    BY <2>1, <2>2, <2>5 DEF Sent, OpenWatch
  <2> QED
    BY <1>1, <2>3, <2>4, <2>5 DEF LoopStep
<1>2. CASE LoopWorks
  BY <1>0, <1>2, LoopWrites DEF LoopWorks, Turns, Sent, Owed
<1>3. ASSUME NEW u \in Https, Works(u) PROVE Sent' /\ Owed'
  <2>1. /\ UNCHANGED bucket /\ \A t \in Threads : t # u => thr'[t] = thr[t]
    BY <1>3, PlainServes DEF Serves, Turns
  <2>2. CASE thr[u].pc = "materialize" /\ thr'[u].pc = "find" /\ file' = [cfg |-> bucket, full |-> FALSE]
    BY <2>2 DEF Sent, Owed
  <2>3. CASE thr[u].pc = "find" /\ UNCHANGED <<file, desired, chan>> /\ (desired = None \/ thr'[u].pc = "put")
    BY <1>0, <2>1, <2>3 DEF Sent, Owed
  <2>4. CASE thr[u].pc = "put" /\ UNCHANGED file /\ chan' = Append(chan, desired')
    BY <1>0, <2>4, <2>1 DEF Sent, Owed
  <2>5. CASE thr[u].pc \notin {"idle", "materialize", "find", "put"} /\ UNCHANGED <<file, desired, chan>>
    BY <1>0, <2>1, <2>5 DEF Sent, Owed
  <2> QED
    BY <1>3, <2>2, <2>3, <2>4, <2>5, PlainServes DEF Serves
<1>4. CASE Operator
  <2>1. UNCHANGED file /\ phase = "watch"
    BY <1>4, OperatorDoes, OperatorStreams, PlainFacts
  <2>2. CASE UNCHANGED <<thr, bucket>> /\ Emit(desired')
    BY <1>0, <2>1, <2>2, EmitDoes DEF Sent, Owed
  <2>3. ASSUME NEW u \in Https, Begins(u) PROVE Sent' /\ Owed'
    BY <2>3, <1>0, <2>1, <1>4, OperatorStreams DEF Begins, Turns, Sent, Owed
  <2> QED
    BY <1>4, <2>2, <2>3, OperatorDoes
<1>5. CASE UNCHANGED vars
  BY <1>5 DEF vars, Sent, Owed
<1>6. Works(Loop) => LoopWorks
  BY <1>0, WorksIsLoopWorks
<1> QED
  BY <1>0, <1>1, <1>2, <1>3, <1>4, <1>5, <1>6 DEF Next, Works, Crash

\* What the loop has counted, exactly, and what its listing still names.
Scaled == {"stampNew", "relist", "drift", "roll", "stampRolled", "rollEnv", "record", "publish", "ok"}

ExactFor(w) ==
  /\ thr[w].pc \in {"link", "list", "decide"} => thr[w].made = {}
  /\ At(w, "decide") => thr[w].live = Live
  /\ At(w, "scale") => /\ Live = thr[w].live \cup thr[w].made /\ thr[w].live \cap thr[w].made = {}
                       /\ thr[w].made = {} \/ Cardinality(Live) <= thr[w].m.want
  /\ At(w, "prune") => thr[w].todo \subseteq Live /\ Cardinality(Live) = thr[w].m.want + Cardinality(thr[w].todo)
  /\ thr[w].pc \in Scaled => Cardinality(Live) = thr[w].m.want
  /\ At(w, "drift") => thr[w].todo = Live \ thr[w].made
  /\ At(w, "roll") => thr[w].todo \subseteq Live
  /\ At(w, "await") => /\ Cardinality(Live) = thr[w].m.want + 1 /\ thr[w].old \in Live
                       /\ thr[w].todo \subseteq Live \ {thr[w].old}
  /\ At(w, "respawn") => Cardinality(Live) = thr[w].m.want - 1 /\ thr[w].todo \subseteq Live

Exact == /\ thr[Loop].op = "apply" => ExactFor(Loop)
         /\ thr[Loop].op = "remove" => /\ At(Loop, "remove") => thr[Loop].todo = Live
                                       /\ At(Loop, "ok") => Live = {}
         /\ thr[Loop].pc \notin {"again", "failed", "sleep"}

\* A roll of the loop goes on, or ends with nothing in hand.
LEMMA LoopRolls ==
  ASSUME Plain, IInv, WorkerRole(thr[Loop]), thr[Loop].op = "apply",
         RollNext(Loop) \/ Retire(Loop) \/ Respawn(Loop)
  PROVE  /\ thr[Loop].pc \in Rolling /\ thr'[Loop].ret = thr[Loop].ret /\ Same(Loop) /\ thr'[Loop].made = thr[Loop].made
         /\ \/ thr'[Loop].pc \in Rolling
            \/ /\ At(Loop, "roll") /\ thr[Loop].todo = {} /\ UNCHANGED ctrs
               /\ thr'[Loop].pc = thr[Loop].ret /\ thr[Loop].ret \in {"stampRolled", "record"}
<1> USE DEF At
<1>0. Loop \in Threads /\ ~May("fail") /\ ~May("transient")
  BY PlainFacts, Apart
<1>1. CASE RollNext(Loop)
  BY <1>0, <1>1, RollNextDoes DEF Fails, Keeps, Stays, Same, Rolling, WorkerRole
<1>2. CASE Retire(Loop) \/ Respawn(Loop)
  BY <1>0, <1>2, RetireDoes, RespawnDoes DEF Fails, Keeps, Stays, Same, Rolling
<1> QED
  BY <1>1, <1>2

LEMMA ExactScale ==
  ASSUME Plain, IInv, WorkerRole(thr[Loop]), thr[Loop].op = "apply", ExactFor(Loop), Scale(Loop)
  PROVE  ExactFor(Loop)'
<1> DEFINE l == thr[Loop]
<1> USE DEF At, Scaled
<1>0. /\ Loop \in Threads /\ At(Loop, "scale") /\ l.m \in Manifests /\ l.m.want \in Nat /\ ~May("fail")
      /\ Live = l.live \cup l.made /\ l.live \cap l.made = {} /\ (l.made = {} \/ Cardinality(Live) <= l.m.want)
  BY Apart, Wants, ScaleDoes, PlainFacts DEF ExactFor, WorkerRole
<1>1. /\ IsFiniteSet(l.live) /\ IsFiniteSet(l.made) /\ Cardinality(l.live) \in Nat /\ Cardinality(l.made) \in Nat
      /\ l.live \subseteq Nat /\ (l.made = {} <=> Cardinality(l.made) = 0)
  BY <1>0, LiveFinite, FS_Subset, FS_CardinalityType, FS_EmptySet
<1>2. Cardinality(Live) = Cardinality(l.live) + Cardinality(l.made)
  <2>1. Cardinality(l.live \cap l.made) = 0
    BY <1>0, FS_EmptySet
  <2>2. Cardinality(l.live \cup l.made) = Cardinality(l.live) + Cardinality(l.made) - Cardinality(l.live \cap l.made)
    BY <1>1, FS_Union
  <2> QED
    BY <1>0, <1>1, <2>1, <2>2
<1>3. ASSUME Missing(Loop), thr'[Loop].pc = "scale", Same(Loop), thr'[Loop].live = l.live, NEW i \in Ids,
             SpawnsFor(Loop, i), thr'[Loop].made = l.made \cup {i}
      PROVE  ExactFor(Loop)'
  <2>1. /\ Live' = Live \cup {i} /\ i \notin Live /\ Cardinality(Live') = Cardinality(Live) + 1
        /\ i \notin l.live \cup l.made
    BY <1>0, <1>3, SpawnCounts
  <2>2. Live' = thr'[Loop].live \cup thr'[Loop].made /\ thr'[Loop].live \cap thr'[Loop].made = {}
    BY <1>0, <1>3, <2>1
  <2>3. Cardinality(Live') <= thr'[Loop].m.want
    BY <1>0, <1>1, <1>2, <1>3, <2>1 DEF Missing, Same
  <2> QED
    BY <1>3, <2>2, <2>3 DEF ExactFor
<1>4. CASE /\ ~Missing(Loop) /\ UNCHANGED ctrs /\ Keeps(Loop) /\ thr'[Loop].pc = "prune"
           /\ thr'[Loop].todo = Extras(l.live, l.m.want)
  <2>1. Live' = Live /\ thr'[Loop].m = l.m
    BY <1>4 DEF Live, Keeps, Same
  <2>2. Extras(l.live, l.m.want) \subseteq Live
    BY <1>0, <1>1, ExtrasCount
  <2>3. Cardinality(Live) = l.m.want + Cardinality(Extras(l.live, l.m.want))
    <3>1. CASE Cardinality(l.live) >= l.m.want
      BY <1>0, <1>1, <3>1, ExtrasExact, <1>2
    <3>2. CASE Cardinality(l.live) < l.m.want
      <4>1. Extras(l.live, l.m.want) = {}
        BY <1>0, <1>1, <3>2, ExtrasCount
      <4>2. Cardinality(Extras(l.live, l.m.want)) = 0
        BY <4>1, FS_EmptySet
      <4>3. Cardinality(Live) = l.m.want
        BY <1>0, <1>1, <1>2, <1>4, <3>2 DEF Missing
      <4> QED
        BY <1>0, <4>2, <4>3
    <3> QED
      BY <1>0, <1>1, <3>1, <3>2
  <2> QED
    BY <1>4, <2>1, <2>2, <2>3 DEF ExactFor
<1> QED
  BY <1>0, <1>3, <1>4, ScaleDoes DEF Fails, AfterScale

LEMMA ExactPrune ==
  ASSUME Plain, IInv, WorkerRole(thr[Loop]), thr[Loop].op = "apply", ExactFor(Loop), Prune(Loop)
  PROVE  ExactFor(Loop)'
<1> DEFINE l == thr[Loop]
<1> USE DEF At, Scaled
<1>0. /\ Loop \in Threads /\ l.pc = "prune" /\ l.m.want \in Nat /\ ~May("fail")
      /\ l.todo \subseteq Live /\ Cardinality(Live) = l.m.want + Cardinality(l.todo)
      /\ IsFiniteSet(l.todo) /\ Cardinality(l.todo) \in Nat
  BY Apart, Wants, PruneDoes, PlainFacts, LiveFinite, FS_Subset, FS_CardinalityType DEF ExactFor, WorkerRole
<1>1. ASSUME NEW i \in l.todo, i \in Ids, Removes(i), Keeps(Loop), thr'[Loop].pc = "prune",
             thr'[Loop].todo = l.todo \ {i}
      PROVE  ExactFor(Loop)'
  <2>1. Live' = Live \ {i} /\ Cardinality(Live') = Cardinality(Live) - 1
    BY <1>0, <1>1, RemoveCounts
  <2>2. Cardinality(thr'[Loop].todo) = Cardinality(l.todo) - 1
    BY <1>0, <1>1, FS_RemoveElement
  <2> QED
    BY <1>0, <1>1, <2>1, <2>2 DEF ExactFor, Keeps, Same
<1>2. CASE UNCHANGED ctrs /\ Same(Loop) /\ thr'[Loop].pc = AfterPrune(Loop) /\ l.todo = {}
  BY <1>2, <1>0, FS_EmptySet DEF AfterPrune, Same, Live, ExactFor
<1> QED
  BY <1>0, <1>1, <1>2, PruneDoes

LEMMA ExactRoll ==
  ASSUME Plain, IInv, WorkerRole(thr[Loop]), thr[Loop].op = "apply", ExactFor(Loop),
         RollNext(Loop) \/ Retire(Loop) \/ Respawn(Loop)
  PROVE  ExactFor(Loop)'
<1> DEFINE l == thr[Loop]
<1> USE DEF At, Scaled
<1>0. /\ Loop \in Threads /\ l.m.want \in Nat /\ ~May("fail") /\ ~May("transient") /\ Cardinality(Live) \in Nat
  BY Apart, Wants, PlainFacts, LiveFinite, LoopRolls DEF WorkerRole, Rolling
<1>1. CASE RollNext(Loop)
  <2>0. l.todo \subseteq Live /\ Cardinality(Live) = l.m.want /\ Live \subseteq Ids
    BY <1>0, <1>1, RollNextDoes DEF ExactFor, Live
  <2>1. ASSUME NEW o \in l.todo, NEW i \in Ids, SpawnsFor(Loop, i), Keeps(Loop), thr'[Loop].pc = "await",
               thr'[Loop].old = o, thr'[Loop].todo = l.todo \ {o}
        PROVE  ExactFor(Loop)'
    BY <1>0, <2>1, SpawnCounts, <2>0 DEF ExactFor, Keeps, Same
  <2>2. ASSUME NEW o \in l.todo, o \in Ids, Removes(o), Keeps(Loop), thr'[Loop].pc = "respawn",
               thr'[Loop].todo = l.todo \ {o}
        PROVE  ExactFor(Loop)'
    BY <2>0, <2>2, RemoveCounts DEF ExactFor, Keeps, Same
  <2>3. CASE UNCHANGED ctrs /\ Stays(Loop) /\ thr'[Loop].pc = l.ret /\ l.ret \in {"stampRolled", "record"}
    BY <2>3, <2>0 DEF Live, ExactFor, Stays, Keeps, Same
  <2>4. l.ret \in {"stampRolled", "record"}
    BY <1>0, <1>1, RollNextDoes DEF WorkerRole, Rolling
  <2> QED
    BY <1>0, <1>1, <2>1, <2>2, <2>3, <2>4, RollNextDoes DEF Fails
<1>2. CASE Retire(Loop)
  <2>0. l.old \in Live /\ l.todo \subseteq Live \ {l.old} /\ Cardinality(Live) = l.m.want + 1 /\ l.old \in Ids
    BY <1>0, <1>2, RetireDoes DEF ExactFor, Live
  <2>1. Removes(l.old) /\ Keeps(Loop) /\ thr'[Loop].pc = "roll" /\ thr'[Loop].todo = l.todo
    BY <1>0, <1>2, <2>0, RetireDoes DEF Fails
  <2>2. Live' = Live \ {l.old} /\ Cardinality(Live') = l.m.want
    BY <1>0, <2>0, <2>1, RemoveCounts
  <2> QED
    BY <2>0, <2>1, <2>2 DEF ExactFor, Keeps, Same
<1>3. CASE Respawn(Loop)
  BY <1>0, <1>3, RespawnDoes, SpawnCounts DEF ExactFor, Fails, Stays, Keeps, Same
<1> QED
  BY <1>1, <1>2, <1>3

\* The other steps of an apply.
LEMMA ExactApply ==
  ASSUME Plain, IInv, WorkerRole(thr[Loop]), thr[Loop].op = "apply", ExactFor(Loop), ReconcileStep(Loop),
         ~ScheduleRetry(Loop), thr[Loop].pc \notin {"again", "failed"}, thr'[Loop].op = "apply"
  PROVE  ExactFor(Loop)' /\ thr'[Loop].pc \notin {"again", "failed", "sleep"}
<1> DEFINE l == thr[Loop]
<1> USE DEF At, Scaled
<1>0. Loop \in Threads /\ ~May("fail") /\ ~May("transient") /\ l.pc \in ApplyPcs
  BY Apart, PlainFacts DEF WorkerRole
<1>1. CASE Scale(Loop) \/ Prune(Loop)
  BY <1>0, <1>1, ScaleDoes, PruneDoes, ExactScale, ExactPrune DEF Fails, AfterScale, AfterPrune
<1>2. CASE RollNext(Loop) \/ Retire(Loop) \/ Respawn(Loop)
  BY <1>2, LoopRolls, ExactRoll DEF Rolling
<1>3. CASE LinkEnv(Loop)
  BY <1>0, <1>3, LinkDoes DEF ExactFor
<1>4. CASE ListLive(Loop)
  BY <1>0, <1>4, ListDoes DEF Live, ExactFor, Fails
<1>5. CASE Decide(Loop)
  BY <1>0, <1>5, DecideDoes DEF Live, ExactFor
<1>6. CASE StampNew(Loop) \/ StampRolled(Loop) \/ RecordRelease(Loop) \/ Publish(Loop)
  <2>1. Live' = Live /\ thr'[Loop].m = l.m /\ l.pc \in Scaled
    BY <1>0, <1>6, StampNewDoes, StampRolledDoes, RecordDoes, PublishDoes DEF Live, Stays, Keeps, Same
  <2>2. thr'[Loop].pc \in {"relist", "rollEnv", "publish", "ok"}
    BY <1>0, <1>6, StampNewDoes, StampRolledDoes, RecordDoes, PublishDoes
  <2> QED
    BY <2>1, <2>2 DEF ExactFor
<1>7. CASE Relist(Loop) \/ Drift(Loop) \/ RollEnv(Loop)
  <2>1. Live' = Live /\ thr'[Loop].m = l.m /\ thr'[Loop].made = l.made /\ l.pc \in {"relist", "drift", "rollEnv"}
    <3>1. CASE Relist(Loop)
      BY <1>0, <3>1, RelistDoes DEF Live, Keeps, Same, Fails
    <3>2. CASE Drift(Loop)
      BY <1>0, <3>2, DriftDoes DEF Live, Keeps, Same
    <3>3. CASE RollEnv(Loop)
      BY <1>0, <3>3, RollEnvDoes DEF Live, Keeps, Same
    <3> QED
      BY <1>7, <3>1, <3>2, <3>3
  <2>2. \/ thr'[Loop].pc = "drift" /\ thr'[Loop].todo = Live \ l.made
        \/ thr'[Loop].pc \in {"rollEnv", "record"}
        \/ thr'[Loop].pc = "roll" /\ thr'[Loop].todo \subseteq Live
    BY <1>0, <1>7, RelistDoes, DriftDoes, RollEnvDoes DEF Fails, ExactFor, Movable
  <2> QED
    BY <2>1, <2>2 DEF ExactFor
<1>8. ~(Retry(Loop) \/ ListDoomed(Loop) \/ RemoveNext(Loop) \/ GiveUp(Loop))
  BY <1>0 DEF Retry, ListDoomed, RemoveNext, GiveUp, ApplyPcs, Rolling
<1>9. ~Outcome(Loop)
  BY <1>0, OutcomeDoes DEF Idle
<1> QED
  BY <1>1, <1>2, <1>3, <1>4, <1>5, <1>6, <1>7, <1>8, <1>9 DEF ReconcileStep

LEMMA ExactTaken ==
  ASSUME NEW m, TakesUp(Loop, m)
  PROVE  Exact'
BY DEF TakesUp, Exact, ExactFor, Scaled, At

LEMMA ExactKept ==
  ASSUME Plain, IInv, Roles, PlainRequests, Exact, [Next]_vars
  PROVE  Exact'
<1> USE DEF At
<1>0. Loop \in Threads /\ ~May("fail") /\ ~May("transient")
  BY Apart, PlainFacts
<1>1. CASE LoopWorks
  <2>0. /\ WorkerRole(thr[Loop]) /\ WorkerRole(thr'[Loop]) /\ ReconcileStep(Loop) /\ ~ScheduleRetry(Loop)
        /\ thr[Loop].pc \notin {"again", "failed", "sleep"}
    BY <1>1, LoopGoesOn DEF Exact
  <2>1. CASE Outcome(Loop)
    BY <1>0, <2>1, OutcomeDoes DEF Exact, Idle
  <2>2. ~GiveUp(Loop) /\ ~Retry(Loop)
    BY <2>0 DEF GiveUp, Retry
  <2>3. CASE Same(Loop) /\ thr[Loop].op = "apply"
    BY <2>0, <2>3, ExactApply DEF Exact, Same
  <2>4. CASE Same(Loop) /\ thr[Loop].op = "remove"
    <3>1. thr[Loop].pc \in {"listDoomed", "remove", "ok"}
      BY <2>0, <2>4 DEF WorkerRole
    <3>2. CASE thr[Loop].pc = "ok"
      BY <2>0, <2>2, <3>2, <2>1 DEF ReconcileStep, LinkEnv, ListLive, Decide, Scale, Prune, StampNew,
         Relist, Drift, StampRolled, RollEnv, RecordRelease, Publish, RollNext, Retire, Respawn, ListDoomed,
         RemoveNext
    <3>3. CASE ListDoomed(Loop)
      BY <1>0, <3>3, ListDoomedDoes, <2>4 DEF Live, Exact, Fails, Same
    <3>4. CASE RemoveNext(Loop)
      BY <1>0, <2>4, <3>4, RemoveNextDoes, RemoveCounts DEF Exact, Same, Live, Fails
    <3> QED
      BY <2>0, <2>2, <2>1, <3>1, <3>2, <3>3, <3>4
         DEF ReconcileStep, LinkEnv, ListLive, Decide, Scale, Prune, StampNew, Relist, Drift, StampRolled,
             RollEnv, RecordRelease, Publish, RollNext, Retire, Respawn
  <2>5. thr[Loop].op \in {"apply", "remove"}
    BY <1>1, <2>0 DEF WorkerRole, LoopWorks
  <2> QED
    BY <1>1, <2>1, <2>2, <2>3, <2>4, <2>5, LoopGoesOn
<1>2. CASE NextEvent
  BY <1>2, NextEventDoes, ExactTaken
<1>3. CASE ListAll
  BY <1>3, ListAllDoes, ExactTaken DEF Exact, Idle
<1>4. CASE LoopWaits
  BY <1>4 DEF LoopWaits, Live, Exact, ExactFor
<1> QED
  BY <1>1, <1>2, <1>3, <1>4, PlainSteps

\* Where the loop rests, with nothing it was told: the deployment has its
\* replicas, or none where it was deleted.
Rested == At(Loop, "idle") /\ chan = <<>> =>
            /\ desired = None => Live = {}
            /\ desired # None /\ phase # "replay" => Cardinality(Live) = desired.want

LEMMA RestedKept ==
  ASSUME Plain, IInv, Roles, PlainRequests, Told, Exact, Rested, [Next]_vars
  PROVE  Rested'
<1> USE DEF At
<1>0. Loop \in Threads /\ chan \in Seq(Event)
  BY Apart DEF IInv, TypeOK
<1>1. CASE LoopWorks /\ thr'[Loop].pc = "idle" /\ chan = <<>>
  <2>1. Outcome(Loop)
    BY <1>1, LoopGoesOn DEF Exact, GiveUp, Retry
  <2>2. thr[Loop].pc = "ok" /\ UNCHANGED ctrs /\ Live' = Live
    BY <1>0, <2>1, OutcomeDoes DEF Exact, Live
  <2>3. CASE desired = None
    BY <1>1, <2>2, <2>3 DEF Told, Exact, Rested, LoopWorks
  <2>4. CASE desired # None
    BY <1>1, <2>2, <2>4 DEF Told, Exact, ExactFor, Scaled, LoopWorks, Rested
  <2> QED
    BY <2>3, <2>4
<1>2. CASE LoopWorks /\ (thr'[Loop].pc # "idle" \/ chan # <<>>)
  BY <1>2 DEF LoopWorks, Rested
<1>3. CASE NextEvent
  BY <1>3, NextEventDoes DEF TakesUp, Rested
<1>4. CASE ListAll
  BY <1>4, ListAllDoes DEF Live, TakesUp, Rested
<1>5. CASE LoopWaits
  <2>1. Live' = Live
    BY <1>5 DEF LoopWaits, Live
  <2>2. CASE UNCHANGED <<desired, chan>> /\ (phase' = phase \/ (phase = "gap" /\ phase' = "watch"))
    BY <1>5, <2>1, <2>2 DEF LoopWaits, Rested
  <2>3. CASE chan' = Append(chan, desired')
    <3>1. chan' # <<>>
      BY <1>0, <2>3
    <3> QED
      BY <3>1 DEF Rested
  <2> QED
    BY <1>5, <2>2, <2>3 DEF LoopWaits
<1> QED
  BY <1>1, <1>2, <1>3, <1>4, <1>5, PlainSteps

\* What the replicas hold: the file's variables, except those an apply that
\* found the file changed is still to roll.
Changing == {"list", "decide", "scale", "prune", "stampNew", "relist", "drift", "rollEnv"}
Late == thr[Loop].pc \in Changing /\ EnvChanged(Loop)
EnvTrue ==
  file.full =>
    /\ thr[Loop].pc \in Rolling => \A i \in Live : ctrs[i].env = file \/ i \in InHand(Loop)
    /\ Late => \A i \in Live \cap thr[Loop].made : ctrs[i].env = file
    /\ thr[Loop].pc \notin Rolling /\ ~Late => \A i \in Live : ctrs[i].env = file

\* The steps of an apply that leave the replicas alone.
LEMMA EnvQuiet ==
  ASSUME Plain, IInv, WorkerRole(thr[Loop]), Exact, EnvTrue, UNCHANGED <<ctrs, file>>, frozen = {},
         \/ ListLive(Loop) \/ Decide(Loop) \/ StampNew(Loop) \/ Relist(Loop) \/ Drift(Loop)
         \/ StampRolled(Loop) \/ RollEnv(Loop) \/ RecordRelease(Loop) \/ Publish(Loop)
  PROVE  EnvTrue'
<1> DEFINE l == thr[Loop]
<1> USE DEF At, Changing, Rolling
<1>0. Loop \in Threads /\ ~May("fail") /\ ~May("transient") /\ Live' = Live
  BY Apart, PlainFacts DEF Live
<1>1. ASSUME l.pc \in Changing, thr'[Loop].pc \in Changing, thr'[Loop].made = l.made,
             thr'[Loop].flags \in {l.flags, l.flags \cup {"minted"}}
      PROVE  EnvTrue'
  <2>1. Late' = Late
    BY <1>1 DEF Late, EnvChanged
  <2> QED
    BY <1>0, <1>1, <2>1 DEF EnvTrue
<1>2. CASE ListLive(Loop) \/ Decide(Loop)
  BY <1>0, <1>1, <1>2, ListDoes, DecideDoes DEF Fails
<1>3. CASE StampNew(Loop) \/ Relist(Loop)
  BY <1>0, <1>1, <1>3, StampNewDoes, RelistDoes DEF Fails, Stays, Keeps
<1>4. CASE Drift(Loop)
  <2>1. l.pc = "drift" /\ thr'[Loop].made = l.made /\ thr'[Loop].flags = l.flags
    BY <1>0, <1>4, DriftDoes DEF Keeps
  <2>2. CASE thr'[Loop].pc = "rollEnv"
    BY <1>1, <2>1, <2>2
  <2>3. CASE thr'[Loop].pc = "roll" /\ thr'[Loop].todo = l.todo
    BY <2>1, <2>3, <1>0 DEF WorkerRole, InHand, Exact, ExactFor, Late, EnvTrue
  <2> QED
    BY <1>0, <1>4, <2>2, <2>3, DriftDoes, NoneParked
<1>5. CASE StampRolled(Loop)
  BY <1>0, <1>5, StampRolledDoes DEF Late, EnvChanged, EnvTrue
<1>6. CASE RollEnv(Loop)
  <2>1. l.pc = "rollEnv" /\ thr'[Loop].made = l.made
    BY <1>0, <1>6, RollEnvDoes DEF Keeps
  <2>2. CASE thr'[Loop].pc = "roll" /\ thr'[Loop].todo = Live \ l.made
    BY <2>2, <1>0, <2>1 DEF InHand, Late, EnvTrue
  <2>3. CASE thr'[Loop].pc = "record" /\ (~EnvChanged(Loop) \/ Live \ l.made = {})
    BY <2>3, <2>1, <1>0 DEF Late, EnvTrue
  <2> QED
    BY <1>0, <1>6, <2>2, <2>3, RollEnvDoes, NoneParked
<1>7. CASE RecordRelease(Loop) \/ Publish(Loop)
  BY <1>0, <1>7, RecordDoes, PublishDoes DEF Late, EnvTrue
<1> QED
  BY <1>2, <1>3, <1>4, <1>5, <1>6, <1>7

\* The steps that make replicas or take them away.
LEMMA EnvActs ==
  ASSUME Plain, IInv, WorkerRole(thr[Loop]), EnvTrue, UNCHANGED file, frozen = {},
         \/ Scale(Loop) \/ Prune(Loop) \/ ListDoomed(Loop) \/ RemoveNext(Loop)
         \/ RollNext(Loop) \/ Retire(Loop) \/ Respawn(Loop)
  PROVE  EnvTrue'
<1> DEFINE l == thr[Loop]
<1> USE DEF At, Changing, Rolling
<1>0. Loop \in Threads /\ ~May("fail") /\ ~May("transient") /\ NewReplica(Loop).env = file
  BY Apart, PlainFacts DEF NewReplica
<1>1. ASSUME l.pc \in Changing, thr'[Loop].pc \in Changing, thr'[Loop].flags = l.flags
      PROVE  Late' = Late /\ l.pc \notin Rolling /\ thr'[Loop].pc \notin Rolling
  BY <1>1 DEF Late, EnvChanged
<1>2. ASSUME NEW i \in Ids, Removes(i)
      PROVE  Live' = Live \ {i} /\ \A j \in Live' : ctrs'[j] = ctrs[j]
  BY <1>2 DEF Removes, Live
<1>3. UNCHANGED ctrs => Live' = Live
  BY DEF Live
<1>4. CASE Scale(Loop)
  <2>1. l.op = "apply" /\ l.pc = "scale"
    BY <1>0, <1>4, ScaleDoes DEF WorkerRole
  <2>2. ASSUME NEW i \in Ids, SpawnsFor(Loop, i), thr'[Loop].made = l.made \cup {i}, thr'[Loop].pc = "scale",
               thr'[Loop].flags = l.flags
        PROVE  EnvTrue'
    BY <1>0, <2>2, SpawnCounts, <1>1, <2>1 DEF SpawnsFor, Live, EnvTrue
  <2>3. CASE UNCHANGED ctrs /\ Keeps(Loop) /\ thr'[Loop].pc = "prune"
    BY <1>1, <1>3, <2>1, <2>3 DEF EnvTrue, Keeps
  <2> QED
    BY <1>0, <1>4, <2>1, <2>2, <2>3, ScaleDoes DEF Fails, AfterScale
<1>5. CASE Prune(Loop)
  <2>1. l.op = "apply" /\ l.pc = "prune"
    BY <1>0, <1>5, PruneDoes DEF WorkerRole
  <2>2. ASSUME NEW i \in Ids, Removes(i), Keeps(Loop), thr'[Loop].pc = "prune" PROVE EnvTrue'
    BY <1>1, <1>2, <2>1, <2>2 DEF EnvTrue, Keeps
  <2>3. CASE UNCHANGED ctrs /\ thr'[Loop].made = l.made /\ thr'[Loop].flags = l.flags /\ thr'[Loop].pc = AfterPrune(Loop)
    BY <2>1, <2>3, <1>1, <1>3 DEF AfterPrune, EnvTrue
  <2> QED
    BY <1>0, <1>5, <2>1, <2>2, <2>3, PruneDoes
<1>6. CASE ListDoomed(Loop) \/ RemoveNext(Loop)
  BY <1>0, <1>6, ListDoomedDoes, RemoveNextDoes, <1>2, <1>3 DEF Fails, Late, EnvTrue
<1>7. CASE RollNext(Loop) \/ Retire(Loop) \/ Respawn(Loop)
  <2> DEFINE Good == {r \in {NewReplica(Loop)} \cup {ctrs[i] : i \in Live} : r.env = file}
  <2>0. CASE ~file.full
    BY <2>0 DEF EnvTrue
  <2>1. l.op = "apply" /\ l.pc \in Rolling /\ l.ret \in {"stampRolled", "record"}
    BY <1>0, <1>7, RollNextDoes, RetireDoes, RespawnDoes DEF WorkerRole
  <2>2. /\ thr'[Loop].pc \in Rolling \/ (thr'[Loop].pc = l.ret /\ l.pc = "roll" /\ l.todo = {} /\ UNCHANGED ctrs)
        /\ thr'[Loop].ret = l.ret
    BY <1>7, <2>1, LoopRolls
  <2>3. ~Late /\ ~Late'
    BY <2>1, <2>2 DEF Late
  <2>4. CASE file.full /\ thr'[Loop].pc \notin Rolling
    BY <1>3, <2>1, <2>2, <2>3, <2>4 DEF EnvTrue, InHand
  <2>5. CASE file.full /\ thr'[Loop].pc \in Rolling
    <3>1. NewReplica(Loop) \in Good /\ \A i \in Live : ctrs[i] \in Good \/ i \in InHand(Loop)
      BY <1>0, <2>1, <2>5 DEF EnvTrue
    <3>2. \A r \in Good : r.env = file
      OBVIOUS
    <3> HIDE DEF Good
    <3>5. Unfrozen = Live /\ Unfrozen' = Live'
      BY <1>7, NoneParked DEF Unfrozen, Live, RollNext, Retire, Respawn
    <3>3. \A i \in Live' : ctrs'[i] \in Good \/ i \in InHand(Loop)'
      BY <1>0, <1>7, <2>2, <2>5, <3>1, <3>5, RollKeeps
    <3> QED
      BY <2>3, <2>5, <3>2, <3>3 DEF EnvTrue
  <2> QED
    BY <2>0, <2>4, <2>5
<1> QED
  BY <1>4, <1>5, <1>6, <1>7

LEMMA EnvTrueKept ==
  ASSUME Plain, IInv, Roles, PlainRequests, Exact, EnvTrue, [Next]_vars
  PROVE  EnvTrue'
<1> USE DEF At
<1>0. Loop \in Threads
  BY Apart
<1>1. CASE LoopWorks
  <2>0. WorkerRole(thr[Loop]) /\ ReconcileStep(Loop) /\ ~ScheduleRetry(Loop) /\ ~GiveUp(Loop) /\ ~Retry(Loop)
    BY <1>1, LoopGoesOn DEF Exact, GiveUp, Retry
  <2>1. CASE LinkEnv(Loop)
    BY <1>0, <1>1, <2>0, <2>1, LinkDoes, LoopWrites, PlainFacts DEF WorkerRole, Exact, ExactFor, Late,
       EnvChanged, Changing, Live, EnvTrue, Rolling
  <2>2. CASE Outcome(Loop)
    BY <1>0, <2>2, OutcomeDoes DEF Elsewhere, Idle, Late, Changing, Live, EnvTrue, Rolling
  <2>3. ~LinkEnv(Loop) => UNCHANGED file
    BY <1>1, LoopWrites DEF LinkEnv
  <2>4. ASSUME UNCHANGED file,
               \/ ListLive(Loop) \/ Decide(Loop) \/ StampNew(Loop) \/ Relist(Loop) \/ Drift(Loop)
               \/ StampRolled(Loop) \/ RollEnv(Loop) \/ RecordRelease(Loop) \/ Publish(Loop)
        PROVE  EnvTrue'
    BY <2>4, <1>0, ListDoes, RelistDoes, <2>0, EnvQuiet DEF PlainRequests, Decide, StampNew, Drift, StampRolled, RollEnv,
       RecordRelease, Publish
  <2> QED
    BY <2>0, <2>1, <2>2, <2>3, <2>4, EnvActs DEF ReconcileStep, PlainRequests
<1>2. CASE NextEvent \/ ListAll
  BY <1>2, NextEventDoes, ListAllDoes DEF TakesUp, Idle, Late, Changing, Live, EnvTrue, Rolling
<1>3. CASE LoopWaits
  BY <1>3 DEF LoopWaits, Late, EnvChanged, InHand, Live, EnvTrue
<1> QED
  BY <1>1, <1>2, <1>3, PlainSteps

\* What an apply that nothing disturbs leaves: the loop is told last what is
\* desired, its count is exact and the files are the bucket's.
PlainIInv == Roles /\ PlainRequests /\ Told /\ Sent /\ Owed /\ Exact /\ EnvTrue /\ Rested

LEMMA PlainInit == ASSUME Plain, Shared, Init PROVE PlainIInv
<1> USE DEF At
<1>1. \A t \in Threads : thr[t] = Idle
  BY DEF Init
<1>2. Loop \in Threads /\ Https \subseteq Threads
  BY Apart
<1>10. frozen = {}
  BY PlainFacts DEF Init
<1>3. Roles /\ PlainRequests /\ Exact
  BY <1>1, <1>2, <1>10, CalmInit DEF CalmInv, PlainRequests, Exact, Idle
<1>4. Told
  BY <1>1, <1>2 DEF Init, Told, Idle
<1>5. file = [cfg |-> FirstEnv, full |-> desired # None /\ Shared] /\ bucket = FirstEnv
  BY DEF Init
<1>6. Sent /\ Owed
  BY <1>5 DEF Sent, Owed
<1>7. ASSUME NEW i \in Live PROVE ctrs[i].env = file /\ desired # None
  <2>1. desired # None /\ ctrs[i] = SettledReplica(desired)
    BY <1>10 DEF Live, Init
  <2>2. SettledReplica(desired).env = [cfg |-> FirstEnv, full |-> Shared]
    BY DEF SettledReplica
  <2>3. (desired # None /\ Shared) = Shared
    BY FlagsAssumption, <2>1
  <2> QED
    BY <1>5, <2>1, <2>2, <2>3
<1>8. EnvTrue
  BY <1>1, <1>2, <1>7 DEF EnvTrue, Late, Changing, Rolling, Idle
<1>9. Rested
  BY <1>7 DEF Init, Rested
<1> QED
  BY <1>3, <1>4, <1>6, <1>8, <1>9 DEF PlainIInv

LEMMA PlainKept ==
  ASSUME Plain, Shared, IInv, PlainIInv, [Next]_vars
  PROVE  PlainIInv'
BY PlainSteps, ToldKept, OwedKept, ExactKept, EnvTrueKept, RestedKept DEF PlainIInv

\* Once all is quiet, that is what was asked for.
LEMMA PlainReaches ==
  ASSUME Shared, IInv, PlainIInv
  PROVE  EnvReached /\ CountReached /\ NothingLeft
<1> SUFFICES ASSUME Quiet
             PROVE  /\ desired # None => (\A i \in Live : ctrs[i].env = Merged) /\ Cardinality(Live) = desired.want
                    /\ desired = None => Live = {}
  BY DEF EnvReached, CountReached, NothingLeft, Reported, Unfrozen
<1>1. chan = <<>> /\ phase = "watch" /\ thr[Loop].pc = "idle" /\ \A t \in Https : thr[t].pc = "idle"
  BY Apart DEF Quiet, At
<1>2. desired = None => Live = {}
  BY <1>1 DEF PlainIInv, Rested, At
<1>3. desired # None => Cardinality(Live) = desired.want
  BY <1>1 DEF PlainIInv, Rested, At
<1>4. desired # None => file = Merged
  BY <1>1, FlagsAssumption DEF PlainIInv, Sent, At, Owed, IInv, TypeOK, Merged, File
<1>5. file.full => \A i \in Live : ctrs[i].env = file
  BY <1>1 DEF PlainIInv, EnvTrue, Late, Changing, Rolling
<1>6. Merged.full
  BY DEF Merged
<1> QED
  BY <1>2, <1>3, <1>4, <1>5, <1>6

\* Where no call fails and the host stays up, the loop alone works on the
\* replicas, whatever is applied, deleted, configured or pushed meanwhile: once
\* all is quiet there are as many replicas as the manifest wants, none of a
\* deleted deployment, and each was created with the environment the store now
\* resolves to (linkEnv and the env-change roll of apply, ensureReplicaCount,
\* pruneExtraReplicas, rollingReplaceReplicas with surge and without, remove).
THEOREM ReachesCountAndEnvironment ==
  ASSUME Retries = {}, Ops \subseteq {"apply", "delete", "config", "deploy"}, Shared
  PROVE  Spec => [](EnvReached /\ CountReached /\ NothingLeft)
<1>0. Plain
  BY DEF Plain
<1>1. Init => IInv /\ PlainIInv
  BY <1>0, InitTyped, PlainInit
<1>2. IInv /\ PlainIInv /\ [Next]_vars => (IInv /\ PlainIInv)'
  BY <1>0, NextTyped, PlainKept
<1>3. IInv /\ PlainIInv => EnvReached /\ CountReached /\ NothingLeft
  BY PlainReaches
<1> QED
  BY <1>1, <1>2, <1>3, PTL DEF Spec

-----------------------------------------------------------------------------
(* ... and to which spec it brings them.                                   *)

\* Nothing is built, no release block gates a spec, and every manifest wants
\* as many replicas, which the names suffice for.
Even == /\ Plain /\ ~May("deploy")
        /\ \A m \in Manifests : /\ ~m.gate /\ m.want <= Cardinality(Ids)
                                /\ \A n \in Manifests : n.want = m.want

\* The blob's hash is that of every replica.  Either none is there, or as
\* many as any manifest wants, so that an apply creates all or replaces all.
Stamped == IF status = None THEN Live = {} ELSE \A i \in Live : ctrs[i].spec = status.hash
Whole   == Live = {} \/ \A m \in Manifests : Cardinality(Live) >= m.want
Uniform == \A i \in Live : ctrs[i].spec = thr[Loop].m.spec
Hashed  == status # None /\ status.hash = thr[Loop].m.spec

SpecFor ==
  /\ thr[Loop].pc \in {"link", "list", "decide"} => Stamped /\ Whole
  /\ thr[Loop].pc \in {"scale", "prune"} =>
       IF thr[Loop].made = {} THEN Stamped /\ (At(Loop, "scale") => Whole) ELSE Uniform
  /\ thr[Loop].pc \in {"stampNew", "stampRolled"} => Uniform
  /\ thr[Loop].pc \in {"relist", "drift"} => Stamped /\ (thr[Loop].made = {} \/ Uniform)
  /\ thr[Loop].pc \in Rolling => /\ \A i \in Live : ctrs[i].spec = thr[Loop].m.spec \/ i \in InHand(Loop)
                                 /\ thr[Loop].ret = "record" => Hashed
  /\ thr[Loop].pc \in {"rollEnv", "record", "publish", "ok"} => Hashed /\ Uniform

SpecTrue == IF thr[Loop].op = "apply" THEN SpecFor
            ELSE Stamped /\ (thr[Loop].op = "none" => Whole)

\* What the handlers write into the blob.
LEMMA BlobIs ==
  ASSUME IInv
  PROVE  /\ status # None => Blob = status
         /\ \A m \in Manifests : Stamp(m) # None /\ Stamp(m).hash = m.spec
         /\ \A e \in BOOLEAN : LET b == [Blob EXCEPT !.err = e] IN b # None /\ b.hash = Blob.hash
BY BlobType, StampType, NoneIsNoRecord DEF Status, Stamp, Blob

LEMMA RecordedIs ==
  ASSUME IInv, thr[Loop].m \in Manifests, NEW blob \in Status, NEW b \in Builds
  PROVE  Recorded(Loop, blob, b) # None /\ Recorded(Loop, blob, b).hash = blob.hash
BY RecordedType, Apart, NoneIsNoRecord DEF Recorded, Status

\* What the steps that leave the replicas alone leave of it.
LEMMA SpecStays ==
  ASSUME UNCHANGED ctrs
  PROVE  /\ Live' = Live /\ Whole' = Whole /\ (UNCHANGED status => Stamped' = Stamped)
         /\ (thr'[Loop].m = thr[Loop].m => Uniform' = Uniform)
         /\ (thr'[Loop].m = thr[Loop].m /\ UNCHANGED status => Hashed' = Hashed)
         /\ (thr'[Loop].m = thr[Loop].m /\ Uniform /\ Hashed' => Stamped')
<1>1. Live' = Live
  BY DEF Live
<1> QED
  BY <1>1 DEF Whole, Stamped, Uniform, Hashed

LEMMA SpecQuiet ==
  ASSUME Even, IInv, WorkerRole(thr[Loop]), Exact, SpecFor, thr[Loop].op = "apply", UNCHANGED ctrs, frozen = {},
         \/ LinkEnv(Loop) \/ ListLive(Loop) \/ Decide(Loop) \/ StampNew(Loop) \/ Relist(Loop) \/ Drift(Loop)
         \/ StampRolled(Loop) \/ RollEnv(Loop) \/ RecordRelease(Loop) \/ Publish(Loop)
  PROVE  SpecFor'
<1> DEFINE l == thr[Loop]
<1> USE DEF At, Rolling
<1>0. Loop \in Threads /\ ~May("fail") /\ ~May("transient") /\ l.m \in Manifests
  BY Apart, PlainFacts DEF Even, WorkerRole
<1>1. CASE LinkEnv(Loop) \/ ListLive(Loop) \/ Decide(Loop)
  BY <1>0, <1>1, LinkDoes, ListDoes, DecideDoes, SpecStays DEF Fails, Exact, ExactFor, SpecFor
<1>2. CASE StampNew(Loop) \/ StampRolled(Loop)
  BY <1>0, <1>2, StampNewDoes, StampRolledDoes, BlobIs, SpecStays DEF Stays, Keeps, Same, Hashed, SpecFor
<1>3. CASE Relist(Loop)
  BY <1>0, <1>3, RelistDoes, SpecStays DEF Fails, Keeps, Same, SpecFor
<1>4. CASE Drift(Loop)
  <2>1. l.pc = "drift" /\ thr'[Loop].m = l.m /\ thr'[Loop].made = l.made /\ l.todo = Live \ l.made /\ ~l.m.gate
    BY <1>0, <1>4, DriftDoes DEF Keeps, Same, Exact, ExactFor, Even
  <2>2. Stamped /\ (l.made = {} \/ Uniform)
    BY <2>1 DEF SpecFor
  <2>3. CASE status = None /\ status' = Stamp(l.m) /\ thr'[Loop].pc = "rollEnv"
    BY <1>0, <2>1, <2>2, <2>3, BlobIs, SpecStays DEF Hashed, Stamped, Uniform, SpecFor
  <2>4. CASE status # None /\ UNCHANGED status /\ (SpecDrift(Loop) => l.m.gate) /\ thr'[Loop].pc = "rollEnv"
    BY <2>1, <2>2, <2>4, BlobIs, SpecStays DEF SpecDrift, Hashed, Stamped, Uniform, SpecFor
  <2>5. CASE thr'[Loop].pc = "roll" /\ thr'[Loop].ret = "stampRolled" /\ thr'[Loop].todo = l.todo
    BY <2>1, <2>5, <2>2, SpecStays DEF InHand, Uniform, SpecFor
  <2> QED
    BY <1>0, <1>4, <2>3, <2>4, <2>5, DriftDoes, NoneParked
<1>5. CASE RollEnv(Loop)
  <2>1. /\ l.pc = "rollEnv" /\ thr'[Loop].m = l.m /\ UNCHANGED status /\ thr'[Loop].pc \in {"roll", "record"}
        /\ thr'[Loop].pc = "roll" => thr'[Loop].ret = "record"
    BY <1>0, <1>5, RollEnvDoes DEF Keeps, Same
  <2> QED
    BY <2>1, SpecStays DEF SpecFor, Uniform
<1>6. CASE RecordRelease(Loop)
  BY <1>0, <1>6, RecordDoes, BlobType, StampType, BlobIs, RecordedIs, SpecStays DEF Stays, Keeps, Same,
     SpecFor, Hashed, IInv, TypeOK
<1>7. CASE Publish(Loop)
  BY <1>0, <1>7, PublishDoes, SpecStays DEF Stays, Keeps, Same, SpecFor
<1> QED
  BY <1>1, <1>2, <1>3, <1>4, <1>5, <1>6, <1>7

\* The steps of an apply that make replicas or take them away.
LEMMA SpecActs ==
  ASSUME Even, IInv, WorkerRole(thr[Loop]), Exact, SpecFor, thr[Loop].op = "apply", frozen = {},
         \/ Scale(Loop) \/ Prune(Loop) \/ RollNext(Loop) \/ Retire(Loop) \/ Respawn(Loop)
  PROVE  SpecFor'
<1> DEFINE l == thr[Loop]
<1> USE DEF At, Rolling
<1>0. /\ Loop \in Threads /\ ~May("fail") /\ l.m \in Manifests /\ NewReplica(Loop).spec = l.m.spec /\ Plain
  BY Apart, PlainFacts, NewReplicaIs DEF Even, WorkerRole
<1>1. CASE Scale(Loop)
  <2>1. l.pc = "scale" /\ UNCHANGED status
    BY <1>0, <1>1, ScaleDoes
  <2>2. ASSUME Missing(Loop), NEW i \in Ids, SpawnsFor(Loop, i), thr'[Loop].made = l.made \cup {i},
               thr'[Loop].pc = "scale", Same(Loop)
        PROVE  SpecFor'
    <3>1. Live' = Live \cup {i} /\ ctrs'[i].spec = l.m.spec /\ \A j \in Live : j # i => ctrs'[j] = ctrs[j]
      BY <1>0, <2>2, SpawnCounts DEF SpawnsFor, Live
    <3>2. Uniform
      <4>1. CASE l.made = {}
        BY <2>1, <4>1, <1>0, FS_EmptySet, LiveFinite, Wants, <2>2 DEF SpecFor, Exact, ExactFor, Missing,
           Whole, Uniform
      <4>2. CASE l.made # {}
        BY <2>1, <4>2 DEF SpecFor
      <4> QED
        BY <4>1, <4>2
    <3>3. Uniform' /\ thr'[Loop].made # {}
      BY <2>2, <3>1, <3>2 DEF Uniform, Same
    <3> QED
      BY <2>2, <3>3 DEF SpecFor
  <2>3. CASE UNCHANGED ctrs /\ Keeps(Loop) /\ thr'[Loop].pc = "prune"
    BY <2>1, <2>3, SpecStays DEF SpecFor, Keeps, Same
  <2> QED
    BY <1>0, <1>1, <2>1, <2>2, <2>3, ScaleDoes DEF Fails, AfterScale
<1>2. CASE Prune(Loop)
  <2>1. l.pc = "prune" /\ UNCHANGED status
    BY <1>0, <1>2, PruneDoes
  <2>2. ASSUME NEW i \in Ids, Removes(i), Keeps(Loop), thr'[Loop].pc = "prune" PROVE SpecFor'
    BY <2>2, <2>1 DEF Removes, Live, Stamped, Uniform, Keeps, Same, SpecFor
  <2>3. CASE UNCHANGED ctrs /\ Same(Loop) /\ thr'[Loop].made = l.made /\ thr'[Loop].pc = AfterPrune(Loop)
    BY <2>3, <2>1, SpecStays DEF AfterPrune, SpecFor, Same
  <2> QED
    BY <1>0, <1>2, <2>2, <2>3, PruneDoes DEF Fails
<1>3. CASE RollNext(Loop) \/ Retire(Loop) \/ Respawn(Loop)
  <2> DEFINE Good == {r \in {NewReplica(Loop)} \cup {ctrs[i] : i \in Live} : r.spec = l.m.spec}
  <2>1. l.pc \in Rolling /\ l.ret \in {"stampRolled", "record"} /\ UNCHANGED status
    BY <1>0, <1>3, RollNextDoes, RetireDoes, RespawnDoes DEF WorkerRole
  <2>2. /\ thr'[Loop].pc \in Rolling \/ (thr'[Loop].pc = l.ret /\ l.pc = "roll" /\ l.todo = {} /\ UNCHANGED ctrs)
        /\ thr'[Loop].ret = l.ret /\ thr'[Loop].m = l.m
    BY <1>0, <1>3, LoopRolls DEF Same
  <2>3. CASE thr'[Loop].pc \notin Rolling
    BY <2>1, <2>2, <2>3, SpecStays DEF SpecFor, Uniform, InHand
  <2>4. CASE thr'[Loop].pc \in Rolling
    <3>1. NewReplica(Loop) \in Good /\ \A i \in Live : ctrs[i] \in Good \/ i \in InHand(Loop)
      BY <1>0, <2>1 DEF SpecFor
    <3>2. \A r \in Good : r.spec = l.m.spec
      OBVIOUS
    <3> HIDE DEF Good
    <3>5. Unfrozen = Live /\ Unfrozen' = Live'
      BY <1>3, NoneParked DEF Unfrozen, Live, RollNext, Retire, Respawn
    <3>3. \A i \in Live' : ctrs'[i] \in Good \/ i \in InHand(Loop)'
      BY <1>0, <1>3, <2>2, <2>4, <3>1, <3>5, RollKeeps
    <3>4. thr'[Loop].ret = "record" => Hashed'
      BY <2>1, <2>2 DEF SpecFor, Hashed
    <3> QED
      BY <2>2, <2>4, <3>2, <3>3, <3>4 DEF SpecFor
  <2> QED
    BY <2>3, <2>4
<1> QED
  BY <1>1, <1>2, <1>3

LEMMA SpecTrueKept ==
  ASSUME Even, IInv, Roles, PlainRequests, Exact, SpecTrue, [Next]_vars
  PROVE  SpecTrue'
<1> USE DEF At
<1>0. Loop \in Threads /\ Plain /\ ~May("fail")
  BY Apart, PlainFacts DEF Even
<1>1. CASE LoopWorks
  <2> DEFINE l == thr[Loop]
  <2>0. /\ WorkerRole(l) /\ WorkerRole(thr'[Loop]) /\ ReconcileStep(Loop)
        /\ ~ScheduleRetry(Loop) /\ ~GiveUp(Loop) /\ ~Retry(Loop)
        /\ Outcome(Loop) \/ (Same(Loop) /\ thr'[Loop].pc # "idle")
    BY <1>0, <1>1, LoopGoesOn DEF Exact, GiveUp, Retry
  <2>1. CASE Outcome(Loop)
    <3>1. l.pc = "ok" /\ thr'[Loop].op = "none" /\ UNCHANGED ctrs /\ Live' = Live
      BY <1>0, <2>1, OutcomeDoes DEF Exact, Idle, Live
    <3>2. status' # None /\ status'.hash = Blob.hash
      BY <1>0, <2>1, OutcomeDoes, BlobIs
    <3>3. CASE l.op = "apply"
      BY <2>0, <3>1, <3>3, <3>2, BlobIs, Wants DEF SpecTrue, SpecFor, Exact, ExactFor, Scaled, WorkerRole,
         Stamped, Hashed, Uniform, Even, Whole
    <3>4. CASE l.op # "apply"
      BY <2>0, <3>1, <3>4, <3>2 DEF WorkerRole, Exact, SpecTrue, Stamped, Whole
    <3> QED
      BY <3>3, <3>4
  <2>2. CASE Same(Loop) /\ l.op = "apply"
    <3>1. ~ListDoomed(Loop) /\ ~RemoveNext(Loop)
      BY <2>0, <2>2 DEF WorkerRole, ApplyPcs, Rolling, ListDoomed, RemoveNext
    <3>2. SpecFor
      BY <2>2 DEF SpecTrue
    <3>3. ASSUME \/ LinkEnv(Loop) \/ ListLive(Loop) \/ Decide(Loop) \/ StampNew(Loop) \/ Relist(Loop)
                 \/ Drift(Loop) \/ StampRolled(Loop) \/ RollEnv(Loop) \/ RecordRelease(Loop) \/ Publish(Loop)
          PROVE  SpecFor'
      BY <1>0, <3>3, ListDoes, RelistDoes, <2>0, <2>2, <3>2, SpecQuiet DEF PlainRequests, LinkEnv, Decide, StampNew, Drift,
         StampRolled, RollEnv, RecordRelease, Publish
    <3>4. ASSUME Scale(Loop) \/ Prune(Loop) \/ RollNext(Loop) \/ Retire(Loop) \/ Respawn(Loop)
          PROVE  SpecFor'
      BY <2>0, <2>2, <3>2, <3>4, SpecActs DEF PlainRequests
    <3>5. Outcome(Loop) \/ SpecFor'
      BY <2>0, <3>1, <3>3, <3>4 DEF ReconcileStep
    <3>6. thr'[Loop].op = "apply"
      BY <2>2 DEF Same
    <3> QED
      BY <2>1, <3>5, <3>6 DEF SpecTrue
  <2>3. CASE Same(Loop) /\ l.op # "apply" /\ ~Outcome(Loop)
    <3>1. l.op = "remove" /\ thr'[Loop].op = "remove" /\ Stamped
      BY <1>1, <2>0, <2>3 DEF WorkerRole, Same, SpecTrue, LoopWorks, Exact
    <3>2. l.pc \in {"listDoomed", "remove", "ok"}
      BY <2>0, <3>1 DEF WorkerRole, Exact
    <3>3. ListDoomed(Loop) \/ RemoveNext(Loop)
      BY <2>0, <2>3, <3>2
         DEF ReconcileStep, LinkEnv, ListLive, Decide, Scale, Prune, StampNew, Relist, Drift, StampRolled,
             RollEnv, RecordRelease, Publish, RollNext, Retire, Respawn
    <3>4. CASE ListDoomed(Loop)
      BY <1>0, <3>4, ListDoomedDoes, <3>1, SpecStays DEF SpecTrue
    <3>5. CASE RemoveNext(Loop)
      <4>1. l.todo = Live /\ Live \subseteq Ids
        BY <1>0, <3>1, <3>5, RemoveNextDoes DEF Exact, Live
      <4>2. CASE l.todo = {} /\ UNCHANGED ctrs /\ status' = None
        BY <3>1, <4>1, <4>2, SpecStays DEF SpecTrue, Stamped
      <4>3. ASSUME NEW i \in Ids, Removes(i), UNCHANGED status PROVE SpecTrue'
        BY <4>3, <3>1 DEF Removes, Live, Stamped, SpecTrue
      <4> QED
        BY <1>0, <3>5, <4>2, <4>3, RemoveNextDoes DEF Fails
    <3> QED
      BY <3>3, <3>4, <3>5
  <2> QED
    BY <2>0, <2>1, <2>2, <2>3
<1>2. CASE NextEvent \/ ListAll
  <2>1. /\ UNCHANGED <<ctrs, status, frozen>> /\ thr[Loop].op = "none"
        /\ \/ thr'[Loop].op = "none" \/ thr'[Loop].op = "remove"
           \/ thr'[Loop].op = "apply" /\ thr'[Loop].pc = "link"
    BY <1>2, NextEventDoes, ListAllDoes, Apart DEF TakesUp, Idle, Roles, WorkerRole, ApplyPcs, Rolling
  <2>2. Stamped' /\ Whole'
    BY <2>1, SpecStays DEF SpecTrue
  <2> QED
    BY <2>1, <2>2 DEF SpecTrue, SpecFor, Rolling
<1>3. CASE LoopWaits
  BY <1>3, SpecStays DEF LoopWaits, InHand, Live, SpecTrue, SpecFor
<1> QED
  BY <1>0, <1>1, <1>2, <1>3, PlainSteps

\* Where the loop rests, with nothing it was told, every replica is of the
\* desired spec; and no image but the first is there to run.
Arrived == At(Loop, "idle") /\ chan = <<>> /\ desired # None /\ phase # "replay" =>
             \A i \in Live : ctrs[i].spec = desired.spec
OneImage == \A i \in Live : ctrs[i].img = img

LEMMA ArrivedKept ==
  ASSUME Even, IInv, Roles, PlainRequests, Told, Exact, SpecTrue, Arrived, [Next]_vars
  PROVE  Arrived'
<1> USE DEF At
<1>0. Loop \in Threads /\ chan \in Seq(Event) /\ Plain
  BY Apart DEF IInv, TypeOK, Even
<1>1. CASE LoopWorks /\ thr'[Loop].pc = "idle" /\ chan = <<>> /\ desired # None
  <2>1. Outcome(Loop)
    BY <1>0, <1>1, LoopGoesOn DEF Exact, GiveUp, Retry
  <2>2. thr[Loop].pc = "ok" /\ UNCHANGED ctrs /\ Live' = Live
    BY <1>0, <2>1, OutcomeDoes DEF Exact, Live
  <2>3. thr[Loop].op = "apply" /\ thr[Loop].m = desired /\ desired' = desired
    BY <1>1, <2>2 DEF Told, LoopWorks
  <2>4. Uniform
    BY <2>2, <2>3 DEF SpecTrue, SpecFor
  <2> QED
    BY <2>2, <2>3, <2>4 DEF Uniform, Arrived
<1>2. CASE LoopWorks /\ (thr'[Loop].pc # "idle" \/ chan # <<>> \/ desired = None)
  BY <1>2 DEF LoopWorks, Arrived
<1>3. CASE NextEvent
  BY <1>3, NextEventDoes DEF TakesUp, Arrived
<1>4. CASE ListAll
  BY <1>4, ListAllDoes DEF TakesUp, Arrived
<1>5. CASE LoopWaits
  <2>1. Live' = Live
    BY <1>5 DEF LoopWaits, Live
  <2>2. CASE UNCHANGED <<desired, chan>> /\ (phase' = phase \/ (phase = "gap" /\ phase' = "watch"))
    BY <1>5, <2>1, <2>2 DEF LoopWaits, Arrived
  <2>3. CASE chan' = Append(chan, desired')
    <3>1. chan' # <<>>
      BY <1>0, <2>3
    <3> QED
      BY <3>1 DEF Arrived
  <2> QED
    BY <1>5, <2>2, <2>3 DEF LoopWaits
<1> QED
  BY <1>0, <1>1, <1>2, <1>3, <1>4, <1>5, PlainSteps

LEMMA OneImageKept ==
  ASSUME Even, IInv, Roles, PlainRequests, OneImage, [Next]_vars
  PROVE  OneImage'
<1>0. Loop \in Threads /\ Plain /\ ~May("deploy")
  BY Apart DEF Even
<1>1. img' = img
  BY <1>0, PlainSteps
<1>2. CASE LoopWorks
  BY <1>0, <1>2, WorksCtrs, NewReplicaIs, <1>1 DEF LoopWorks, Makes, OneImage, Live
<1>3. CASE NextEvent \/ ListAll \/ LoopWaits
  <2>1. UNCHANGED ctrs
    BY <1>3, NextEventDoes, ListAllDoes DEF LoopWaits
  <2> QED
    BY <1>1, <2>1 DEF OneImage, Live
<1> QED
  BY <1>0, <1>2, <1>3, PlainSteps

LEMMA EvenInit == ASSUME Even, Init PROVE SpecTrue /\ Arrived /\ OneImage
<1> USE DEF At
<1>1. thr[Loop] = Idle
  BY Apart DEF Init
<1>2. CASE desired = None
  BY <1>2, <1>1 DEF Init, Live, SpecTrue, Stamped, Whole, Arrived, OneImage, Idle
<1>3. CASE desired # None
  <2>1. desired \in Manifests /\ desired.want \in Nat /\ desired.want <= Cardinality(Ids)
    BY <1>3, StartsAssumption, Wants DEF Init, Even
  <2>2. /\ SettledReplica(desired) # None /\ SettledReplica(desired).spec = desired.spec
        /\ SettledReplica(desired).img = FirstBuild
    BY <2>1, ManifestsAssumption, StartsAssumption, FlagsAssumption, BoundsAssumption, NoneIsNoRecord DEF
       SettledReplica, Replica, File
  <2>3. \A i \in Ids : ctrs[i] = IF i \in First(Ids, desired.want) THEN SettledReplica(desired) ELSE None
    <3>1. frozen = {}
      BY PlainFacts DEF Init, Even
    <3> QED
      BY <1>3, <3>1 DEF Init
  <2>4. Live = First(Ids, desired.want) /\ \A i \in Live : ctrs[i] = SettledReplica(desired)
    BY <2>2, <2>3 DEF Live, First
  <2>5. Cardinality(Live) >= desired.want
    BY <2>1, IdsAssumption, FS_CardinalityType, <2>4, FirstEnough
  <2>6. Whole
    BY <2>1, <2>5 DEF Whole, Even
  <2>7. Stamped
    <3>1. status # None /\ status.hash = desired.spec
      <4>1. status = [hash |-> desired.spec, replicas |-> desired.want, err |-> FALSE,
                      hist |-> {[m |-> desired, img |-> FirstBuild]}]
        BY <1>3 DEF Init
      <4>2. status.hash = desired.spec
        BY <4>1
      <4>3. desired.spec \in Specs
        BY <2>1, ManifestsAssumption
      <4>4. status \in Status
        BY <2>1, <4>1, <4>3, StartsAssumption, BoundsAssumption DEF Status, Record
      <4> QED
        BY <4>2, <4>4, NoneIsNoRecord
    <3> QED
      BY <2>2, <2>4, <3>1 DEF Stamped
  <2>8. Arrived /\ OneImage
    BY <2>2, <2>4 DEF Init, Arrived, OneImage
  <2> QED
    BY <1>1, <2>6, <2>7, <2>8 DEF SpecTrue, Idle
<1> QED
  BY <1>2, <1>3

\* Where no call fails, the host stays up and nothing is built, the deployments
\* without a release block and of an unchanging count come to what was applied
\* last, however many applies, deletions and configurations came meanwhile: once
\* all is quiet every replica is of the desired spec, with the variables the
\* store now resolves to, in the number wanted, and none of a deleted deployment
\* (apply, recreateReplicasIfSpecChanged, remove).  A manifest that changes the
\* count along with the spec leaves replicas of the old spec behind (apply
\* persists the new hash before it looks for drift), so the count is one; the
\* env roll of a manifest behind a release block runs its spec and persists no
\* hash; and a rebuild beside an apply may leave replicas of two builds.
THEOREM Converges ==
  ASSUME Retries = {}, Ops \subseteq {"apply", "delete", "config"}, Shared,
         \A m \in Manifests : ~m.gate /\ m.want <= Cardinality(Ids),
         \A m, n \in Manifests : m.want = n.want
  PROVE  Spec => []Converged
<1>0. Even
  BY DEF Even, Plain, May
<1>1. Init => IInv /\ PlainIInv /\ SpecTrue /\ Arrived /\ OneImage
  BY <1>0, InitTyped, PlainInit, EvenInit DEF Even
<1>2. IInv /\ PlainIInv /\ SpecTrue /\ Arrived /\ OneImage /\ [Next]_vars =>
        (IInv /\ PlainIInv /\ SpecTrue /\ Arrived /\ OneImage)'
  BY <1>0, NextTyped, PlainKept, SpecTrueKept, ArrivedKept, OneImageKept DEF Even, PlainIInv
<1>3. IInv /\ PlainIInv => EnvReached /\ CountReached /\ NothingLeft
  BY PlainReaches
<1>4. Arrived /\ OneImage => SpecReached
  BY Apart DEF Arrived, OneImage, SpecReached, Reported, Quiet, At, Unfrozen
<1>5. IInv /\ PlainIInv /\ Arrived /\ OneImage => Converged
  BY <1>3, <1>4 DEF Converged
<1> QED
  BY <1>1, <1>2, <1>5, PTL DEF Spec
=============================================================================
