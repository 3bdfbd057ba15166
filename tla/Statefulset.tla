----------------------------- MODULE Statefulset -----------------------------
(***************************************************************************)
(* One statefulset: the reconciler's loop running its handler              *)
(* (handlers_statefulset.go) and, beside it, the HTTP handlers that act on *)
(* the same pods: restart, rollback, pod stop and start, rebootstrap of    *)
(* one ordinal, delete with prune (api.go).                                *)
(*                                                                         *)
(* Pods and volumes are named by ordinal, so two goroutines that create    *)
(* ordinal n create the same container.  A call of docker or etcd that     *)
(* another goroutine can see between is a step; reads made back to back    *)
(* whose order nothing depends on share one.  Failures of calls are left   *)
(* to Deployment, the addresses of pods to PodIPs, probes to Probes.       *)
(***************************************************************************)
EXTENDS Integers, Sequences, FiniteSets

CONSTANTS
  Loop,       \* the reconciler's loop
  Https,      \* goroutines serving HTTP requests
  Ordinals,   \* ordinals a manifest may ask for
  Specs,      \* the hashed part of a spec
  Manifests,  \* [spec, want]: the manifests operators apply
  Ops,        \* the operations of this instance
  Patient,    \* operators wait until all earlier work has settled
  MaxOps,     \* bound: operations and crashes
  None

ASSUME StatefulsetAssumption ==
  /\ Ordinals \subseteq Nat /\ 0 \in Ordinals /\ IsFiniteSet(Ordinals)
  /\ Manifests \subseteq [spec : Specs, want : Nat]
  /\ None \notin Manifests /\ None \notin Specs /\ None \notin Ordinals
  /\ None \notin Https /\ None # Loop /\ Loop \notin Https
  /\ None \notin [spec : Specs, rel : 0 .. MaxOps, up : BOOLEAN]
  /\ Patient \in BOOLEAN /\ MaxOps \in Nat

Threads == {Loop} \cup Https

VARIABLES
  desired,  \* /desired/statefulset/<scope>/<name>: a manifest, or None
  chan,     \* watch events the loop has not handled
  frozen,   \* /frozen/...: ordinals an operator stopped for good
  status,   \* the status blob: hash, replicas, recorded snapshots
  pods,     \* per ordinal: the container docker has, running or not
  vols,     \* per ordinal: "none", "kept" (with labels), "bare" (docker made it)
  mutex,    \* holder of rolloutLocks[app]
  thr,      \* per goroutine: where it is and what it remembers
  ops,      \* operations and crashes so far
  stranded  \* history: ordinals a restart unfroze that had no container, until
            \* an apply looks at them

vars == <<desired, chan, frozen, status, pods, vols, mutex, thr, ops, stranded>>

Blank == [hash |-> None, want |-> 0, recs |-> {}]
Idle == [op |-> "none", pc |-> "idle", m |-> None, live |-> {}, frz |-> {}, todo |-> {},
         n |-> None, back |-> "up", ret |-> "leave", rel |-> 0, flags |-> {}]

At(t, where)   == thr[t].pc = where
Set(t, r)      == thr' = [thr EXCEPT ![t] = r]
Goto(t, where) == Set(t, [thr[t] EXCEPT !.pc = where])

Live == {n \in Ordinals : pods[n] # None}
Highest(S) == CHOOSE n \in S : \A k \in S : k <= n
Lowest(S)  == CHOOSE n \in S : \A k \in S : n <= k
Below(want) == {n \in Ordinals : n < want}

Emit(e) == chan' = Append(chan, e)

Quiet == chan = <<>> /\ \A t \in Threads : At(t, "idle")

\* Where a thread's work ends: an error has no place here.
Done(t) == Set(t, Idle)
-----------------------------------------------------------------------------
(* The loop, and apply.                                                    *)

NextEvent ==
  /\ At(Loop, "idle") /\ chan # <<>>
  /\ chan' = Tail(chan)
  /\ Set(Loop, IF Head(chan) = None THEN [Idle EXCEPT !.op = "remove", !.pc = "doomed"]
               ELSE [Idle EXCEPT !.op = "apply", !.pc = "list", !.m = Head(chan)])
  /\ UNCHANGED <<desired, frozen, status, pods, vols, mutex, ops, stranded>>

\* resolveAppEnv and the listing.  Whether the env file changed is the
\* operator's doing ("env"); image ids never drift here: tags are immutable.
List(t) ==
  /\ At(t, "list")
  /\ \E changed \in {{}} \cup {{"changed"} : o \in Ops \cap {"env"}} :
       Set(t, [thr[t] EXCEPT !.pc = "decide", !.live = Live, !.flags = changed])
  /\ UNCHANGED <<desired, chan, frozen, status, pods, vols, mutex, ops, stranded>>

\* The frozen set and the blob are read; apply mints a release on the first
\* apply, on drift and on a change of count.
Decide(t) ==
  LET m == thr[t].m
      first == status.hash = None
      mints == first \/ status.hash # m.spec \/ (status.want # 0 /\ status.want # m.want)
  IN
  /\ At(t, "decide")
  /\ Set(t, [thr[t] EXCEPT !.pc = "up", !.frz = frozen,
               !.todo = (Below(m.want) \ thr[t].live) \ frozen,
               !.flags = @ \cup {f \in {"first"} : first} \cup {f \in {"minted"} : mints}])
  /\ stranded' = {}
  /\ UNCHANGED <<desired, chan, frozen, status, pods, vols, mutex, ops>>

\* ensureOrdinalsUp, lowest ordinal first.
Up(t) ==
  LET todo == thr[t].todo IN
  /\ At(t, "up")
  /\ Set(t, IF todo # {}
            THEN [thr[t] EXCEPT !.pc = "mount", !.back = "up", !.n = Lowest(todo),
                                !.todo = todo \ {Lowest(todo)}]
            ELSE [thr[t] EXCEPT !.pc = IF thr[t].op = "rollback" THEN "restale" ELSE "prune"])
  /\ UNCHANGED <<desired, chan, frozen, status, pods, vols, mutex, ops, stranded>>

\* ensureClaimsForOrdinal
Mount(t) ==
  /\ At(t, "mount")
  /\ vols' = [vols EXCEPT ![thr[t].n] = IF @ = "none" THEN "kept" ELSE @]
  /\ Goto(t, "run")
  /\ UNCHANGED <<desired, chan, frozen, status, pods, mutex, ops, stranded>>

\* Containers.Ensure: a running container is left alone, whatever its spec; a
\* stopped one is started; docker creates, without labels, a volume that is
\* not there.
Run(t) ==
  LET n == thr[t].n IN
  /\ At(t, "run")
  /\ pods' = [pods EXCEPT ![n] = IF @ # None THEN [@ EXCEPT !.up = TRUE]
                ELSE [spec |-> thr[t].m.spec, rel |-> thr[t].rel, up |-> TRUE]]
  /\ vols' = [vols EXCEPT ![n] = IF pods[n] = None /\ @ = "none" THEN "bare" ELSE @]
  /\ Set(t, [thr[t] EXCEPT !.pc = thr[t].back, !.n = None])
  /\ UNCHANGED <<desired, chan, frozen, status, mutex, ops, stranded>>

\* pruneOrdinalsAbove lists anew; a rollback has just read the frozen set.
Prune(t) ==
  /\ At(t, "prune")
  /\ Set(t, [thr[t] EXCEPT !.pc = "trim", !.todo = Live \ Below(thr[t].m.want),
               !.frz = IF thr[t].op = "rollback" THEN frozen ELSE thr[t].frz])
  /\ UNCHANGED <<desired, chan, frozen, status, pods, vols, mutex, ops, stranded>>

\* The listed pods go one by one, highest ordinal first.
RemoveHighest(t) ==
  LET n == Highest(thr[t].todo) IN
  /\ thr[t].todo # {}
  /\ pods' = [pods EXCEPT ![n] = None]
  /\ Set(t, [thr[t] EXCEPT !.todo = @ \ {n}])

Trim(t) ==
  /\ At(t, "trim")
  /\ \/ RemoveHighest(t)
     \/ /\ thr[t].todo = {}
        /\ Goto(t, IF thr[t].op = "rollback" THEN "relist" ELSE "drift")
        /\ UNCHANGED pods
  /\ UNCHANGED <<desired, chan, frozen, status, vols, mutex, ops, stranded>>

\* Variant: drift is not looked at.
DriftIgnored(t) ==
  /\ At(t, "drift")
  /\ Goto(t, "stamp")
  /\ UNCHANGED <<desired, chan, frozen, status, pods, vols, mutex, ops, stranded>>

\* recreateOrdinalsIfSpecChanged: no hash is the baseline, another is a roll.
Drift(t) ==
  /\ At(t, "drift")
  /\ Set(t, IF status.hash \in {None, thr[t].m.spec} THEN [thr[t] EXCEPT !.pc = "stamp"]
            ELSE [thr[t] EXCEPT !.pc = "lock", !.ret = "stamp", !.flags = @ \cup {"rolled"}])
  /\ UNCHANGED <<desired, chan, frozen, status, pods, vols, mutex, ops, stranded>>

\* writeStatus, and then: the roll of a changed environment, unless a roll or
\* a first apply just put it into every pod.
Stamp(t) ==
  /\ At(t, "stamp")
  /\ status' = [status EXCEPT !.hash = thr[t].m.spec, !.want = thr[t].m.want]
  /\ Set(t, IF thr[t].op = "rollback" THEN [thr[t] EXCEPT !.pc = "leave"]
            ELSE IF "changed" \in thr[t].flags /\ thr[t].flags \cap {"rolled", "first"} = {}
            THEN [thr[t] EXCEPT !.pc = "lock", !.ret = "record"]
            ELSE [thr[t] EXCEPT !.pc = "record"])
  /\ UNCHANGED <<desired, chan, frozen, pods, vols, mutex, ops, stranded>>

Record(t) ==
  /\ At(t, "record")
  /\ status' = IF "minted" \in thr[t].flags THEN [status EXCEPT !.recs = @ \cup {thr[t].m}]
               ELSE status
  /\ Goto(t, "leave")
  /\ UNCHANGED <<desired, chan, frozen, pods, vols, mutex, ops, stranded>>

Leave(t) ==
  /\ At(t, "leave")
  /\ Done(t)
  /\ UNCHANGED <<desired, chan, frozen, status, pods, vols, mutex, ops, stranded>>
-----------------------------------------------------------------------------
(* rollingReplaceTopDown, from apply, restart and rollback alike.          *)

\* Variant: no lock.
LockNothing(t) ==
  /\ At(t, "lock")
  /\ mutex' = t
  /\ Set(t, [thr[t] EXCEPT !.pc = "roll", !.live = Live \ thr[t].frz, !.todo = Live \ thr[t].frz])
  /\ UNCHANGED <<desired, chan, frozen, status, pods, vols, ops, stranded>>

\* Variant: frozen ordinals are rolled like the others.
LockThawed(t) ==
  /\ At(t, "lock") /\ mutex = None
  /\ mutex' = t
  /\ Set(t, [thr[t] EXCEPT !.pc = "roll", !.live = Live, !.todo = Live])
  /\ UNCHANGED <<desired, chan, frozen, status, pods, vols, ops, stranded>>

\* The pods are listed under the lock; the frozen set was read before it.
Lock(t) ==
  /\ At(t, "lock") /\ mutex = None
  /\ mutex' = t
  /\ Set(t, [thr[t] EXCEPT !.pc = "roll", !.live = Live \ thr[t].frz, !.todo = Live \ thr[t].frz])
  /\ UNCHANGED <<desired, chan, frozen, status, pods, vols, ops, stranded>>

\* Variant: bottom-up.
TakeLowest(t) ==
  LET n == Lowest(thr[t].todo) IN
  /\ At(t, "roll") /\ thr[t].todo # {}
  /\ pods' = [pods EXCEPT ![n] = None]
  /\ Set(t, [thr[t] EXCEPT !.pc = "mount", !.back = "roll", !.n = n, !.todo = @ \ {n}])
  /\ UNCHANGED <<desired, chan, frozen, status, vols, mutex, ops, stranded>>

\* Probes stopped, plugins drained, the container removed with grace.
Take(t) ==
  LET n == Highest(thr[t].todo) IN
  /\ At(t, "roll") /\ thr[t].todo # {}
  /\ pods' = [pods EXCEPT ![n] = None]
  /\ Set(t, [thr[t] EXCEPT !.pc = "mount", !.back = "roll", !.n = n, !.todo = @ \ {n}])
  /\ UNCHANGED <<desired, chan, frozen, status, vols, mutex, ops, stranded>>

\* Variant: the lock is not released.
UnlockNothing(t) ==
  /\ At(t, "roll") /\ thr[t].todo = {}
  /\ Goto(t, thr[t].ret)
  /\ UNCHANGED <<desired, chan, frozen, status, pods, vols, mutex, ops, stranded>>

Unlock(t) ==
  /\ At(t, "roll") /\ thr[t].todo = {}
  /\ mutex' = None
  /\ Goto(t, thr[t].ret)
  /\ UNCHANGED <<desired, chan, frozen, status, pods, vols, ops, stranded>>
-----------------------------------------------------------------------------
(* remove: pods go, volumes and the frozen set stay.                       *)

Doomed(t) ==
  /\ At(t, "doomed")
  /\ Set(t, [thr[t] EXCEPT !.pc = "remove", !.todo = Live])
  /\ UNCHANGED <<desired, chan, frozen, status, pods, vols, mutex, ops, stranded>>

RemovePods(t) ==
  /\ At(t, "remove")
  /\ \/ RemoveHighest(t) /\ UNCHANGED status
     \/ /\ thr[t].todo = {}
        /\ status' = Blank
        /\ Goto(t, "leave")
        /\ UNCHANGED pods
  /\ UNCHANGED <<desired, chan, frozen, vols, mutex, ops, stranded>>
-----------------------------------------------------------------------------
(* Requests.                                                               *)

Request(op) ==
  /\ op \in Ops /\ ops < MaxOps /\ (Patient => Quiet)
  /\ ops' = ops + 1

Apply(m) ==
  /\ Request("apply")
  /\ desired' = m /\ Emit(m)
  /\ UNCHANGED <<frozen, status, pods, vols, mutex, thr, stranded>>

Delete ==
  /\ Request("delete") /\ desired # None
  /\ desired' = None /\ Emit(None)
  /\ UNCHANGED <<frozen, status, pods, vols, mutex, thr, stranded>>

\* applyDelete with prune: the manifest, the pods, then the labelled volumes.
DeletePrune(t) ==
  /\ Request("prune") /\ At(t, "idle") /\ desired # None
  /\ desired' = None /\ Emit(None)
  /\ Set(t, [Idle EXCEPT !.op = "prune", !.pc = "listPods"])
  /\ UNCHANGED <<frozen, status, pods, vols, mutex, stranded>>

\* Variant: volumes are removed under their pods.
ListNoPods(t) ==
  /\ At(t, "listPods")
  /\ Goto(t, "listVols")
  /\ UNCHANGED <<desired, chan, frozen, status, pods, vols, mutex, ops, stranded>>

ListPods(t) ==
  /\ At(t, "listPods")
  /\ Set(t, [thr[t] EXCEPT !.pc = "prunePods", !.todo = Live])
  /\ UNCHANGED <<desired, chan, frozen, status, pods, vols, mutex, ops, stranded>>

PrunePods(t) ==
  /\ At(t, "prunePods")
  /\ \/ \E n \in thr[t].todo : /\ pods' = [pods EXCEPT ![n] = None]
                               /\ Set(t, [thr[t] EXCEPT !.todo = @ \ {n}])
     \/ thr[t].todo = {} /\ Goto(t, "listVols") /\ UNCHANGED pods
  /\ UNCHANGED <<desired, chan, frozen, status, vols, mutex, ops, stranded>>

\* A rebootstrap looks for the volumes of its ordinal only.
ListVols(t) ==
  /\ At(t, "listVols")
  /\ Set(t, [thr[t] EXCEPT !.pc = "dropVols",
               !.todo = {k \in Ordinals : /\ vols[k] = "kept"
                                          /\ thr[t].n # None => k = thr[t].n}])
  /\ UNCHANGED <<desired, chan, frozen, status, pods, vols, mutex, ops, stranded>>

\* A volume some container mounts is skipped after the retries.
DropVols(t) ==
  /\ At(t, "dropVols")
  /\ \/ \E n \in thr[t].todo :
          /\ vols' = [vols EXCEPT ![n] = IF pods[n] = None THEN "none" ELSE @]
          /\ Set(t, [thr[t] EXCEPT !.todo = @ \ {n}])
     \/ /\ thr[t].todo = {}
        /\ Goto(t, IF thr[t].op = "prune" THEN "leave" ELSE "reget")
        /\ UNCHANGED vols
  /\ UNCHANGED <<desired, chan, frozen, status, pods, mutex, ops, stranded>>

\* RebootstrapPod: the container, its volumes when pruning, then apply on the
\* request's own goroutine with the manifest read in between.
Rebootstrap(t, n, prune) ==
  /\ Request("rebootstrap") /\ At(t, "idle") /\ desired # None
  /\ pods' = [pods EXCEPT ![n] = None]
  /\ Set(t, [Idle EXCEPT !.op = "rebootstrap", !.n = n,
               !.pc = IF prune THEN "listVols" ELSE "reget"])
  /\ UNCHANGED <<desired, chan, frozen, status, vols, mutex, stranded>>

Reget(t) ==
  /\ At(t, "reget")
  /\ Set(t, IF desired = None THEN Idle
            ELSE [Idle EXCEPT !.op = "apply", !.pc = "list", !.m = desired])
  /\ UNCHANGED <<desired, chan, frozen, status, pods, vols, mutex, ops, stranded>>

\* handleRestart clears the frozen set; Restart reads the manifest, lists,
\* reads the frozen set again and rolls without touching the blob.
Restart(t) ==
  /\ Request("restart") /\ At(t, "idle")
  /\ frozen' = {}
  /\ stranded' = stranded \cup (frozen \ Live)
  /\ Set(t, [Idle EXCEPT !.op = "restart", !.pc = "get"])
  /\ UNCHANGED <<desired, chan, status, pods, vols, mutex>>

RestartGet(t) ==
  /\ At(t, "get")
  /\ Set(t, IF desired = None THEN Idle ELSE [thr[t] EXCEPT !.pc = "look", !.m = desired])
  /\ UNCHANGED <<desired, chan, frozen, status, pods, vols, mutex, ops, stranded>>

RestartLook(t) ==
  /\ At(t, "look")
  /\ Set(t, IF Live = {} THEN Idle ELSE [thr[t] EXCEPT !.pc = "lock", !.frz = frozen])
  /\ UNCHANGED <<desired, chan, frozen, status, pods, vols, mutex, ops, stranded>>

\* Variant: a pod without a replica_id label is frozen too.
PodStopUnlabelled(t, n) ==
  /\ Request("stop") /\ At(t, "idle") /\ pods[n] # None
  /\ pods' = [pods EXCEPT ![n].up = FALSE]
  /\ Set(t, [Idle EXCEPT !.op = "stop", !.pc = "readFrozen"])
  /\ UNCHANGED <<desired, chan, frozen, status, vols, mutex, stranded>>

\* handlePodStop: docker stop, then the ordinal is added to the set read.
PodStop(t, n) ==
  /\ Request("stop") /\ At(t, "idle") /\ pods[n] # None
  /\ pods' = [pods EXCEPT ![n].up = FALSE]
  /\ Set(t, [Idle EXCEPT !.op = "stop", !.pc = "readFrozen", !.n = n])
  /\ UNCHANGED <<desired, chan, frozen, status, vols, mutex, stranded>>

ReadFrozen(t) ==
  /\ At(t, "readFrozen")
  /\ Set(t, [thr[t] EXCEPT !.pc = "writeFrozen", !.frz = frozen])
  /\ UNCHANGED <<desired, chan, frozen, status, pods, vols, mutex, ops, stranded>>

WriteFrozen(t) ==
  /\ At(t, "writeFrozen")
  /\ frozen' = IF thr[t].op = "stop" THEN thr[t].frz \cup {thr[t].n}
               ELSE IF thr[t].n \in thr[t].frz THEN thr[t].frz \ {thr[t].n}
               ELSE frozen
  /\ Goto(t, IF thr[t].op = "stop" THEN "leave" ELSE "clear")
  /\ UNCHANGED <<desired, chan, status, pods, vols, mutex, ops, stranded>>

\* handlePodStart: out of the frozen set, the container removed, the manifest
\* read and put back so that the loop spawns the ordinal anew.
PodStart(t, n) ==
  /\ Request("start") /\ At(t, "idle") /\ pods[n] # None
  /\ Set(t, [Idle EXCEPT !.op = "start", !.pc = "readFrozen", !.n = n])
  /\ UNCHANGED <<desired, chan, frozen, status, pods, vols, mutex, stranded>>

ClearPod(t) ==
  /\ At(t, "clear")
  /\ pods' = [pods EXCEPT ![thr[t].n] = None]
  /\ Goto(t, "fetch")
  /\ UNCHANGED <<desired, chan, frozen, status, vols, mutex, ops, stranded>>

Fetch(t) ==
  /\ At(t, "fetch")
  /\ Set(t, IF desired = None THEN Idle ELSE [thr[t] EXCEPT !.pc = "put", !.m = desired])
  /\ UNCHANGED <<desired, chan, frozen, status, pods, vols, mutex, ops, stranded>>

\* Put, by pod start with the manifest it read, by rollback with its target.
Put(t) ==
  /\ At(t, "put")
  /\ desired' = thr[t].m /\ Emit(thr[t].m)
  /\ Goto(t, IF thr[t].op = "rollback" THEN "append" ELSE "leave")
  /\ UNCHANGED <<frozen, status, pods, vols, mutex, ops, stranded>>

\* pickRollbackTarget: the release the operator names, or the one before the
\* last; what the history records of a statefulset has succeeded.
Targets == status.recs

\* Rollback: the manifest is put first, so the loop works beside what follows.
Rollback(t) ==
  /\ Request("rollback") /\ At(t, "idle") /\ desired # None
  /\ \E m \in Targets :
       Set(t, [Idle EXCEPT !.op = "rollback", !.pc = "put", !.m = m, !.rel = ops'])
  /\ UNCHANGED <<desired, chan, frozen, status, pods, vols, mutex, stranded>>

AppendRecord(t) ==
  /\ At(t, "append")
  /\ status' = [status EXCEPT !.recs = @ \cup {thr[t].m}]
  /\ Goto(t, "prune")
  /\ UNCHANGED <<desired, chan, frozen, pods, vols, mutex, ops, stranded>>

\* Variant: the pods are left to the loop.
RelistOnly(t) ==
  /\ At(t, "relist")
  /\ Goto(t, "stamp")
  /\ UNCHANGED <<desired, chan, frozen, status, pods, vols, mutex, ops, stranded>>

\* rolloutRollback lists after the scale-down and rolls what it finds.
RelistForRoll(t) ==
  /\ At(t, "relist")
  /\ Set(t, IF Live = {} THEN [thr[t] EXCEPT !.pc = "fewer"]
            ELSE [thr[t] EXCEPT !.pc = "lock", !.ret = "fewer"])
  /\ UNCHANGED <<desired, chan, frozen, status, pods, vols, mutex, ops, stranded>>

ScaleUp(t) ==
  /\ At(t, "fewer")
  /\ Set(t, [thr[t] EXCEPT !.pc = "up",
               !.todo = IF Cardinality(Live) < thr[t].m.want
                        THEN (Below(thr[t].m.want) \ Live) \ thr[t].frz ELSE {}])
  /\ UNCHANGED <<desired, chan, frozen, status, pods, vols, mutex, ops, stranded>>

\* Pods the loop made meanwhile carry its release id: they are rolled again.
Restale(t) ==
  /\ At(t, "restale")
  /\ Set(t, IF \E n \in Live : pods[n].rel # thr[t].rel
            THEN [thr[t] EXCEPT !.pc = "lock", !.ret = "stamp"]
            ELSE [thr[t] EXCEPT !.pc = "stamp"])
  /\ UNCHANGED <<desired, chan, frozen, status, pods, vols, mutex, ops, stranded>>
-----------------------------------------------------------------------------
\* The controller stops and replays what etcd holds; docker keeps running.
Crash ==
  /\ Request("crash")
  /\ chan' = IF desired = None THEN <<>> ELSE <<desired>>
  /\ mutex' = None
  /\ thr' = [t \in Threads |-> Idle]
  /\ UNCHANGED <<desired, frozen, status, pods, vols, stranded>>

Init ==
  /\ desired = None /\ chan = <<>> /\ frozen = {} /\ status = Blank
  /\ pods = [n \in Ordinals |-> None] /\ vols = [n \in Ordinals |-> "none"]
  /\ mutex = None /\ thr = [t \in Threads |-> Idle] /\ ops = 0 /\ stranded = {}

ApplyStep(t) ==
  \/ List(t) \/ Decide(t) \/ Up(t) \/ Mount(t) \/ Run(t) \/ Prune(t) \/ Trim(t)
  \/ Drift(t) \/ Stamp(t) \/ Record(t) \/ Leave(t) \/ Doomed(t) \/ RemovePods(t)

RollStep(t) == Lock(t) \/ Take(t) \/ Unlock(t)

RequestStep(t) ==
  \/ ListPods(t) \/ PrunePods(t) \/ ListVols(t) \/ DropVols(t) \/ Reget(t)
  \/ RestartGet(t) \/ RestartLook(t) \/ ReadFrozen(t) \/ WriteFrozen(t)
  \/ ClearPod(t) \/ Fetch(t) \/ Put(t) \/ AppendRecord(t)
  \/ RelistForRoll(t) \/ ScaleUp(t) \/ Restale(t)

Operator ==
  \/ \E m \in Manifests : Apply(m)
  \/ Delete
  \/ \E t \in Https :
       \/ DeletePrune(t) \/ Restart(t) \/ Rollback(t)
       \/ \E n \in Ordinals : \/ PodStop(t, n) \/ PodStart(t, n)
                              \/ \E prune \in BOOLEAN : Rebootstrap(t, n, prune)

Next ==
  \/ NextEvent
  \/ \E t \in Threads : ApplyStep(t) \/ RollStep(t) \/ RequestStep(t)
  \/ Operator
  \/ Crash

Spec == Init /\ [][Next]_vars

\* The loop and every request run on; operators and crashes owe nothing.
Fairness ==
  /\ WF_vars(NextEvent)
  /\ \A t \in Threads : WF_vars(ApplyStep(t) \/ RequestStep(t)) /\ SF_vars(RollStep(t))

FairSpec == Spec /\ Fairness
-----------------------------------------------------------------------------
Pcs == {"idle", "list", "decide", "up", "mount", "run", "prune", "trim", "drift", "lock",
        "roll", "stamp", "record", "leave", "doomed", "remove", "listPods", "prunePods",
        "listVols", "dropVols", "reget", "get", "look", "readFrozen", "writeFrozen",
        "clear", "fetch", "put", "append", "relist", "fewer", "restale"}
OpNames == {"none", "apply", "remove", "prune", "rebootstrap", "restart", "stop", "start",
            "rollback"}
Pod == [spec : Specs, rel : 0 .. MaxOps, up : BOOLEAN]
Thread == [op : OpNames, pc : Pcs, m : Manifests \cup {None}, live : SUBSET Ordinals,
           frz : SUBSET Ordinals, todo : SUBSET Ordinals, n : Ordinals \cup {None},
           back : {"up", "roll"}, ret : {"leave", "stamp", "record", "fewer"},
           rel : 0 .. MaxOps, flags : SUBSET {"changed", "first", "minted", "rolled"}]

\* Every variable stays in its type.
TypeOK ==
  /\ desired \in Manifests \cup {None} /\ chan \in Seq(Manifests \cup {None})
  /\ frozen \subseteq Ordinals
  /\ status \in [hash : Specs \cup {None}, want : Nat, recs : SUBSET Manifests]
  /\ pods \in [Ordinals -> Pod \cup {None}]
  /\ vols \in [Ordinals -> {"none", "kept", "bare"}]
  /\ mutex \in Threads \cup {None} /\ thr \in [Threads -> Thread] /\ ops \in 0 .. MaxOps
  /\ stranded \subseteq Ordinals

Rolling(t) == thr[t].pc \in {"mount", "run"} /\ thr[t].back = "roll"

\* No two goroutines replace pods at once (rolloutLocks), be they the loop, a
\* restart or a rollback.
RollsExclusive == \A s, t \in Threads : Rolling(s) /\ Rolling(t) => s = t

\* Pod 0, the primary by convention, goes last: when a roll takes it down every
\* other pod it listed already runs the spec the roll brings.
PrimaryLast ==
  [][\A t \in Threads :
       At(t, "roll") /\ thr'[t].n = 0 =>
         \A n \in thr[t].live \ {0} : pods[n] # None /\ pods[n].spec = thr[t].m.spec]_vars

\* Once all is quiet, every wanted ordinal that is not frozen runs the desired
\* spec, and none at or above the count is left (apply, rolloutRollback); but
\* for ordinals a restart unfroze that had no container.
FleetReached ==
  Quiet /\ desired # None =>
    /\ \A n \in Below(desired.want) \ (frozen \cup stranded) :
         pods[n] # None /\ pods[n].up /\ pods[n].spec = desired.spec
    /\ Live \subseteq Below(desired.want)

\* A pod stopped with freeze does not run again until an operator asks for it,
\* through applies, rolls, rollbacks and restarts of the controller.
FrozenStay == Quiet => \A n \in frozen : pods[n] # None => ~pods[n].up

\* A rollback at its last write has every pod that is not frozen on the
\* target's spec, whatever the loop did beside it with the manifest it put.
RollbackLands ==
  \A t \in Threads : At(t, "stamp") /\ thr[t].op = "rollback" =>
    \A n \in Live \ thr[t].frz : pods[n].spec = thr[t].m.spec

\* A delete with prune leaves no volume of the statefulset behind.
PruneLeavesNothing ==
  \A t \in Threads : At(t, "leave") /\ thr[t].op = "prune" =>
    \A n \in Ordinals : vols[n] = "none"

\* The pods come to where the manifest says, and the rollout lock, the frozen
\* marker, the rollback and the pruning delete keep to what they promise beside
\* each other.
FleetSafe == FleetReached /\ RollsExclusive /\ FrozenStay /\ RollbackLands /\ PruneLeavesNothing

\* What operators ask for comes to an end.
Settles == []<>Quiet
=============================================================================
