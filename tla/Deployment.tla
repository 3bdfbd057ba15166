----------------------------- MODULE Deployment -----------------------------
(***************************************************************************)
(* One deployment under the controller: the reconciler's loop and retries  *)
(* (reconciler.go, retry.go, reconcile_status.go) running the deployment   *)
(* handler (handlers.go), and the HTTP handlers that act on the deployment *)
(* beside it: apply and delete, config set, stop and start of one replica  *)
(* (api.go), restart, release and rollback (release.go).                   *)
(*                                                                         *)
(* Every call of etcd, docker or the file system that another goroutine    *)
(* could see between is one step, in the order the handler makes them.     *)
(* What a thread read earlier (its manifest, its listing of replicas) may  *)
(* be stale when it acts on it.                                            *)
(***************************************************************************)
EXTENDS Integers, Sequences, FiniteSets

CONSTANTS
  Loop,         \* the reconciler's loop
  Retries,      \* goroutines scheduleRetry may have under way
  Https,        \* goroutines serving HTTP requests
  Ids,          \* names of replicas, ordered as sort.Slice orders them
  Specs,        \* the hashed part of a deployment spec
  Envs,         \* contents of the app's config bucket
  Builds,       \* contents of the image the spec names (<app>:latest)
  Manifests,    \* [spec, want, gate]: the manifests operators apply
  Moves,        \* <<from, to>>: the changes of manifest operators make
  Ops,          \* the operations and failures of this instance
  Patient,      \* operators wait until all earlier work has settled
  Shared,       \* linkEnv merges more than the app's bucket into the env file
  Surge,        \* canSurge: no host port is pinned
  Starts,       \* what an earlier run of the controller left settled: a
                \* manifest, or None for a host without the deployment
  FirstEnv, FirstBuild,
  MaxOps,       \* bound: operations and crashes
  MaxAttempts,  \* maxRetryAttempts
  None

ASSUME ManifestsAssumption == Manifests \subseteq [spec : Specs, want : Nat, gate : BOOLEAN]
ASSUME NoneAssumption      == None \notin Manifests /\ None \notin Ids /\ None \notin Https
ASSUME ThreadsAssumption   == Loop \notin Retries \cup Https /\ Retries \cap Https = {}
ASSUME IdsAssumption       == Ids \subseteq Nat /\ IsFiniteSet(Ids)   \* four hex digits
ASSUME StartsAssumption    == /\ Starts \subseteq Manifests \cup {None}
                              /\ FirstEnv \in Envs /\ FirstBuild \in Builds
ASSUME FlagsAssumption     == Shared \in BOOLEAN /\ Surge \in BOOLEAN /\ Patient \in BOOLEAN
ASSUME BoundsAssumption    == MaxOps \in Nat /\ MaxAttempts \in Nat \ {0}

Threads == {Loop} \cup Retries \cup Https

VARIABLES
  desired,      \* /desired/deployment/<scope>/<name>: a manifest, or None
  chan,         \* watch events not yet handled
  phase,        \* the loop: before ListAll, before Watch, streaming
  bucket,       \* the app's config bucket in etcd
  file,         \* the app's env file on disk
  img, current, \* build behind <app>:latest; build the current link names
  built,        \* what is kept of a build: nothing, its release directory, or
                \* that and its image <app>:<build>
  ctrs,         \* replicas docker lists, by name, running or not
  status,       \* the status blob: hash, replicas, err, release records
  frozen,       \* /frozen: replicas the operator parked (vd stop --freeze)
  lock,         \* holder of releaseLocks[app]
  thr,          \* per goroutine: where it is and what it remembers
  ops           \* operations and crashes so far

vars == <<desired, chan, phase, bucket, file, img, current, built, ctrs, status, frozen, lock, thr, ops>>

File     == [cfg : Envs, full : BOOLEAN]
Replica  == [spec : Specs, img : Builds, env : File, rid : 0..MaxOps]
Record   == [m : Manifests, img : Builds]
Status   == [hash : Specs \cup {None}, replicas : Nat, err : BOOLEAN, hist : SUBSET Record]
Event    == Manifests \cup {None}       \* a put with its manifest, or a delete

ASSUME NoneIsNoRecord == None \notin Replica /\ None \notin Status

Pcs == {"idle", "link", "list", "decide", "scale", "prune", "stampNew", "relist", "drift",
        "roll", "await", "respawn", "stampRolled", "rollEnv", "record", "publish",
        "ok", "failed", "again", "listDoomed", "remove", "sleep",
        "materialize", "find", "build", "swap", "put", "listRestart", "commands", "listRelease",
        "recordRelease", "putTarget", "appendRecord", "retag", "listExtra",
        "listRolled", "grow", "restamp", "stampBack", "leave",
        "readFrozen", "writeFrozen", "discard"}
Kept == {"no", "dir", "image"}
Rets == {"idle", "stampRolled", "record", "leave", "recordRelease", "grow", "stampBack"}
OpNames == {"none", "apply", "remove", "config", "deploy", "restart", "release", "rollback",
            "stop", "start"}

Idle == [op |-> "none", pc |-> "idle", m |-> None, live |-> {}, made |-> {}, todo |-> {},
         old |-> None, ret |-> "idle", flags |-> {}, att |-> 1, rid |-> 0, img |-> None]

Live  == {i \in Ids : ctrs[i] # None}
Blank == [hash |-> None, replicas |-> 0, err |-> FALSE, hist |-> {}]

\* loadDeploymentStatus: an absent blob is read as the zero value.
Blob == IF status = None THEN Blank ELSE status

Set(t, r)      == thr' = [thr EXCEPT ![t] = r]
Goto(t, where) == Set(t, [thr[t] EXCEPT !.pc = where])
At(t, where)   == thr[t].pc = where

May(f) == f \in Ops

\* Variant: every error of a roll is logged, not only an env-change roll's.
OnErrorLogged(t) == IF thr[t].op = "apply" THEN "record" ELSE "leave"

\* Where a thread goes when a call it makes fails.
OnError(t) ==
  IF thr[t].op \in {"apply", "remove"}
  THEN IF thr[t].ret = "record" THEN "record" ELSE "failed"   \* env-change roll: logged
  ELSE "leave"

\* A docker call fails: the error takes the thread out of what it does.
DockerFails(t) ==
  /\ May("fail")
  /\ Set(t, [thr[t] EXCEPT !.pc = OnError(t), !.todo = {}, !.old = None])
  /\ UNCHANGED ctrs

-----------------------------------------------------------------------------
(* Replicas.                                                               *)

\* NewReplicaID draws names at random: never one in use or remembered.
Fresh == {i \in Ids : /\ ctrs[i] = None /\ i \notin frozen
                      /\ \A t \in Threads : /\ i \notin thr[t].live \cup thr[t].made
                                            /\ i \notin thr[t].todo /\ i # thr[t].old}

NewReplica(t) == [spec |-> thr[t].m.spec, img |-> img, env |-> file, rid |-> thr[t].rid]

Spawn(t, i) == i \in Fresh /\ ctrs' = [ctrs EXCEPT ![i] = NewReplica(t)]
Remove(i)   == ctrs' = [ctrs EXCEPT ![i] = None]

First(set, n) == {i \in set : Cardinality({j \in set : j < i}) < n}

\* Variants: one replica too few, or too many, is kept.
ExtrasAndOne(live, want) == live \ First(live, want - 1)
ExtrasButOne(live, want) == live \ First(live, want + 1)

\* pruneExtraReplicas keeps the first `want` names of the listing.
Extras(live, want) == live \ First(live, want)

\* Variant: the host-port test inverted.
SurgeInverted == ~Surge

\* canSurge.
CanSurge == Surge

\* Variant: the frozen replicas are rolled with the others.
MovableAll(set) == set

\* rollingReplaceReplicas leaves alone what is frozen when it begins: such a
\* replica keeps the spec, image and environment it has.
Movable(set) == set \ frozen

\* The env file linkEnv writes.
Merged == [cfg |-> bucket, full |-> Shared]

\* writeDeploymentStatus: load, set image, hash and count, put.
Stamp(m) == [Blob EXCEPT !.hash = m.spec, !.replicas = m.want]

-----------------------------------------------------------------------------
(* The reconciler: replay, then watch; one event at a time.                *)

\* Variant: deletes are not watched.
EmitPuts(e) == chan' = IF phase = "watch" /\ e # None THEN Append(chan, e) ELSE chan

Emit(e) == chan' = IF phase = "watch" THEN Append(chan, e) ELSE chan

Job(e) == [Idle EXCEPT !.op = IF e = None THEN "remove" ELSE "apply",
                       !.pc = IF e = None THEN "listDoomed" ELSE "link", !.m = e]

\* replay: ListAll returns what exists now; Watch is opened after its puts.
ListAll ==
  /\ phase = "replay" /\ At(Loop, "idle")
  /\ phase' = "gap"
  /\ Set(Loop, IF desired = None THEN Idle ELSE Job(desired))
  /\ UNCHANGED <<desired, chan, bucket, file, img, current, built, ctrs, status, frozen, lock, ops>>

OpenWatch ==
  /\ phase = "gap" /\ At(Loop, "idle")
  /\ phase' = "watch"
  /\ UNCHANGED <<desired, chan, bucket, file, img, current, built, ctrs, status, frozen, lock, thr, ops>>

\* Variant: an event stays in the channel.
NextEventKept ==
  /\ phase = "watch" /\ At(Loop, "idle") /\ chan # <<>>
  /\ Set(Loop, Job(Head(chan)))
  /\ UNCHANGED <<desired, chan, phase, bucket, file, img, current, built, ctrs, status, frozen, lock, ops>>

NextEvent ==
  /\ phase = "watch" /\ At(Loop, "idle") /\ chan # <<>>
  /\ Set(Loop, Job(Head(chan)))
  /\ chan' = Tail(chan)
  /\ UNCHANGED <<desired, phase, bucket, file, img, current, built, ctrs, status, frozen, lock, ops>>

\* handle's end: the outcome goes into the status blob, which is created
\* when there is none; a transient error is retried on a goroutine instead.
Outcome(t) ==
  /\ thr[t].pc \in {"ok", "failed"}
  /\ status' = [Blob EXCEPT !.err = At(t, "failed")]
  /\ Set(t, Idle)
  /\ UNCHANGED <<desired, chan, phase, bucket, file, img, current, built, ctrs, frozen, lock, ops>>

LastAttempt(t) == thr[t].att >= MaxAttempts

GiveUp(t) ==
  /\ At(t, "again") /\ LastAttempt(t)
  /\ status' = [Blob EXCEPT !.err = TRUE]
  /\ Set(t, Idle)
  /\ UNCHANGED <<desired, chan, phase, bucket, file, img, current, built, ctrs, frozen, lock, ops>>

\* Variant: the attempt is not counted.
RetryUncounted(t) ==
  /\ At(t, "again") /\ ~LastAttempt(t)
  /\ \E r \in Retries :
       /\ r = t \/ At(r, "idle")
       /\ thr' = [thr EXCEPT ![t] = Idle,
                             ![r] = [Idle EXCEPT !.pc = "sleep", !.att = thr[t].att]]
  /\ UNCHANGED <<desired, chan, phase, bucket, file, img, current, built, ctrs, status, frozen, lock, ops>>

ScheduleRetry(t) ==
  /\ At(t, "again") /\ ~LastAttempt(t)
  /\ \E r \in Retries :
       /\ r = t \/ At(r, "idle")
       /\ thr' = [thr EXCEPT ![t] = Idle,
                             ![r] = [Idle EXCEPT !.pc = "sleep", !.att = thr[t].att + 1]]
  /\ UNCHANGED <<desired, chan, phase, bucket, file, img, current, built, ctrs, status, frozen, lock, ops>>

\* The retry reads the manifest again; a deleted key ends it, and so does a
\* read that fails, which reports nothing.
Retry(t) ==
  /\ At(t, "sleep")
  /\ \E m \in {desired} \cup {None : f \in Ops \cap {"etcd"}} :
       Set(t, IF m = None THEN Idle ELSE [Job(m) EXCEPT !.att = thr[t].att])
  /\ UNCHANGED <<desired, chan, phase, bucket, file, img, current, built, ctrs, status, frozen, lock, ops>>

\* A transient failure needs a goroutine to retry it on.
RetryFree(t) == t \in Retries \/ \E r \in Retries : At(r, "idle")

-----------------------------------------------------------------------------
(* DeploymentHandler.apply, step by step.                                  *)

LinkEnv(t) ==
  /\ At(t, "link")
  /\ \/ /\ file' = Merged
        /\ Set(t, IF thr[t].op = "restart"
                  THEN [thr[t] EXCEPT !.pc = "roll", !.ret = "leave",
                                      !.todo = Movable(thr[t].live), !.live = {}]
                  ELSE [thr[t] EXCEPT !.pc = "list",
                                      !.flags = IF file = Merged THEN {} ELSE {"changed"}])
     \/ /\ May("transient")               \* a reference does not resolve
        /\ IF thr[t].op = "restart" THEN Goto(t, "leave")
           ELSE RetryFree(t) /\ Goto(t, "again")
        /\ UNCHANGED file
  /\ UNCHANGED <<desired, chan, phase, bucket, img, current, built, ctrs, status, frozen, lock, ops>>

ListLive(t) ==
  /\ At(t, "list")
  /\ \/ Set(t, [thr[t] EXCEPT !.pc = "decide", !.live = Live]) /\ UNCHANGED ctrs
     \/ DockerFails(t)
  /\ UNCHANGED <<desired, chan, phase, bucket, file, img, current, built, status, frozen, lock, ops>>

\* Variant: the tag is compared, which a rebuild leaves as it was.
TagDrift(i) == FALSE

\* One listed replica is compared with the image; an error means no drift.
ImageDrift(i) == ctrs[i] # None /\ ctrs[i].img # img

\* apply mints a release unless a release block will.
Decide(t) ==
  /\ At(t, "decide")
  /\ LET m == thr[t].m
         asked == Blob.hash = None \/ Blob.hash # m.spec
                    \/ (Blob.replicas # 0 /\ Blob.replicas # m.want) IN
     \/ /\ ~m.gate /\ (asked \/ \E i \in thr[t].live : ImageDrift(i))
        /\ Set(t, [thr[t] EXCEPT !.pc = "scale", !.flags = @ \cup {"minted"}])
     \/ /\ m.gate \/ (~asked /\ (thr[t].live = {} \/ \E i \in thr[t].live : ~ImageDrift(i)))
        /\ Goto(t, "scale")
  /\ UNCHANGED <<desired, chan, phase, bucket, file, img, current, built, ctrs, status, frozen, lock, ops>>

\* Variant: one replica too many.
MissingOrEqual(t) == Cardinality(thr[t].live) + Cardinality(thr[t].made) <= thr[t].m.want

\* ensureReplicaCount: one replica at a time, counted on the old listing.
Missing(t) == Cardinality(thr[t].live) + Cardinality(thr[t].made) < thr[t].m.want

AfterScale(t) == IF thr[t].op = "rollback" THEN "restamp" ELSE "prune"

Scale(t) ==
  /\ At(t, "scale")
  /\ \/ /\ Missing(t)
        /\ \E i \in Ids : Spawn(t, i) /\ Set(t, [thr[t] EXCEPT !.made = @ \cup {i}])
     \/ Missing(t) /\ DockerFails(t)
     \/ /\ ~Missing(t)
        /\ Set(t, [thr[t] EXCEPT !.pc = AfterScale(t),
                     !.todo = IF thr[t].op = "rollback" THEN {}
                              ELSE Extras(thr[t].live, thr[t].m.want)])
        /\ UNCHANGED ctrs
  /\ UNCHANGED <<desired, chan, phase, bucket, file, img, current, built, status, frozen, lock, ops>>

AfterPrune(t) == IF thr[t].op = "rollback" THEN "listRolled"
                 ELSE IF thr[t].made # {} THEN "stampNew" ELSE "relist"

\* pruneExtraReplicas; its error is logged by apply, returned by rollback.
Prune(t) ==
  /\ At(t, "prune")
  /\ \/ \E i \in thr[t].todo : Remove(i) /\ Set(t, [thr[t] EXCEPT !.todo = @ \ {i}])
     \/ /\ thr[t].todo = {}
        /\ Set(t, [thr[t] EXCEPT !.pc = AfterPrune(t), !.live = {}])
        /\ UNCHANGED ctrs
     \/ /\ thr[t].todo # {} /\ thr[t].op = "apply" /\ May("fail")
        /\ Set(t, [thr[t] EXCEPT !.pc = AfterPrune(t), !.live = {}, !.todo = {}])
        /\ UNCHANGED ctrs
     \/ thr[t].todo # {} /\ thr[t].op = "rollback" /\ DockerFails(t)
  /\ UNCHANGED <<desired, chan, phase, bucket, file, img, current, built, status, frozen, lock, ops>>

\* Replicas were created: the new hash is persisted before drift is looked at.
StampNew(t) ==
  /\ At(t, "stampNew")
  /\ status' = Stamp(thr[t].m)
  /\ Goto(t, "relist")
  /\ UNCHANGED <<desired, chan, phase, bucket, file, img, current, built, ctrs, frozen, lock, ops>>

Relist(t) ==
  /\ At(t, "relist")
  /\ \/ /\ Set(t, [thr[t] EXCEPT !.pc = "drift", !.todo = Live \ thr[t].made])
        /\ UNCHANGED ctrs
     \/ DockerFails(t)
  /\ UNCHANGED <<desired, chan, phase, bucket, file, img, current, built, status, frozen, lock, ops>>

\* Variant: the count is compared with the blob's, not the hash.
CountDrift(t) == Blob.replicas # thr[t].m.want

\* recreateReplicasIfSpecChanged.  The canary is the listing's first replica.
SpecDrift(t) == Blob.hash # thr[t].m.spec

Drift(t) ==
  /\ At(t, "drift")
  /\ LET Stay == Set(t, [thr[t] EXCEPT !.pc = "rollEnv", !.todo = {}]) /\ UNCHANGED status
         Recreate == /\ ~thr[t].m.gate /\ UNCHANGED status
                     /\ Set(t, [thr[t] EXCEPT !.pc = "roll", !.ret = "stampRolled",
                                             !.todo = Movable(@)])
     IN \/ /\ status = None               \* first apply: the baseline
           /\ status' = Stamp(thr[t].m)
           /\ Set(t, [thr[t] EXCEPT !.pc = "rollEnv", !.todo = {}])
        \/ status # None /\ SpecDrift(t) /\ IF thr[t].m.gate THEN Stay ELSE Recreate
        \/ /\ status # None /\ ~SpecDrift(t)
           /\ \E canary \in thr[t].todo : ImageDrift(canary)
           /\ IF thr[t].m.gate THEN Stay ELSE Recreate
        \/ /\ status # None /\ ~SpecDrift(t)
           /\ thr[t].todo = {} \/ \E canary \in thr[t].todo : ~ImageDrift(canary)
           /\ Stay
  /\ UNCHANGED <<desired, chan, phase, bucket, file, img, current, built, ctrs, frozen, lock, ops>>

StampRolled(t) ==
  /\ At(t, "stampRolled")
  /\ status' = Stamp(thr[t].m)
  /\ Set(t, [thr[t] EXCEPT !.pc = "rollEnv", !.flags = @ \cup {"rolled"}])
  /\ UNCHANGED <<desired, chan, phase, bucket, file, img, current, built, ctrs, frozen, lock, ops>>

\* Variant: an env change counts only together with a new release.
EnvChangedMinted(t) == {"changed", "minted"} \subseteq thr[t].flags

\* The env file changed and nothing was recreated: roll what was not just made.
EnvChanged(t) == "changed" \in thr[t].flags /\ "rolled" \notin thr[t].flags

RollEnv(t) ==
  /\ At(t, "rollEnv")
  /\ IF EnvChanged(t)
     THEN \/ /\ Live \ thr[t].made # {}
             /\ Set(t, [thr[t] EXCEPT !.pc = "roll", !.ret = "record",
                                      !.todo = Movable(Live \ thr[t].made)])
          \/ Live \ thr[t].made = {} /\ Goto(t, "record")
          \/ May("fail") /\ Goto(t, "record")
     ELSE Goto(t, "record")
  /\ UNCHANGED <<desired, chan, phase, bucket, file, img, current, built, ctrs, status, frozen, lock, ops>>

\* A record of the thread's manifest and build b joins the history.
Recorded(t, blob, b) == [blob EXCEPT !.hist = @ \cup {[m |-> thr[t].m, img |-> b]}]

\* The scale-only status write and the record of the minted release.
RecordRelease(t) ==
  /\ At(t, "record")
  /\ status' = IF "minted" \notin thr[t].flags THEN status
               ELSE Recorded(t, IF thr[t].made = {} /\ "rolled" \notin thr[t].flags
                                THEN Stamp(thr[t].m) ELSE Blob, current)
  /\ Goto(t, "publish")
  /\ UNCHANGED <<desired, chan, phase, bucket, file, img, current, built, ctrs, frozen, lock, ops>>

\* publishEndpoints and republishIngresses.
Publish(t) ==
  /\ At(t, "publish")
  /\ \/ Goto(t, "ok")
     \/ May("transient") /\ RetryFree(t) /\ Goto(t, "again")
  /\ UNCHANGED <<desired, chan, phase, bucket, file, img, current, built, ctrs, status, frozen, lock, ops>>

-----------------------------------------------------------------------------
(* rollingReplaceReplicas: todo is the listing it was given, ret its       *)
(* caller's next step.                                                     *)

RollNext(t) ==
  /\ At(t, "roll")
  /\ \/ /\ CanSurge                       \* spawn first, then await and retire
        /\ \E o \in thr[t].todo, i \in Ids :
             /\ Spawn(t, i)
             /\ Set(t, [thr[t] EXCEPT !.pc = "await", !.old = o, !.todo = @ \ {o}])
     \/ /\ ~CanSurge                      \* a host port: retire first
        /\ \E o \in thr[t].todo :
             /\ Remove(o)
             /\ Set(t, [thr[t] EXCEPT !.pc = "respawn", !.todo = @ \ {o}])
     \/ thr[t].todo # {} /\ DockerFails(t)
     \/ /\ thr[t].todo = {}
        /\ UNCHANGED ctrs
        /\ \/ Goto(t, thr[t].ret)
           \/ /\ May("transient")         \* the ingresses cannot be republished
              /\ IF thr[t].op = "apply" /\ thr[t].ret = "stampRolled"
                 THEN RetryFree(t) /\ Goto(t, "again") ELSE Goto(t, OnError(t))
  /\ UNCHANGED <<desired, chan, phase, bucket, file, img, current, built, status, frozen, lock, ops>>

\* The replacement reported ready or its deadline passed.
Retire(t) ==
  /\ At(t, "await")
  /\ \/ Remove(thr[t].old) /\ Set(t, [thr[t] EXCEPT !.pc = "roll", !.old = None])
     \/ DockerFails(t)
  /\ UNCHANGED <<desired, chan, phase, bucket, file, img, current, built, status, frozen, lock, ops>>

Respawn(t) ==
  /\ At(t, "respawn")
  /\ \/ \E i \in Ids : Spawn(t, i) /\ Goto(t, "roll")
     \/ DockerFails(t)
  /\ UNCHANGED <<desired, chan, phase, bucket, file, img, current, built, status, frozen, lock, ops>>

-----------------------------------------------------------------------------
(* DeploymentHandler.remove.                                               *)

ListDoomed(t) ==
  /\ At(t, "listDoomed")
  /\ \/ Set(t, [thr[t] EXCEPT !.pc = "remove", !.todo = Live]) /\ UNCHANGED ctrs
     \/ DockerFails(t)
  /\ UNCHANGED <<desired, chan, phase, bucket, file, img, current, built, status, frozen, lock, ops>>

RemoveNext(t) ==
  /\ At(t, "remove")
  /\ \/ /\ \E i \in thr[t].todo : Remove(i) /\ Set(t, [thr[t] EXCEPT !.todo = @ \ {i}])
        /\ UNCHANGED status
     \/ thr[t].todo # {} /\ DockerFails(t) /\ UNCHANGED status
     \/ /\ thr[t].todo = {}
        /\ status' = None
        /\ Goto(t, "ok")
        /\ UNCHANGED ctrs
  /\ UNCHANGED <<desired, chan, phase, bucket, file, img, current, built, frozen, lock, ops>>

-----------------------------------------------------------------------------
(* HTTP requests.                                                          *)

Quiet == phase = "watch" /\ chan = <<>> /\ \A t \in Threads : At(t, "idle")

\* An operator's request reaches the API: while the loop streams, or ("early")
\* while it still replays.
Request(op) ==
  /\ May(op) /\ ops < MaxOps
  /\ phase = "watch" \/ May("early")
  /\ Patient => Quiet
  /\ ops' = ops + 1

\* POST /apply and DELETE: one Put or Delete of the key.
Apply(m) ==
  /\ Request("apply") /\ <<desired, m>> \in Moves
  /\ desired' = m /\ Emit(m)
  /\ UNCHANGED <<phase, bucket, file, img, current, built, ctrs, status, frozen, lock, thr>>

Delete ==
  /\ Request("delete") /\ desired # None
  /\ desired' = None /\ Emit(None)
  /\ UNCHANGED <<phase, bucket, file, img, current, built, ctrs, status, frozen, lock, thr>>

\* configPost: PatchConfig, then materializeBucketEnvFile, then
\* maybeRestartAffected lists the manifests and puts each back unchanged.
ConfigSet(t, e) ==
  /\ Request("config") /\ At(t, "idle") /\ e # bucket
  /\ bucket' = e
  /\ Set(t, [Idle EXCEPT !.op = "config", !.pc = "materialize"])
  /\ UNCHANGED <<desired, chan, phase, file, img, current, built, ctrs, status, frozen, lock>>

Materialize(t) ==
  /\ At(t, "materialize")
  /\ file' = [cfg |-> bucket, full |-> FALSE]
  /\ Goto(t, "find")
  /\ UNCHANGED <<desired, chan, phase, bucket, img, current, built, ctrs, status, frozen, lock, ops>>

\* Variant: nothing is put back.
FindNobody(t) ==
  /\ At(t, "find")
  /\ Set(t, Idle)
  /\ UNCHANGED <<desired, chan, phase, bucket, file, img, current, built, ctrs, status, frozen, lock, ops>>

\* The manifest is read, to be put back unchanged or, by a restart, to run from.
FindAffected(t) ==
  /\ At(t, "find")
  /\ Set(t, IF desired = None THEN Idle
            ELSE [thr[t] EXCEPT !.pc = IF thr[t].op = "restart" THEN "listRestart" ELSE "put",
                                !.m = desired])
  /\ UNCHANGED <<desired, chan, phase, bucket, file, img, current, built, ctrs, status, frozen, lock, ops>>

\* receive-pack, then /apply.  Source pushed before only moves the current
\* link; other source is built, and a failed build leaves its directory.
Push(t, b, m) ==
  /\ Request("deploy") /\ At(t, "idle") /\ <<desired, m>> \in Moves
  /\ Set(t, [Idle EXCEPT !.op = "deploy", !.pc = IF built[b] = "no" THEN "build" ELSE "swap",
                         !.m = m, !.img = b])
  /\ UNCHANGED <<desired, chan, phase, bucket, file, img, current, built, ctrs, status, frozen, lock>>

Build(t) ==
  /\ At(t, "build")
  /\ \/ /\ img' = thr[t].img /\ built' = [built EXCEPT ![thr[t].img] = "image"]
        /\ Goto(t, "swap")
     \/ /\ May("fail")
        /\ built' = [built EXCEPT ![thr[t].img] = "dir"] /\ Goto(t, "leave")
        /\ UNCHANGED img
  /\ UNCHANGED <<desired, chan, phase, bucket, file, current, ctrs, status, frozen, lock, ops>>

SwapCurrent(t) ==
  /\ At(t, "swap")
  /\ current' = thr[t].img
  /\ Goto(t, "put")
  /\ UNCHANGED <<desired, chan, phase, bucket, file, img, built, ctrs, status, frozen, lock, ops>>

Put(t) ==
  /\ At(t, "put")
  /\ desired' = thr[t].m /\ Emit(thr[t].m)
  /\ Set(t, Idle)
  /\ UNCHANGED <<phase, bucket, file, img, current, built, ctrs, status, frozen, lock, ops>>

\* A request returns and gives up the lock it holds.
Leave(t) ==
  /\ At(t, "leave")
  /\ lock' = IF lock = t THEN None ELSE lock
  /\ Set(t, Idle)
  /\ UNCHANGED <<desired, chan, phase, bucket, file, img, current, built, ctrs, status, frozen, ops>>

\* POST /pods/{name}/stop with freeze: docker stop, then the replica joins the
\* frozen list, which is read and written back.
Stop(t, i) ==
  /\ Request("stop") /\ At(t, "idle") /\ i \in Live
  /\ Set(t, [Idle EXCEPT !.op = "stop", !.pc = "readFrozen", !.todo = {i}])
  /\ UNCHANGED <<desired, chan, phase, bucket, file, img, current, built, ctrs, status, frozen, lock>>

\* POST /pods/{name}/start: the replica leaves the frozen list, its container is
\* removed and the manifest put back, for an apply to make another.
Start(t, i) ==
  /\ Request("start") /\ At(t, "idle") /\ i \in Live
  /\ Set(t, [Idle EXCEPT !.op = "start", !.pc = "readFrozen", !.todo = {i}])
  /\ UNCHANGED <<desired, chan, phase, bucket, file, img, current, built, ctrs, status, frozen, lock>>

ReadFrozen(t) ==
  /\ At(t, "readFrozen")
  /\ Set(t, IF thr[t].op = "stop"
            THEN [thr[t] EXCEPT !.pc = "writeFrozen", !.live = frozen \cup thr[t].todo]
            ELSE IF thr[t].todo \subseteq frozen
            THEN [thr[t] EXCEPT !.pc = "writeFrozen", !.live = frozen \ thr[t].todo]
            ELSE [thr[t] EXCEPT !.pc = "discard"])
  /\ UNCHANGED <<desired, chan, phase, bucket, file, img, current, built, ctrs, status, frozen, lock, ops>>

WriteFrozen(t) ==
  /\ At(t, "writeFrozen")
  /\ frozen' = thr[t].live
  /\ IF thr[t].op = "stop" THEN Set(t, Idle) ELSE Goto(t, "discard")
  /\ UNCHANGED <<desired, chan, phase, bucket, file, img, current, built, ctrs, status, lock, ops>>

Discard(t) ==
  /\ At(t, "discard")
  /\ \/ \E i \in thr[t].todo : Remove(i) /\ Set(t, [Idle EXCEPT !.op = "start", !.pc = "find"])
     \/ DockerFails(t)
  /\ UNCHANGED <<desired, chan, phase, bucket, file, img, current, built, status, frozen, lock, ops>>

\* Restart: clear the frozen list, read the manifest, list, link the env, roll
\* what was listed.
Restart(t) ==
  /\ Request("restart") /\ At(t, "idle")
  /\ frozen' = {}
  /\ Set(t, [Idle EXCEPT !.op = "restart", !.pc = "find"])
  /\ UNCHANGED <<desired, chan, phase, bucket, file, img, current, built, ctrs, status, lock>>

ListRestart(t) ==
  /\ At(t, "listRestart")
  /\ \/ /\ Set(t, IF Live = {} THEN Idle ELSE [thr[t] EXCEPT !.pc = "link", !.live = Live])
        /\ UNCHANGED ctrs
     \/ DockerFails(t)
  /\ UNCHANGED <<desired, chan, phase, bucket, file, img, current, built, status, frozen, lock, ops>>

\* Release (`vd release run`), under the lock.
Release(t) ==
  /\ Request("release") /\ At(t, "idle") /\ lock = None
  /\ desired # None /\ desired.gate
  /\ lock' = t
  /\ Set(t, [Idle EXCEPT !.op = "release", !.pc = "commands", !.m = desired,
                     !.img = current])
  /\ UNCHANGED <<desired, chan, phase, bucket, file, img, current, built, ctrs, status, frozen>>

\* pre_command and command, either of which may be absent; one that runs links
\* the env first.  A failure is recorded as a failed release.
Commands(t) ==
  /\ At(t, "commands")
  /\ file' \in {file, Merged}
  /\ Goto(t, "listRelease") \/ (May("fail") /\ Goto(t, "leave"))
  /\ UNCHANGED <<desired, chan, phase, bucket, img, current, built, ctrs, status, frozen, lock, ops>>

\* Variant: a release rolls only the replicas on another image.
ListOtherImage(t) ==
  /\ At(t, "listRelease")
  /\ Set(t, [thr[t] EXCEPT !.pc = "roll", !.ret = "recordRelease",
                           !.todo = Movable({i \in Live : ctrs[i].img # img})])
  /\ UNCHANGED <<desired, chan, phase, bucket, file, img, current, built, ctrs, status, frozen, lock, ops>>

ListRelease(t) ==
  /\ At(t, "listRelease")
  /\ \/ /\ Set(t, IF Live = {} THEN [thr[t] EXCEPT !.pc = "recordRelease"]
                  ELSE [thr[t] EXCEPT !.pc = "roll", !.ret = "recordRelease",
                                       !.todo = Movable(Live)])
        /\ UNCHANGED ctrs
     \/ DockerFails(t)
  /\ UNCHANGED <<desired, chan, phase, bucket, file, img, current, built, status, frozen, lock, ops>>

ReleaseDone(t) ==
  /\ At(t, "recordRelease")
  /\ status' = Recorded(t, Blob, thr[t].img)
  /\ Goto(t, "leave")
  /\ UNCHANGED <<desired, chan, phase, bucket, file, img, current, built, ctrs, frozen, lock, ops>>

\* Rollback, under the lock: pick a recorded release, put its snapshot,
\* record, retag, scale down, roll, scale up, re-stamp, persist the hash.
Rollback(t) ==
  /\ Request("rollback") /\ At(t, "idle") /\ lock = None /\ desired # None
  /\ lock' = t
  /\ \E rec \in Blob.hist : Set(t, [Idle EXCEPT !.op = "rollback", !.pc = "putTarget",
                                      !.m = rec.m, !.img = rec.img, !.rid = ops'])
  /\ UNCHANGED <<desired, chan, phase, bucket, file, img, current, built, ctrs, status, frozen>>

PutTarget(t) ==
  /\ At(t, "putTarget")
  /\ desired' = thr[t].m /\ Emit(thr[t].m)
  /\ Goto(t, "appendRecord")
  /\ UNCHANGED <<phase, bucket, file, img, current, built, ctrs, status, frozen, lock, ops>>

AppendRecord(t) ==
  /\ At(t, "appendRecord")
  /\ status' = Recorded(t, Blob, thr[t].img)
  /\ Goto(t, "retag")
  /\ UNCHANGED <<desired, chan, phase, bucket, file, img, current, built, ctrs, frozen, lock, ops>>

\* Variant: the tag keeps naming the newest build.
RetagNothing(t) ==
  /\ At(t, "retag")
  /\ Goto(t, "listExtra")
  /\ UNCHANGED <<desired, chan, phase, bucket, file, img, current, built, ctrs, status, frozen, lock, ops>>

Retag(t) ==
  /\ At(t, "retag")
  /\ IF built[thr[t].img] = "image"
     THEN img' = thr[t].img /\ Goto(t, "listExtra")
     ELSE Goto(t, "leave") /\ UNCHANGED img     \* "image not present locally"
  /\ UNCHANGED <<desired, chan, phase, bucket, file, current, built, ctrs, status, frozen, lock, ops>>

ListExtra(t) ==
  /\ At(t, "listExtra")
  /\ \/ /\ Set(t, IF Cardinality(Live) > thr[t].m.want
                  THEN [thr[t] EXCEPT !.pc = "prune", !.todo = Extras(Live, thr[t].m.want)]
                  ELSE [thr[t] EXCEPT !.pc = "roll", !.ret = "grow",
                                       !.todo = Movable(Live)])
        /\ UNCHANGED ctrs
     \/ DockerFails(t)
  /\ UNCHANGED <<desired, chan, phase, bucket, file, img, current, built, status, frozen, lock, ops>>

ListRolled(t) ==
  /\ At(t, "listRolled")
  /\ \/ /\ Set(t, [thr[t] EXCEPT !.pc = "roll", !.ret = "grow", !.todo = Movable(Live)])
        /\ UNCHANGED ctrs
     \/ DockerFails(t)
  /\ UNCHANGED <<desired, chan, phase, bucket, file, img, current, built, status, frozen, lock, ops>>

Grow(t) ==
  /\ At(t, "grow")
  /\ \/ Set(t, [thr[t] EXCEPT !.pc = "scale", !.live = Live]) /\ UNCHANGED ctrs
     \/ DockerFails(t)
  /\ UNCHANGED <<desired, chan, phase, bucket, file, img, current, built, status, frozen, lock, ops>>

\* Replicas another goroutine created meanwhile carry another release id.
Unstamped(t) == {i \in Live : ctrs[i].rid # thr[t].rid}

Restamp(t) ==
  /\ At(t, "restamp")
  /\ \/ /\ Set(t, IF Unstamped(t) = {} THEN [thr[t] EXCEPT !.pc = "stampBack"]
                  ELSE [thr[t] EXCEPT !.pc = "roll", !.ret = "stampBack",
                                      !.todo = Movable(Unstamped(t)), !.live = {}, !.made = {}])
        /\ UNCHANGED ctrs
     \/ DockerFails(t)
  /\ UNCHANGED <<desired, chan, phase, bucket, file, img, current, built, status, frozen, lock, ops>>

StampBack(t) ==
  /\ At(t, "stampBack")
  /\ status' = Stamp(thr[t].m)
  /\ Goto(t, "leave")
  /\ UNCHANGED <<desired, chan, phase, bucket, file, img, current, built, ctrs, frozen, lock, ops>>

-----------------------------------------------------------------------------
\* The host goes down and comes back: etcd, docker and the disk keep theirs.
Crash ==
  /\ May("crash") /\ ops < MaxOps
  /\ ops' = ops + 1
  /\ phase' = "replay" /\ chan' = <<>> /\ lock' = None
  /\ thr' = [t \in Threads |-> Idle]
  /\ UNCHANGED <<desired, bucket, file, img, current, built, ctrs, status, frozen>>

\* The controller starts on a host where an earlier run left a settled
\* deployment, or none.  A replica parked then may have an older spec.
SettledReplica(m) == [spec |-> m.spec, img |-> FirstBuild,
                      env |-> [cfg |-> FirstEnv, full |-> Shared], rid |-> 0]

Init ==
  /\ desired \in Starts
  /\ chan = <<>> /\ phase = "replay"
  /\ bucket = FirstEnv
  /\ file = [cfg |-> FirstEnv, full |-> desired # None /\ Shared]
  /\ img = FirstBuild /\ current = FirstBuild
  /\ built = [b \in Builds |-> IF b = FirstBuild THEN "image" ELSE "no"]
  /\ frozen \in SUBSET IF May("stop") /\ desired # None THEN First(Ids, desired.want) ELSE {}
  /\ \E old \in Specs :
       ctrs = [i \in Ids |-> IF desired = None \/ i \notin First(Ids, desired.want) THEN None
                             ELSE IF i \in frozen
                                  THEN [SettledReplica(desired) EXCEPT !.spec = old]
                                  ELSE SettledReplica(desired)]
  /\ status = IF desired = None THEN None
              ELSE [hash |-> desired.spec, replicas |-> desired.want, err |-> FALSE,
                    hist |-> {[m |-> desired, img |-> FirstBuild]}]
  /\ lock = None
  /\ thr = [t \in Threads |-> Idle]
  /\ ops = 0

LoopStep == ListAll \/ OpenWatch \/ NextEvent

ReconcileStep(t) ==
  \/ Outcome(t) \/ GiveUp(t) \/ ScheduleRetry(t) \/ Retry(t)
  \/ LinkEnv(t) \/ ListLive(t) \/ Decide(t) \/ Scale(t) \/ Prune(t) \/ StampNew(t)
  \/ Relist(t) \/ Drift(t) \/ StampRolled(t) \/ RollEnv(t) \/ RecordRelease(t) \/ Publish(t)
  \/ RollNext(t) \/ Retire(t) \/ Respawn(t) \/ ListDoomed(t) \/ RemoveNext(t)

RequestStep(t) ==
  \/ Build(t) \/ SwapCurrent(t) \/ Materialize(t) \/ FindAffected(t) \/ Put(t) \/ Leave(t) \/ ListRestart(t)
  \/ Commands(t) \/ ListRelease(t) \/ ReleaseDone(t)
  \/ PutTarget(t) \/ AppendRecord(t) \/ Retag(t) \/ ListExtra(t) \/ ListRolled(t)
  \/ Grow(t) \/ Restamp(t) \/ StampBack(t)
  \/ ReadFrozen(t) \/ WriteFrozen(t) \/ Discard(t)

Operator ==
  \/ \E m \in Manifests : Apply(m)
  \/ Delete
  \/ \E t \in Https : \/ \E e \in Envs : ConfigSet(t, e)
                      \/ \E b \in Builds, m \in Manifests : Push(t, b, m)
                      \/ \E i \in Ids : Stop(t, i) \/ Start(t, i)
                      \/ Restart(t) \/ Release(t) \/ Rollback(t)

Next ==
  \/ LoopStep
  \/ \E t \in Threads : ReconcileStep(t) \/ RequestStep(t)
  \/ Operator
  \/ Crash

Spec == Init /\ [][Next]_vars

\* The loop and every goroutine run on; operators and crashes owe nothing.
FairSpec ==
  /\ Spec
  /\ WF_vars(LoopStep)
  /\ \A t \in Threads : WF_vars(ReconcileStep(t)) /\ WF_vars(RequestStep(t))

-----------------------------------------------------------------------------
(* Properties.                                                             *)

Thread ==
  [op : OpNames, pc : Pcs, m : Manifests \cup {None}, live : SUBSET Ids, made : SUBSET Ids,
   todo : SUBSET Ids, old : Ids \cup {None}, ret : Rets,
   flags : SUBSET {"changed", "rolled", "minted"}, att : 1..MaxAttempts, rid : 0..MaxOps,
   img : Builds \cup {None}]

\* Every variable stays in its type; a retry never counts past the last attempt.
TypeOK ==
  /\ desired \in Manifests \cup {None}
  /\ chan \in Seq(Event)
  /\ phase \in {"replay", "gap", "watch"}
  /\ bucket \in Envs /\ file \in File
  /\ img \in Builds /\ current \in Builds /\ built \in [Builds -> Kept]
  /\ ctrs \in [Ids -> Replica \cup {None}]
  /\ status \in Status \cup {None}
  /\ frozen \in SUBSET Ids
  /\ lock \in Https \cup {None}
  /\ thr \in [Threads -> Thread]
  /\ ops \in 0..MaxOps

\* The replicas the operator has not parked.
Unfrozen == Live \ frozen

\* Nothing is under way and the last handler reported no error.
Reported == Quiet /\ (status # None => ~status.err)

\* Once all is quiet and no error is reported, every replica of a deployment
\* without a release block that is not frozen runs the desired spec on the image the tag names
\* (recreateReplicasIfSpecChanged, rolloutRollback).
SpecReached ==
  Reported /\ desired # None /\ ~desired.gate =>
    \A i \in Unfrozen : ctrs[i].spec = desired.spec /\ ctrs[i].img = img

\* ... and on the build that was pushed last (receive-pack's current link).
BuildReached ==
  Reported /\ desired # None /\ ~desired.gate => \A i \in Unfrozen : ctrs[i].img = current

\* ... and was created with the environment the store now resolves to
\* (linkEnv and the env-change roll of apply).
EnvReached == Reported /\ desired # None => \A i \in Unfrozen : ctrs[i].env = Merged

\* ... and there are as many as the manifest wants (ensureReplicaCount,
\* pruneExtraReplicas, and the surge of rollingReplaceReplicas).
CountReached == Reported /\ desired # None => Cardinality(Live) = desired.want

\* ... or at least as many, where a failed scale-down is only logged.
EnoughReached == Reported /\ desired # None => Cardinality(Live) >= desired.want

\* A deleted deployment leaves no replica (remove).
NothingLeft == Reported /\ desired = None => Live = {}

\* Spec, environment, count and deletion together: where an apply that reports
\* nothing leaves the replicas.
Converged == SpecReached /\ EnvReached /\ CountReached /\ NothingLeft

\* With surge, what an apply removes it has replaced: no removal by the loop
\* or a retry leaves fewer replicas than the manifest it applies wants.
NeverBelowWant ==
  [][\A t \in {Loop} \cup Retries :
       thr[t].op = "apply" /\ thr'[t] # thr[t] /\ (\E i \in Live : ctrs'[i] = None)
         => Cardinality(Live') >= thr[t].m.want]_vars

\* A release that succeeded has put every replica that is not frozen on the spec
\* it released.
ReleaseLands ==
  \A t \in Https : At(t, "recordRelease") => \A i \in Unfrozen : ctrs[i].spec = thr[t].m.spec

\* A rollback that reaches its last step has every replica that is not frozen on
\* its target's spec and build, whatever the loop did meanwhile with the manifest
\* it put.
RollbackLands ==
  \A t \in Https : At(t, "stampBack") =>
    \A i \in Unfrozen : ctrs[i].spec = thr[t].m.spec /\ ctrs[i].img = thr[t].img

\* Neither a release nor a rollback ends with a replica it should have moved, which
\* is every one that is not parked.
Landed == ReleaseLands /\ RollbackLands

\* A parked replica stays put across every roll, an apply's, a release's or a
\* rollback's: only a scale-down or the deployment's removal takes it away
\* (rollingReplaceReplicas: "frozen pod stays put across rolling restarts").
StaysParked ==
  [][\A i \in Live \cap frozen :
       ctrs'[i] = None => \E t \in Threads : thr[t].pc \in {"prune", "remove"}
                                             /\ thr'[t] # thr[t]]_vars

\* Whatever operators do, the work they cause comes to an end.
Settles == []<>Quiet
=============================================================================
