# A verification project for voodu

voodu turns one machine into a small PaaS: operators push source and apply
manifests, a controller keeps them in etcd, and a reconciler makes docker run
what the manifests ask for. This directory holds TLA+ models of the
controller, of what stands around it and of its client, the TLC runs that
check them on small instances, and TLAPS proofs for every value of the
constants.

    tlc -config DeployHasty.cfg MCDeployment.tla     # any run: module + cfg
    tlapm PodIPsProofs.tla                           # half a minute; the other modules take two to thirteen

All paths below are below `src/`; where no directory is given, the file is in
`internal/controller/`.

## 1. Inventory

"Hard" names what a test suite hardly reaches; "correct" what the component
owes. `PROJECT.json` says for each component what of it is modelled.

| Component | State | Operations | Hard | Correct when |
|---|---|---|---|---|
| Desired store and watch (`store.go`) | etcd keys of manifests, status, config, frozen sets | Put, Get, Delete, List, ListAll, Watch, PatchConfig | a watch begins at the revision it is opened; a config change is written key by key | every Put is listed or watched |
| Reconciler (`reconciler.go`, `retry.go`, `reconcile_status.go`) | the watch channel, one goroutine per pending retry | replay, handle, scheduleRetry, recordOutcome | a retry that wakes after newer events; a crash anywhere | when all is quiet and no error is recorded, docker runs what the store asks for |
| Deployment handler (`handlers.go`) | none of its own: docker's containers, the env file, the status blob | apply, remove, Restart, scale, rolling replacement, drift detection | listings stale when acted on; a roll that fails half way; three kinds of drift (hash, image, env file) | as many replicas as asked, all on the desired spec, image and environment; a roll never drops below the wanted count |
| Release and rollback (`release.go`) | `releaseLocks`, the records in the status blob, image tags | Release, Rollback, recordRelease | Rollback puts the manifest before it rolls, so the loop works beside it | a finished rollback has every replica on the target's spec and build |
| Build pipeline (`internal/deploy`) | release directories, `current`, image tags | push, build, share an image, swap, tag, collect | source seen before; a failed build's directory; several apps, one after the other | replicas run what was pushed last; nothing in use is collected |
| Config API and env files (`api.go`, `server.go`, `env_from.go`, `internal/secrets`) | buckets in etcd, env files | set, unset, delete, link, restart what is affected | one bucket read three ways; a change that fails half way | a replica's environment is what the store resolves to |
| Pod address allocator (`pod_ips.go`, `pod_ip_store.go`) | etcd `/podips/pod/*`, `/podips/addr/*` | addressFor, ReservePodIP, ReleasePodIP(s) | get and transaction are two calls; the pool is stale when the network is recreated | the indices agree, one holder per address, addresses are kept |
| Statefulset handler (`handlers_statefulset.go`, `release.go`) | docker's pods by ordinal, volumes, frozen sets, the rollout lock | apply, remove, prune, top-down roll, restart, rollback, rebootstrap | what is decoded or listed before waiting for the lock | one pod per ordinal, ordinal 0 rolled last, a frozen pod left alone |
| Pod stop, start (`api.go`) | the frozen set | stop, start, restart of one pod | rolls in between | a frozen pod stays as it is |
| Autoscaler (`autoscaler.go`) | cooldown stamps | tick, SetReplicas | read, change, put beside applies | the count follows the load within bounds and cooldowns |
| Init containers (`init_containers.go`) | the containers a failure keeps | a chain per replica, attempts | kept containers look like replicas | no main container before its chain |
| Probes (`probes.go`, `internal/probe`) | registry, runners, readiness in the blob | Start, Stop, record, restart | two Starts of one name; a full channel | one live generation; what is recorded is what was seen |
| Scheduler, cronjobs, jobs (`scheduler.go`, `cron.go`, `handlers_cronjob.go`, `handlers_job.go`) | next fire times, running set, history, containers | pass, tick, run, collect | late passes; a run by hand beside a tick | each due minute at most once; no overlap under Forbid; history and containers agree |
| Apply API (`api.go`) | desired keys | apply, prune, delete, scope wipe, config | failure in the middle; host check against a read | the answer says what happened; nothing pruned that was applied |
| Deploy plane (`handlers_deploy_run.go`, `trigger.go`) | trigger records, run records | select, build, apply, release | two runs on copies of one trigger | what a commit changed is built, applied and released, and only that is recorded |
| Ingress and services (`handlers_service.go`) | the router's routes, the blob | apply, retry, republish, retrigger, remove | upstreams listed while a roll goes on | no route to replicas gone for good |
| Assets (`handlers_asset.go`, `asset_stamp.go`) | files, URL cache | materialise, stamp | two writers of one file; cache in two writes | a workload's stamp is of files on disk |
| Registries (`handlers_registry.go`) | docker's config.json | apply, remove | restart between a change and its handling | the file has the registries' credentials |
| Webhooks (`webhooks.go`) | memory of what was fired | fan out, attempts | a late answer; restart | told, and not told twice without cause |
| Activity trail (`internal/activity`) | day files | append, compress, unlink, read | midnight; a crash between two steps | a record is read once |
| Metrics (`internal/metrics`) | day files, baselines, log offset | sample, aggregate, compress, read | two writers at midnight; a log that is rotated; counters that restart | a row is read once, a rate is of one container's life |
| Container manager (`internal/docker`, `container.go`) | docker | Ensure, Recreate, Remove, Stop, Start | networks are joined one by one | a running container has all its networks |
| Spec hash (`handlers.go`, `handlers_statefulset.go`, `container.go`) | the stored hash | default, hash, docker run | two lists kept by hand | a change rolls what it changes, and nothing else |
| Wire, mesh DNS (`wire.go`, `internal/meshdns`, `mesh_network.go`) | peers in etcd, wg0, file, routes; index and cache | add, remove, start; ask, answer | one lock, many calls; answers that outlive pods | interface and store agree; no name answered past its lifetime |
| Plugins (`internal/plugins`, `api.go`) | plugin directories | install, expand, uninstall | remove, then rename | an expansion runs a whole plugin of its version |
| Process (`cmd/controller`, `server.go`, `embed.go`) | loops, planes, store | start, serve, drain, stop | loops on a closed store | the store closes last |
| Command line (`cmd/cli`) | what the operator saw and approved | plan, push, apply, render | somebody else applies in between; a stream cut off | what is deleted was shown; success is not claimed for a failure |
| Procfiles (`internal/procfile`, `cmd/cli/procfile.go`) | the project's link `.voodu/app.json`, an ejected file | push, eject, resolve the scope | two translations kept in step by hand; a link that is lost | the same manifests either way; one scope per project |
| Manifest language (`internal/manifest`) | none | interpolate, parse, check, default | twins treated differently | the manifest is the file's meaning |
| Tokens, signatures, rate limits | none that lasts | let a request in or not | | not modelled |

How they interact. Requests write desired manifests; etcd's watch carries
them to the reconciler's one loop, which calls the handler of the kind and
waits for it. A handler calls docker, rewrites the resource's status blob and
the env file, and asks other handlers to republish. An error of kind
"transient" starts a goroutine that sleeps and runs the handler again beside
the loop. Restart, release and rollback run the same rolling replacement on
the request's goroutine, also beside the loop; deployments have no lock except
`releaseLocks` (per app, among releases and rollbacks), statefulsets have the
rollout lock. Probes, scheduler, autoscaler, samplers and the trail's cleaner
are goroutines of the process; each restarts a container, starts a run, or
puts back a manifest without asking the loop.

## 2. What is modelled, and where

| Module | Stands for |
|---|---|
| `AddressBook` | what the allocator promises: the abstract specification |
| `PodIPs`, `PodIPsProofs` | the allocator, one step per etcd call; its theorems |
| `Deployment`, `DeploymentProofs` | reconciler, deployment handler, releases, config, push, for one deployment; its theorems |
| `Statefulset`, `StatefulsetProofs` | the loop and the handler of one statefulset with the requests that act on its pods; its theorems |
| `Autoscaler` | the tick, the Get and the Put, with applies and a reconciler that follows |
| `Inits` | init chains of a deployment's replicas, and a Restart beside; theorems in `PartsProofs` |
| `Probes`, `PartsProofs` | runners, registry, drains and the blob's readiness, for one container name; its theorems |
| `Runs` | cron expressions, the scheduler's passes, runs and their collection; a theorem in `PartsProofs` |
| `Requests`, `RequestsProofs` | apply, prune, wipe, delete and config change over many resources; theorems about them and `DeployRuns` |
| `DeployRuns` | runs of a trigger, from its files to its record |
| `Releases`, `ReleasesProofs` | a push of several apps, their directories, links and images; release records with load and put apart |
| `Ingress` | the route of one ingress, its retries, rolls and retriggers; a theorem in `ServicesProofs` |
| `Assets`, `Registries`, `Webhooks`, `Trail`, `Plugins`, `Containers`, `Wire`, `Mesh` | the component of that name; theorems in `ServicesProofs` |
| `Forwarded` | the client's apply and delete over ssh; theorems in `ServicesProofs` |
| `Metrics`, `Drift`, `Manifests`, `Procfiles`, `Lifecycle`, `Streams`, `Environments` | samplers and files; hashes and docker run; the language; Procfiles, their link and ejecting; the process; the stream a client shows; environments. Theorems of `Drift`, `Lifecycle`, `Metrics`, `Streams` and `Environments` in `HostProofs` |
| `MCPodIPs`, `MCDeployment` | instances of one module for TLC |
| `MCFleets`, `MCParts`, `MCServices`, `MCHost` | instances of several: each behaviour is one of one component (the variable `part`), the others stand still in it. Modules that really interact are one module |

Every module is translated from the code with the calls another goroutine can
see between as steps, and every definition's lines are in `PROJECT.json`
("map"). Failures, crashes, operators' operations and other unbounded things
are counted by a variable and a constant (`MaxOps`, `MaxFailures`, ...).

### PodIPs

`podAddr` and `addrPod` are the two etcd indices; `pool` is the list of
addresses `fixedAddressPlan` would return now; `thr[t]` is what a goroutine's
call of `addressFor` or `ReleasePodIPs` remembers between etcd calls: the
stage, the pod, the candidates left (read when the call began, so possibly
out of date), the address a Get returned, and the pods still to release.
`AddressFor` reads the plan, `GetHeld` is `PodIPFor`, `Draw` is one
`ReservePodIP` transaction, `Recheck` the Get after a refusal, `ReleaseGet`
and `ReleaseCommit` the two halves of `ReleasePodIP`. `RecreateNetwork`
changes the pool under everybody; `Abandon` is a failed etcd call or a
controller that stops: the indices stay. Only the loop deletes statefulsets
(`ReleaseSet` runs on `Loop`). Addresses are integers: the pool is drawn from
in order.

### Deployment

One deployment of one app.

| Variable | In the code |
|---|---|
| `desired` | the etcd key of the manifest: spec (what the hash covers), replicas wanted, release block or not |
| `chan`, `phase` | watch events not handled; `Run` before ListAll, between ListAll and Watch, streaming |
| `bucket`, `file` | the app's config bucket; the env file on disk, with whether it holds what linkEnv merges beside the bucket |
| `img`, `current`, `built` | build behind `<app>:latest`; target of the `current` link; which builds have a directory and an image |
| `ctrs` | docker's replicas by name, with the spec, build, environment and release id they were created with |
| `status` | the status blob: hash, replica count, error, release records |
| `frozen` | the store's list of parked replicas |
| `lock` | the holder of `releaseLocks[app]` |
| `thr[t]` | where a goroutine is in its handler and what its local variables hold |
| `ops` | operations and crashes so far (a bound) |

Actions follow the handler call by call: `LinkEnv`, `ListLive`, `Decide`
(should a release be minted), `Scale` (one `Ensure` per step), `Prune`,
`StampNew`, `Relist`, `Drift`, the roll (`RollNext`, `Retire`, `Respawn`),
`StampRolled`, `RollEnv`, `RecordRelease`, `Publish`, `Outcome`. `Restart`,
`Release` and `Rollback` start on an HTTP goroutine and share the same roll;
`ret` is the return address. `Stop` and `Start` are the pod's stop and start:
the list of parked replicas is read (`ReadFrozen`) and written back
(`WriteFrozen`), a start then removes the container (`Discard`) and puts the
manifest for an apply to make another. Every roll leaves alone what is parked
when it begins (`Movable`): by the comment at `handlers.go:1623` such a replica
keeps its image and environment, so `SpecReached`, `EnvReached`, `BuildReached`
and `Landed` are about the others (`Unfrozen`), and a parked replica may be of
an older spec at the start (`Init`). A replica parked while a roll is under way is
rolled with the others, which `Patient` keeps out of `landings`; so is every one
when the list cannot be read, for the error is dropped (`handlers.go:1630`): that
failure is left aside. `ScheduleRetry`, `Retry` and `GiveUp` are
`retry.go`. `Crash` ends every goroutine and forgets the channel and the
lock; etcd, docker and the disk keep theirs. Failures are enabled by
membership in `Ops`: "fail" (a docker call or a command fails), "transient"
(an unresolved reference, or ingresses that cannot be republished), "etcd"
(a retry's lookup fails), "crash".

Abstractions: a docker call, an etcd call and a rename are each one step, and
so is a load-modify-put of the status blob. Readiness is not a value: `Retire`
may happen at once or much later, as a replica reports ready or runs out its
deadline; the code goes on either way. Replica names are always fresh
(`RoomLeft` in `MCDeployment` says when `Ids` is large enough).

### The other modules

* `Statefulset`: `pods` and `vols` by ordinal, `frozen`, `lock`, the blob, and
  `thr[t]` as above. Apply reads, scales, prunes volumes and rolls top-down
  under the lock; Restart, Rollback (which restamps the hash itself),
  Rebootstrap, Stop and Start come from requests. A crash releases the lock
  and the loop replays.
* `Autoscaler`: the stats snapshot may be old; a step adds or removes one
  replica of what the snapshot showed, `SetReplicas` gets and puts.
* `Probes`: each goroutine is a process. `Start` tests the registry early and
  stores late, the event channel keeps `Buffer` events and drops the oldest.
* `Runs`: `NextMatch` is the code's search over a calendar whose hours, days
  and months are a few units long; `OnTime` compares what ticks with a
  reference definition. Runs and their containers follow one by one.
* `Requests`: every store call is a step that may fail; replies are compared
  with what the call did. A delete with prune deletes the manifest and then the
  bucket; a failure of the second is in the summary of the resource alone.
* `DeployRuns`: runs are goroutines on copies of the trigger; the files a push
  does not touch are skipped one by one; a build may fail; the records are
  compared with the images built. A stale tree is always built: the archive is
  extracted anew and the times of that are in the tar that names the release
  (`deploy_build.go:237`, `tarball/build.go:157`), so a directory of an earlier
  run is not found. Left aside: the times are whole seconds, and two
  extractions of one tree within one second have one name. It also makes "the
  buildID dedup inside the pipeline still exists and still works"
  (`handlers_deploy_run.go:689`) untrue of the deploy plane; of a push from a
  laptop (`Releases`, `Deployment`) it is true.
* `Assets`: an apply and the reconciler write the same files, with a fetch and
  two cache writes each; a file, a fetch and the status may fail (`RecordFails`,
  `RemoveFiles`).
* `Releases`: `push` is the receive-pack under way, with the apps left to do;
  `releaseDirs`, `link`, `latest` and `tags` are changed one call at a time, in
  the code's order (the link is removed, then made). `hands[g]` is what the
  loop, a request and a probe's goroutine still do with the blob: each load
  and each put is a step of its own. `log` is the history as it should be;
  `smudged` holds the apps whose blob was written by two at once or after a
  failed read.
* `Procfiles`: `ToManifests` and `ToHCL` as operators over lines and routing;
  the operator edits either file, applies, ejects and applies what was
  ejected. A new random scope is one nobody has (33,696 names; a collision is
  left aside).
* `Drift`, `Manifests`, `Environments`: mostly operators; a step applies one
  change of a manifest, a file or a bucket. Their properties compare what the
  code computes with what the text, or the store, says. In `Environments` an
  apply is read (`ReadBuckets`) and sent (`SendApply`) in two steps, so that a
  config command may come between.
* `Lifecycle`: signals, listen failures and requests at any time, two
  goroutines nobody waits for, each a probe, a retry or an errand, and one pass
  of a loop (the two that share a writer each meet its end alone);
  `Streams`: the server's stream may stop anywhere, even inside a line.

## 3. Runs

`CHECK_DEADLOCK FALSE` is set in all runs but `pod_ips` because the system
does stop: once the bounded operations are used and the work is done, nothing
is left to do.

| Run | Asks | States |
|---|---|---|
| `pod_ips` | do the two indices agree, are addresses kept and leaks impossible on a stable network, does every call end, and is this an `AddressBook`? 2 goroutines, 3 pods of 2 statefulsets, 2 addresses (one too few), 2 recreations of the network | 235288 |
| `hasty` | apply, delete and config set while earlier work is still under way: does all converge, and does a roll never drop below the wanted count? 3 operations, 2 specs, 2 environments | 197974 |
| `landings` | releases, rollbacks, pushes, restarts, config, deletes, and stops and starts of single replicas, two in a row, beside the loop: has the last step of a release or rollback every replica that is not parked on the target's spec and build, and does no roll take a parked one? 2 builds, release blocks that come and go | 520102 |
| `faults` | docker failures, transient errors with retries, crashes at any step: is a quiet system without recorded error converged, and does it become quiet? 3 specs, 2 attempts, 3 operations or crashes | 239423 |
| `fleets` | a statefulset under every operation, crash and replay; an autoscaler under a load that swings: `FleetSafe`, `PrimaryLast`, `Settles`, `LoadFollowed` | 168004 |
| `parts` | probes, cron and runs, requests, deploy runs, init chains, pushes with histories and rollbacks | 2919728 |
| `services` | what stands around the workloads: ten components | 1203643 |
| `host` | the process, the samplers, hashes, the language, Procfiles, environments, the client's screen | 1421979 |
| `config_set`, `repush`, `lost_record`, `blocked` | violations: section 5 | |

What the properties mean:

* `Converged`, `EnoughReached`: spec, environment, count and nothing left
  after a delete, in a state in which nothing is under way (`Quiet`) and the
  status records no error (`Reported`): the code promises nothing while it
  works, and reports when it gives up. In `faults` the count may be exceeded,
  because a failed scale-down is only logged.
* `NeverBelowWant`, `StaysParked`, `PrimaryLast`, `KeptOnStableNetwork`,
  `NeverFreesAnothers`, `OnTime`: what no step may do.
* `Settles`, `CallsEnd`, `LoadFollowed`: what must happen.
* `Landed`: what a release and a rollback owe when they end, of every replica
  that is not parked.
* `ReleasesTrue`: a history only one goroutine at a time wrote is the newest
  records, complete and in order; each record's image is still there when it
  was there at its writing; the directory in use is kept; a push that posts
  has every app at its build.
* `WrittenTrue` is `ManifestsTrue` and `ProcfilesTrue`: what an operator writes
  becomes what it says, an ejected Procfile reads back as the Procfile, a
  project stays in its scope, and a declared route leads to its process' port.
* `FleetSafe`, `RequestsTrue`, `RunsKept`, `EnvsTrue` and the like are
  conjunctions of named parts; each module's properties section says which
  case each part is about and which it excuses (`Excused`-like conjuncts and
  their comments). The excuses are listed in section 5.

Bounds and why they are enough:

* `MaxOps` 2 to 4 in the workload modules: a disagreement between two pieces
  of work needs two operations, a third makes one of them stale. The deepest
  counterexample found while modelling took two.
* `MaxHistory` is 10 in the code and 2 here, `KeepReleases` 5 and 1: two pushes
  and a rollback already let a record and a directory fall off while another
  record, or the link, still names the build.
* Two wanted replicas: one rolled, one not yet. Two ordinals: the primary and
  one that goes first. Three specs in `faults`, so that replicas of two
  interrupted rolls can stand beside those of the third.
* `MaxAttempts` is 6 in the code, 2 here: a first attempt and one that gives up.
* Two addresses for three pods: the pool runs out. Two recreations: away and back.
* `Patient` says whether operators wait until earlier work has settled. FALSE
  in `hasty`, where all operations go through the loop; TRUE where a restart, a
  retry or a rollback runs beside the loop and is known to interfere (section 5).
* `Shared` says whether anything beside the app's own bucket is merged into the
  env file (scope config, or env blocks). TRUE in `hasty`; with FALSE,
  `EnvReached` fails: finding 1.
* In the composed runs each component has one failure or crash, two or three
  operations, and as few names, keys or days as let two of them meet: two
  pods, two volumes, two clients, three days for files that are compressed on
  the second and removed on the third.

## 4. Fairness

* `Deployment`: weak fairness of the loop's steps and of each goroutine's: Go
  runs a runnable goroutine, and docker and etcd answer or fail. Operators and
  crashes have none, nor has a failure as such: whether a call fails is left
  open each time.
* `Statefulset`: the same, and strong fairness of `RollStep`, the steps that
  wait for the rollout lock: Go's mutex hands itself to a waiter that has
  waited for a millisecond, so nobody waits for ever while others come and go.
* `Autoscaler`: weak fairness of the tick, the sampler and the reconciler, which
  are a ticker's goroutines and the loop.
* `PodIPs`: weak fairness of each goroutine's call that began.

`Settles` also rests on the watch channel staying open; the code's `Run` ends
when it closes, and the models have no such step.

## 5. Findings and other disagreements

Each finding is a short counterexample to a property that states a sentence
of the repository.

1. `config_set`: `configPost` writes the env file from the bucket and then
   puts the manifest back. When nothing but the bucket goes into the file,
   `linkEnv` finds it as it would write it, reports no change, and the
   replicas keep the old environment. The command line's help says a set or
   unset reaches running pods.
2. `repush`: pushing source that was pushed before moves only the `current`
   link. `<app>:latest` still names the build pushed in between and no drift
   check looks at the link; a comment says the reconciler will notice.
3. `lost_record`: a record of a build may be lost when its put fails; the
   comment of `rememberBuilt` says the cost is "one redundant download on the
   next deploy, not a wrong deploy". After builds of two trees of which the
   second is not recorded, a run at the first finds it on record, builds
   nothing and answers OK, and the image is of the second.
4. `blocked`: a failed init container is kept under its deployment's labels
   and counted as a replica by the next apply. The docs say it is not counted;
   the collector a comment names does not exist.

What else the models had to follow or leave aside. Where no run shows it, it was seen in a counterexample to a
property that was then restricted:

* An apply that scales up and changes the spec persists the new hash
  (`handlers.go:842`) after creating replicas and before comparing, so old
  replicas stay on the old spec. Runs change count and spec apart, or the
  hash with fewer replicas.
* A manifest put while the loop replays is neither listed nor watched
  (`reconciler.go:65`). HTTP already serves then; `Patient` keeps away from it.
* A rollback puts the old manifest and then scales and rolls while the loop
  applies the same manifest (`release.go:732`); replicas can be left over.
  `Landed` is about spec and build, not count.
* A retry reads the manifest when it wakes and runs the handler beside the
  loop (`reconciler.go:163`); a newer manifest handled meanwhile is rolled
  back. `Patient` is TRUE in `faults`.
* A Restart beside an apply leaves extra replicas (`handlers.go:1880`).
* The list of parked replicas is read and written back without a lock: of two
  stops or starts at once the later writes what the earlier did away
  (`api.go:2491`), so a parked replica may be rolled. `landings` has one request
  at a time.
* `build_args` is in the hash (`handlers.go:2428`, `handlers_statefulset.go:1239`)
  with no effect on a container, nor on a build, which reads `build.args`: a
  change of it alone rolls every replica. `Wish` counts it, so `DriftTrue`'s "none
  it would not" is but for it.
* The statefulset's hash omits `env_from` and sorts networks; a roll removes
  the pod before it reads limits (`handlers_statefulset.go:1013`), and
  `ValidateResources` (`internal/manifest/resources.go:14`) is called by no
  program. `Drift` names both (`Hashed`, `FailLimits`).
* An `env_from` that is a bare name is a scope to the client
  (`cmd/cli/apply_envfrom.go:405`) and a resource of the caller's scope to the
  controller (`env_from.go:53`), though the comment above the client's parser
  says it resolves references identically. For a manifest of one block with
  such a name TLC finds `InterpolatedAlike` violated without the conjunct that
  leaves these names out.
* A change of a shared bucket restarts none of its readers; a value of several
  lines does not survive the env file (`internal/secrets/envfile.go:60`).
* `apply` writes the env file (`handlers.go:694`) before it resolves `env_from`.
  When nothing of the list is there just then, it fails and retries; if an
  earlier manifest without that list is put back meanwhile, the file is found as
  it should be, and the container keeps the environment of before. `missed`
  marks it.
* A reference listed twice in `env_from` counts where it comes first for the
  client (`internal/manifestrefs/refs.go:52`) and where it comes last for docker.
  `Alike` leaves it out, and the resource's own name among the references, whose
  file is a manifest's and not a bucket's.
* A pruning delete whose bucket could not be removed cannot be repeated: the
  manifest is gone, and the next delete answers 404 before it prunes
  (`api.go:1029`, 1322); a wipe does not reach it either. The summary names the bucket
  (`AnswersTrue`), the list of errors does not.
* A cron expression that never matches gets the zero time (`cron.go:136`)
  and is fired at every pass.
* The comment at `server.go:834` says that `Stop` blocks until all goroutines
  exit or the timeout elapses. Neither half is so. Teardown's waits have no
  deadline; and they are for the loops alone. The probes' runners and drains
  live on `context.Background()` (`probes.go:416`, 465, 510), a retry asks the
  reconciler's context once, before it reads the manifest (`reconciler.go:172`),
  and a plugin's job (`handlers_plugin_dispatch.go:735`), a token's last use
  (`pat_middleware.go:187`) and webhook senders (`webhooks.go:453`) are not
  stopped either. They may use the store after it is closed, until the process
  ends. `Lifecycle` has them as `stray`; `LoopsOutlived` is about the loops
  that are waited for and lets the others, and nothing else, be `spoilt`.
* A warning before the first frame (`cmd/cli/receive_pack.go:96`) turns the
  client to plain text; lines on stderr are dropped while the spinner paints
  (`cmd/cli/event_renderer.go:182`).
* A container whose networks could not all be joined stays half joined when
  its removal fails too, against `internal/docker/docker.go:244`.
* The status blob has no lock: two writers at once lose a record
  (`handlers.go:2616`), and `appendReleaseRecord` drops the error of its own
  read (`release.go:397`), so that a failed read makes the one new record the
  whole history. `smudged` marks both.
* The record of an apply reads the `current` link as it appends: while a push
  swaps the link the record has no build, and a rollback to it leaves the image
  as it is.
* A forced push of the current source whose extraction fails removes the
  directory in use (`internal/deploy/tarball.go:102`), and a failed pipeline
  leaves its directory (117); the comment above `RunFromTarball` says a partial
  directory is removed and prior releases stay intact. `wrecked` marks the first.
* A Procfile push that fails at a later app leaves the earlier ones swapped and
  retagged, with nothing posted; their next restart runs the new image.
* An eject ignores a port `app.json` pins (`internal/procfile/eject.go:43`,
  beside `procfile.go:205`) and does not check that a route has a host
  (the ingress handler refuses it at each pass); the
  escape it writes for `${VAR}` does not survive `Interpolate`. A route with
  another `service` is given the port of the process it is named for.
  An `app.json` that cannot be read gives a client without `--app` a new scope
  at each try, which the server then refuses. Without `-f`, `vd apply` takes
  the Procfile even when an ejected file is there (`cmd/cli/procfile.go:138`).
* `Start` looks for an entry and stores its own later, with nothing between
  (`probes.go:343`): two goroutines that replace one container, a Restart
  beside the loop, leave runners no `Stop` reaches, and one may announce the
  teardown of the other as a failure. A sample that outlasts the five seconds
  of `Stop` (`probes.go:839`) stays behind in the same way. `CleanSlate` and
  `NoTeardownWebhook` therefore have one caller, and `CleanSlate` has `~Slow`.
* `LastBuilt` has the build context alone for its key
  (`handlers_deploy_run.go:776`, `trigger.go:84`). Two apps of one directory, in
  two trigger files, share the record: once the first is built the second counts
  as built, and its run answers OK without an image of it. In one file both are
  built. The instance has one directory per app, and the theorem assumes it
  (`OwnContexts`).
* A record of the trail stamped before midnight that comes after the day was
  compressed is lost (`Late`), which the comment at
  `internal/activity/activity.go:384` says cannot happen: `TrailTrue` excuses it.
* A row of the metrics stamped before midnight and written after it, while the
  day is being compressed, may go with the raw file, though by the comment at
  `internal/metrics/cleanup.go:29` no such race is possible: `MetricsTrue` is
  about rows written on the day they are stamped with.
* The autoscaler may step below `min` while its pods are fewer than the
  manifest asks for, and does not raise to a raised floor by itself.

## 6. Proofs

### PodIPsProofs

For any sets of goroutines, pods, statefulsets and addresses, under the named
assumptions of `PodIPs` (addresses are integers, `None` is neither a pod nor an
address, the loop is a goroutine):

* `TypeCorrect`, `Agreement`, `Exclusive`, `NeverFrees`. The invariant is
  `TypeOK` and `IndexAgree` together; types are needed because a release
  transaction without its address would be meaningless (`StageOK`). It is
  inductive: each step of the two indices is one of three kinds, reserve,
  release, nothing, and `IndexStep` says so. Exclusiveness follows: two pods
  with one address would both be what its key points at.
* `Implements`: `Spec => BookSpec`. A `Draw` that commits is a `Reserve`, a
  `ReleaseCommit` of a pod that has an address is a `Release`, all else
  stutters. `Free` needs `IndexAgree`.
* `NoLeak`, `Kept`: true only until voodu0 is first recreated. `Stable` adds
  what a goroutine in the middle of a call knows meanwhile: its candidates lie
  in the pool, a held address lies in the pool, and the only release under way
  is of the loop. Induction is on `recreated = 0 => Stable`.

### DeploymentProofs

For any sets of goroutines, names, specs, environments, builds and manifests:

* `TypeCorrect`: `Spec => []TypeOK`; in particular no retry counts past
  `MaxAttempts`. The runs do not check these types again.
* `ManifestInHand`: a goroutine in a handler has the manifest, and where its
  next step uses one the build, that it works from. The invariant is `TypeOK`
  with `thr[t] \in Equipped` for every goroutine; `TypeOK` alone is not
  inductive, since `Stamp(m)` is a status only if there is a manifest to stamp.
* `Lands`, where operators wait (`Patient`): `Landed`, of the replicas that are
  not parked, with every failure, retry, crash, build, stop and start. `LandIInv` says who may be in which handler (`Roles`), that
  rollback ids never repeat (`Numbered`), what the loop works on while a request
  is served (`Served`), and of each replica during a roll that it is as it should
  be or still in hand (`ReleaseTrue`, `RollbackTrue`). `RollKeeps` is the heart:
  a roll leaves nothing behind, whatever "as it should be" means.
* `ParkedStay`, where operators wait: `StaysParked`, with every failure, retry
  and crash. `HandsOff` says that what a roll has still in hand is not parked: a
  stop writes the list when nobody else is at work (`Served`), and a start takes
  a replica off it before it removes the container.
* `KeepsEnough`: `NeverBelowWant` with surge, where one roll at a time is under
  way: operators wait and do not roll back, or no request rolls, no pod is started and
  there are no retries. TLC finds it violated with a rollback, and with a restart
  beside the loop; a start removes the replica before an apply makes another. `Counted` counts what an apply has listed, made and has still to take
  away; `FirstEnough` and `ExtrasCount` say what `pruneExtraReplicas` spares.
* `ReachesEnough`: `EnoughReached` with surge and patient operators, whatever
  fails. `Following` says that an error is remembered, or someone is still at
  work on the manifest desired. Three things are excluded: a pod's start, which
  removes a replica and may fail before it puts the manifest; and two with which
  TLC finds it violated: a rollback that fails at the end of its roll, beside the
  apply it caused, leaves fewer replicas and tells only its caller; a retry whose
  read of the manifest fails gives up without a word.
* `ReachesCountAndEnvironment`: `EnvReached`, `CountReached` and `NothingLeft`,
  with surge or without and operators who do not wait, where no call fails, the
  host stays up, only the loop rolls and nobody parks a replica (`Plain`). `PlainIInv` is: what the loop
  was told last is what is desired (`Told`); an env file the loop did not write
  is owed an event, one of an older bucket a writer (`Sent`, `Owed`); counts are
  exact at every step (`Exact`, with `FirstAtMost` by a pigeonhole on ranks);
  replicas have the file's variables, but those an apply that found it changed
  is still to roll (`EnvTrue`); and what holds where the loop rests (`Rested`).
* `Converges`: all of `Converged`, as the run `hasty` checks it, where besides
  nothing is built, there is no release block and all manifests want one count.
  `SpecTrue` says at each step whether the blob's hash is the one of every
  replica (`Stamped`) or every replica is of the new spec already (`Uniform`).
  TLC finds `SpecReached` violated without each: an apply that changes the count
  along with the spec persists the new hash before it looks for drift, and leaves
  the old replicas; the env roll of a manifest behind a release block runs its
  spec while the hash stays the old one's, so a return to the old spec finds no
  drift; and a build that ends beside an apply leaves replicas of two builds.

The proofs go action by action: first, what the helpers keep (`SpawnType`,
`RecordedType`, `FailType`, ...), then one lemma per handler, then `Init`, then
the step. For the invariants there is one more lemma per handler, which restates
its step field by field (`ScaleDoes`, `RollNextDoes`, ...); nothing else expands
a handler. Assumptions on the constants: replica ids are finitely many numbers
(four hex digits, `internal/containers/labels.go:155`), the three kinds of
goroutine are distinct, `None` is no record; for `Converges` also that there are
as many ids as replicas wanted.

### StatefulsetProofs

For any ordinals, specs, manifests and goroutines serving requests:

* `StatefulsetTypeCorrect`, and `RollsNeverMeet`: no two rolls replace pods at
  once. The invariant `LockIInv` adds to the types that a goroutine has the
  manifest and the ordinal its next step uses, and that who rolls holds the
  rollout lock. `Highest` and `Lowest` are what they say because ordinals are
  finitely many (`GreatestNumber`, by the smallest set without a highest).
* `FleetCorrect` and `PrimaryGoesLast`: `FleetSafe` and `PrimaryLast` of the
  instances whose operators wait for earlier work, `Patient`, as the run's do.
  Without it they fail as section 5 tells. What is left of concurrency is a
  rollback, a pod start and a pruning delete, which change the manifest first
  and go on beside the loop that handles it; `Companions` says that nothing
  else is ever at work together.
* The invariant `FleetIInv` has three parts. `Alone`: who may be at work.
  `Claims`, of each goroutine: where it is, it works on the manifest desired,
  what it has listed contains what it must still do, and what it has done is
  done (`ExtrasGo`, `StaleGo`, `Replaced`, ...). `FleetTrue`, of the pods: one
  that is missing, stale or dark is so because some goroutine will make it or
  owes a freeze or a roll (`Makes`, `Owes`). The parts are operators of the
  state they speak of, so a step substitutes the changed variables and leaves
  the rest alone. `Walk`, `Change`, `Removal` and `OnlyOne` say what a step of
  one goroutine keeps, by what it changes; one lemma per action applies them,
  and `FleetIsSafe` concludes.

### RequestsProofs

`RequestsCorrect`: `RequestsTrue` with one request at a time, as in the run, for
any resources, bodies and app kinds and any failures of the store. The handlers
take no lock, and two requests at once can each pass the host check before
either puts. `RequestsIInv` carries what the checks at the start of a request
say to its answer: once the list is in, no host is twice in the store
(`Clashless`); of the entries put so far, the last of each resource is what is
stored (`PutSoFar`); what a prune has still to drop contains everything beside
the body (`Dropping`); what is left of a wiped scope is of a kind not yet listed
or on the list at hand (`Wiping`); what a config change puts back is what is
there (`PuttingBack`). `LastOfIs` says that a list has a last entry of each of
its resources. `Accounts` is the summary of a delete or a wipe on its way: what
it lists is deleted, and its bucket gone, in hand, or among those that could not
be deleted.

`DeployRunsCorrect`: `RunsDeliver` of any files, apps, commits and goroutines,
whatever fails and whatever operators do to the trigger, provided no two apps
are built from one directory (`OwnContexts`; section 5 tells what happens
otherwise). `DeployIInv` has three parts. `Placed`: what the place of a run says
of its file, its targets and what it built. `Held`: a tree on record, or about
to be, is one an image was made from. `CleanRun`, while nothing disturbed the runs:
record and copy are of the image and the replicas run image and spec, but for
what the run at work has built and not recorded (`Unsaved`) or is still to
release (`Lagging`); and there is only one at work (`Sole`). `StepKeeps` and
`Calm` say what a step of one run owes; one lemma per action pays it.

### ReleasesProofs

For any apps, deployments, builds and goroutines, and any cap of the history:

* `ReleasesTypeCorrect`, and `ReleasesCorrect`: `ReleasesSpec => []ReleasesTrue`.
  The invariant `IInv` has two halves that no action ties together but
  `CollectTag`. Of the push, `PushTrue`: the apps it is done with are at its
  build, and the one at hand has its directory from the moment it was opened;
  collection keeps what `current` points at. Of the history, `WritersTrue`: as
  long as a blob was never written by two goroutines at once, whoever works on
  it is alone, what it has loaded is what is stored, what it collects no kept
  record names, and the image its own record will name is there.
* The lemmas are about lists of records: what a record put in front, or put in
  the place of the one with its id, does to "the newest of all these ids"
  (`Tells`), and that the cap cuts the tail.

### ServicesProofs

* `WireCorrect`: the addresses differ by key, and `HandTrue` says how far the
  holder of the lock has come in making wg0, the file and the routes agree;
  `synced` is true only when all three do.
* `ContainersCorrect`: callers have no lock, so the invariant speaks of a
  caller that is `alone` (`AloneTrue`: nobody else is engaged) and says for each
  place of each call what holds of the container there (`Kept`), with
  `BeingJoined` for who still owes it a network.
* `RegistriesCorrect`: with `LastPassTrue`, the last pass that wrote the file
  wrote what was stored when it gathered.
* `WebhooksCorrect`: with `OneSender` and `Remembered`: what was fired is
  remembered for its window, so nobody fires it again inside it. Every target
  with a URL has its sender; one whose body cannot be built sends the default
  payload, which `SenderOf` tells from the body the target asks for.

* `PluginsCorrect`: an install is named by its request and block, and as long as
  an install of a request is still to come its name is on nothing (`Named`); so
  what bears one name has one version (`OneVersion`), and what is expanded under
  the name looked at has the version looked at. `OneTree` accounts for an empty
  path by the one scratch directory of a request that moves, `Progress` says
  that what an apply has behind it is done, and `Listed` that an install of the
  background is listed unless an uninstall took it off. Naming the request
  alone would not do: one that installs a kind twice, with two pins, would
  make `Pinned` false, which a run of TLC shows too.
* `MeshCorrect`: a reading of docker, a question and a kept answer each tell
  rightly of the pods that have not moved for longer than some age (`Tells`):
  of its host's own pods a reading (`IndexTrue`), of those of the hosts that
  have answered a question (`QuestionTrue`), of the other hosts' a kept answer
  (`AnswersTrue`). Ages grow with `Tick`, and each starts with the age of what it
  is made of. An answer the asker keeps says nothing of its own pods; that it
  had none when it asked is in `QuestionTrue` too. Assumed of the times:
  `NegativeTTL <= AnswerTTL`, 2 and 5 seconds in the code.

* `ForwardedCorrect`: `CommandTrue` says of each place of a command what it has
  done so far (`DoneSoFar`) and what it may claim to have done (`WellDone`), and
  `Shown` ties the plan it showed to the store: what the plan would delete and
  was absent when planned was put since by another client. The files may change
  at any step; a command keeps what it loaded.
* `IngressCorrect`: `RoutesTrue`, for any orders of operators and not only the
  three of the run. A route that is not the replicas up has somebody on the way
  to publish it, and one that should be gone somebody to take it away
  (`RouteDue`, `DeleteDue`): an event, a retry, or a roll that has still to
  republish. Of a roll under way, `Replaced` says which replicas are new by now,
  and `AllRouted` that the route has the ones up, as far as no publishing
  failed. The proof showed that a roll does not keep the route where the ingress
  is deleted at the same time: it unroutes, and the roll republishes what it
  read before; that case is `Unrouting`, which `RollKeepsRoute` leaves out.
* `AssetsCorrect`: `AssetsTrue`. A materialisation that had the files to itself
  has on disk what it wrote; and between a stamp and the last event that carries
  it somebody will put the stamped contents back: the last event that waits
  (`Coming`), the reconciler (`InHand`), or nobody has to (`Settled`). Longer runs
  of TLC for the invariant, and its proof, found the property false in three
  cases the bounds of the run do not reach: files removed beside a busy writer, a
  stamp read off a status that an event under way is about to change, and a
  request whose second write of the cache fails. The history variables
  (`drifted` and the rest) now mark them.
* `TrailCorrect`: `TrailTrue`, for any actions, days, retention and number of
  mishaps. What is written of an action is its start and then its end, each once
  (`Wrote`, `Clean`), so no file holds a line twice, or an end before its start.
  A line that nothing excuses is in the raw file of its day until there is a
  compressed one, and in that from then on (`Safe`): the copy was taken after
  it, for what comes later is excused, and the raw file goes only when its copy
  has the name.

Each has its type theorem, except `Registries`, whose types are in
`RegistriesIInv`.

### HostProofs

`LifecycleTypeCorrect` and `LifecycleCorrect`, for any planes, callers,
goroutines nobody waits for and any number of a loop's passes. The claim is
about the loops teardown waits for; the others may find the store closed. `LoopsSafe` and `StoreInStep` tie each phase of the
process to which loops run and what is open; `DrainedBehind` says that a plane
that was drained in time has nobody waiting and hears nobody, which is what
lets `Graceful` survive the planes being drained one after the other.

`DriftCorrect`, for every manifest (any values of its fields, any bounds). It
rests on two facts of any two manifests, `HashDeterminesPod` (equal hashes give
equal pods, but for what `Hashed` leaves out: which network comes first, the
empty name among networks, a statefulset's `env_from`) and `WishDeterminesHash`
(manifests that ask for the same have one hash). `DriftIInv` only carries along:
the hash that is kept, and every pod that is there, are those of the manifest
last taken (`KeptOfDone`), and while nothing waits that manifest is the one in
the store and no pod is missing (`IdleDone`), whatever was edited, removed or
refused since.

`MetricsCorrect`: `MetricsTrue` for any number of days, retention, patience and
mishaps. `FilesKept` and `SwapTrue` follow a row through midnight: a row is
removed only with a day that is over, and none is appended behind the copy a
compression has taken, for the day compressed lies before the tick's, which is
not after today. `ChargesTrue` relates the
counter to its baseline, `ReadingTrue` the offset to the mark of the history:
the next reading begins where the last one ended, or at the start of a log that
came since.

`StreamsCorrect`: `StreamTrue` for any applications, any number of results, a
server that fails or is killed at any line, and any order in which the
spinner's goroutine, standard output and standard error are served. Its
invariant is about lines said and not yet read: they fit the step the client
shows open (`Fits`: each end has its start before it and only output between,
and none is open where a step starts or a summary comes; for text `TextFits`:
where the next banner or the end comes, what was open has passed on the
server). A line read takes one off the front and keeps that; a program's step
appends a `Block`, which fits on its own and opens nothing. What is marked on
the screen has passed (`ScreenTrue`); nothing is painted but by a spinner over
an open step (`UiTrue`); the results told are those counted and those still to
be read (`CountTrue`). Verdicts on the screen and in the lines are compared by
their ranks (`Rank`), for which a rank determines its place.

`EnvsCorrect`: `EnvsTrue` for any manifests, payloads and shells, any number of
config commands and applies. `BucketsOnHost`: the file of another resource holds
its bucket if its last write went through. `RunsItsFile`: a container runs with
what its own file says, if that is a manifest's and not a bucket's. The two are
told apart by a variable the manifest sets and no bucket has; where there is
none, finding 1 applies, so `EnvironmentsAssumption` has one in every manifest.
`StillCurrent`: what the client interpolated it would interpolate now, until a
bucket moves. That client and container then agree is `InterpolatedIs`: both look
the layers through in one order, so the last layer with the key is the same one
for both (`LastLayer`, `LayersAlike`), if each stands for its bucket
(`AlikeLayer`). `BucketOf` and `FileOf` differ for bare names, which `InterpolatedAlike` leaves
out (section 5). The proof found two more cases the run has no manifest
for, an `env_from` that resolves nowhere and a reference listed twice
(section 5).

### PartsProofs

For any number of generations, any thresholds and buffer:

* `ProbesAgree`, of any callers beside each other: `DrainedAgrees` and
  `RecoveriesPaired`. `ReadinessChain` says that between what a runner last
  found, what its channel holds and what the drain last recorded nothing
  disagrees unless the channel dropped a transition; `StartupOnce` says it of the
  startup probe, which ends with its first success; `Paired` counts the
  failures announced ahead of their recoveries.
* `ProbesQuiet`, for one caller, `Callers = {c}`: no webhook tells of a
  container being torn down. `MarkedFirst` says the caller marks the blob before
  it cancels.
* `ProbesCorrect`, for one caller and `~Slow`: all of `ProbesTrue`. Both
  hypotheses are the run's too. They are needed: with two callers on one name, or
  a sample that outlasts the deadline of `Stop`, an entry written late stays
  behind (`CleanSlate` fails), which section 5 tells. Nothing else of
  `ProbesTrue` needs `~Slow`.

`InitsCorrect`: `InitsFirst` for any manifests, chains, retries and cap of the
ring, and for goroutines of the loop and of restarts beside each other.
`InitsIInv`: an id is given to one replica, whose chain one goroutine walks;
while it does there is no main container of that id, no failure recorded of it,
and every container of it but that of the step at hand is done. It follows that
`ClearInitFailures` never finds a failure to drop for a deployment, whose
replicas have fresh ids; in the model it may (`Cleared`).

`RunsCorrect`: `RunsKept` for any manifests, caps, slots and edits, of jobs and
cronjobs. Where runs exclude each other (`Exclusive`) one run at a time has
begun, and the invariant is about it: its entry is in front of the history, at
each place of the code with the status that place has given it, and nothing else
in the history is running. A cap takes from the tail, so it keeps that entry
(`Newer`, `Retained`); what `SaveFinished` collects is what the history does not
show. Looking for the invariant with one edit more than the run has, TLC found
`RunsKept` false: put, delete, put and run at once, and the delete's event,
handled late, takes the container and the history from under the run, which
then records a success nobody can read the log of. `stale` marks that now.
Without `Exclusive` a second run's collection meets a container before its
entry is written, and `LogsKept` fails. Assumed: both caps are at least one, as
`historyLimits` makes them.

### Only model-checked

* Liveness (`Settles`, `CallsEnd`, `LoadFollowed`) is beyond the prover.
* `OnTime`: `NextMatch` looks ahead a bounded number of units, and that a match
  lies within the bound is arithmetic over the parts of a calendar expression.
* `WrittenTrue`: parsers and their inverse (`Manifests`, `Procfiles`), recursive
  over lists, whose correctness is an induction over data.
* What `Deployment` converges to where calls fail, requests roll or builds end
  beside the loop: checked on instances as far as it holds (section 5).

## 7. Not modelled

* Tokens, signatures and rate limits: whether a request is let in, with no
  state of what it does.
* Two writers of one status blob interleaving inside a load-modify-put, other
  than of its history (`handlers.go:2616`): a lost hash or readiness.
* The watch channel closing on an etcd error (`store.go:493`); a failed write of a
  deployment's status blob; a failed `appendRun` and a restart of the controller
  in the middle of a run (`handlers_job.go:587`).
* Release containers' output, `post_command`; containers from before replicas
  had names; plugin drain.
* What an exec, http or tcp probe does; exec and log streams; descriptions,
  stats and other read-only commands; self-update.
* HCL's grammar, a Dockerfile's text, payloads of webhooks, DNS packets, the
  WireGuard file's text, how git fetches a commit.
* The actions a plugin's command asks for through `POST /plugin`
  (`handlers_plugin_dispatch.go`); those of an expansion are in `Plugins`.

## 8. Plan

1. Proofs: the convergence of `Deployment` with builds, where no build ends
   beside an apply.
2. `Releases` refined from an abstract history of which `HistoryComplete` is
   the mapping.
3. The plugin dispatch endpoint beside applies.
