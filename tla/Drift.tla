------------------------------- MODULE Drift -------------------------------
(* From a manifest to its pods' containers: the defaults the handler fills in *)
(* (handlers.go, handlers_statefulset.go), the hash it compares with the one  *)
(* it kept, and the docker run each pod gets (container.go, docker.go). A     *)
(* reconcile is one step here: what happens inside one, where it fails half   *)
(* way, is in Deployment and Statefulset. The hash is of what it covers, so   *)
(* two hashes are equal when what they cover is.                              *)
EXTENDS Integers, FiniteSets, Sequences, SequencesExt, Functions

CONSTANTS
  Settings,      \* the values each field of a manifest may take
  Base,         \* the manifest a behaviour starts from, less its kind
  EnvFiles,     \* the resources that have an environment file
  Replicated,   \* the pods' positions
  MaxEdits, MaxContents   \* bounds: edits of the manifest, versions of the asset

ManifestFields ==
  {"image", "command", "mode", "network", "networks", "ports", "restart", "hosts", "caps", "volumes",
   "env", "env_from", "ulimits", "options", "limits", "logs", "probes", "inits", "autoscale",
   "on_probe", "on_deploy", "replicas", "drain", "claims",
   "build_args"}

ASSUME DriftAssumption ==
  /\ {MaxEdits, MaxContents} \subseteq Nat \ {0}
  /\ DOMAIN Base = ManifestFields /\ Base = [f \in ManifestFields |-> Base[f]]
  /\ Base.network \in STRING /\ Base.networks \in Seq(STRING)
  /\ \A f \in DOMAIN Settings : f \in ManifestFields /\ Base[f] \in Settings[f]
  /\ "network" \in DOMAIN Settings => Settings["network"] \subseteq STRING
  /\ "networks" \in DOMAIN Settings => Settings["networks"] \subseteq Seq(STRING)
  /\ IsFiniteSet(Replicated) /\ Replicated # {}

VARIABLES
  kind,     \* deployment or statefulset
  man,      \* the manifest in the store
  content,  \* the asset's content, written before the manifest that carries its digest
  stamp,    \* the digest the manifest carries
  pods,     \* what each pod runs: its container, NoPod where there is none
  kept,     \* the hash the handler kept, NoHash before the first
  done,     \* the manifest and digest the pods were last brought to, and whether that stands
  behind,   \* whether the manifest waits for the reconciler
  edits     \* bound

driftVars == <<kind, man, content, stamp, pods, kept, done, behind, edits>>

NoPod == [absent |-> TRUE]
NoHash == << >>
Platform == {<<"VOODU_NAME", "app">>}
UlimitFloor == {<<"nofile", "65536:65536">>, <<"nproc", "4096:4096">>}
FallbackLogs == [size |-> "10m", files |-> 3]
AssetMount == "${asset.conf}"

\* The fields one of the two kinds does not have.
Lacks(k) == IF k = "deployment" THEN {"claims"} ELSE {"autoscale", "on_deploy"}

DriftInit ==
  /\ kind \in {"deployment", "statefulset"}
  /\ man = IF kind = "deployment" THEN [Base EXCEPT !.claims = <<>>] ELSE Base
  /\ content = 0 /\ stamp = 0 /\ pods = [p \in Replicated |-> NoPod] /\ kept = NoHash
  /\ done = [man |-> man, stamp |-> 0, idle |-> FALSE] /\ behind = TRUE /\ edits = 0
-----------------------------------------------------------------------------
(* Defaults.                                                                  *)

\* normalizePort: loopback unless the manifest says otherwise.
LoopbackPort(p) == CASE Len(p) = 1 -> <<"lo", "">> \o p
                     [] Len(p) = 2 -> <<"lo">> \o p
                     [] OTHER -> p
LoopbackPorts(ps) == [i \in DOMAIN ps |-> LoopbackPort(ps[i])]

WithVoodu0(nets) == IF Contains(nets, "voodu0") THEN nets ELSE Append(nets, "voodu0")
Attached(s) == WithVoodu0(IF s.networks = <<>> /\ s.network # "" THEN <<s.network>> ELSE s.networks)

\* What both handlers refuse; a statefulset must name its image.
ModeRefused(s) == \/ s.mode \notin {"", "host", "none"}
                  \/ s.mode # "" /\ (s.networks # <<>> \/ s.network # "")
Refused(k, s) == ModeRefused(s) \/ (k = "statefulset" /\ s.image = "")

DeploymentDefaults(s) ==
  [s EXCEPT !.image = IF @ = "" THEN "app:latest" ELSE @,
            !.networks = IF s.mode = "" THEN Attached(s) ELSE @,
            !.ports = LoopbackPorts(@),
            !.restart = IF @ = "" THEN "unless-stopped" ELSE @]

StatefulsetDefaults(s) ==
  [s EXCEPT !.networks = IF s.mode = "" THEN Attached(s) ELSE @,
            !.ports = LoopbackPorts(@),
            !.restart = IF @ = "" THEN "unless-stopped" ELSE @]

Effective(k, s) == IF k = "deployment" THEN DeploymentDefaults(s) ELSE StatefulsetDefaults(s)
-----------------------------------------------------------------------------
(* The hash: of the manifest after its defaults and before its references are *)
(* resolved, with the digest of every asset it references.                    *)

\* A sorted copy, for lists whose members differ.
Sorted(list) == Range(list)

\* collectDeploymentAssetRefs, collectStatefulsetAssetRefs: volumes and webhook bodies.
DeploymentRefs(s) == AssetMount \in Range(s.volumes) \/ "file" \in {s.on_deploy, s.on_probe}
StatefulsetRefs(s) == AssetMount \in Range(s.volumes) \/ s.on_probe = "file"
Refs(k, s) == IF k = "deployment" THEN DeploymentRefs(s) ELSE StatefulsetRefs(s)

\* resolveDeploymentSpecAssets, resolveStatefulsetSpecAssets: an asset nobody applied.
Unresolved(k, s) == content = 0 /\ Refs(k, s)

\* LookupAssetDigests, flattenAssetDigests
Digests(refs, d) == IF refs THEN {d} ELSE {}

Common(s) == [image |-> s.image, command |-> s.command, ports |-> s.ports, volumes |-> s.volumes,
              env |-> s.env, mode |-> s.mode, restart |-> s.restart,
              nets |-> Sorted(s.networks), hosts |-> Sorted(s.hosts), caps |-> Sorted(s.caps),
              ulimits |-> s.ulimits, options |-> s.options, limits |-> s.limits, logs |-> s.logs,
              inits |-> s.inits, probes |-> s.probes, args |-> s.build_args]

DeploymentHashWithoutEnvFrom(s, d) ==
  <<Common(s), s.autoscale, Digests(DeploymentRefs(s), d)>>
DeploymentHash(s, d) ==
  <<Common(s), s.env_from, s.autoscale, Digests(DeploymentRefs(s), d)>>
StatefulsetHashInOrder(s, d) ==
  <<Common(s), s.networks, Sorted(s.claims), Digests(StatefulsetRefs(s), d)>>
StatefulsetHash(s, d) ==
  <<Common(s), Sorted(s.claims), Digests(StatefulsetRefs(s), d)>>

SpecHash(k, s, d) == IF k = "deployment" THEN DeploymentHash(s, d) ELSE StatefulsetHash(s, d)
-----------------------------------------------------------------------------
(* The container.                                                             *)

\* A map over a map: the second wins.
Over2(low, high) == {e \in low : \A h \in high : h[1] # e[1]} \cup high

\* dockerResources: limits in docker's units, or an error.
BadLimits(s) == s.limits = "bad"
Cpus(limits) == IF limits \in {"500m", "0.5"} THEN "0.5" ELSE ""

\* effectiveLogs
LogOptions(l) == [size |-> IF l.size = "" THEN FallbackLogs.size ELSE l.size,
                  files |-> IF l.files <= 0 THEN FallbackLogs.files ELSE l.files]

\* resolveEnvFromList: the files that exist; none of several is an error.
EnvFilesOf(refs) == SelectSeq(refs, LAMBDA r : r \in EnvFiles)
NoEnvFiles(s) == s.env_from # <<>> /\ EnvFilesOf(s.env_from) = <<>>

\* What the handler asks for: its container, and the mounts of its claims.
Asked(s, d) ==
  [image |-> s.image, command |-> s.command, ports |-> s.ports,
   volumes |-> <<s.volumes, Sorted(s.claims)>>, networks |-> s.networks, mode |-> s.mode,
   restart |-> s.restart, files |-> EnvFilesOf(s.env_from), env |-> Over2(Platform, s.env),
   cpus |-> Cpus(s.limits), hosts |-> s.hosts, caps |-> s.caps, ulimits |-> s.ulimits,
   options |-> s.options, logs |-> LogOptions(s.logs),
   mounted |-> Digests(AssetMount \in Range(s.volumes), d)]

NonEmpty(options) == SelectSeq(options, LAMBDA o : o # "")

Bridged(c) == c.mode \notin {"host", "none"}

\* buildRunArgs and the networks joined after it: under the host's network
\* there is no port, alias or gateway to set.
RunArgs(c) ==
  [image |-> c.image, command |-> c.command, restart |-> c.restart, volumes |-> c.volumes,
   primary |-> IF c.mode # "" THEN c.mode ELSE IF c.networks # <<>> THEN c.networks[1] ELSE "",
   joined |-> IF c.mode = "" /\ c.networks # <<>> THEN Range(Tail(c.networks)) \ {c.networks[1], ""} ELSE {},
   published |-> IF Bridged(c) THEN c.ports ELSE <<>>,
   hosts |-> (IF Bridged(c) THEN {"gateway"} ELSE {}) \cup (Range(c.hosts) \ {""}),
   caps |-> Range(c.caps) \ {""}, files |-> c.files, env |-> c.env,
   ulimits |-> Over2(UlimitFloor, c.ulimits), cpus |-> c.cpus, logs |-> c.logs,
   options |-> NonEmpty(c.options), mounted |-> c.mounted]

\* A pod: its container, the chain run before it and the probes run beside it.
PodOf(s, d) == [run |-> RunArgs(Asked(s, d)), inits |-> s.inits, probes |-> s.probes]

\* canSurge: no port of the deployment names one of the host's.
PinsHostPort(p) == LoopbackPort(p)[2] # ""
Surges(k, s) == k = "deployment" /\ \A i \in DOMAIN s.ports : ~PinsHostPort(s.ports[i])
-----------------------------------------------------------------------------
(* Actions.                                                                   *)

MayEdit == edits < MaxEdits /\ edits' = edits + 1

\* An apply that changes one field; the digest it stamps is of the asset's content.
EditField(f) ==
  /\ MayEdit /\ f \notin Lacks(kind)
  /\ \E v \in Settings[f] : v # man[f] /\ man' = [man EXCEPT ![f] = v]
  /\ stamp' = content /\ behind' = TRUE
  /\ UNCHANGED <<kind, content, pods, kept, done>>

\* An apply of the asset with its consumer: it writes the files, then stamps the consumer.
EditAsset ==
  /\ MayEdit /\ content < MaxContents
  /\ content' = content + 1 /\ stamp' = content + 1 /\ behind' = TRUE
  /\ UNCHANGED <<kind, man, pods, kept, done>>

\* A container is removed behind the controller's back.
RemovePod(p) ==
  /\ MayEdit /\ pods[p] # NoPod /\ pods' = [pods EXCEPT ![p] = NoPod] /\ behind' = TRUE
  /\ UNCHANGED <<kind, man, content, stamp, kept, done>>

\* A pod has to be made: one is missing, or the manifest is not the one they were made from.
HasWork(s) == kept # SpecHash(kind, s, stamp) \/ \E p \in Replicated : pods[p] = NoPod

\* The handler refuses the manifest, does not find an asset, or finds none of the env
\* files of a pod it has to make: nothing changes.
Fail ==
  LET s == Effective(kind, man) IN
  /\ behind
  /\ Refused(kind, man) \/ Unresolved(kind, s) \/ (NoEnvFiles(s) /\ HasWork(s))
  /\ behind' = FALSE /\ done' = [done EXCEPT !.idle = FALSE]
  /\ UNCHANGED <<kind, man, content, stamp, pods, kept, edits>>

\* The limits are read late: where the handler takes the old pod down first, one is
\* gone by then, and the retry that would create it fails as well.
FailLimits ==
  LET s == Effective(kind, man) IN
  /\ behind /\ ~Refused(kind, man) /\ ~Unresolved(kind, s) /\ ~NoEnvFiles(s)
  /\ BadLimits(s) /\ HasWork(s)
  /\ behind' = FALSE
  /\ IF Surges(kind, s) \/ \E p \in Replicated : pods[p] = NoPod
     THEN pods' = pods
     ELSE \E p \in Replicated : pods' = [pods EXCEPT ![p] = NoPod]
  /\ done' = [done EXCEPT !.idle = FALSE]
  /\ UNCHANGED <<kind, man, content, stamp, kept, edits>>

\* apply: the missing pods are created, then all are rolled if the hash is not the one kept.
Reconcile ==
  LET s == Effective(kind, man)
      h == SpecHash(kind, s, stamp)
      rolls == kept # NoHash /\ kept # h
  IN
  /\ behind /\ ~Refused(kind, man) /\ ~Unresolved(kind, s)
  /\ HasWork(s) => ~(NoEnvFiles(s) \/ BadLimits(s))
  /\ pods' = [p \in Replicated |-> IF rolls \/ pods[p] = NoPod THEN PodOf(s, content) ELSE pods[p]]
  /\ kept' = h /\ behind' = FALSE
  /\ done' = [man |-> man, stamp |-> stamp, idle |-> TRUE]
  /\ UNCHANGED <<kind, man, content, stamp, edits>>

DriftNext ==
  \/ (\E f \in DOMAIN Settings : EditField(f)) \/ EditAsset
  \/ (\E p \in Replicated : RemovePod(p))
  \/ Fail \/ FailLimits \/ Reconcile

DriftSpec == DriftInit /\ [][DriftNext]_driftVars
-----------------------------------------------------------------------------
(* Properties.                                                                *)

\* What the hash leaves out of a pod: which of its networks is the first (docker's own,
\* if that has no name), and the env files a statefulset takes from others.
HashedRun(k, run) ==
  [run EXCEPT !.joined = (@ \cup {run.primary}) \ {""}, !.primary = "",
              !.files = IF k = "deployment" THEN @ ELSE <<>>]
Hashed(k, pod) == IF pod = NoPod THEN pod ELSE [pod EXCEPT !.run = HashedRun(k, @)]

\* What a manifest asks of its pods, in its own words: two manifests that agree on it
\* differ in order, in defaults written out, or in what no pod sees.  The manifest's
\* build_args are counted here because the hash has them, though no pod sees them, nor
\* does a build, which reads build.args.
Wish(k, s, d) ==
  LET e == Effective(k, s) IN
  [pod |-> Hashed(k, PodOf(e, d)), ports |-> e.ports, env |-> e.env, ulimits |-> e.ulimits,
   options |-> e.options, limits |-> e.limits, logs |-> e.logs, hosts |-> Range(e.hosts), caps |-> Range(e.caps),
   nets |-> Range(e.networks), args |-> e.build_args,
   shared |-> IF k = "deployment" THEN <<e.env_from, e.autoscale>> ELSE <<>>,
   bodies |-> Digests(e.on_probe = "file" \/ (k = "deployment" /\ e.on_deploy = "file"), d)]

\* Once the handler has taken a manifest, every pod is the one the manifest and the
\* asset ask for, whatever it ran before and whichever pods were missing.
NoMissedDrift ==
  (done.idle /\ ~behind /\ kept # NoHash) =>
    \A p \in Replicated : Hashed(kind, pods[p]) = Hashed(kind, PodOf(Effective(kind, man), content))

\* A manifest that asks for the same pods has the hash of the one they were made from:
\* order, defaults written out, replica counts, drains and webhook URLs roll nothing.
NoChurn ==
  (~Refused(kind, man) /\ kept # NoHash /\ Wish(kind, man, stamp) = Wish(kind, done.man, done.stamp)) =>
    SpecHash(kind, Effective(kind, man), stamp) = kept

\* handlers.go 2374-2527, handlers_statefulset.go 1202-1291, docker.go 274-530: the hash
\* sees every change a pod would run differently for, but for the order of networks and a
\* statefulset's env_from, and none it would not, but for build_args; through
\* manifests that failed in between.
DriftTrue == NoMissedDrift /\ NoChurn
=============================================================================
