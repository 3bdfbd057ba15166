----------------------------- MODULE Manifests -----------------------------
(* The manifest language (internal/manifest): a file is interpolated, parsed  *)
(* into blocks, and each block becomes manifests or an error that refuses the *)
(* file (parse.go, types.go, interpolate.go, plugin_nested.go). A template is *)
(* a sequence of tokens, a body what the checks and defaults tell apart.      *)
EXTENDS Integers, FiniteSets, Sequences, SequencesExt

CONSTANTS
  Fields,      \* the values each field of a body may take
  Plain,       \* the body a block starts from
  Labels,      \* the labels a block may carry
  Shell,       \* the variables set: name and the tokens of the value
  MaxBlocks,
  MaxWrites    \* bounds: blocks of a file, blocks written and fields changed

ASSUME ManifestsAssumption ==
  /\ {MaxBlocks, MaxWrites} \subseteq Nat
  /\ \A f \in DOMAIN Fields : f \in DOMAIN Plain /\ Plain[f] \in Fields[f]

VARIABLES
  file,     \* its blocks, in order
  writes,   \* bound
  parsed    \* what the last parse of it gave: manifests, or a refusal

manifestsVars == <<file, writes, parsed>>

Unparsed == [done |-> FALSE, ok |-> FALSE, ms |-> << >>]
Refusal == [Unparsed EXCEPT !.done = TRUE]
Nothing == {}
Workloads == {"deployment", "statefulset", "job", "cronjob"}
BlockTypes == Workloads \cup {"app", "ingress", "asset", "registry", "postgres"}

ManifestsInit == file = << >> /\ writes = 0 /\ parsed = Unparsed
-----------------------------------------------------------------------------
(* Templates: literals, variables with and without a default, and references  *)
(* the controller resolves.                                                   *)

Lit(x) == [t |-> "lit", x |-> x]
Var(x, def) == [t |-> "var", x |-> x, def |-> def]
NoDefault == <<[t |-> "none", x |-> ""]>>
Ref(x) == [t |-> "ref", x |-> x]
Escaped(x) == [t |-> "escaped", x |-> x]

IsSet(x) == \E s \in Shell : s[1] = x
ShellValue(x) == (CHOOSE s \in Shell : s[1] = x)[2]
Undefined(tpl) == \E i \in DOMAIN tpl : tpl[i].t = "var" /\ ~IsSet(tpl[i].x) /\ tpl[i].def = NoDefault

\* Variant: a default is taken before the value.
InterpolatedFromDefault(tpl) ==
  FlattenSeq([i \in DOMAIN tpl |->
    IF tpl[i].t # "var" THEN <<tpl[i]>>
    ELSE IF tpl[i].def = NoDefault /\ IsSet(tpl[i].x) THEN ShellValue(tpl[i].x) ELSE tpl[i].def])

\* Interpolate: one pass; what a value holds is not looked at again.
Interpolated(tpl) ==
  FlattenSeq([i \in DOMAIN tpl |->
    IF tpl[i].t # "var" THEN <<tpl[i]>>
    ELSE IF IsSet(tpl[i].x) THEN ShellValue(tpl[i].x) ELSE tpl[i].def])

\* escapeServerSideRefsForHCL: HCL would evaluate a reference; escaped, it reads it as text.
EscapedRefs(tpl) == [i \in DOMAIN tpl |-> IF tpl[i].t = "ref" THEN Escaped(tpl[i].x) ELSE tpl[i]]

\* What HCL makes of a string: a variable left in it has no value to take.
Unreadable(tpl) == \E i \in DOMAIN tpl : tpl[i].t \in {"var", "ref"}
ReadByHCL(tpl) == [i \in DOMAIN tpl |-> IF tpl[i].t = "escaped" THEN Ref(tpl[i].x) ELSE tpl[i]]

Read(tpl) == ReadByHCL(EscapedRefs(Interpolated(tpl)))
BadTemplate(tpl) == Undefined(tpl) \/ Unreadable(EscapedRefs(Interpolated(tpl)))
-----------------------------------------------------------------------------
(* What the checks refuse.                                                    *)

\* validateAutoscale
BadAutoscale(b) ==
  /\ b.autoscale # Nothing
  /\ \E a \in b.autoscale : b.replicas > 0 \/ a.min < 1 \/ a.max < a.min \/ a.cpu \notin 1 .. 100

\* validateDeployWebhook: a URL, a method that has a body, one body, a file that is an asset.
BadWebhook(w) == \/ w.url = "" \/ w.method \notin {"", "POST", "PUT", "PATCH", "DELETE"}
                 \/ w.body /\ w.file # ""
                 \/ w.file \notin {"", "asset"}
BadWebhooks(ws) == \E w \in ws : BadWebhook(w)

\* validateProbeShape: one action, and what it needs.
BadProbe(p) == Cardinality(p) # 1 \/ \E a \in p : ~a.complete
BadProbes(b) == \E p \in b.probes : BadProbe(p)

\* validateInitContainers: each with a valid name of its own, a command, few retries.
BadInits(b) ==
  \/ \E i \in DOMAIN b.inits : b.inits[i].name = "" \/ ~b.inits[i].command \/ b.inits[i].retries \notin 0 .. 5
  \/ \E i, j \in DOMAIN b.inits : i # j /\ b.inits[i].name = b.inits[j].name

\* drainBlockToSpec
BadDrain(b) == b.drain = "soon"

\* errImageBuildExclusive
ImageAndBuild(b) == b.image # "" /\ b.build # Nothing

\* hclRegistry.spec: a helper, or a user and a token.
BadRegistry(b) ==
  \/ b.url = ""
  \/ b.helper # "" /\ (b.user # "" \/ b.token # "" \/ b.helper = "ecr")
  \/ b.helper = "" /\ (b.user = "" \/ b.token = "")

\* The blocks in a body, and those its kind's schema has.
BlocksOf(b) == (IF b.drain # "" THEN {"drain"} ELSE {}) \cup b.nested \cup
  {f \in {"on_deploy", "autoscale", "on_probe", "probes"} : b[f] # Nothing} \cup
  (IF b.inits # << >> THEN {"init"} ELSE {})
Known(type) ==
  CASE type = "deployment" -> {"drain", "on_deploy", "autoscale", "on_probe", "probes", "init"}
    [] type = "app" -> {"on_deploy", "autoscale", "on_probe", "probes", "init"}
    [] type = "statefulset" -> {"drain", "on_probe", "probes", "init"}
    [] OTHER -> {}

\* extractPluginBlocks: what a deployment or a statefulset does not know is a plugin's.
PluginBlocks(type, b) == BlocksOf(b) \ Known(type)
UnknownBlocks(type, b) ==
  type \notin {"deployment", "statefulset", "postgres"} /\ ~(BlocksOf(b) \subseteq Known(type))
-----------------------------------------------------------------------------
(* Defaults: applyDefaults of each kind.                                      *)

WithLogs(l) == [size |-> IF l.size = "" THEN "10m" ELSE l.size, files |-> IF l.files <= 0 THEN 3 ELSE l.files]
BuildOf(b) == IF b.image # "" THEN b.build
              ELSE IF b.build = Nothing \/ b.build = {""} THEN {"."} ELSE b.build
SeededReplicas(b) == IF b.replicas = 0 /\ b.autoscale # Nothing THEN (CHOOSE a \in b.autoscale : TRUE).min
                     ELSE b.replicas

\* What all workloads carry over as it is written.
Carried(b) == [image |-> b.image, cmd |-> Read(b.cmd), env_from |-> b.env_from, limits |-> b.limits]

DeploymentSpec(b) ==
  [c |-> Carried(b), build |-> BuildOf(b), replicas |-> SeededReplicas(b), autoscale |-> b.autoscale,
   on_deploy |-> b.on_deploy, on_probe |-> b.on_probe, probes |-> b.probes, inits |-> b.inits,
   drain |-> b.drain, logs |-> WithLogs(b.logs), plugins |-> PluginBlocks("deployment", b)]
\* hclApp.deploymentSpec: the same fields once more, less the drain and the plugins' blocks.
AppDeploymentSpec(b) ==
  [c |-> Carried(b), build |-> BuildOf(b), replicas |-> SeededReplicas(b), autoscale |-> b.autoscale,
   on_deploy |-> b.on_deploy, on_probe |-> b.on_probe, probes |-> b.probes, inits |-> b.inits,
   drain |-> "", logs |-> WithLogs(b.logs), plugins |-> Nothing]
StatefulsetSpec(b) ==
  [c |-> Carried(b), build |-> BuildOf(b), replicas |-> b.replicas, on_probe |-> b.on_probe,
   probes |-> b.probes, inits |-> b.inits, drain |-> b.drain, logs |-> WithLogs(b.logs), plugins |-> PluginBlocks("statefulset", b)]
\* JobSpec.applyDefaults leaves the build as it is.
JobSpec(b) == [c |-> Carried(b), build |-> b.build, logs |-> WithLogs(b.logs)]
CronJobSpec(b) == [job |-> JobSpec(b), schedule |-> b.schedule]

\* tlsBlockToSpec: a bare block means letsencrypt, on.
TLSOf(t) == IF t = "none" THEN Nothing ELSE {[on |-> t # "off", provider |-> "letsencrypt"]}
IngressSpec(b) == [host |-> b.host, tls |-> TLSOf(b.tls)]
RegistrySpec(b) == [url |-> b.url, user |-> b.user, token |-> b.token, helper |-> b.helper]
\* fileFunc, urlFunc: a file is read while the manifest is, a URL by the controller.
BadSource(b) == b.source = "gone"
Source(b) == CASE b.source = "file" -> [from |-> "file", content |-> "bytes"]
               [] b.source = "url" -> [from |-> "url", timeout |-> "", on_failure |-> ""]
               [] OTHER -> [from |-> "inline", content |-> Read(b.cmd)]
AssetSpec(b) == [files |-> Source(b)]

\* bodyToJSON: a plugin's body as it is, its blocks under their types.
PluginSpec(b) == [b EXCEPT !.cmd = Read(b.cmd)]
-----------------------------------------------------------------------------
(* A block: its labels, its checks, its manifests.                            *)

Encoded(kind, scope, name, spec) == [kind |-> kind, scope |-> scope, name |-> name, spec |-> spec]

\* requireScopedLabels, requireSingleLabel, decodeAssetBlock, decodePluginBlock
BadLabels(blk) ==
  CASE blk.type \in Workloads \cup {"app", "ingress"} -> Len(blk.labels) # 2 \/ "" \in {blk.labels[1], blk.labels[2]}
    [] blk.type = "registry" -> Len(blk.labels) # 1 \/ blk.labels[1] = ""
    [] blk.type = "asset" -> Len(blk.labels) \notin {1, 2} \/ Last(blk.labels) = ""
    [] OTHER -> Len(blk.labels) > 2 \/ (blk.labels # << >> /\ Last(blk.labels) = "")
ScopeOf(blk) == IF Len(blk.labels) = 2 THEN blk.labels[1] ELSE ""
NameOf(blk) == IF blk.labels = << >> THEN blk.type ELSE Last(blk.labels)

\* A plugin's body is checked by the plugin.
BadBody(type, b) ==
  \/ UnknownBlocks(type, b)
  \/ type \in Workloads \cup {"app"} /\ ImageAndBuild(b)
  \/ "autoscale" \in Known(type) /\ BadAutoscale(b)
  \/ "on_deploy" \in Known(type) /\ BadWebhooks(b.on_deploy)
  \/ "on_probe" \in Known(type) /\ (BadWebhooks(b.on_probe) \/ BadProbes(b) \/ BadInits(b))
  \/ "drain" \in Known(type) /\ BadDrain(b)
  \/ type \in {"app", "ingress"} /\ b.host = ""
  \/ type = "registry" /\ BadRegistry(b)
  \/ type = "asset" /\ BadSource(b)

RefusedBlock(blk) == BadTemplate(blk.body.cmd) \/ BadLabels(blk) \/ BadBody(blk.type, blk.body)

\* dispatchHCLBlock
Manifests(blk) ==
  LET b == blk.body
      one(spec) == <<Encoded(blk.type, ScopeOf(blk), NameOf(blk), spec)>>
  IN
  CASE blk.type = "app" -> <<Encoded("deployment", ScopeOf(blk), NameOf(blk), AppDeploymentSpec(b)),
                             Encoded("ingress", ScopeOf(blk), NameOf(blk), IngressSpec(b))>>
    [] blk.type = "deployment" -> one(DeploymentSpec(b))
    [] blk.type = "statefulset" -> one(StatefulsetSpec(b))
    [] blk.type = "job" -> one(JobSpec(b))
    [] blk.type = "cronjob" -> one(CronJobSpec(b))
    [] blk.type = "ingress" -> one(IngressSpec(b))
    [] blk.type = "registry" -> one(RegistrySpec(b))
    [] blk.type = "asset" -> one(AssetSpec(b))
    [] OTHER -> one(PluginSpec(b))

\* assertNoDuplicateIdentities, over the manifests of one file
Identity(m) == <<m.kind, m.scope, m.name>>
Duplicated(ms) == \E i, j \in DOMAIN ms : i # j /\ Identity(ms[i]) = Identity(ms[j])

\* parseHCL
ParseFile(blocks) ==
  LET ms == FlattenSeq([i \in DOMAIN blocks |-> Manifests(blocks[i])]) IN
  IF (\E i \in DOMAIN blocks : RefusedBlock(blocks[i])) THEN Refusal
  ELSE IF Duplicated(ms) THEN Refusal ELSE [done |-> TRUE, ok |-> TRUE, ms |-> ms]
-----------------------------------------------------------------------------
Write == writes < MaxWrites /\ writes' = writes + 1 /\ parsed' = Unparsed

WriteBlock(type) ==
  /\ Len(file) < MaxBlocks /\ Write
  /\ \E ls \in Labels : file' = Append(file, [type |-> type, labels |-> ls, body |-> Plain])

ChangeField(i, f) ==
  /\ Write
  /\ \E v \in Fields[f] : v # file[i].body[f] /\ file' = [file EXCEPT ![i].body[f] = v]

Parse == ~parsed.done /\ file # << >> /\ parsed' = ParseFile(file) /\ UNCHANGED <<file, writes>>

ManifestsNext ==
  \/ \E t \in BlockTypes : WriteBlock(t)
  \/ \E i \in DOMAIN file : \E f \in DOMAIN Fields : ChangeField(i, f)
  \/ Parse

ManifestsSpec == ManifestsInit /\ [][ManifestsNext]_manifestsVars
-----------------------------------------------------------------------------
(* Properties.                                                                *)

Specs(kinds) == {parsed.ms[i].spec : i \in {j \in DOMAIN parsed.ms : parsed.ms[j].kind \in kinds}}

\* An identity once; an app beside its own deployment or ingress is two of them.
OneOfEach == Cardinality({Identity(parsed.ms[i]) : i \in DOMAIN parsed.ms}) = Len(parsed.ms)

\* An app's deployment is the one a deployment block with the same body declares.
AppIsDeployment ==
  \A i \in DOMAIN file : file[i].type = "app" =>
    \E j \in DOMAIN parsed.ms :
      /\ parsed.ms[j] = Manifests([file[i] EXCEPT !.type = "deployment"])[1]
      /\ ~RefusedBlock([file[i] EXCEPT !.type = "deployment"])

\* The controller sees the text that was meant: values in place of variables, its own
\* references as they were written, those a value brought along too.
MeantBy(tpl) ==
  FlattenSeq([i \in DOMAIN tpl |->
    CASE tpl[i].t = "var" /\ IsSet(tpl[i].x) -> ShellValue(tpl[i].x)
      [] tpl[i].t = "var" /\ ~IsSet(tpl[i].x) -> tpl[i].def
      [] OTHER -> <<tpl[i]>>])
TextKept ==
  \A i \in DOMAIN file : file[i].type \in Workloads =>
    \E j \in DOMAIN parsed.ms : LET s == parsed.ms[j].spec IN
      /\ parsed.ms[j].kind = file[i].type /\ parsed.ms[j].name = NameOf(file[i])
      /\ (IF file[i].type = "cronjob" THEN s.job.c.cmd ELSE s.c.cmd) = MeantBy(file[i].body.cmd)

\* Workloads a handler can take: an image or a context to build one from, log limits,
\* and a count within the autoscaler's.
Complete ==
  /\ \A s \in Specs({"deployment", "statefulset"}) :
       (s.c.image = "") = (s.build # Nothing) /\ "" \notin s.build /\ s.logs.size # "" /\ s.logs.files > 0
  /\ \A s \in Specs({"deployment"}) : \A a \in s.autoscale : s.replicas \in a.min .. a.max

\* parse.go 1796-1829, types.go 871-903, interpolate.go 27-79: a file is refused whole or
\* every block of it becomes the manifests it means, each once and each fit to run.
ManifestsTrue == parsed.ok => OneOfEach /\ AppIsDeployment /\ TextKept /\ Complete
=============================================================================
