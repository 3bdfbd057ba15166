----------------------------- MODULE Environments -----------------------------
(* Where a container's environment comes from: config buckets of a scope and *)
(* of a resource, the env files made of them, the manifest's own env and its *)
(* env files, env_from, and the client's interpolation of the same buckets.  *)
EXTENDS Integers, Sequences

CONSTANTS Payloads,   \* what config set may be given; TwoLines may be a value
          Authored,   \* manifests the operator may have in the file
          Shells,     \* the operator's own environment: one for a behaviour
          MaxChanges, \* bound: config commands
          MaxApplies  \* bound: applies

Empty == ""  \* the name of a scope's own bucket, and the value that removes a key
Me == <<"s", "web">>
ScopeBucket(r) == <<r[1], Empty>>
Shared == {<<"s", "shared">>, <<"t", "shared">>}
Buckets == {Me, <<"s", "other">>, <<"s", Empty>>, <<"t", Empty>>, <<"shared", Empty>>} \cup Shared
TwoLines == "two lines"

\* Every manifest sets a variable no bucket has: where it has none, a config set leaves
\* the container as it is (ConfigSetRolls of Deployment). It interpolates one variable.
ASSUME EnvironmentsAssumption ==
  /\ \A vars \in Payloads : "copy" \notin DOMAIN vars
  /\ \A a \in Authored :
       /\ a.from \in Seq(STRING \X STRING) /\ a.blocks \in Seq(Buckets)
       /\ \E i \in DOMAIN a.blocks : a.blocks[i] = Me
       /\ \A u, v \in a.uses : u = v

VARIABLES bucket,   \* the config buckets
          onhost,     \* the env files on the host
          written,    \* of them, those whose last write is known to have gone through
          stored,      \* the stored manifest: <<>>, or its authored form and its env
          woken,    \* the manifest was put since it was last handled
          running,      \* the environment of the running container, <<>> when there is none
          held,   \* a change was made that was not to restart anything, or that failed
          missed,   \* an environment was written that no env_from let into the container
          client,   \* the apply in progress: <<>>, or what it will send
          moved,    \* a bucket changed since the manifest was interpolated
          quiet,    \* nothing changed since the container was last looked at
          restarts, \* of a container with one-line values, for which nothing had changed
          shell, changes, applies

environmentsVars ==
  <<bucket, onhost, written, stored, woken, running, held, missed, client, moved, quiet, restarts, shell, changes,
    applies>>

Overlay(low, high) ==
  [k \in DOMAIN low \cup DOMAIN high |-> IF k \in DOMAIN high THEN high[k] ELSE low[k]]
NoVars == [k \in {} |-> Empty]

\* Of several layers the last that has a key gives its value.
LastWith(k, layers) ==
  CHOOSE i \in DOMAIN layers : k \in DOMAIN layers[i] /\ \A j \in DOMAIN layers : k \in DOMAIN layers[j] => j <= i
Layered(layers) ==
  [k \in UNION {DOMAIN layers[i] : i \in DOMAIN layers} |-> layers[LastWith(k, layers)][k]]
-----------------------------------------------------------------------------
(* The store: one key a variable; a resource sees its scope's and its own.   *)

GetConfig(b) == bucket[b]
ResolveConfig(b) == Overlay(bucket[ScopeBucket(b)], bucket[b])
ConfigGet(b) == IF b[2] # Empty THEN ResolveConfig(b) ELSE GetConfig(b)

(* An empty value removes the key. The keys go one by one, in no order.      *)
Patched(old, vars) ==
  LET now == Overlay(old, vars)
  IN  [k \in {x \in DOMAIN now : now[x] # Empty} |-> now[k]]
Partial(vars) == {[k \in ks |-> vars[k]] : ks \in SUBSET DOMAIN vars \ {DOMAIN vars}}
-----------------------------------------------------------------------------
(* Env files: a value of two lines is written as two, and read as the first. *)

Load(vars) == [k \in DOMAIN vars |-> IF vars[k] = TwoLines THEN "first line" ELSE vars[k]]
Several(vars) == \E k \in DOMAIN vars : vars[k] = TwoLines
OnDisk(b) == IF b \in DOMAIN onhost THEN Load(onhost[b]) ELSE NoVars
Replace(b, vars) == onhost' = [f \in DOMAIN onhost \cup {b} |-> IF f = b THEN vars ELSE onhost[f]]

Materialize(b, vars) ==
  IF b[2] = Empty THEN UNCHANGED <<onhost, written>>
  ELSE \/ Replace(b, vars) /\ written' = written \cup {b}
       \/ UNCHANGED onhost /\ written' = written \ {b}

(* Only resources of the bucket's own name are put again, or all of its scope. *)
RestartAffected(b) ==
  IF stored # <<>> /\ b[1] = "s" /\ b[2] \in {Empty, "web"} THEN woken' = TRUE ELSE UNCHANGED woken
-----------------------------------------------------------------------------
(* vd config set and unset.                                                  *)

Changes(b, vars, restart) ==
  /\ changes < MaxChanges /\ changes' = changes + 1
  /\ moved' = TRUE /\ quiet' = FALSE
  /\ \/ /\ bucket' = [bucket EXCEPT ![b] = Patched(@, vars)]
        /\ Materialize(b, Patched(bucket[b], vars))
        /\ IF restart THEN RestartAffected(b) /\ UNCHANGED held ELSE held' = TRUE /\ UNCHANGED woken
     \/ \E some \in Partial(vars) :
          /\ bucket' = [bucket EXCEPT ![b] = Patched(@, some)]
          /\ held' = TRUE /\ written' = written \ {b}
          /\ UNCHANGED <<onhost, woken>>
  /\ UNCHANGED <<stored, running, missed, client, restarts, shell, applies>>

ConfigPost == \E b \in Buckets, r \in BOOLEAN, vars \in Payloads : Changes(b, vars, r)
Unset(ks) == [k \in ks |-> Empty]
ConfigDelete == \E b \in Buckets, r \in BOOLEAN :
                  bucket[b] # NoVars /\ Changes(b, Unset(DOMAIN bucket[b]), r)
-----------------------------------------------------------------------------
(* The client. A bare env_from is a scope to it; to the controller, a resource *)
(* of the caller's scope.                                                    *)

BucketOf(ref) == IF ref[1] = Empty THEN <<ref[2], Empty>> ELSE ref
FileOf(ref) == IF ref[1] = Empty THEN <<"s", ref[2]>> ELSE ref

(* A reference counts where it comes first.                                  *)
FetchBucket(refs, i) == IF \E j \in 1 .. i - 1 : refs[j] = refs[i] THEN NoVars ELSE ConfigGet(BucketOf(refs[i]))
EnvFromRefs(a) == [i \in 1 .. Len(a.from) |-> FetchBucket(a.from, i)]
(* All blocks of the file share one environment, the later ones' buckets last. *)
ResourceRefs(a) == IF a.uses = {} THEN << >> ELSE [i \in 1 .. Len(a.blocks) |-> FetchBucket(a.blocks, i)]
MergeBucketEnvOwnFirst(refs, own) == Overlay(Layered(own \o refs), shell)
MergeBucketEnv(refs, own) == Overlay(Layered(refs \o own), shell)
EnrichEnv(a) == MergeBucketEnv(EnvFromRefs(a), ResourceRefs(a))

(* Inline env wins over the env files.                                       *)
MergeEnvFile(a, env) == Overlay(a.envfile, env)

\* The variable that the manifest sets to what it interpolates.
Copied(a) == [k \in {"copy"} |-> IF a.uses = {} THEN "-" ELSE EnrichEnv(a)[CHOOSE u \in a.uses : TRUE]]

(* The buckets are read, the manifest interpolated with what was read.       *)
ReadBuckets ==
  /\ client = <<>> /\ applies < MaxApplies
  /\ \E a \in Authored :
       /\ a.uses \subseteq DOMAIN EnrichEnv(a)
       /\ client' = <<[authored |-> a, env |-> MergeEnvFile(a, Overlay(a.env, Copied(a)))]>>
  /\ moved' = FALSE /\ applies' = applies + 1
  /\ UNCHANGED <<bucket, onhost, written, stored, woken, running, held, missed, quiet, restarts, shell, changes>>

SendApply ==
  /\ client # <<>>
  /\ stored' = client /\ woken' = TRUE /\ client' = <<>>
  /\ quiet' = (quiet /\ stored = client)
  /\ UNCHANGED <<bucket, onhost, written, running, held, missed, moved, restarts, shell, changes, applies>>
-----------------------------------------------------------------------------
(* The controller.                                                           *)

ResolveAppEnv == Overlay(ResolveConfig(Me), stored[1].env)
NoneResolved(refs) == refs # << >> /\ \A i \in DOMAIN refs : FileOf(refs[i]) \notin DOMAIN onhost
Environment(refs, own) == Overlay(Layered([i \in 1 .. Len(refs) |-> OnDisk(FileOf(refs[i]))]), Load(own))

(* The container is replaced when its own file moved, or its manifest's list *)
(* of files; a file with a line that sets nothing may be refused. Where none  *)
(* of the files is there the new environment is written all the same.        *)
Handle ==
  /\ woken
  /\ LET own == ResolveAppEnv
         changed == OnDisk(Me) # own
         refs == stored[1].authored.from
     IN  /\ Replace(Me, own) /\ written' = written \cup {Me}
         /\ IF ~NoneResolved(refs) /\ (running = <<>> \/ changed \/ running[1].from # refs)
            THEN /\ running' = <<[from |-> refs, own |-> own]>> \/ (Several(own) /\ running' = <<>>)
                 /\ missed' = FALSE
            ELSE UNCHANGED running /\ missed' = (missed \/ (changed /\ running # <<>>))
         /\ restarts' = restarts + (IF running # <<>> /\ changed /\ quiet /\ ~Several(own) THEN 1 ELSE 0)
         /\ woken' = (NoneResolved(refs) \/ running' = <<>>)
         /\ held' = FALSE /\ quiet' = TRUE
  /\ UNCHANGED <<bucket, stored, client, moved, shell, changes, applies>>

(* A wake with nothing held it: the controller restarts and replays.         *)
Replay ==
  /\ stored # <<>> /\ ~woken /\ woken' = TRUE
  /\ UNCHANGED <<bucket, onhost, written, stored, running, held, missed, client, moved, quiet, restarts, shell, changes,
                 applies>>
-----------------------------------------------------------------------------
EnvironmentsInit ==
  /\ bucket = [b \in Buckets |-> NoVars]
  /\ onhost = [b \in {} |-> NoVars] /\ written = {}
  /\ stored = <<>> /\ woken = FALSE /\ running = <<>> /\ held = FALSE /\ missed = FALSE
  /\ client = <<>> /\ moved = FALSE /\ quiet = FALSE /\ restarts = 0 /\ shell \in Shells /\ changes = 0 /\ applies = 0

EnvironmentsNext == ConfigPost \/ ConfigDelete \/ ReadBuckets \/ SendApply \/ Handle \/ Replay

EnvironmentsSpec == EnvironmentsInit /\ [][EnvironmentsNext]_environmentsVars
-----------------------------------------------------------------------------
(* The env file of a shared bucket, which no resource of that name owns, is  *)
(* always what the bucket holds, if every step of its last change succeeded. *)
Materialized == \A b \in Shared \cap written : onhost[b] = bucket[b]

(* A container that is not about to be looked at runs with what its scope, its *)
(* bucket and its manifest say now, unless a change asked for no restart or  *)
(* failed, or none of the files its manifest named was there when its        *)
(* environment was written; and one nothing was changed for is left alone,   *)
(* unless a value has several lines.                                         *)
OwnFollows ==
  /\ stored # <<>> /\ running # <<>> /\ ~woken /\ ~held /\ ~missed => Load(running[1].own) = Load(ResolveAppEnv)
  /\ restarts = 0

(* What the client interpolated for a key is what the container sees under it, *)
(* when the file has one block, its references name resources, each once and *)
(* not its own, no shell variable or manifest value stands before them, and  *)
(* the key is not another scope's.                                           *)
From == stored[1].authored.from
Alike(k) ==
  /\ Len(stored[1].authored.blocks) = 1
  /\ \A i \in DOMAIN From :
       LET file == FileOf(From[i])
       IN  /\ file \in written /\ file # Me /\ \A j \in DOMAIN From : From[j] = From[i] => j = i
           /\ file[1] = "s" \/ k \notin DOMAIN bucket[ScopeBucket(file)]
  /\ k \notin DOMAIN shell /\ k \notin DOMAIN stored[1].env /\ stored[1].env["copy"] # TwoLines
Agrees(k) ==
  LET run == Environment(From, ResolveAppEnv) IN k \in DOMAIN run /\ run[k] = stored[1].env["copy"]
InterpolatedAlike ==
  stored # <<>> /\ ~moved /\ client = <<>> /\ (\A i \in DOMAIN From : From[i][1] # Empty) =>
    \A k \in stored[1].authored.uses : Alike(k) => Agrees(k)

(* The same variable has one value wherever it is read: in its env file, in the *)
(* container and in the manifest's interpolation.                            *)
EnvsTrue == Materialized /\ OwnFollows /\ InterpolatedAlike
=============================================================================
