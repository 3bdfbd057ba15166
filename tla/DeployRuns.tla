------------------------------ MODULE DeployRuns ------------------------------
(* The deploy plane: a run deploys a commit of the repository a trigger names *)
(* (handlers_deploy_run.go). It selects trigger files, and per file builds    *)
(* what changed since the trigger's last build, applies the specs, and     *)
(* releases the deployments with a release block. Runs are goroutines of      *)
(* their own; each works on the copy of the trigger it read first and writes  *)
(* that copy back, beside operators who change the trigger.                   *)
(*                                                                            *)
(* Commits are numbers. Every app of a file is a deployment built from source.*)
EXTENDS Integers, Sequences, FiniteSets, SequencesExt

CONSTANTS
  Runs,       \* goroutines
  Commits,    \* numbers; a later commit may share trees and specs with an earlier one
  Files,      \* trigger files, in the order of the tree listing
  Manual,     \* files that say deploy: manual
  Outside,    \* files whose specs names a scope the trigger does not allow
  AppsOf,     \* per file: the deployments of its specs, in order
  PathOf,     \* per app: its build context
  TreeAt,     \* per commit and path: the git subtree
  SpecAt,     \* per commit and app: what the spec hash tells apart
  Released,   \* apps with a release block
  Failing,    \* what may fail: "download", "build", "record", "apply", "release"
  MaxRuns,    \* bound: runs
  MaxTroubles,  \* bound: changes of the trigger and failures
  Unset

Apps == UNION {ToSet(AppsOf[f]) : f \in ToSet(Files)}
Paths == {PathOf[a] : a \in Apps}

ASSUME DeployRunsAssumption ==
  /\ Manual \cup Outside \subseteq ToSet(Files)
  /\ Released \subseteq Apps
  /\ Files \in Seq(ToSet(Files)) /\ \A f \in ToSet(Files) : AppsOf[f] \in Seq(Apps)
  /\ \A c \in Commits, a \in Apps : Unset \notin {TreeAt[c][PathOf[a]], SpecAt[c][a]}
  /\ {MaxRuns, MaxTroubles} \subseteq Nat /\ Commits \subseteq Nat
  /\ Failing \subseteq {"download", "build", "record", "apply", "release"}

VARIABLES
  trigger,   \* the stored trigger: [enabled, built], or Unset; built is LastBuilt
  image,     \* per app: the tree of its latest image, or Unset
  made,      \* history, per app: trees an image was made from
  specs,     \* per app: the spec in the store, or Unset
  fleet,     \* per app with a release block: [image, spec] of its replicas, or Unset
  run,       \* per goroutine: the run it serves
  count,     \* runs, edits and failures so far
  disturbed  \* history: a run failed after it had changed something, lost its
             \* record, or overlapped another

deployRunsVars == <<trigger, image, made, specs, fleet, run, count, disturbed>>

NoRun == [pc |-> "idle", commit |-> 0, files |-> <<>>, takes |-> {}, copy |-> Unset,
         todo |-> <<>>, loaded |-> FALSE, fresh |-> {}, rebuilt |-> {}, before |-> <<>>,
         applied |-> {}, ok |-> FALSE]

DeployRunsInit ==
  /\ trigger = [enabled |-> TRUE, built |-> [p \in Paths |-> Unset]]
  /\ made = [a \in Apps |-> {}]
  /\ image = [a \in Apps |-> Unset]
  /\ specs = [a \in Apps |-> Unset]
  /\ fleet = [a \in Released |-> Unset]
  /\ run = [g \in Runs |-> NoRun]
  /\ count = [runs |-> 0, troubles |-> 0]
  /\ disturbed = FALSE

RunAt(g, pc) == run[g].pc = pc
Go(g, r) == run' = [run EXCEPT ![g] = r]
RunTo(g, pc) == Go(g, [run[g] EXCEPT !.pc = pc])
May(f) == f \in Failing /\ count.troubles < MaxTroubles
Trouble == count' = [count EXCEPT !.troubles = @ + 1]
File(g) == Head(run[g].files)
Built(g, a) == [run[g] EXCEPT !.todo = Tail(@), !.rebuilt = @ \cup {a},
                               !.fresh = @ \cup {PathOf[a]}]

\* A run that ends in an error leaves what it did before.
Disturbs(g) == disturbed' = (disturbed \/ run[g].applied # {} \/ run[g].rebuilt # {})

Fail(g) == Go(g, [NoRun EXCEPT !.pc = "answered"]) /\ Disturbs(g)
-----------------------------------------------------------------------------
\* handleDeployRun: a paused or absent trigger refuses; selectTriggerSpecs keeps
\* the files whose paths the push touched, and holds the manual ones of a push.
\* A dispatch names its commit, and runs every file.
StartRun(g, c, push) ==
  /\ RunAt(g, "idle") /\ count.runs < MaxRuns
  /\ count' = [count EXCEPT !.runs = @ + 1]
  /\ \E touched \in SUBSET ToSet(Files) :
       /\ ~push => touched = ToSet(Files)
       /\ Go(g, IF trigger = Unset \/ ~trigger.enabled \/ touched = {}
                THEN [NoRun EXCEPT !.pc = "answered"]
                ELSE [NoRun EXCEPT !.pc = "file", !.commit = c, !.files = Files,
                                  !.takes = IF push THEN touched \ Manual ELSE touched,
                                  !.copy = trigger])
  /\ disturbed' = (disturbed \/ \E h \in Runs \ {g} : ~RunAt(h, "idle"))
  /\ UNCHANGED <<trigger, image, made, specs, fleet>>

\* staleTargets: what the trigger's copy says was last built from another tree.
Stale(g, a) == run[g].copy.built[PathOf[a]] # TreeAt[run[g].commit][PathOf[a]]

\* applyFromRepo reads and parses the next file; a scope outside the trigger's
\* refuses it before anything is built.
NextFile(g) ==
  /\ RunAt(g, "file")
  /\ IF run[g].files = <<>> THEN RunTo(g, "touch") /\ UNCHANGED disturbed
     ELSE IF File(g) \notin run[g].takes
     THEN Go(g, [run[g] EXCEPT !.files = Tail(@)]) /\ UNCHANGED disturbed
     ELSE IF File(g) \in Outside THEN Fail(g)
     ELSE /\ Go(g, [run[g] EXCEPT
               !.pc = IF \E a \in ToSet(AppsOf[File(g)]) : Stale(g, a)
                      THEN "build" ELSE "before",
               !.todo = AppsOf[File(g)]])
          /\ UNCHANGED disturbed
  /\ UNCHANGED <<trigger, image, made, specs, fleet, count>>

\* One archive serves all targets of the file.
Download(g) ==
  /\ RunAt(g, "build") /\ ~run[g].loaded
  /\ \/ Go(g, [run[g] EXCEPT !.loaded = TRUE]) /\ UNCHANGED <<disturbed, count>>
     \/ May("download") /\ Fail(g) /\ Trouble
  /\ UNCHANGED <<trigger, image, made, specs, fleet>>

\* buildOne, of each stale target. A release is named by the hash of the archive
\* made of the files just extracted, with the times of the extraction in it: a
\* tree delivered again has another name, its directory is not found, and it is
\* built again.
MakeRelease(g) ==
  /\ RunAt(g, "build") /\ run[g].loaded /\ run[g].todo # <<>>
  /\ IF Stale(g, Head(run[g].todo)) THEN RunTo(g, "building")
     ELSE Go(g, [run[g] EXCEPT !.todo = Tail(@)])
  /\ UNCHANGED <<trigger, image, made, specs, fleet, count, disturbed>>

\* A failed build, after the targets built before it are recorded, ends the run.
FinishBuild(g) ==
  /\ RunAt(g, "building")
  /\ LET a == Head(run[g].todo)
         t == TreeAt[run[g].commit][PathOf[a]]
     IN \/ /\ image' = [image EXCEPT ![a] = t]
           /\ made' = [made EXCEPT ![a] = @ \cup {t}]
           /\ Go(g, [Built(g, a) EXCEPT !.pc = "build"])
           /\ UNCHANGED <<disturbed, count>>
        \/ /\ May("build") /\ Trouble
           /\ RunTo(g, "recordFailed") /\ Disturbs(g)
           /\ UNCHANGED <<image, made>>
  /\ UNCHANGED <<trigger, specs, fleet>>

\* Variant: the whole tree of the commit is recorded.
RememberedCommit(g) ==
  [run[g].copy EXCEPT !.built = TreeAt[run[g].commit]]

\* The copy of the trigger with what was built.
Remembered(g) ==
  [run[g].copy EXCEPT !.built =
     [p \in Paths |-> IF p \in run[g].fresh THEN TreeAt[run[g].commit][p] ELSE @[p]]]

\* rememberBuilt: the whole trigger is put back; a failed put is not an error,
\* and leaves the copy as it was: the record keeps the tree built before, and a
\* later run at that tree builds nothing.
Remember(g) ==
  /\ \/ RunAt(g, "build") /\ run[g].loaded /\ run[g].todo = <<>>
     \/ RunAt(g, "recordFailed")
  /\ LET then(r) == Go(g, IF RunAt(g, "build") THEN [r EXCEPT !.pc = "before"]
                          ELSE [NoRun EXCEPT !.pc = "answered"])
     IN \/ /\ trigger' = IF run[g].fresh = {} THEN trigger ELSE Remembered(g)
           /\ then([run[g] EXCEPT !.copy = Remembered(g)])
           /\ UNCHANGED <<count, disturbed>>
        \/ /\ May("record") /\ run[g].fresh # {}
           /\ then(run[g]) /\ Trouble /\ disturbed' = TRUE /\ UNCHANGED trigger
  /\ UNCHANGED <<image, made, specs, fleet>>

\* releaseSpecHashes of what the store holds.
ReadBefore(g) ==
  /\ RunAt(g, "before")
  /\ Go(g, [run[g] EXCEPT !.pc = "apply",
                          !.before = [a \in Released \cap ToSet(AppsOf[File(g)]) |-> specs[a]]])
  /\ UNCHANGED <<trigger, image, made, specs, fleet, count, disturbed>>

\* applyManifestsInProcess: applyPost (Requests) in one step.
ApplyFile(g) ==
  /\ RunAt(g, "apply")
  /\ \/ /\ specs' = [a \in Apps |-> IF a \in ToSet(AppsOf[File(g)])
                                       THEN SpecAt[run[g].commit][a] ELSE specs[a]]
        /\ Go(g, [run[g] EXCEPT !.pc = "release", !.applied = @ \cup {File(g)},
                                !.todo = AppsOf[File(g)]])
        /\ UNCHANGED <<disturbed, count>>
     \/ May("apply") /\ Fail(g) /\ Trouble /\ UNCHANGED specs
  /\ UNCHANGED <<trigger, image, made, fleet>>

\* Variant: a release runs only when the spec changed.
UnchangedSpec(g, a) ==
  run[g].before[a] # Unset /\ run[g].before[a] = SpecAt[run[g].commit][a]

\* "nothing changed, nothing released"
Unchanged(g, a) ==
  /\ a \notin run[g].rebuilt
  /\ run[g].before[a] # Unset /\ run[g].before[a] = SpecAt[run[g].commit][a]

\* releaseDeployments: Release (Deployment) rolls the replicas there are onto
\* the stored spec and the latest image; its failure ends the run.
ReleaseNext(g) ==
  /\ RunAt(g, "release")
  /\ IF run[g].todo = <<>>
     THEN /\ Go(g, [run[g] EXCEPT !.pc = "file", !.files = Tail(@), !.before = <<>>,
                                  !.rebuilt = {}, !.fresh = {}, !.loaded = FALSE])
          /\ UNCHANGED <<fleet, disturbed, count>>
     ELSE LET a == Head(run[g].todo) IN
       \/ /\ Go(g, [run[g] EXCEPT !.todo = Tail(@)])
          /\ fleet' = IF a \in Released /\ ~Unchanged(g, a) /\ fleet[a] # Unset
                     THEN [fleet EXCEPT ![a] = [image |-> image[a], spec |-> specs[a]]]
                     ELSE fleet
          /\ UNCHANGED <<disturbed, count>>
       \/ /\ May("release") /\ a \in Released /\ ~Unchanged(g, a)
          /\ Fail(g) /\ Trouble /\ UNCHANGED fleet
  /\ UNCHANGED <<trigger, image, made, specs>>

\* touchTrigger puts the copy back for its time of firing; errors are dropped.
Touch(g) ==
  /\ RunAt(g, "touch")
  /\ trigger' = run[g].copy
  /\ Go(g, [run[g] EXCEPT !.pc = "answered", !.ok = TRUE, !.copy = Unset])
  /\ UNCHANGED <<image, made, specs, fleet, count, disturbed>>

Answered(g) ==
  /\ RunAt(g, "answered") /\ Go(g, NoRun)
  /\ UNCHANGED <<trigger, image, made, specs, fleet, count, disturbed>>
-----------------------------------------------------------------------------
\* updateTrigger with another Enabled; deleteTrigger.
Edit ==
  /\ trigger # Unset /\ count.troubles < MaxTroubles /\ Trouble
  /\ trigger' \in {[trigger EXCEPT !.enabled = ~@], Unset}
  /\ UNCHANGED <<image, made, specs, fleet, run, disturbed>>

\* The reconciler spawns the replicas a deployment with a release block lacks; it
\* leaves the ones there are to the release phase (the gate in Deployment).
Reconcile(a) ==
  /\ specs[a] # Unset /\ image[a] # Unset /\ fleet[a] = Unset
  /\ fleet' = [fleet EXCEPT ![a] = [image |-> image[a], spec |-> specs[a]]]
  /\ UNCHANGED <<trigger, image, made, specs, run, count, disturbed>>
-----------------------------------------------------------------------------
DeployRunsNext ==
  \/ \E g \in Runs :
       \/ \E c \in Commits, push \in BOOLEAN : StartRun(g, c, push)
       \/ NextFile(g) \/ Download(g) \/ MakeRelease(g) \/ FinishBuild(g) \/ Remember(g)
       \/ ReadBefore(g) \/ ApplyFile(g) \/ ReleaseNext(g) \/ Touch(g) \/ Answered(g)
  \/ Edit
  \/ \E a \in Released : Reconcile(a)

DeployRunsSpec == DeployRunsInit /\ [][DeployRunsNext]_deployRunsVars
-----------------------------------------------------------------------------
\* LastBuilt holds "the git subtree SHA that was last built from it
\* successfully" (Trigger): an image of every app was made from the tree its
\* context is recorded with.
RecordHonest ==
  trigger # Unset =>
    \A a \in Apps : LET t == trigger.built[PathOf[a]] IN t # Unset => t \in made[a]

\* A run that answers OK has put the box on its commit: the manifests of its
\* files are stored, their images are made from its trees, and the deployments
\* with a release block run both.
Delivered(g) ==
  \A f \in run[g].applied : \A a \in ToSet(AppsOf[f]) :
    /\ specs[a] = SpecAt[run[g].commit][a]
    /\ image[a] = TreeAt[run[g].commit][PathOf[a]]
    /\ a \in Released /\ fleet[a] # Unset =>
         fleet[a] = [image |-> image[a], spec |-> specs[a]]

OkDelivers == \A g \in Runs : RunAt(g, "answered") /\ run[g].ok => Delivered(g)

\* OkDelivers, where no run failed half way, lost its record, or overlapped another.
CleanRunsDeliver == ~disturbed => OkDelivers

\* Records are of builds that were made, whatever failed, overlapped or was written
\* back, and an answered run has delivered them.
RunsDeliver == RecordHonest /\ CleanRunsDeliver

\* The cost of a record that is lost "is one redundant download on the next deploy,
\* not a wrong deploy" (rememberBuilt): a run that answers OK has delivered its
\* commit also where a record was lost.
LostRecordHarmless == OkDelivers
=============================================================================
