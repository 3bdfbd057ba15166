------------------------------ MODULE Releases ------------------------------
(* Builds of several apps and their histories: a Procfile push builds the     *)
(* first app and gives its image to the others (receive_pack_procfile.go,     *)
(* tarball.go, materialize.go), applies and releases write records, rollbacks *)
(* read them, and what falls off a history takes its image tag along          *)
(* (release.go). Directories, links, tags and records are changed one by one. *)
EXTENDS Integers, FiniteSets, Sequences, SequencesExt

CONSTANTS
  Procs,       \* the apps of the Procfile, in its order: the first one is built
  Deployments, \* those that are deployments; the others, jobs, have no records
  Builds,      \* sources that may be pushed
  NoBuild,     \* no link, no image, a record without a build
  KeepReleases,        \* DefaultKeepReleases
  MaxHistory,  \* maxReleaseHistory
  MaxPushes, MaxCalls, MaxTroubled  \* bounds: pushes; rollbacks, releases and probes; failures

ProcApps == ToSet(Procs)

ASSUME ReleasesAssumption ==
  /\ Procs \in Seq(ProcApps) /\ Procs # << >> /\ IsInjective(Procs) /\ Deployments \subseteq ProcApps /\ NoBuild \notin Builds
  /\ {KeepReleases, MaxHistory} \subseteq Nat \ {0}
  /\ {MaxPushes, MaxCalls, MaxTroubled} \subseteq Nat

VARIABLES
  releaseDirs,      \* releases/<build> of an app, oldest first
  link,      \* where an app's `current` points
  latest,    \* the build behind <app>:latest
  tags,      \* the builds with an <app>:<build> tag
  recs,      \* ReleaseRecords in the status blob, newest first
  running,   \* the build an app's replicas were created from
  posted,    \* apps whose manifest was put and not handled since
  push,      \* the receive-pack under way
  hands,      \* what the goroutines of the controller are at
  minted,    \* release ids given out
  log,       \* all ids recorded for an app, newest first
  smudged,   \* apps whose blob was lost sight of: a failed read, or two writers at once
  wrecked,   \* apps whose current directory a failed extraction took away
  moved,     \* apps a rollback retagged since the push began
  calls, troubles  \* bounds

releasesVars == <<releaseDirs, link, latest, tags, recs, running, posted, push, hands, minted, log,
                  smudged, wrecked, moved, calls, troubles>>
builtVars == <<releaseDirs, link, latest, tags, wrecked>>
blobVars == <<recs, hands, minted, log, smudged, calls>>

Goroutines == {"loop", "http", "probe"}
NoPush == [at |-> "idle", build |-> NoBuild, force |-> FALSE, left |-> << >>, fresh |-> {}, n |-> 0]
NoRecord == [id |-> 0, build |-> NoBuild, ok |-> TRUE, had |-> FALSE]
HandsFree == [app |-> NoBuild, todo |-> << >>, rec |-> NoRecord, held |-> FALSE, blob |-> << >>, drop |-> {}]

ReleasesInit ==
  /\ releaseDirs = [a \in ProcApps |-> << >>] /\ tags = [a \in ProcApps |-> {}]
  /\ link = [a \in ProcApps |-> NoBuild] /\ latest = [a \in ProcApps |-> NoBuild]
  /\ recs = [a \in Deployments |-> << >>] /\ log = [a \in Deployments |-> << >>]
  /\ running = [a \in Deployments |-> NoBuild]
  /\ posted = {} /\ push = NoPush /\ hands = [g \in Goroutines |-> HandsFree]
  /\ minted = 0 /\ smudged = {} /\ wrecked = {} /\ moved = {} /\ calls = 0 /\ troubles = 0

Hitch == troubles < MaxTroubled /\ troubles' = troubles + 1
-----------------------------------------------------------------------------
(* A push: every app in turn, then one POST /apply of all manifests.          *)

Primary == Procs[1]
Pushed == Head(push.left)
PushAt(stage) == push.at = stage
Goes(stage) == push' = [push EXCEPT !.at = stage]
Ends == push' = [NoPush EXCEPT !.n = push.n] /\ moved' = {}
HasDir(a, b) == b \in ToSet(releaseDirs[a])
WithoutDir(ds, b) == IF \E i \in DOMAIN ds : ds[i] = b
                     THEN RemoveAt(ds, CHOOSE i \in DOMAIN ds : ds[i] = b) ELSE ds

PushStart ==
  /\ PushAt("idle") /\ push.n < MaxPushes
  /\ \E b \in Builds, f \in BOOLEAN :
       /\ f => \E a \in ProcApps : HasDir(a, b)  \* elsewhere --force changes nothing
       /\ push' = [NoPush EXCEPT !.at = "dir", !.build = b, !.force = f, !.left = Procs, !.n = push.n + 1]
  /\ UNCHANGED <<builtVars, blobVars, running, posted, moved, troubles>>

\* A directory with the source's hash is taken for a finished build; forced or
\* new, the source is extracted into it (MkdirAll is content with an old one).
OpenDir ==
  /\ PushAt("dir")
  /\ IF HasDir(Pushed, push.build) /\ ~push.force
     THEN Goes("unlink") /\ UNCHANGED releaseDirs
     ELSE /\ Goes("image")
          /\ releaseDirs' = [releaseDirs EXCEPT ![Pushed] =
               IF HasDir(Pushed, push.build) THEN @ ELSE Append(@, push.build)]
  /\ UNCHANGED <<link, latest, tags, wrecked, blobVars, running, posted, moved, troubles>>

\* A failed extraction removes the directory, whatever it was before.
ExtractFails ==
  /\ PushAt("dir") /\ Hitch /\ (push.force \/ ~HasDir(Pushed, push.build))
  /\ releaseDirs' = [releaseDirs EXCEPT ![Pushed] = WithoutDir(@, push.build)]
  /\ wrecked' = IF link[Pushed] = push.build THEN wrecked \cup {Pushed} ELSE wrecked
  /\ Ends /\ UNCHANGED <<link, latest, tags, blobVars, running, posted>>

\* docker build gives both tags at once.
BuildImage ==
  /\ PushAt("image") /\ Pushed = Primary
  /\ latest' = [latest EXCEPT ![Pushed] = push.build]
  /\ tags' = [tags EXCEPT ![Pushed] = @ \cup {push.build}]
  /\ push' = [push EXCEPT !.at = "unlink", !.fresh = @ \cup {Pushed}]
  /\ UNCHANGED <<releaseDirs, link, wrecked, blobVars, running, posted, moved, troubles>>

\* Variant: the image is retagged without a look whether the first app has it.
RetagAnyway ==
  /\ PushAt("image") /\ Pushed # Primary
  /\ IF push.build \in tags[Primary] THEN latest' = [latest EXCEPT ![Pushed] = push.build] ELSE UNCHANGED latest
  /\ Goes("tag") /\ UNCHANGED <<releaseDirs, link, tags, wrecked, blobVars, running, posted, moved, troubles>>

\* MaterializeFromBuilt: without the first app's image the push fails, and the
\* directory stays.
RetagLatest ==
  /\ PushAt("image") /\ Pushed # Primary
  /\ IF push.build \in tags[Primary]
     THEN latest' = [latest EXCEPT ![Pushed] = push.build] /\ Goes("tag") /\ UNCHANGED moved
     ELSE Ends /\ UNCHANGED latest
  /\ UNCHANGED <<releaseDirs, link, tags, wrecked, blobVars, running, posted, troubles>>

TagBuild ==
  /\ PushAt("tag")
  /\ tags' = [tags EXCEPT ![Pushed] = @ \cup {push.build}]
  /\ push' = [push EXCEPT !.at = "unlink", !.fresh = @ \cup {Pushed}]
  /\ UNCHANGED <<releaseDirs, link, latest, wrecked, blobVars, running, posted, moved, troubles>>

\* swapCurrentSymlink: the old link is removed, then the new one made.
Unlink ==
  /\ PushAt("unlink") /\ link' = [link EXCEPT ![Pushed] = NoBuild] /\ Goes("link")
  /\ UNCHANGED <<releaseDirs, latest, tags, wrecked, blobVars, running, posted, moved, troubles>>

NextApp == push' = [push EXCEPT !.left = Tail(@), !.at = IF Len(push.left) = 1 THEN "post" ELSE "dir"]
Relink ==
  /\ PushAt("link") /\ link' = [link EXCEPT ![Pushed] = push.build]
  /\ wrecked' = wrecked \ {Pushed}
  /\ IF Pushed \in push.fresh THEN Goes("gc") ELSE NextApp
  /\ UNCHANGED <<releaseDirs, latest, tags, blobVars, running, posted, moved, troubles>>

\* gcReleases spares the newest directories and the one `current` points at.
Surplus(a) == {i \in DOMAIN releaseDirs[a] : /\ i <= Len(releaseDirs[a]) - KeepReleases
                                             /\ releaseDirs[a][i] # link[a]}
\* One directory at a time, the newest of them first.
PruneDir ==
  /\ PushAt("gc")
  /\ IF Surplus(Pushed) = {}
     THEN NextApp /\ UNCHANGED releaseDirs
     ELSE \E i \in Surplus(Pushed) :
            /\ \A j \in Surplus(Pushed) : j <= i
            /\ releaseDirs' = [releaseDirs EXCEPT ![Pushed] = RemoveAt(@, i)] /\ UNCHANGED push
  /\ UNCHANGED <<link, latest, tags, wrecked, blobVars, running, posted, moved, troubles>>

\* A directory that cannot be removed is a warning; it and the older ones stay.
PruneFails ==
  /\ PushAt("gc") /\ Hitch /\ NextApp /\ UNCHANGED <<builtVars, blobVars, running, posted, moved>>

\* All apps landed: their manifests are applied.
Post ==
  /\ PushAt("post") /\ Ends /\ posted' = Deployments
  /\ UNCHANGED <<builtVars, blobVars, running, troubles>>

\* Any other call fails, or the session that runs the push is cut off: it ends as it stands.
PushDies ==
  /\ push.at \notin {"idle", "dir", "gc"} /\ Hitch /\ Ends
  /\ UNCHANGED <<builtVars, blobVars, running, posted>>
-----------------------------------------------------------------------------
(* The controller's goroutines. Each change of the status blob is a load and  *)
(* a put of the whole blob; hands[g].todo names what a goroutine still does.   *)

Busy(g, a) == hands[g].app = a
Crossing(g, a) == IF \E o \in Goroutines \ {g} : Busy(o, a) THEN {a} ELSE {}
Starts(g, a, todo, rec) ==
  /\ hands[g] = HandsFree
  /\ hands' = [hands EXCEPT ![g] = [HandsFree EXCEPT !.app = a, !.todo = todo, !.rec = rec]]
  /\ smudged' = smudged \cup Crossing(g, a)
Does(g, step) == hands[g].todo # << >> /\ Head(hands[g].todo) = step
After(w) == IF Len(w.todo) = 1 THEN HandsFree
            ELSE [w EXCEPT !.todo = Tail(@), !.held = FALSE, !.blob = << >>, !.drop = {}]
Done(g) == hands' = [hands EXCEPT ![g] = After(@)]

RecordOf(id, b, ok, a) == [id |-> id, build |-> b, ok |-> ok, had |-> b \in tags[a]]

\* apply: a first apply, a changed spec or count (minting is then left open) or
\* a moved image mints a release; the replicas follow, the record comes last.
Apply ==
  \E a \in posted :
    /\ posted' = posted \ {a} /\ hands["loop"] = HandsFree
    /\ \/ /\ running[a] = latest[a] /\ UNCHANGED <<hands, smudged, minted, running>>
       \/ /\ Starts("loop", a, <<"status", "append">>, [NoRecord EXCEPT !.id = minted + 1])
          /\ minted' = minted + 1 /\ running' = [running EXCEPT ![a] = latest[a]]
    /\ UNCHANGED <<builtVars, recs, log, calls, push, moved, troubles>>

\* Release: the build is read from the link before the commands run; a command
\* that fails makes a failed record and leaves the replicas.
Release ==
  \E a \in Deployments, ok \in BOOLEAN :
    /\ calls < MaxCalls /\ calls' = calls + 1
    /\ running[a] # NoBuild \/ a \in posted  \* its manifest is in the store
    /\ Starts("http", a, IF ok THEN <<"roll", "append">> ELSE <<"append">>,
              RecordOf(minted + 1, link[a], ok, a))
    /\ minted' = minted + 1
    /\ UNCHANGED <<builtVars, recs, log, running, posted, push, moved, troubles>>

Restored(rs) == {i \in DOMAIN rs : rs[i].ok}
\* pickRollbackTarget without an id: the second record that succeeded.
PickedPrevious(rs) == {rs[i] : i \in {j \in Restored(rs) : Cardinality({k \in Restored(rs) : k < j}) = 1}}
\* With an id: any record that succeeded.
PickedById(rs) == {rs[i] : i \in Restored(rs)}

\* Rollback: the manifest is put, the record written, then the tag moved and the replicas rolled.
Rollback ==
  \E a \in Deployments : \E r \in PickedPrevious(recs[a]) \cup PickedById(recs[a]) :
    /\ calls < MaxCalls /\ calls' = calls + 1
    /\ Starts("http", a, <<"append", "retag", "roll", "status">>, RecordOf(minted + 1, r.build, TRUE, a))
    /\ minted' = minted + 1 /\ posted' = posted \cup {a}
    /\ UNCHANGED <<builtVars, recs, log, running, push, moved, troubles>>

\* RecordReplicaReadiness, from a probe's goroutine.
ProbeReports ==
  \E a \in Deployments :
    /\ calls < MaxCalls /\ calls' = calls + 1 /\ recs[a] # << >>
    /\ Starts("probe", a, <<"status">>, NoRecord)
    /\ UNCHANGED <<builtVars, recs, log, minted, running, posted, push, moved, troubles>>

\* retagToTargetBuild: a record without a build leaves the tag; a build whose
\* tag is gone ends the rollback.
Retag(g) ==
  /\ Does(g, "retag")
  /\ LET a == hands[g].app
         b == hands[g].rec.build IN
     CASE b = NoBuild -> Done(g) /\ UNCHANGED <<latest, moved>>
       [] b \in tags[a] -> /\ Done(g) /\ latest' = [latest EXCEPT ![a] = b]
                           /\ moved' = IF PushAt("idle") THEN {} ELSE moved \cup {a}
       [] OTHER -> hands' = [hands EXCEPT ![g] = HandsFree] /\ UNCHANGED <<latest, moved>>
  /\ UNCHANGED <<releaseDirs, link, tags, wrecked,
                 recs, minted, log, smudged, calls, running, posted, push, troubles>>

Roll(g) ==
  /\ Does(g, "roll") /\ Done(g)
  /\ running' = [running EXCEPT ![hands[g].app] = latest[hands[g].app]]
  /\ UNCHANGED <<builtVars, recs, minted, log, smudged, calls, posted, push, moved, troubles>>

Writes(g) == Does(g, "append") \/ Does(g, "status")

\* An apply reads the build from the link just before it appends. The read's
\* error is ignored: the blob is then taken to be empty.
LoadBlob(g) ==
  /\ Writes(g) /\ ~hands[g].held
  /\ LET a == hands[g].app
         rec == IF g = "loop" THEN RecordOf(hands[g].rec.id, link[a], TRUE, a) ELSE hands[g].rec IN
     \/ /\ hands' = [hands EXCEPT ![g].held = TRUE, ![g].blob = recs[a], ![g].rec = rec]
        /\ UNCHANGED <<smudged, troubles>>
     \/ /\ Hitch /\ hands' = [hands EXCEPT ![g].held = TRUE, ![g].rec = rec]
        /\ smudged' = smudged \cup {a}
  /\ UNCHANGED <<builtVars, recs, minted, log, calls, running, posted, push, moved>>

Prepended(w) == <<w.rec>> \o w.blob
\* Variant: the oldest records are the ones kept.
CappedOldest(rs) == IF Len(rs) <= MaxHistory THEN rs ELSE SubSeq(rs, Len(rs) - MaxHistory + 1, Len(rs))
CappedHistory(rs) == SubSeq(rs, 1, IF Len(rs) < MaxHistory THEN Len(rs) ELSE MaxHistory)
BuildsIn(rs) == {rs[i].build : i \in DOMAIN rs}
\* Variant: what a kept record still names goes as well.
DroppedAlways(rs) == BuildsIn(SubSeq(rs, MaxHistory + 1, Len(rs)))
\* gcReleaseImageTags: the builds of the records dropped, but for those a kept one names.
DroppedBuilds(rs) ==
  (BuildsIn(SubSeq(rs, MaxHistory + 1, Len(rs))) \ BuildsIn(CappedHistory(rs))) \ {NoBuild}

\* Variant: tags are collected although the shorter history was not stored.
PutFailsCollecting(g) ==
  /\ Writes(g) /\ hands[g].held /\ Hitch /\ Done(g)
  /\ tags' = IF Does(g, "append")
             THEN [tags EXCEPT ![hands[g].app] = @ \ DroppedBuilds(Prepended(hands[g]))] ELSE tags
  /\ UNCHANGED <<releaseDirs, link, latest, wrecked,
                 recs, minted, log, smudged, calls, running, posted, push, moved>>
\* A put that fails is logged; nothing is collected.
PutFails(g) ==
  /\ Writes(g) /\ hands[g].held /\ hands[g].drop = {} /\ Hitch /\ Done(g)
  /\ UNCHANGED <<builtVars, recs, minted, log, smudged, calls, running, posted, push, moved>>

PutStatus(g) ==
  /\ Does(g, "status") /\ Done(g)
  /\ recs' = [recs EXCEPT ![hands[g].app] = hands[g].blob] /\ UNCHANGED log

PutRecord(g) ==
  LET a == hands[g].app
      all == Prepended(hands[g]) IN
  /\ Does(g, "append")
  /\ recs' = [recs EXCEPT ![a] = CappedHistory(all)]
  /\ log' = [log EXCEPT ![a] = <<hands[g].rec.id>> \o @]
  /\ IF DroppedBuilds(all) = {} THEN Done(g)
     ELSE hands' = [hands EXCEPT ![g].drop = DroppedBuilds(all)]

PutBlob(g) ==
  /\ hands[g].held /\ hands[g].drop = {} /\ (PutStatus(g) \/ PutRecord(g))
  /\ UNCHANGED <<builtVars, minted, smudged, calls, running, posted, push, moved, troubles>>

\* One tag at a time; one that cannot be removed is logged.
CollectTag(g) ==
  \E b \in hands[g].drop :
    /\ \/ tags' = [tags EXCEPT ![hands[g].app] = @ \ {b}] /\ UNCHANGED troubles
       \/ Hitch /\ UNCHANGED tags
    /\ \/ hands[g].drop = {b} /\ Done(g)
       \/ hands[g].drop # {b} /\ hands' = [hands EXCEPT ![g].drop = @ \ {b}]
    /\ UNCHANGED <<releaseDirs, link, latest, wrecked,
                 recs, minted, log, smudged, calls, running, posted, push, moved>>
-----------------------------------------------------------------------------
ReleasesNext ==
  \/ PushStart \/ OpenDir \/ ExtractFails \/ BuildImage \/ RetagLatest \/ TagBuild
  \/ Unlink \/ Relink \/ PruneDir \/ PruneFails \/ Post \/ PushDies
  \/ Apply \/ Release \/ Rollback \/ ProbeReports
  \/ \E g \in Goroutines : Retag(g) \/ Roll(g) \/ LoadBlob(g) \/ PutBlob(g) \/ PutFails(g) \/ CollectTag(g)

ReleasesSpec == ReleasesInit /\ [][ReleasesNext]_releasesVars
-----------------------------------------------------------------------------
(* Properties.                                                                *)

\* A blob only ever written by one goroutine at a time, each write after a read
\* that succeeded, holds the newest records of the app and no others: a rollback
\* finds what was released.
HistoryComplete ==
  \A a \in Deployments \ smudged :
    /\ \A i \in DOMAIN recs[a] : recs[a][i].id = log[a][i]
    /\ Len(recs[a]) = IF Len(log[a]) < MaxHistory THEN Len(log[a]) ELSE MaxHistory

\* In such a history every record that named an image when it was written can
\* still be gone back to: no collection has taken a tag a kept record names,
\* though builds come back and are recorded again.
Restorable ==
  \A a \in Deployments \ smudged : \A i \in DOMAIN recs[a] : recs[a][i].had => recs[a][i].build \in tags[a]

\* The directory `current` points at is there, however old, unless a forced push
\* of that very source could not be extracted (it then removes the directory).
CurrentKept ==
  \A a \in ProcApps : link[a] # NoBuild => HasDir(a, link[a]) \/ a \in wrecked

\* When a push posts its manifests, all apps are at its build: the link, the
\* directory, and what it built or retagged itself unless a rollback came between.
LandedTogether ==
  push.at = "post" => \A a \in ProcApps :
    /\ link[a] = push.build /\ HasDir(a, push.build)
    /\ a \in push.fresh \ moved => latest[a] = push.build

ReleasesTrue == HistoryComplete /\ Restorable /\ CurrentKept /\ LandedTogether
=============================================================================
