--------------------------- MODULE ReleasesProofs ---------------------------
(* Theorems about Releases, for every Procfile, history length and number of  *)
(* pushes, calls and failures: what a push leaves on disk and what a history  *)
(* and its image tags say of each other.                                      *)
EXTENDS Releases, SequenceTheorems, TLAPS

SomeBuild == Builds \cup {NoBuild}
Record == [id : Nat, build : SomeBuild, ok : BOOLEAN, had : BOOLEAN]
Stages == {"idle", "dir", "image", "tag", "unlink", "link", "gc", "post"}

\* What a goroutine may still have to do; those that have a record to append.
Appending == {<<"status", "append">>, <<"roll", "append">>, <<"append">>,
              <<"append", "retag", "roll", "status">>}
Todos == Appending \cup {<< >>, <<"retag", "roll", "status">>, <<"roll", "status">>, <<"status">>}

HandRecord == [app : Deployments \cup {NoBuild}, todo : Todos, rec : Record, held : BOOLEAN,
               blob : Seq(Record), drop : SUBSET Builds]
\* Whoever has work to do has a deployment to do it for; tags are collected
\* between an append and what comes after it.
Hand == {h \in HandRecord : /\ h.todo # << >> => h.app \in Deployments
                            /\ h.drop # {} => h.todo # << >> /\ Head(h.todo) = "append"}
PushState == [at : Stages, build : SomeBuild, force : BOOLEAN, left : Seq(ProcApps),
              fresh : SUBSET ProcApps, n : 0 .. MaxPushes]

DiskType ==
  /\ releaseDirs \in [ProcApps -> Seq(Builds)] /\ tags \in [ProcApps -> SUBSET Builds]
  /\ link \in [ProcApps -> SomeBuild] /\ latest \in [ProcApps -> SomeBuild]
  /\ wrecked \in SUBSET ProcApps /\ moved \in SUBSET ProcApps
  /\ push \in PushState
  /\ push.at # "idle" => push.build \in Builds
  /\ push.at \notin {"idle", "post"} => push.left # << >>
BlobType ==
  /\ recs \in [Deployments -> Seq(Record)] /\ log \in [Deployments -> Seq(Nat)]
  /\ running \in [Deployments -> SomeBuild]
  /\ posted \in SUBSET Deployments /\ smudged \in SUBSET Deployments
  /\ hands \in [Goroutines -> Hand]
BoundsType ==
  minted \in Nat /\ calls \in 0 .. MaxCalls /\ troubles \in 0 .. MaxTroubled

\* Every variable has its type; a push under way has a build and, until it
\* posts, an app at hand.
ReleasesType == DiskType /\ BlobType /\ BoundsType

\* The apps a push is done with are at its build, and the one at hand has its
\* directory from the time it was opened; what was built or retagged is what
\* <app>:latest names, unless a rollback came between.
PushTrue ==
  /\ push.at = "idle" => push.fresh = {}
  /\ push.at = "post" => push.left = << >>
  /\ push.at \in {"image", "tag", "unlink", "link", "gc"} => HasDir(Pushed, push.build)
  /\ push.at = "gc" => link[Pushed] = push.build
  /\ push.at # "idle" => \A a \in ProcApps \ ToSet(push.left) :
                            link[a] = push.build /\ HasDir(a, push.build)
  /\ \A a \in push.fresh \ moved : latest[a] = push.build
  /\ push.at = "tag" /\ Pushed \notin moved => latest[Pushed] = push.build

Works(g) == hands[g].todo # << >>
ToAppend(g) == hands[g].todo \in Appending /\ hands[g].drop = {}

\* A blob that was never written by two at once has one writer; what that one
\* has loaded is what is stored, what it collects no stored record names, and
\* the image its own record will name is there.
WriterTrue(g) ==
  /\ \A o \in Goroutines : Works(o) /\ hands[o].app = hands[g].app => o = g
  /\ hands[g].held /\ hands[g].drop = {} => hands[g].blob = recs[hands[g].app]
  /\ hands[g].drop \cap BuildsIn(recs[hands[g].app]) = {}
  /\ ToAppend(g) /\ hands[g].rec.had => hands[g].rec.build \in tags[hands[g].app]
WritersTrue == \A g \in Goroutines : Works(g) /\ hands[g].app \notin smudged => WriterTrue(g)

IInv == ReleasesType /\ PushTrue /\ CurrentKept /\ WritersTrue /\ HistoryComplete /\ Restorable
-----------------------------------------------------------------------------
(* Operators.                                                                 *)

\* Work that is done leaves work; a history is appended to once.
LEMMA TodoTail ==
  \A t \in Todos : t # << >> =>
    /\ Len(t) = 1 \/ (Tail(t) \in Todos /\ Tail(t) # << >>)
    /\ Tail(t) \in Appending => t \in Appending
    /\ Head(t) = "append" => Tail(t) \notin Appending
<1> DEFINE Good(t) == /\ Len(t) = 1 \/ (Tail(t) \in Todos /\ Tail(t) # << >>)
                      /\ Tail(t) \in Appending => t \in Appending
                      /\ Head(t) = "append" => Tail(t) \notin Appending
<1>1. Good(<<"append">>) /\ Good(<<"status">>)
  BY DEF Appending
<1>2. Good(<<"status", "append">>)
  BY DEF Appending, Todos
<1>3. Good(<<"roll", "append">>)
  BY DEF Appending, Todos
<1>4. Good(<<"roll", "status">>)
  BY DEF Appending, Todos
<1>5. Good(<<"retag", "roll", "status">>)
  BY DEF Appending, Todos
<1>6. Good(<<"append", "retag", "roll", "status">>)
  BY DEF Appending, Todos
<1> HIDE DEF Good
<1>7. \A t \in Todos : t # << >> => Good(t)
  BY <1>1, <1>2, <1>3, <1>4, <1>5, <1>6 DEF Todos, Appending
<1>. QED  BY <1>7 DEF Good

LEMMA ConcatLemma ==
  ASSUME NEW S, NEW s \in Seq(S), NEW t \in Seq(S)
  PROVE  /\ s \o t \in Seq(S) /\ Len(s \o t) = Len(s) + Len(t)
         /\ \A i \in 1 .. Len(s) : (s \o t)[i] = s[i]
         /\ \A i \in 1 .. Len(t) : (s \o t)[Len(s) + i] = t[i]
  OBVIOUS

\* Removing an element leaves the others.
LEMMA RemoveAtLemma ==
  ASSUME NEW S, NEW s \in Seq(S), NEW i \in DOMAIN s
  PROVE  /\ RemoveAt(s, i) \in Seq(S)
         /\ \A x \in ToSet(s) : x # s[i] => x \in ToSet(RemoveAt(s, i))
<1>1. i \in 1 .. Len(s) /\ Len(s) \in Nat
  OBVIOUS
<1> DEFINE u == SubSeq(s, 1, i - 1)
           v == SubSeq(s, i + 1, Len(s))
           r == RemoveAt(s, i)
<1>2. u \in Seq(S) /\ Len(u) = i - 1 /\ \A j \in 1 .. i - 1 : u[j] = s[j]
  BY <1>1
<1>3. v \in Seq(S) /\ Len(v) = Len(s) - i /\ \A j \in 1 .. Len(s) - i : v[j] = s[i + j]
  BY <1>1
<1>4. r = u \o v
  BY DEF RemoveAt
<1>a. /\ r \in Seq(S) /\ Len(r) = Len(u) + Len(v)
      /\ \A k \in 1 .. Len(u) : r[k] = u[k]
      /\ \A k \in 1 .. Len(v) : r[Len(u) + k] = v[k]
  <2> HIDE DEF u, v, r
  <2>1. u \in Seq(S) /\ v \in Seq(S)
    BY <1>2, <1>3
  <2>. QED  BY <2>1, <1>4, ConcatLemma
<1> HIDE DEF u, v, r
<1>5. r \in Seq(S) /\ Len(r) = Len(s) - 1
  BY <1>1, <1>2, <1>3, <1>a
<1>6. ASSUME NEW x \in ToSet(s), x # s[i] PROVE x \in ToSet(r)
  <2>1. PICK j \in 1 .. Len(s) : x = s[j]
    BY <1>1 DEF ToSet
  <2>2. CASE j < i
    <3>1. j \in 1 .. Len(u) /\ u[j] = x
      BY <1>1, <1>2, <2>1, <2>2
    <3>2. j \in 1 .. Len(s) - 1 /\ r[j] = x
      BY <1>1, <1>2, <1>3, <1>a, <2>2, <3>1
    <3>. QED  BY <1>5, <3>2 DEF ToSet
  <2>3. CASE j > i
    <3>1. j - i \in 1 .. Len(v) /\ v[j - i] = x
      BY <1>1, <1>3, <2>1, <2>3
    <3>2. r[Len(u) + (j - i)] = x
      BY <1>a, <3>1
    <3>3. j - 1 \in 1 .. Len(s) - 1 /\ r[j - 1] = x
      BY <1>1, <1>2, <2>3, <3>2
    <3>. QED  BY <1>5, <3>3 DEF ToSet
  <2>. QED  BY <1>1, <1>6, <2>1, <2>2, <2>3
<1>. QED  BY <1>5, <1>6 DEF r

LEMMA WithoutDirLemma ==
  ASSUME NEW ds \in Seq(Builds), NEW b
  PROVE  /\ WithoutDir(ds, b) \in Seq(Builds)
         /\ \A x \in ToSet(ds) : x # b => x \in ToSet(WithoutDir(ds, b))
<1>1. CASE \E i \in DOMAIN ds : ds[i] = b
  <2> DEFINE i == CHOOSE i \in DOMAIN ds : ds[i] = b
  <2>1. i \in DOMAIN ds /\ ds[i] = b
    BY <1>1
  <2>2. WithoutDir(ds, b) = RemoveAt(ds, i)
    BY <1>1 DEF WithoutDir
  <2> HIDE DEF i
  <2>. QED  BY <2>1, <2>2, RemoveAtLemma
<1>2. CASE ~ \E i \in DOMAIN ds : ds[i] = b
  BY <1>2 DEF WithoutDir
<1>. QED  BY <1>1, <1>2

LEMMA AppendLemma ==
  ASSUME NEW S, NEW s \in Seq(S), NEW x \in S
  PROVE  Append(s, x) \in Seq(S) /\ ToSet(Append(s, x)) = ToSet(s) \cup {x}
<1>1. Append(s, x) \in Seq(S) /\ Len(Append(s, x)) = Len(s) + 1 /\ Append(s, x)[Len(s) + 1] = x
  OBVIOUS
<1>2. \A i \in 1 .. Len(s) : Append(s, x)[i] = s[i]
  OBVIOUS
<1>. QED  BY <1>1, <1>2 DEF ToSet

LEMMA TailLemma ==
  ASSUME NEW S, NEW s \in Seq(S), s # << >>
  PROVE  /\ Head(s) \in S /\ Head(s) \in ToSet(s) /\ Tail(s) \in Seq(S)
         /\ Len(s) # 1 => Tail(s) # << >>
         /\ Len(s) = 1 => Tail(s) = << >>
         /\ ToSet(s) = {Head(s)} \cup ToSet(Tail(s))
<1>1. Len(s) \in Nat /\ Len(s) > 0 /\ Head(s) = s[1] /\ Head(s) \in S
  OBVIOUS
<1>2. Tail(s) \in Seq(S) /\ Len(Tail(s)) = Len(s) - 1 /\ \A i \in 1 .. Len(s) - 1 : Tail(s)[i] = s[i + 1]
  OBVIOUS
<1>3. ASSUME NEW x \in ToSet(s) PROVE x = Head(s) \/ x \in ToSet(Tail(s))
  <2>1. PICK i \in 1 .. Len(s) : x = s[i]
    BY <1>1 DEF ToSet
  <2>2. CASE i = 1
    BY <1>1, <2>1, <2>2
  <2>3. CASE i # 1
    <3>1. i - 1 \in DOMAIN Tail(s) /\ Tail(s)[i - 1] = x
      BY <1>1, <1>2, <2>1, <2>3
    <3>. QED  BY <3>1 DEF ToSet
  <2>. QED  BY <2>2, <2>3
<1>4. ASSUME NEW x \in ToSet(Tail(s)) PROVE x \in ToSet(s)
  BY <1>1, <1>2 DEF ToSet
<1>5. Head(s) \in ToSet(s)
  <2>1. 1 \in DOMAIN s
    BY <1>1
  <2>. QED  BY <1>1, <2>1 DEF ToSet
<1>6. Len(s) = 1 <=> Tail(s) = << >>
  <2> DEFINE t == Tail(s)
  <2>1. t \in Seq(S) /\ Len(t) = Len(s) - 1
    BY <1>2
  <2> HIDE DEF t
  <2>2. Len(t) = 0 <=> t = << >>
    BY <2>1, EmptySeq
  <2>3. Len(s) = 1 <=> t = << >>
    BY <1>1, <2>1, <2>2
  <2>. QED  BY <2>3 DEF t
<1>8. ToSet(s) = {Head(s)} \cup ToSet(Tail(s))
  BY <1>3, <1>4, <1>5
<1>. QED  BY <1>1, <1>2, <1>5, <1>6, <1>8

\* A capped history: the newest records, and as many of them as there is room for.
LEMMA CappedLemma ==
  ASSUME NEW rs \in Seq(Record)
  PROVE  /\ CappedHistory(rs) \in Seq(Record)
         /\ Len(CappedHistory(rs)) = IF Len(rs) < MaxHistory THEN Len(rs) ELSE MaxHistory
         /\ \A i \in DOMAIN CappedHistory(rs) : CappedHistory(rs)[i] = rs[i]
         /\ DroppedBuilds(rs) \in SUBSET Builds
         /\ DroppedBuilds(rs) \cap BuildsIn(CappedHistory(rs)) = {}
<1>1. MaxHistory \in Nat \ {0} /\ Len(rs) \in Nat
  BY ReleasesAssumption
<1> DEFINE n == IF Len(rs) < MaxHistory THEN Len(rs) ELSE MaxHistory
<1>2. n \in 0 .. Len(rs)
  BY <1>1
<1>3. SubSeq(rs, 1, n) \in Seq(Record) /\ Len(SubSeq(rs, 1, n)) = n
      /\ \A i \in 1 .. n : SubSeq(rs, 1, n)[i] = rs[i]
  <2> HIDE DEF n
  <2>. QED  BY <1>2
<1>4. SubSeq(rs, MaxHistory + 1, Len(rs)) \in Seq(Record)
  BY <1>1
<1>5. DroppedBuilds(rs) \in SUBSET Builds
  <2>1. BuildsIn(SubSeq(rs, MaxHistory + 1, Len(rs))) \subseteq SomeBuild
    <3> DEFINE d == SubSeq(rs, MaxHistory + 1, Len(rs))
    <3>1. d \in Seq(Record)
      BY <1>4
    <3> HIDE DEF d
    <3>2. \A i \in DOMAIN d : d[i] \in Record
      BY <3>1
    <3>3. \A i \in DOMAIN d : d[i].build \in SomeBuild
      BY <3>2 DEF Record
    <3>. QED  BY <3>3 DEF BuildsIn, d
  <2>. QED  BY <2>1 DEF DroppedBuilds, SomeBuild
<1>6. DroppedBuilds(rs) \cap BuildsIn(CappedHistory(rs)) = {}
  BY DEF DroppedBuilds
<1>7. CappedHistory(rs) = SubSeq(rs, 1, n)
  BY DEF CappedHistory
<1> HIDE DEF n
<1>8. CappedHistory(rs) \in Seq(Record) /\ Len(CappedHistory(rs)) = n
      /\ \A i \in DOMAIN CappedHistory(rs) : CappedHistory(rs)[i] = rs[i]
  BY <1>2, <1>3, <1>7
<1>. QED  BY <1>5, <1>6, <1>8 DEF n

LEMMA PrependLemma ==
  ASSUME NEW S, NEW x \in S, NEW s \in Seq(S)
  PROVE  /\ <<x>> \o s \in Seq(S) /\ Len(<<x>> \o s) = Len(s) + 1 /\ (<<x>> \o s)[1] = x
         /\ \A i \in 2 .. Len(s) + 1 : (<<x>> \o s)[i] = s[i - 1]
  OBVIOUS
-----------------------------------------------------------------------------
(* Types.                                                                     *)

LEMMA BuildNames == /\ NoBuild \in SomeBuild /\ Builds \subseteq SomeBuild
                    /\ \A b \in SomeBuild : b # NoBuild => b \in Builds
  BY DEF SomeBuild

LEMMA NoRecordType == NoRecord \in Record
  BY BuildNames DEF NoRecord, Record

LEMMA HandsFreeType == HandsFree \in Hand /\ HandsFree.todo = << >>
  BY NoRecordType DEF HandsFree, Hand, HandRecord, Todos

\* The disk: every step of a push and of a retag.
LEMMA DiskStep ==
  ASSUME ReleasesType, [ReleasesNext]_releasesVars PROVE DiskType'
<1> USE DEF ReleasesType, DiskType
<1>0. DiskType
  OBVIOUS
<1>1. CASE UNCHANGED releasesVars
  BY <1>1 DEF releasesVars
<1>a. push.at \notin {"idle", "post"} =>
        /\ Pushed \in ProcApps /\ Tail(push.left) \in Seq(ProcApps)
        /\ Len(push.left) # 1 => Tail(push.left) # << >>
  BY TailLemma DEF PushState, Pushed
<1>b. \A st \in Stages : [push EXCEPT !.at = st] \in PushState
  BY DEF PushState
<1>c. ASSUME Ends PROVE push' \in PushState /\ push'.at = "idle" /\ moved' = {}
  <2>1. push' = [NoPush EXCEPT !.n = push.n] /\ moved' = {} /\ push.n \in 0 .. MaxPushes
    BY <1>c DEF Ends, PushState
  <2>2. "idle" \in Stages /\ NoBuild \in SomeBuild /\ << >> \in Seq(ProcApps)
    BY BuildNames DEF Stages
  <2>. QED  BY <2>1, <2>2 DEF NoPush, PushState
<1>d. ASSUME NEW st \in Stages \ {"idle", "post"}, push.at \notin {"idle", "post"}, Goes(st)
      PROVE  push' \in PushState /\ push'.at = st /\ push'.build \in Builds /\ push'.left # << >>
  BY <1>d, <1>b DEF Goes, PushState
<1>e. ASSUME push.at \notin {"idle", "post"}, NextApp
      PROVE  /\ push' \in PushState /\ push'.build \in Builds
             /\ push'.at \in {"dir", "post"} /\ (push'.at # "post" => push'.left # << >>)
  BY <1>e, <1>a DEF NextApp, PushState, Stages
<1>f. ASSUME push.at \notin {"idle", "post"},
             push' = [push EXCEPT !.at = "unlink", !.fresh = @ \cup {Pushed}]
      PROVE  push' \in PushState /\ push'.at = "unlink" /\ push'.build \in Builds /\ push'.left # << >>
  BY <1>a, <1>f DEF PushState, Stages
<1>2. CASE PushStart
  <2>1. PICK b \in Builds, f \in BOOLEAN :
          push' = [NoPush EXCEPT !.at = "dir", !.build = b, !.force = f, !.left = Procs, !.n = push.n + 1]
    BY <1>2 DEF PushStart
  <2>2. push.n + 1 \in 0 .. MaxPushes /\ Procs \in Seq(ProcApps) /\ Procs # << >>
    BY <1>2, ReleasesAssumption DEF PushStart, PushState
  <2>3. push' \in PushState /\ push'.at = "dir" /\ push'.build \in Builds /\ push'.left # << >>
    BY <2>1, <2>2, BuildNames DEF NoPush, PushState, Stages
  <2>. QED  BY <1>2, <2>3 DEF PushStart, builtVars
<1>3. CASE OpenDir
  <2>1. releaseDirs' \in [ProcApps -> Seq(Builds)]
    <3>1. Pushed \in ProcApps /\ releaseDirs[Pushed] \in Seq(Builds) /\ push.build \in Builds
      BY <1>3, <1>a DEF OpenDir, PushAt
    <3>2. Append(releaseDirs[Pushed], push.build) \in Seq(Builds)
      BY <3>1, AppendLemma
    <3>. QED  BY <1>3, <3>1, <3>2 DEF OpenDir
  <2>2. PICK st \in {"unlink", "image"} : Goes(st)
    BY <1>3 DEF OpenDir
  <2>3. push' \in PushState /\ push'.build \in Builds /\ push'.left # << >>
    BY <1>3, <1>d, <2>2 DEF OpenDir, PushAt, Stages
  <2>. QED  BY <1>3, <2>1, <2>3 DEF OpenDir
<1>4. CASE ExtractFails
  BY <1>4, <1>a, WithoutDirLemma, <1>c DEF ExtractFails, PushAt
<1>5. CASE BuildImage
  BY <1>5, <1>a, <1>f, BuildNames DEF BuildImage, PushAt
<1>6. CASE RetagLatest
  <2>1. CASE push.build \in tags[Primary]
    BY <1>6, <1>d, <2>1, <1>a, BuildNames DEF Stages, RetagLatest, PushAt
  <2>2. CASE push.build \notin tags[Primary]
    BY <1>6, <1>c, <2>2 DEF RetagLatest
  <2>. QED  BY <2>1, <2>2
<1>7. CASE TagBuild
  BY <1>7, <1>a, <1>f DEF TagBuild, PushAt
<1>8. CASE Unlink
  BY <1>8, <1>d, <1>a, BuildNames DEF Stages, Unlink, PushAt
<1>9. CASE Relink
  BY <1>9, <1>d, <1>e, <1>a, BuildNames DEF Stages, Relink, PushAt
<1>10. CASE PruneDir
  <2>1. releaseDirs' \in [ProcApps -> Seq(Builds)]
    <3>1. Pushed \in ProcApps /\ releaseDirs[Pushed] \in Seq(Builds)
      BY <1>10, <1>a DEF PruneDir, PushAt
    <3>2. \A i \in Surplus(Pushed) : RemoveAt(releaseDirs[Pushed], i) \in Seq(Builds)
      BY <3>1, RemoveAtLemma DEF Surplus
    <3>. QED  BY <1>10, <3>1, <3>2 DEF PruneDir
  <2>. QED  BY <1>10, <1>e, <2>1 DEF PruneDir, PushAt
<1>11. CASE PruneFails
  BY <1>11, <1>e DEF PruneFails, PushAt, builtVars
<1>12. CASE Post
  BY <1>12, <1>c DEF Post, builtVars
<1>13. CASE PushDies
  BY <1>13, <1>c DEF PushDies, builtVars
<1>14. CASE Apply \/ Release \/ Rollback \/ ProbeReports
  BY <1>14 DEF Apply, Release, Rollback, ProbeReports, builtVars
<1>15. ASSUME NEW g \in Goroutines, Retag(g) PROVE DiskType'
  <2>1. hands[g].rec.build \in SomeBuild /\ hands[g].app \in Deployments
    BY <1>15 DEF Retag, Does, BlobType, Hand, HandRecord, Record
  <2>2. hands[g].app \in ProcApps
    BY <2>1, ReleasesAssumption
  <2>. QED  BY <1>15, <2>1, <2>2 DEF Retag
<1>16. ASSUME NEW g \in Goroutines, Roll(g) \/ LoadBlob(g) \/ PutBlob(g) \/ PutFails(g) PROVE DiskType'
  BY <1>16 DEF Roll, LoadBlob, PutBlob, PutFails, builtVars
<1>17. ASSUME NEW g \in Goroutines, CollectTag(g) PROVE DiskType'
  <2>1. tags' \in [ProcApps -> SUBSET Builds]
    BY <1>17 DEF CollectTag
  <2>. QED  BY <1>17, <2>1 DEF CollectTag
<1>. QED
  BY <1>1, <1>2, <1>3, <1>4, <1>5, <1>6, <1>7, <1>8, <1>9, <1>10, <1>11, <1>12, <1>13, <1>14,
     <1>15, <1>16, <1>17 DEF ReleasesNext

\* What is left of a goroutine's work when a piece of it is done.
LEMMA AfterLemma ==
  ASSUME NEW w \in Hand, w.todo # << >>
  PROVE  /\ After(w) \in Hand
         /\ After(w).todo # << >> =>
              /\ After(w).app = w.app /\ After(w).rec = w.rec /\ After(w).todo = Tail(w.todo)
              /\ After(w).held = FALSE /\ After(w).drop = {}
<1>1. CASE Len(w.todo) = 1
  BY <1>1, HandsFreeType DEF After
<1>2. CASE Len(w.todo) # 1
  <2>1. w.todo \in Todos
    BY DEF Hand, HandRecord
  <2>2. Tail(w.todo) \in Todos /\ Tail(w.todo) # << >>
    BY <1>2, <2>1, TodoTail
  <2>3. << >> \in Seq(Record)
    OBVIOUS
  <2>4. After(w) = [w EXCEPT !.todo = Tail(w.todo), !.held = FALSE, !.blob = << >>, !.drop = {}]
    BY <1>2 DEF After
  <2>. QED  BY <2>2, <2>3, <2>4 DEF Hand, HandRecord
<1>. QED  BY <1>1, <1>2

LEMMA DoneType ==
  ASSUME hands \in [Goroutines -> Hand], NEW g \in Goroutines, hands[g].todo # << >>, Done(g)
  PROVE  hands' \in [Goroutines -> Hand]
<1>1. After(hands[g]) \in Hand
  BY AfterLemma
<1>. QED  BY <1>1 DEF Done

LEMMA StartsType ==
  ASSUME hands \in [Goroutines -> Hand], smudged \in SUBSET Deployments, NEW g \in Goroutines, NEW a \in Deployments,
         NEW todo \in Todos, NEW rec \in Record, Starts(g, a, todo, rec)
  PROVE  /\ hands' \in [Goroutines -> Hand] /\ smudged' \in SUBSET Deployments
         /\ hands[g] = HandsFree
         /\ hands' = [hands EXCEPT ![g] = [HandsFree EXCEPT !.app = a, !.todo = todo, !.rec = rec]]
<1> DEFINE h == [HandsFree EXCEPT !.app = a, !.todo = todo, !.rec = rec]
<1>1. h \in Hand /\ h.app = a
  BY HandsFreeType DEF Hand, HandRecord
<1>2. hands' = [hands EXCEPT ![g] = h] /\ hands[g] = HandsFree
  BY DEF Starts
<1>3. smudged' \in SUBSET Deployments
  BY DEF Starts, Crossing
<1> HIDE DEF h
<1>4. hands' \in [Goroutines -> Hand]
  BY <1>1, <1>2
<1>. QED  BY <1>2, <1>3, <1>4 DEF h

LEMMA RecordOfType ==
  ASSUME NEW id \in Nat, NEW b \in SomeBuild, NEW ok \in BOOLEAN, NEW a
  PROVE  /\ RecordOf(id, b, ok, a) \in Record
         /\ RecordOf(id, b, ok, a).had => RecordOf(id, b, ok, a).build \in tags[a]
<1>1. RecordOf(id, b, ok, a) \in Record
  BY DEF RecordOf, Record
<1>2. RecordOf(id, b, ok, a).had => RecordOf(id, b, ok, a).build \in tags[a]
  BY DEF RecordOf
<1>. QED  BY <1>1, <1>2

LEMMA TodosStarted ==
  /\ <<"status", "append">> \in Todos /\ <<"roll", "append">> \in Todos /\ <<"append">> \in Todos
  /\ <<"append", "retag", "roll", "status">> \in Todos /\ <<"status">> \in Todos
  BY DEF Todos, Appending

LEMMA HandsTypeStep ==
  ASSUME ReleasesType, [ReleasesNext]_releasesVars
  PROVE  hands' \in [Goroutines -> Hand] /\ smudged' \in SUBSET Deployments
<1>0. hands \in [Goroutines -> Hand] /\ smudged \in SUBSET Deployments /\ minted + 1 \in Nat
  BY DEF ReleasesType, BlobType, BoundsType
<1>a. \A a \in Deployments : a \in ProcApps /\ link[a] \in SomeBuild /\ recs[a] \in Seq(Record)
  BY ReleasesAssumption DEF ReleasesType, DiskType, BlobType
<1>b. Goroutines = {"loop", "http", "probe"}
  BY DEF Goroutines
<1>1. CASE UNCHANGED hands /\ UNCHANGED smudged
  BY <1>0, <1>1
<1>2. CASE Apply
  BY <1>2, <1>0, NoRecordType, <1>1, <1>b, StartsType, TodosStarted DEF Apply, ReleasesType, BlobType,
     Record
<1>3. CASE Release
  BY <1>3, <1>0, <1>a, RecordOfType, <1>b, StartsType, TodosStarted DEF Release
<1>4. CASE Rollback
  <2>0. PICK a \in Deployments : \E r \in PickedPrevious(recs[a]) \cup PickedById(recs[a]) :
          Starts("http", a, <<"append", "retag", "roll", "status">>, RecordOf(minted + 1, r.build, TRUE, a))
    BY <1>4 DEF Rollback
  <2>1. PICK r \in PickedPrevious(recs[a]) \cup PickedById(recs[a]) :
          Starts("http", a, <<"append", "retag", "roll", "status">>, RecordOf(minted + 1, r.build, TRUE, a))
    BY <2>0
  <2>2. r \in Record
    <3>1. \A i \in DOMAIN recs[a] : recs[a][i] \in Record
      BY <1>a
    <3>. QED  BY <3>1 DEF PickedPrevious, PickedById, Restored
  <2>3. RecordOf(minted + 1, r.build, TRUE, a) \in Record
    BY <1>0, <2>2, RecordOfType DEF Record
  <2>. QED  BY <1>0, <1>b, <2>1, <2>3, StartsType, TodosStarted
<1>5. CASE ProbeReports
  BY <1>5, <1>0, <1>b, NoRecordType, StartsType, TodosStarted DEF ProbeReports
<1>6. ASSUME NEW g \in Goroutines, Retag(g) PROVE hands' \in [Goroutines -> Hand] /\ smudged' \in SUBSET Deployments
  BY <1>0, <1>6, DoneType, HandsFreeType DEF Retag, Does
<1>7. ASSUME NEW g \in Goroutines, Roll(g) \/ PutFails(g) PROVE hands' \in [Goroutines -> Hand] /\ smudged' \in SUBSET Deployments
  BY <1>0, <1>7, DoneType DEF Roll, PutFails, Does, Writes
<1>8. ASSUME NEW g \in Goroutines, LoadBlob(g) PROVE hands' \in [Goroutines -> Hand] /\ smudged' \in SUBSET Deployments
  <2> DEFINE a == hands[g].app
             rec == IF g = "loop" THEN RecordOf(hands[g].rec.id, link[a], TRUE, a) ELSE hands[g].rec
  <2>1. hands[g] \in Hand /\ a \in Deployments /\ hands[g].todo # << >>
    BY <1>0, <1>8 DEF LoadBlob, Writes, Does, Hand
  <2>2. rec \in Record
    BY <1>a, <2>1, RecordOfType DEF Hand, HandRecord, Record
  <2>3. /\ \/ hands' = [hands EXCEPT ![g].held = TRUE, ![g].blob = recs[a], ![g].rec = rec]
           \/ hands' = [hands EXCEPT ![g].held = TRUE, ![g].rec = rec]
        /\ smudged' \in {smudged, smudged \cup {a}}
    BY <1>8 DEF LoadBlob
  <2> HIDE DEF rec
  <2>4. CASE hands' = [hands EXCEPT ![g].held = TRUE, ![g].blob = recs[a], ![g].rec = rec]
    BY <1>a, <2>1, <2>2, <1>0, <2>4, <2>3 DEF Hand, HandRecord
  <2>5. CASE hands' = [hands EXCEPT ![g].held = TRUE, ![g].rec = rec]
    BY <2>1, <2>2, <1>0, <2>5, <2>3 DEF Hand, HandRecord
  <2>. QED  BY <2>3, <2>4, <2>5
<1>9. ASSUME NEW g \in Goroutines, PutBlob(g) PROVE hands' \in [Goroutines -> Hand] /\ smudged' \in SUBSET Deployments
  <2>1. hands[g] \in Hand /\ hands[g].app \in Deployments /\ hands[g].todo # << >>
    BY <1>0, <1>9 DEF PutBlob, PutStatus, PutRecord, Does, Hand
  <2>2. Prepended(hands[g]) \in Seq(Record)
    BY <2>1, PrependLemma DEF Hand, HandRecord, Prepended
  <2> DEFINE gone == DroppedBuilds(Prepended(hands[g]))
  <2>3. gone \in SUBSET Builds
    BY <2>2, CappedLemma
  <2>4. smudged' = smudged /\ (Done(g) \/ (hands' = [hands EXCEPT ![g].drop = gone] /\ Does(g, "append")))
    BY <1>9 DEF PutBlob, PutStatus, PutRecord
  <2> HIDE DEF gone
  <2>5. CASE hands' = [hands EXCEPT ![g].drop = gone] /\ Does(g, "append")
    BY <2>1, <2>3, <2>5, <1>0, <2>4 DEF Hand, HandRecord, Does
  <2>. QED  BY <1>0, <2>1, <2>4, <2>5, DoneType
<1>10. ASSUME NEW g \in Goroutines, CollectTag(g) PROVE hands' \in [Goroutines -> Hand] /\ smudged' \in SUBSET Deployments
  <2>1. PICK b \in hands[g].drop :
          /\ \/ Done(g)
             \/ hands' = [hands EXCEPT ![g].drop = @ \ {b}]
          /\ smudged' = smudged
    BY <1>10 DEF CollectTag
  <2>2. hands[g] \in Hand /\ hands[g].todo # << >>
    BY <1>0, <2>1 DEF Hand
  <2>3. [hands[g] EXCEPT !.drop = hands[g].drop \ {b}] \in Hand
    BY <2>2 DEF Hand, HandRecord
  <2>4. CASE hands' = [hands EXCEPT ![g].drop = @ \ {b}]
    BY <1>0, <2>1, <2>3, <2>4
  <2>. QED  BY <1>0, <2>1, <2>2, <2>4, DoneType
<1>11. CASE \/ PushStart \/ OpenDir \/ ExtractFails \/ BuildImage \/ RetagLatest \/ TagBuild
            \/ Unlink \/ Relink \/ PruneDir \/ PruneFails \/ Post \/ PushDies
  BY <1>11, <1>1 DEF PushStart, OpenDir, ExtractFails, BuildImage, RetagLatest, TagBuild, Unlink, Relink,
     PruneDir, PruneFails, Post, PushDies, blobVars
<1>12. CASE UNCHANGED releasesVars
  BY <1>1, <1>12 DEF releasesVars
<1>. QED
  BY <1>2, <1>3, <1>4, <1>5, <1>6, <1>7, <1>8, <1>9, <1>10, <1>11, <1>12 DEF ReleasesNext

\* The blob is written by a put and by nothing else.
LEMMA BlobKept ==
  ASSUME [ReleasesNext]_releasesVars, ~ \E g \in Goroutines : PutBlob(g)
  PROVE  recs' = recs /\ log' = log
BY DEF releasesVars, PushStart, OpenDir, ExtractFails, BuildImage, RetagLatest, TagBuild, Unlink, Relink,
   PruneDir, PruneFails, Post, PushDies, blobVars, Apply, Release, Rollback, ProbeReports, Retag, Roll,
   LoadBlob, PutFails, CollectTag, ReleasesNext

LEMMA BlobStep ==
  ASSUME ReleasesType, [ReleasesNext]_releasesVars PROVE BlobType'
<1>0. BlobType /\ latest \in [ProcApps -> SomeBuild] /\ Deployments \subseteq ProcApps
  BY ReleasesAssumption DEF ReleasesType, DiskType
<1>1. hands' \in [Goroutines -> Hand] /\ smudged' \in SUBSET Deployments
  BY HandsTypeStep
<1>2. recs' \in [Deployments -> Seq(Record)] /\ log' \in [Deployments -> Seq(Nat)]
  <2>1. CASE ~ \E g \in Goroutines : PutBlob(g)
    BY <1>0, <2>1, BlobKept DEF BlobType
  <2>2. ASSUME NEW g \in Goroutines, PutBlob(g)
        PROVE  recs' \in [Deployments -> Seq(Record)] /\ log' \in [Deployments -> Seq(Nat)]
    <3>1. hands[g] \in HandRecord /\ hands[g].app \in Deployments
      BY <1>0, <2>2 DEF PutBlob, PutStatus, PutRecord, Does, BlobType, Hand
    <3>2. hands[g].blob \in Seq(Record) /\ hands[g].rec \in Record /\ hands[g].rec.id \in Nat
      BY <3>1 DEF HandRecord, Record
    <3>3. CASE PutStatus(g)
      BY <1>0, <3>2, <3>3 DEF PutStatus, BlobType
    <3>4. CASE PutRecord(g)
      BY <3>2, PrependLemma, CappedLemma, <1>0, <3>1, <3>4 DEF Prepended, BlobType, PutRecord
    <3>. QED  BY <2>2, <3>3, <3>4 DEF PutBlob
  <2>. QED  BY <2>1, <2>2
<1>3. running' \in [Deployments -> SomeBuild] /\ posted' \in SUBSET Deployments
  <2>1. CASE running' = running /\ posted' \in SUBSET Deployments
    BY <1>0, <2>1 DEF BlobType
  <2>2. CASE Apply
    BY <2>2, <1>0 DEF Apply, BlobType
  <2>3. ASSUME NEW g \in Goroutines, Roll(g)
        PROVE  running' \in [Deployments -> SomeBuild] /\ posted' \in SUBSET Deployments
    BY <1>0, <2>3 DEF Roll, Does, BlobType, Hand
  <2>4. CASE UNCHANGED releasesVars
    BY <1>0, <2>1, <2>4 DEF releasesVars, BlobType
  <2>5. CASE PushStart \/ OpenDir \/ ExtractFails \/ BuildImage \/ RetagLatest \/ TagBuild
    BY <1>0, <2>1, <2>5
       DEF PushStart, OpenDir, ExtractFails, BuildImage, RetagLatest, TagBuild, BlobType
  <2>6. CASE Unlink \/ Relink \/ PruneDir \/ PruneFails \/ Post \/ PushDies
    BY <1>0, <2>1, <2>6 DEF Unlink, Relink, PruneDir, PruneFails, Post, PushDies, BlobType
  <2>7. CASE Release \/ Rollback \/ ProbeReports
    BY <1>0, <2>1, <2>7 DEF Release, Rollback, ProbeReports, BlobType
  <2>8. ASSUME NEW g \in Goroutines, Retag(g) \/ LoadBlob(g) \/ PutBlob(g) \/ PutFails(g) \/ CollectTag(g)
        PROVE  running' \in [Deployments -> SomeBuild] /\ posted' \in SUBSET Deployments
    BY <1>0, <2>1, <2>8 DEF Retag, LoadBlob, PutBlob, PutFails, CollectTag, BlobType
  <2>. QED  BY <2>2, <2>3, <2>4, <2>5, <2>6, <2>7, <2>8 DEF ReleasesNext
<1>. QED  BY <1>1, <1>2, <1>3 DEF BlobType

LEMMA BoundsStep ==
  ASSUME ReleasesType, [ReleasesNext]_releasesVars PROVE BoundsType'
<1>0. minted \in Nat /\ calls \in 0 .. MaxCalls /\ troubles \in 0 .. MaxTroubled
      /\ MaxCalls \in Nat /\ MaxTroubled \in Nat
  BY ReleasesAssumption DEF ReleasesType, BoundsType
<1>1. minted' \in {minted, minted + 1} /\ (calls' = calls \/ (calls < MaxCalls /\ calls' = calls + 1))
      /\ (troubles' = troubles \/ Hitch)
  BY DEF releasesVars, PushStart, OpenDir, ExtractFails, BuildImage, RetagLatest, TagBuild, blobVars,
     Unlink, Relink, PruneDir, PruneFails, Post, PushDies, Apply, Release, Rollback, ProbeReports, Retag, Roll,
     LoadBlob, PutBlob, PutFails, CollectTag, ReleasesNext
<1>. QED  BY <1>0, <1>1 DEF BoundsType, Hitch

LEMMA TypeInit == ReleasesInit => ReleasesType
<1> SUFFICES ASSUME ReleasesInit PROVE ReleasesType
  OBVIOUS
<1>1. NoPush \in PushState /\ NoPush.at = "idle"
  BY ReleasesAssumption DEF NoPush, PushState, Stages, SomeBuild
<1>2. DiskType
  BY <1>1 DEF ReleasesInit, DiskType, SomeBuild
<1>3. BlobType
  BY HandsFreeType DEF ReleasesInit, BlobType, SomeBuild
<1>4. BoundsType
  BY ReleasesAssumption DEF ReleasesInit, BoundsType
<1>. QED  BY <1>2, <1>3, <1>4 DEF ReleasesType

LEMMA TypeStep == ReleasesType /\ [ReleasesNext]_releasesVars => ReleasesType'
  BY DiskStep, BlobStep, BoundsStep DEF ReleasesType

\* Through every push, apply, release, rollback and probe, and every failure of
\* one of them, the variables keep their types.
THEOREM ReleasesTypeCorrect == ReleasesSpec => []ReleasesType
  BY TypeInit, TypeStep, PTL DEF ReleasesSpec
-----------------------------------------------------------------------------
(* Pushes.                                                                    *)

\* What the apps that are done with look like, and the one at hand.
Landing(a) == link[a] = push.build /\ HasDir(a, push.build)

LEMMA PushedType ==
  ASSUME ReleasesType, push.at \notin {"idle", "post"}
  PROVE  /\ Pushed \in ProcApps /\ Pushed \in ToSet(push.left) /\ push.left \in Seq(ProcApps)
         /\ releaseDirs[Pushed] \in Seq(Builds) /\ push.build \in Builds
         /\ ToSet(push.left) = {Pushed} \cup ToSet(Tail(push.left))
         /\ Len(push.left) = 1 => Tail(push.left) = << >>
BY TailLemma DEF ReleasesType, DiskType, PushState, Pushed

\* A push that ends claims nothing.
LEMMA EndsTrue == ASSUME Ends PROVE PushTrue'
BY DEF Ends, NoPush, PushTrue

\* The app at hand goes on to another stage.
LEMMA StageTrue ==
  ASSUME ReleasesType, push.at \notin {"idle", "post"}, NEW st \in Stages \ {"idle", "post"},
         push'.at = st, push'.build = push.build, push'.left = push.left,
         \A a \in ProcApps \ ToSet(push.left) : Landing(a)',
         st # "dir" => push.build \in ToSet(releaseDirs'[Pushed]),
         st = "gc" => link'[Pushed] = push.build,
         \A a \in push'.fresh \ moved' : latest'[a] = push.build,
         st = "tag" /\ Pushed \notin moved' => latest'[Pushed] = push.build
  PROVE  PushTrue'
  BY DEF PushTrue, Landing, HasDir, Pushed

\* The app at hand has landed; the next one is taken up.
LEMMA NextAppTrue ==
  ASSUME ReleasesType, push.at \notin {"idle", "post"}, NextApp, PushTrue,
         UNCHANGED <<moved, latest>>,
         \A a \in (ProcApps \ ToSet(push.left)) \cup {Pushed} :
            link'[a] = push.build /\ push.build \in ToSet(releaseDirs'[a])
  PROVE  PushTrue'
BY PushedType DEF NextApp, ReleasesType, DiskType, PushState, Landing, HasDir, PushTrue

LEMMA PushStep ==
  ASSUME ReleasesType, PushTrue, CurrentKept, [ReleasesNext]_releasesVars
  PROVE  PushTrue' /\ CurrentKept'
<1>0. DiskType
  BY DEF ReleasesType
<1>a. push.at # "idle" => \A a \in ProcApps \ ToSet(push.left) : Landing(a)
  BY DEF PushTrue, Landing
<1>1. CASE UNCHANGED <<releaseDirs, link, push, wrecked, latest, moved>>
  BY <1>1 DEF PushTrue, CurrentKept, HasDir, Pushed
<1>2. CASE PushStart
  BY <1>2 DEF PushStart, NoPush, ProcApps, PushTrue, builtVars, CurrentKept, HasDir
<1>3. CASE OpenDir
  <2>1. push.at = "dir" /\ UNCHANGED <<link, latest, moved, wrecked>>
    BY <1>3 DEF OpenDir, PushAt
  <2>2. \A a \in ProcApps : ToSet(releaseDirs[a]) \subseteq ToSet(releaseDirs'[a])
    <3>1. ToSet(Append(releaseDirs[Pushed], push.build)) = ToSet(releaseDirs[Pushed]) \cup {push.build}
      BY <2>1, PushedType, AppendLemma
    <3>. QED  BY <1>0, <1>3, <3>1 DEF OpenDir, DiskType
  <2>3. push.build \in ToSet(releaseDirs'[Pushed])
    <3>1. CASE HasDir(Pushed, push.build)
      BY <2>1, <2>2, <3>1, PushedType DEF HasDir
    <3>2. CASE ~ HasDir(Pushed, push.build)
      <4>1. releaseDirs'[Pushed] = Append(releaseDirs[Pushed], push.build)
        BY <1>0, <1>3, <2>1, <3>2, PushedType DEF OpenDir, DiskType
      <4>. QED  BY <2>1, <4>1, PushedType, AppendLemma
    <3>. QED  BY <3>1, <3>2
  <2>4. PICK st \in {"unlink", "image"} : Goes(st)
    BY <1>3 DEF OpenDir
  <2>5. push'.at = st /\ push'.build = push.build /\ push'.left = push.left /\ push'.fresh = push.fresh
    BY <1>0, <2>4 DEF Goes, DiskType, PushState
  <2>6. \A a \in ProcApps \ ToSet(push.left) : Landing(a)'
    BY <1>a, <2>1, <2>2, <2>5 DEF Landing, HasDir
  <2>7. \A a \in push'.fresh \ moved' : latest'[a] = push.build
    BY <2>1, <2>5 DEF PushTrue
  <2>8. st \in Stages \ {"idle", "post"}
    BY DEF Stages
  <2>9. PushTrue'
    BY <2>1, <2>3, <2>5, <2>6, <2>7, <2>8, StageTrue
  <2>. QED  BY <2>1, <2>2, <2>9 DEF CurrentKept, HasDir
<1>4. CASE ExtractFails
  <2>1. push.at = "dir" /\ UNCHANGED link /\ Ends
    BY <1>4 DEF ExtractFails, PushAt
  <2>2. ASSUME NEW a \in ProcApps, link[a] # NoBuild
        PROVE  HasDir(a, link[a])' \/ a \in wrecked'
    <3>1. a \in wrecked \/ HasDir(a, link[a])
      BY <2>2 DEF CurrentKept
    <3>2. wrecked \subseteq wrecked'
      BY <1>4 DEF ExtractFails
    <3>3. CASE a # Pushed
      BY <1>0, <1>4, <2>1, <3>1, <3>2, <3>3 DEF ExtractFails, HasDir, DiskType
    <3>4. CASE a = Pushed /\ link[a] = push.build
      BY <1>4, <3>4 DEF ExtractFails
    <3>5. CASE a = Pushed /\ link[a] # push.build
      BY <1>0, <1>4, <3>5, WithoutDirLemma, <2>1, <3>1, <3>2 DEF ExtractFails, DiskType, HasDir
    <3>. QED  BY <3>3, <3>4, <3>5
  <2>. QED  BY <2>1, <2>2, EndsTrue DEF CurrentKept
<1>5. CASE BuildImage
  BY <1>5, <1>0, PushedType, <1>a, StageTrue DEF BuildImage, PushAt, DiskType, PushState, PushTrue, Landing,
     HasDir, Stages, CurrentKept
<1>6. CASE RetagLatest
  <2>1. CASE Ends
    BY <1>6, <2>1, EndsTrue DEF RetagLatest, CurrentKept, HasDir
  <2>2. CASE latest' = [latest EXCEPT ![Pushed] = push.build] /\ Goes("tag") /\ UNCHANGED moved
    BY <1>0, <1>6, <2>2, PushedType, <1>a, StageTrue DEF RetagLatest, PushAt, DiskType, Goes, PushState,
       PushTrue, Landing, HasDir, Stages, CurrentKept
  <2>. QED  BY <1>6, <2>1, <2>2 DEF RetagLatest
<1>7. CASE TagBuild
  BY <1>7, <1>0, <1>a, StageTrue DEF TagBuild, PushAt, DiskType, PushState, PushTrue, Landing, HasDir,
     Stages, CurrentKept
<1>8. CASE Unlink
  BY <1>8, <1>0, <1>a, PushedType, StageTrue DEF Unlink, PushAt, Goes, DiskType, PushState, PushTrue,
     Landing, HasDir, Stages, CurrentKept
<1>9. CASE Relink
  <2>1. push.at = "link" /\ UNCHANGED <<releaseDirs, moved, latest>>
        /\ link'[Pushed] = push.build /\ wrecked' = wrecked \ {Pushed}
        /\ \A a \in ProcApps : a # Pushed => link'[a] = link[a]
    BY <1>0, <1>9, PushedType DEF Relink, PushAt, DiskType
  <2>2. HasDir(Pushed, push.build)
    BY <2>1 DEF PushTrue
  <2>3. \A a \in (ProcApps \ ToSet(push.left)) \cup {Pushed} :
            link'[a] = push.build /\ push.build \in ToSet(releaseDirs'[a])
    BY <1>a, <2>1, <2>2, PushedType DEF Landing, HasDir
  <2>4. ASSUME Goes("gc") PROVE PushTrue'
    BY <1>0, <2>4, <2>1, <2>3, StageTrue DEF Goes, DiskType, PushState, PushTrue, Landing, HasDir, Stages
  <2>5. ASSUME NextApp PROVE PushTrue'
    BY <2>1, <2>3, <2>5, NextAppTrue
  <2>6. CurrentKept'
    BY <1>0, <2>1, <2>2, PushedType DEF CurrentKept, HasDir, DiskType
  <2>. QED  BY <1>9, <2>4, <2>5, <2>6 DEF Relink
<1>10. CASE PruneDir
  <2>1. push.at = "gc" /\ UNCHANGED <<link, latest, moved, wrecked>>
    BY <1>10 DEF PruneDir, PushAt
  <2>2. HasDir(Pushed, push.build) /\ link[Pushed] = push.build
    BY <2>1 DEF PushTrue
  <2>3. CASE NextApp /\ UNCHANGED releaseDirs
    BY <1>a, <2>1, <2>2, <2>3, NextAppTrue DEF Landing, HasDir, CurrentKept
  <2>4. CASE /\ UNCHANGED push
             /\ \E i \in Surplus(Pushed) :
                  releaseDirs' = [releaseDirs EXCEPT ![Pushed] = RemoveAt(@, i)]
    BY <2>4, <2>2, <2>1, PushedType, RemoveAtLemma, <1>0 DEF Surplus, HasDir, DiskType, PushTrue, Pushed,
       CurrentKept
  <2>. QED  BY <1>10, <2>3, <2>4 DEF PruneDir
<1>11. CASE PruneFails
  BY <1>11, <1>a, NextAppTrue DEF PruneFails, PushAt, builtVars, PushTrue, Landing, HasDir, CurrentKept
<1>12. CASE Post \/ PushDies
  BY <1>12, EndsTrue DEF Post, PushDies, builtVars, CurrentKept, HasDir
<1>13. CASE UNCHANGED releasesVars
  BY <1>1, <1>13 DEF releasesVars
<1>14. CASE Apply \/ Release \/ Rollback \/ ProbeReports
  BY <1>1, <1>14 DEF Apply, Release, Rollback, ProbeReports, builtVars
<1>15. ASSUME NEW g \in Goroutines, Retag(g) PROVE PushTrue' /\ CurrentKept'
  <2>1. UNCHANGED <<releaseDirs, link, wrecked, push>>
    BY <1>15 DEF Retag
  <2>2. CASE UNCHANGED <<latest, moved>>
    BY <1>1, <2>1, <2>2
  <2>3. CASE /\ latest' = [latest EXCEPT ![hands[g].app] = hands[g].rec.build]
             /\ moved' = IF PushAt("idle") THEN {} ELSE moved \cup {hands[g].app}
    <3>1. CASE push.at = "idle"
      BY <2>1, <3>1 DEF PushTrue, CurrentKept, HasDir
    <3>2. CASE push.at # "idle"
      BY <2>3, <3>2, <1>0, PushedType, <2>1 DEF PushAt, DiskType, PushState, PushTrue, HasDir, Pushed,
         CurrentKept
    <3>. QED  BY <3>1, <3>2
  <2>. QED  BY <1>15, <2>2, <2>3 DEF Retag
<1>16. ASSUME NEW g \in Goroutines, Roll(g) \/ LoadBlob(g) \/ PutBlob(g) \/ PutFails(g)
       PROVE  PushTrue' /\ CurrentKept'
  BY <1>1, <1>16 DEF Roll, LoadBlob, PutBlob, PutFails, builtVars
<1>17. ASSUME NEW g \in Goroutines, CollectTag(g) PROVE PushTrue' /\ CurrentKept'
  BY <1>1, <1>17 DEF CollectTag
<1>. QED
  BY <1>2, <1>3, <1>4, <1>5, <1>6, <1>7, <1>8, <1>9, <1>10, <1>11, <1>12, <1>13, <1>14, <1>15,
     <1>16, <1>17 DEF ReleasesNext

LEMMA PushInit == ReleasesInit => PushTrue /\ CurrentKept
  BY DEF ReleasesInit, NoPush, PushTrue, CurrentKept

\* When every app has landed, the apps that are done with are all of them.
LEMMA PushLanded == PushTrue => LandedTogether
BY DEF LandedTogether, PushTrue, ToSet

-----------------------------------------------------------------------------
(* Histories.                                                                 *)

\* The newest records of all those with these ids.
Tells(rs, ids) ==
  /\ \A i \in DOMAIN rs : rs[i].id = ids[i]
  /\ Len(rs) = IF Len(ids) < MaxHistory THEN Len(ids) ELSE MaxHistory
\* A history with this record, and otherwise records it had before.
Heads(new, r, rs) ==
  /\ 1 \in DOMAIN new /\ new[1] = r
  /\ \A i \in DOMAIN new : i # 1 => i - 1 \in DOMAIN rs /\ new[i] = rs[i - 1]
HistoryOf(a) == Tells(recs[a], log[a])
ImagesOf(a) == \A i \in DOMAIN recs[a] : recs[a][i].had => recs[a][i].build \in tags[a]
BlobTrue ==
  /\ WritersTrue
  /\ \A a \in Deployments \ smudged : HistoryOf(a) /\ ImagesOf(a)

LEMMA BlobTrueSays == BlobTrue <=> WritersTrue /\ HistoryComplete /\ Restorable
  BY DEF BlobTrue, HistoryComplete, Restorable, HistoryOf, Tells, ImagesOf

\* Tags that are added and pushes that go on take nothing from anyone.
LEMMA BlobStays ==
  ASSUME ReleasesType, BlobTrue, UNCHANGED <<recs, log, hands, smudged>>,
         \A a \in ProcApps : tags[a] \subseteq tags'[a]
  PROVE  BlobTrue'
<1>1. \A a \in Deployments : a \in ProcApps
  BY ReleasesAssumption
<1>2. \A g \in Goroutines : Works(g) => hands[g].app \in ProcApps
  BY <1>1 DEF ReleasesType, BlobType, Works, Hand
<1>3. ASSUME NEW g \in Goroutines, Works(g)', hands'[g].app \notin smudged' PROVE WriterTrue(g)'
  <2>1. Works(g) /\ WriterTrue(g) /\ tags[hands[g].app] \subseteq tags'[hands[g].app]
    BY <1>2, <1>3 DEF BlobTrue, WritersTrue, Works
  <2>. QED  BY <2>1 DEF WriterTrue, Works, ToAppend, BuildsIn
<1>4. \A a \in Deployments \ smudged : HistoryOf(a)' /\ ImagesOf(a)'
  BY <1>1 DEF BlobTrue, HistoryOf, ImagesOf
<1>5. WritersTrue'
  BY <1>3 DEF WritersTrue
<1>. QED  BY <1>4, <1>5 DEF BlobTrue

\* While one goroutine works for its app, what the others rely on is that of
\* other apps.
LEMMA OthersTrue ==
  ASSUME ReleasesType, WritersTrue, NEW g \in Goroutines, Works(g),
         smudged \subseteq smudged', \A o \in Goroutines \ {g} : hands'[o] = hands[o],
         Works(g)' => hands'[g].app = hands[g].app,
         \A a \in Deployments : a # hands[g].app => recs'[a] = recs[a] /\ tags'[a] = tags[a]
  PROVE  \A o \in Goroutines \ {g} : Works(o)' /\ hands'[o].app \notin smudged' => WriterTrue(o)'
<1> SUFFICES ASSUME NEW o \in Goroutines \ {g}, Works(o)', hands'[o].app \notin smudged'
             PROVE  WriterTrue(o)'
  OBVIOUS
<1>1. Works(o) /\ hands[o].app \notin smudged /\ hands'[o] = hands[o]
  BY DEF Works
<1>2. WriterTrue(o)
  BY <1>1 DEF WritersTrue
<1>3. hands[o].app # hands[g].app
  BY <1>2 DEF WriterTrue
<1>4. hands[o].app \in Deployments
  BY <1>1 DEF ReleasesType, BlobType, Hand, Works
<1>5. recs'[hands[o].app] = recs[hands[o].app] /\ tags'[hands[o].app] = tags[hands[o].app]
  BY <1>3, <1>4
<1>6. \A p \in Goroutines : Works(p)' /\ hands'[p].app = hands'[o].app => p = o
  BY <1>1, <1>2, <1>3 DEF WriterTrue, Works
<1>. QED  BY <1>1, <1>2, <1>5, <1>6 DEF WriterTrue, ToAppend, BuildsIn

\* One that works alone for its app still does.
LEMMA AloneStill ==
  ASSUME WritersTrue, NEW g \in Goroutines, Works(g), hands[g].app \notin smudged,
         \A o \in Goroutines \ {g} : hands'[o] = hands[o],
         hands'[g].app = hands[g].app
  PROVE  \A o \in Goroutines : Works(o)' /\ hands'[o].app = hands'[g].app => o = g
  BY DEF WritersTrue, WriterTrue, Works

LEMMA HandFacts ==
  ASSUME ReleasesType, NEW g \in Goroutines, Works(g)
  PROVE  /\ hands \in [Goroutines -> Hand] /\ hands[g] \in Hand /\ hands[g] \in HandRecord
         /\ hands[g].app \in Deployments /\ hands[g].app \in ProcApps /\ hands[g].todo \in Todos
         /\ hands[g].todo # << >>
         /\ hands[g].drop # {} => Head(hands[g].todo) = "append"
         /\ recs[hands[g].app] \in Seq(Record) /\ hands[g].rec \in Record
         /\ hands[g].blob \in Seq(Record)
  BY ReleasesAssumption DEF ReleasesType, BlobType, Hand, HandRecord, Works

\* A piece of work that is done or given up, with nothing being collected.
LEMMA DoneTrue ==
  ASSUME ReleasesType, BlobTrue, NEW g \in Goroutines, Works(g), hands[g].drop = {},
         NEW h \in {After(hands[g]), HandsFree}, hands' = [hands EXCEPT ![g] = h],
         UNCHANGED <<recs, log, tags, smudged>>
  PROVE  BlobTrue'
<1>0. WritersTrue
  BY DEF BlobTrue
<1>1. /\ hands'[g] = h /\ \A o \in Goroutines \ {g} : hands'[o] = hands[o]
  BY HandFacts
<1>2. h.todo # << >> => /\ h.app = hands[g].app /\ h.rec = hands[g].rec /\ h.todo = Tail(hands[g].todo)
                        /\ h.held = FALSE /\ h.drop = {}
  BY HandFacts, AfterLemma, HandsFreeType
<1>3. \A o \in Goroutines \ {g} : Works(o)' /\ hands'[o].app \notin smudged' => WriterTrue(o)'
  BY <1>0, <1>1, <1>2, OthersTrue DEF Works
<1>4. ASSUME Works(g)', hands'[g].app \notin smudged' PROVE WriterTrue(g)'
  BY <1>1, <1>2, <1>4, <1>0, AloneStill, HandFacts, TodoTail DEF Works, WritersTrue, WriterTrue, ToAppend
<1>5. WritersTrue'
  BY <1>3, <1>4 DEF WritersTrue
<1>. QED  BY <1>5 DEF BlobTrue, HistoryOf, ImagesOf

\* A goroutine sets out: beside another of the same app it smudges it.
LEMMA StartsTrue ==
  ASSUME ReleasesType, BlobTrue, NEW g \in Goroutines, NEW a \in Deployments, NEW todo \in Todos,
         NEW rec \in Record, Starts(g, a, todo, rec), UNCHANGED <<recs, log, tags>>,
         rec.had => rec.build \in tags[a]
  PROVE  BlobTrue'
<1> DEFINE h == [HandsFree EXCEPT !.app = a, !.todo = todo, !.rec = rec]
<1>0. WritersTrue /\ hands \in [Goroutines -> Hand] /\ smudged \in SUBSET Deployments
  BY DEF BlobTrue, ReleasesType, BlobType
<1>1. h.app = a /\ h.todo = todo /\ h.rec = rec /\ h.held = FALSE /\ h.drop = {}
  BY DEF HandsFree
<1>2. hands' = [hands EXCEPT ![g] = h]
  BY DEF Starts
<1> HIDE DEF h
<1>3. smudged' = smudged \cup Crossing(g, a)
  BY DEF Starts
<1>4. hands'[g] = h /\ \A o \in Goroutines \ {g} : hands'[o] = hands[o]
  BY <1>0, <1>2
<1>5. ASSUME NEW o \in Goroutines \ {g}, Works(o)', hands'[o].app \notin smudged' PROVE WriterTrue(o)'
  BY <1>4, <1>5, <1>0, <1>3, <1>1 DEF Works, WritersTrue, Crossing, Busy, WriterTrue, ToAppend, BuildsIn
<1>6. ASSUME Works(g)', hands'[g].app \notin smudged' PROVE WriterTrue(g)'
  BY <1>1, <1>3, <1>4, <1>6 DEF Crossing, Busy, WriterTrue, ToAppend
<1>7. WritersTrue'
  BY <1>5, <1>6 DEF WritersTrue
<1>. QED  BY <1>3, <1>7 DEF BlobTrue, HistoryOf, ImagesOf

LEMMA LoadTrue ==
  ASSUME ReleasesType, BlobTrue, NEW g \in Goroutines, LoadBlob(g) PROVE BlobTrue'
<1> DEFINE a == hands[g].app
           rec == IF g = "loop" THEN RecordOf(hands[g].rec.id, link[a], TRUE, a) ELSE hands[g].rec
           good == [hands[g] EXCEPT !.held = TRUE, !.blob = recs[a], !.rec = rec]
           bad == [hands[g] EXCEPT !.held = TRUE, !.rec = rec]
<1>0. WritersTrue /\ Works(g) /\ UNCHANGED <<recs, log, tags>> /\ hands \in [Goroutines -> Hand]
  BY HandFacts DEF BlobTrue, LoadBlob, Writes, Does, Works, builtVars
<1>1. \/ hands' = [hands EXCEPT ![g] = good] /\ smudged' = smudged
      \/ hands' = [hands EXCEPT ![g] = bad] /\ smudged' = smudged \cup {a}
  BY <1>0 DEF LoadBlob
<1>2. (g = "loop" => rec.build = link[a] /\ rec.had = (link[a] \in tags[a])) /\ (g # "loop" => rec = hands[g].rec)
  BY DEF RecordOf
<1> HIDE DEF rec
<1>3. \A h \in {good, bad} : /\ h.app = a /\ h.todo = hands[g].todo /\ h.rec = rec
                             /\ h.held = TRUE /\ h.drop = hands[g].drop
      /\ good.blob = recs[a]
  BY <1>0, HandFacts DEF HandRecord
<1> HIDE DEF good, bad
<1>4. hands'[g] \in {good, bad} /\ \A o \in Goroutines \ {g} : hands'[o] = hands[o]
  BY <1>0, <1>1
<1>5. \A o \in Goroutines \ {g} : Works(o)' /\ hands'[o].app \notin smudged' => WriterTrue(o)'
  BY <1>0, <1>1, <1>3, <1>4, OthersTrue
<1>6. ASSUME Works(g)', hands'[g].app \notin smudged' PROVE WriterTrue(g)'
  <2>1. a \notin smudged' /\ hands' = [hands EXCEPT ![g] = good] /\ smudged' = smudged
    BY <1>1, <1>3, <1>4, <1>6
  <2>2. WriterTrue(g)
    BY <1>0, <2>1 DEF WritersTrue
  <2>3. hands'[g] = good
    BY <1>0, <2>1
  <2>4. \A o \in Goroutines : Works(o)' /\ hands'[o].app = hands'[g].app => o = g
    BY <1>0, <1>3, <1>4, <2>1, AloneStill
  <2>5. ToAppend(g)' /\ good.rec.had => good.rec.build \in tags[a]
    BY <1>2, <1>3, <2>2, <2>3 DEF WriterTrue, ToAppend
  <2>. QED  BY <1>0, <1>3, <2>2, <2>3, <2>4, <2>5 DEF WriterTrue, ToAppend
<1>7. WritersTrue'
  BY <1>5, <1>6 DEF WritersTrue
<1>. QED  BY <1>0, <1>1, <1>7 DEF BlobTrue, HistoryOf, ImagesOf

\* A put of what was loaded, unchanged but for the status around it.
LEMMA StatusTrue ==
  ASSUME ReleasesType, BlobTrue, NEW g \in Goroutines, PutBlob(g), PutStatus(g) PROVE BlobTrue'
<1> DEFINE a == hands[g].app
<1>0. WritersTrue /\ Works(g) /\ hands[g].drop = {} /\ UNCHANGED <<log, tags, smudged>>
      /\ hands' = [hands EXCEPT ![g] = After(hands[g])] /\ recs' = [recs EXCEPT ![a] = hands[g].blob]
  BY DEF BlobTrue, PutBlob, PutStatus, Does, Works, Done, builtVars
<1>1. CASE a \notin smudged
  BY <1>0, <1>1, DoneTrue DEF PutBlob, WritersTrue, WriterTrue, ReleasesType, BlobType
<1>2. CASE a \in smudged
  BY <1>0, HandFacts, AfterLemma, OthersTrue, <1>2 DEF ReleasesType, BlobType, Works, WritersTrue, BlobTrue,
     HistoryOf, ImagesOf
<1>. QED  BY <1>1, <1>2

\* A record in front of a complete history leaves it complete.
LEMMA HistoryGrows ==
  ASSUME NEW rs \in Seq(Record), NEW ids \in Seq(Nat), NEW r \in Record, Tells(rs, ids),
         NEW new, new = CappedHistory(<<r>> \o rs), NEW all, all = <<r.id>> \o ids
  PROVE  Tells(new, all) /\ Heads(new, r, rs)
<1> DEFINE longer == <<r>> \o rs
<1>0. r.id \in Nat /\ MaxHistory \in Nat \ {0} /\ Len(rs) \in Nat /\ Len(ids) \in Nat
  BY ReleasesAssumption DEF Record
<1>1. /\ longer \in Seq(Record) /\ Len(longer) = Len(rs) + 1 /\ longer[1] = r
      /\ \A i \in 2 .. Len(rs) + 1 : longer[i] = rs[i - 1]
  BY PrependLemma
<1>2. /\ all \in Seq(Nat) /\ Len(all) = Len(ids) + 1 /\ all[1] = r.id
      /\ \A i \in 2 .. Len(ids) + 1 : all[i] = ids[i - 1]
  BY <1>0, PrependLemma
<1>b. /\ \A i \in DOMAIN rs : rs[i].id = ids[i]
      /\ Len(rs) = IF Len(ids) < MaxHistory THEN Len(ids) ELSE MaxHistory
  BY DEF Tells
<1>a. new = CappedHistory(longer)
  OBVIOUS
<1> HIDE DEF longer
<1>3. /\ new \in Seq(Record) /\ Len(new) = IF Len(longer) < MaxHistory THEN Len(longer) ELSE MaxHistory
      /\ \A i \in DOMAIN new : new[i] = longer[i]
  BY <1>1, <1>a, CappedLemma
<1>4. DOMAIN new = 1 .. Len(new) /\ Len(new) \in 1 .. Len(rs) + 1
  BY <1>3, <1>0, <1>1
<1>c. Len(rs) <= Len(ids)
  BY <1>0, <1>b
<1>5. ASSUME NEW i \in DOMAIN new, i # 1
      PROVE  i - 1 \in DOMAIN rs /\ new[i] = rs[i - 1] /\ all[i] = ids[i - 1]
  <2>1. i \in 2 .. Len(rs) + 1 /\ i \in 2 .. Len(ids) + 1 /\ i - 1 \in 1 .. Len(rs)
    BY <1>0, <1>4, <1>5, <1>c
  <2>2. new[i] = longer[i] /\ longer[i] = rs[i - 1]
    BY <1>1, <1>3, <2>1
  <2>3. all[i] = ids[i - 1]
    BY <1>2, <2>1
  <2>4. i - 1 \in DOMAIN rs
    BY <2>1
  <2>. QED  BY <2>2, <2>3, <2>4
<1>6. 1 \in DOMAIN new /\ new[1] = r
  <2>1. 1 \in DOMAIN new
    BY <1>0, <1>4
  <2>. QED  BY <1>1, <1>3, <2>1
<1>7. \A i \in DOMAIN new : new[i].id = all[i]
  BY <1>2, <1>5, <1>6, <1>b
<1>8. Len(new) = IF Len(all) < MaxHistory THEN Len(all) ELSE MaxHistory
  BY <1>0, <1>1, <1>2, <1>3, <1>b
<1>9. \A i \in DOMAIN new : i # 1 => i - 1 \in DOMAIN rs /\ new[i] = rs[i - 1]
  BY <1>5
<1>. QED  BY <1>6, <1>7, <1>8, <1>9 DEF Tells, Heads

\* A put of a new record in front of what was loaded.
LEMMA RecordTrue ==
  ASSUME ReleasesType, BlobTrue, NEW g \in Goroutines, PutBlob(g), PutRecord(g) PROVE BlobTrue'
<1> DEFINE a == hands[g].app
           all == Prepended(hands[g])
           gone == DroppedBuilds(all)
<1>0. WritersTrue /\ Works(g) /\ hands[g].held /\ hands[g].drop = {} /\ Head(hands[g].todo) = "append"
      /\ UNCHANGED <<tags, smudged>>
      /\ recs' = [recs EXCEPT ![a] = CappedHistory(all)]
      /\ log' = [log EXCEPT ![a] = <<hands[g].rec.id>> \o @]
      /\ IF gone = {} THEN Done(g) ELSE hands' = [hands EXCEPT ![g].drop = gone]
  BY DEF BlobTrue, PutBlob, PutRecord, Does, Works, builtVars
<1>1. /\ \A o \in Goroutines \ {g} : hands'[o] = hands[o]
      /\ Works(g)' => hands'[g].app = a /\ hands'[g].rec = hands[g].rec
      /\ Works(g)' => \/ hands'[g].drop = {} /\ ~ hands'[g].held /\ hands'[g].todo \notin Appending
                      \/ hands'[g].drop = gone /\ gone # {}
  <2>1. CASE gone = {}
    <3>1. hands' = [hands EXCEPT ![g] = After(hands[g])]
      BY <1>0, <2>1 DEF Done
    <3>2. hands'[g] = After(hands[g]) /\ \A o \in Goroutines \ {g} : hands'[o] = hands[o]
      BY <1>0, <3>1, HandFacts
    <3>3. Tail(hands[g].todo) \notin Appending
      BY <1>0, HandFacts, TodoTail
    <3>4. After(hands[g]).todo # << >> =>
            /\ After(hands[g]).app = a /\ After(hands[g]).rec = hands[g].rec
            /\ After(hands[g]).drop = {} /\ ~ After(hands[g]).held
            /\ After(hands[g]).todo = Tail(hands[g].todo)
      BY <1>0, HandFacts, AfterLemma
    <3>5. Works(g)' => After(hands[g]).todo # << >>
      BY <3>2 DEF Works
    <3> HIDE DEF gone, a
    <3>6. Works(g)' => hands'[g].drop = {} /\ ~ hands'[g].held /\ hands'[g].todo \notin Appending
      BY <3>2, <3>3, <3>4, <3>5
    <3>7. Works(g)' => hands'[g].app = a /\ hands'[g].rec = hands[g].rec
      BY <3>2, <3>4, <3>5
    <3>. QED  BY <3>2, <3>6, <3>7
  <2>2. CASE gone # {}
    <3>1. hands' = [hands EXCEPT ![g].drop = gone]
      BY <1>0, <2>2
    <3> HIDE DEF gone
    <3>2. hands'[g] = [hands[g] EXCEPT !.drop = gone] /\ \A o \in Goroutines \ {g} : hands'[o] = hands[o]
      BY <1>0, <3>1, HandFacts
    <3>3. hands'[g].drop = gone /\ hands'[g].app = a /\ hands'[g].rec = hands[g].rec
      BY <1>0, <3>2, HandFacts DEF HandRecord
    <3>. QED  BY <2>2, <3>2, <3>3
  <2>. QED  BY <2>1, <2>2
<1>2. /\ recs'[a] = CappedHistory(all) /\ log'[a] = <<hands[g].rec.id>> \o log[a]
      /\ \A b \in Deployments : b # a => recs'[b] = recs[b] /\ log'[b] = log[b]
  BY <1>0, HandFacts DEF ReleasesType, BlobType
<1>3. \A o \in Goroutines \ {g} : Works(o)' /\ hands'[o].app \notin smudged' => WriterTrue(o)'
  BY <1>0, <1>1, <1>2, OthersTrue
<1>4. gone \cap BuildsIn(recs'[a]) = {}
  <2>1. all \in Seq(Record)
    BY <1>0, HandFacts, PrependLemma DEF Prepended
  <2>. QED  BY <1>2, <2>1, CappedLemma
<1> HIDE DEF gone
<1>5. ASSUME Works(g)', hands'[g].app \notin smudged' PROVE WriterTrue(g)'
  BY <1>0, <1>1, <1>5, AloneStill, <1>4 DEF WriterTrue, ToAppend
<1>6. ASSUME NEW b \in Deployments \ smudged PROVE HistoryOf(b)' /\ ImagesOf(b)'
  <2>1. HistoryOf(b) /\ ImagesOf(b)
    BY DEF BlobTrue
  <2>2. CASE b # a
    BY <1>0, <1>2, <2>1, <2>2 DEF HistoryOf, ImagesOf
  <2>3. CASE b = a
    <3>1. hands[g].todo \in Appending
      BY <1>0, HandFacts DEF Todos
    <3>2. WriterTrue(g) /\ ToAppend(g)
      BY <1>0, <2>3, <3>1 DEF WritersTrue, ToAppend
    <3>3. recs'[a] = CappedHistory(<<hands[g].rec>> \o recs[a])
      BY <1>0, <1>2, <3>2 DEF WriterTrue, Prepended
    <3>4. recs[a] \in Seq(Record) /\ log[a] \in Seq(Nat) /\ hands[g].rec \in Record
      BY <1>0, HandFacts DEF ReleasesType, BlobType
    <3>5. Tells(recs'[a], log'[a]) /\ Heads(recs'[a], hands[g].rec, recs[a])
      <4>1. Tells(recs[a], log[a])
        BY <2>1, <2>3 DEF HistoryOf
      <4>2. log'[a] = <<hands[g].rec.id>> \o log[a]
        BY <1>2
      <4> HIDE DEF a
      <4>. QED  BY <3>3, <3>4, <4>1, <4>2, HistoryGrows
    <3>6. ASSUME NEW i \in DOMAIN recs'[a], recs'[a][i].had PROVE recs'[a][i].build \in tags[a]
      BY <3>2, <3>5, <3>6, <2>1, <2>3 DEF WriterTrue, Heads, ImagesOf
    <3>. QED  BY <1>0, <2>3, <3>5, <3>6 DEF HistoryOf, ImagesOf
  <2>. QED  BY <2>2, <2>3
<1>7. WritersTrue'
  BY <1>3, <1>5 DEF WritersTrue
<1>. QED  BY <1>0, <1>6, <1>7 DEF BlobTrue

\* A tag goes that no stored record names.
LEMMA CollectTrue ==
  ASSUME ReleasesType, BlobTrue, NEW g \in Goroutines, CollectTag(g) PROVE BlobTrue'
<1> DEFINE a == hands[g].app
<1>0. WritersTrue /\ hands[g].drop # {} /\ UNCHANGED <<recs, log, smudged>>
      /\ hands \in [Goroutines -> Hand]
  BY DEF BlobTrue, CollectTag, ReleasesType, BlobType
<1>1. PICK b \in hands[g].drop :
        /\ tags' = [tags EXCEPT ![a] = @ \ {b}] \/ tags' = tags
        /\ \/ hands[g].drop = {b} /\ Done(g)
           \/ hands[g].drop # {b} /\ hands' = [hands EXCEPT ![g].drop = @ \ {b}]
  BY DEF CollectTag
<1>2. Works(g) /\ Head(hands[g].todo) = "append"
  BY <1>0 DEF Hand, Works
<1>3. /\ \A o \in Goroutines \ {g} : hands'[o] = hands[o]
      /\ Works(g)' => hands'[g].app = a /\ hands'[g].drop \subseteq hands[g].drop
      /\ Works(g)' => \/ hands'[g].drop = {} /\ ~ hands'[g].held /\ hands'[g].todo \notin Appending
                      \/ hands'[g].drop # {}
  <2>1. CASE Done(g)
    <3>1. hands'[g] = After(hands[g]) /\ \A o \in Goroutines \ {g} : hands'[o] = hands[o]
      BY <1>0, <2>1 DEF Done
    <3>2. Tail(hands[g].todo) \notin Appending
      BY <1>2, HandFacts, TodoTail
    <3>. QED  BY <1>2, <3>1, <3>2, HandFacts, AfterLemma DEF Works
  <2>2. CASE hands[g].drop # {b} /\ hands' = [hands EXCEPT ![g].drop = @ \ {b}]
    BY <1>0, <2>2, <1>2, HandFacts DEF HandRecord
  <2>. QED  BY <1>1, <2>1, <2>2
<1>4. /\ \A c \in Deployments : c # a => tags'[c] = tags[c]
      /\ tags[a] \ {b} \subseteq tags'[a]
  BY <1>1, <1>2, HandFacts, ReleasesAssumption DEF ReleasesType, DiskType
<1>5. \A o \in Goroutines \ {g} : Works(o)' /\ hands'[o].app \notin smudged' => WriterTrue(o)'
  BY <1>0, <1>2, <1>3, <1>4, OthersTrue
<1>6. ASSUME Works(g)', hands'[g].app \notin smudged' PROVE WriterTrue(g)'
  <2>1. a \notin smudged /\ hands'[g].app = a
    BY <1>0, <1>3, <1>6
  <2>2. WriterTrue(g)
    BY <1>0, <1>2, <2>1 DEF WritersTrue
  <2>3. \A o \in Goroutines : Works(o)' /\ hands'[o].app = hands'[g].app => o = g
    BY <1>0, <1>2, <1>3, <2>1, AloneStill
  <2>. QED  BY <1>0, <1>3, <1>6, <2>1, <2>2, <2>3 DEF WriterTrue, ToAppend, BuildsIn
<1>7. ASSUME NEW c \in Deployments \ smudged PROVE HistoryOf(c)' /\ ImagesOf(c)'
  <2>1. HistoryOf(c) /\ ImagesOf(c)
    BY DEF BlobTrue
  <2>2. CASE c # a
    BY <1>0, <1>4, <2>1, <2>2 DEF HistoryOf, ImagesOf
  <2>3. CASE c = a
    BY <1>0, <1>2, <2>3, <1>4, <2>1 DEF WritersTrue, WriterTrue, HistoryOf, ImagesOf, BuildsIn
  <2>. QED  BY <2>2, <2>3
<1>8. WritersTrue'
  BY <1>5, <1>6 DEF WritersTrue
<1>. QED  BY <1>0, <1>7, <1>8 DEF BlobTrue

LEMMA BlobTrueStep ==
  ASSUME ReleasesType, BlobTrue, [ReleasesNext]_releasesVars PROVE BlobTrue'
<1>0. /\ releaseDirs \in [ProcApps -> Seq(Builds)] /\ tags \in [ProcApps -> SUBSET Builds]
      /\ minted + 1 \in Nat
      /\ \A a \in Deployments : a \in ProcApps /\ link[a] \in SomeBuild /\ recs[a] \in Seq(Record)
  BY ReleasesAssumption DEF ReleasesType, DiskType, BlobType, BoundsType
<1>a. Goroutines = {"loop", "http", "probe"}
  BY DEF Goroutines
<1>1. CASE UNCHANGED releasesVars
  BY <1>1, BlobStays DEF releasesVars
<1>2. CASE PushStart \/ OpenDir \/ ExtractFails \/ RetagLatest \/ Unlink \/ Relink
  BY <1>2, BlobStays
     DEF PushStart, OpenDir, ExtractFails, RetagLatest, Unlink, Relink, blobVars, builtVars
<1>3. CASE PruneDir \/ PruneFails \/ Post \/ PushDies
  BY <1>3, BlobStays DEF PruneDir, PruneFails, Post, PushDies, blobVars, builtVars
<1>4. CASE BuildImage \/ TagBuild
  BY <1>0, <1>4, BlobStays DEF BuildImage, TagBuild, blobVars
<1>5. CASE Apply
  BY <1>5, <1>0, NoRecordType, <1>a, BlobStays, StartsTrue, TodosStarted DEF Apply, ReleasesType, BlobType,
     builtVars, Record, NoRecord
<1>6. CASE Release
  BY <1>6, <1>0, RecordOfType, <1>a, StartsTrue, TodosStarted DEF Release, builtVars
<1>7. CASE Rollback
  <2>1. PICK a \in Deployments : \E r \in PickedPrevious(recs[a]) \cup PickedById(recs[a]) :
          Starts("http", a, <<"append", "retag", "roll", "status">>, RecordOf(minted + 1, r.build, TRUE, a))
    BY <1>7 DEF Rollback
  <2>2. PICK r \in PickedPrevious(recs[a]) \cup PickedById(recs[a]) :
          Starts("http", a, <<"append", "retag", "roll", "status">>, RecordOf(minted + 1, r.build, TRUE, a))
    BY <2>1
  <2>3. r.build \in SomeBuild
    <3>1. \A i \in DOMAIN recs[a] : recs[a][i] \in Record
      BY <1>0
    <3>. QED  BY <3>1 DEF PickedPrevious, PickedById, Restored, Record
  <2>4. UNCHANGED <<recs, log, tags>>
    BY <1>7 DEF Rollback, builtVars
  <2>5. RecordOf(minted + 1, r.build, TRUE, a) \in Record
        /\ (RecordOf(minted + 1, r.build, TRUE, a).had => RecordOf(minted + 1, r.build, TRUE, a).build \in tags[a])
    BY <1>0, <2>3, RecordOfType
  <2>. QED  BY <1>a, <2>2, <2>4, <2>5, StartsTrue, TodosStarted
<1>8. CASE ProbeReports
  BY <1>8, <1>a, NoRecordType, StartsTrue, TodosStarted DEF ProbeReports, builtVars, NoRecord
<1>9. ASSUME NEW g \in Goroutines, Retag(g) PROVE BlobTrue'
  BY <1>9, HandFacts, DoneTrue DEF Retag, Does, Works, Done
<1>10. ASSUME NEW g \in Goroutines, Roll(g) PROVE BlobTrue'
  BY <1>10, HandFacts, DoneTrue DEF Roll, Does, Works, Done, builtVars
<1>11. ASSUME NEW g \in Goroutines, PutFails(g) PROVE BlobTrue'
  BY <1>11, DoneTrue DEF PutFails, Writes, Does, Works, Done, builtVars
<1>12. ASSUME NEW g \in Goroutines, PutBlob(g) PROVE BlobTrue'
  BY <1>12, StatusTrue, RecordTrue DEF PutBlob
<1>. QED
  BY <1>1, <1>2, <1>3, <1>4, <1>5, <1>6, <1>7, <1>8, <1>9, <1>10, <1>11, <1>12, LoadTrue, CollectTrue
     DEF ReleasesNext

LEMMA BlobTrueInit == ReleasesInit => BlobTrue
BY HandsFreeType, ReleasesAssumption DEF ReleasesInit, Works, HistoryOf, Tells, ImagesOf, BlobTrue,
   WritersTrue
-----------------------------------------------------------------------------
\* An app's `current` always points at a directory that is there, all apps of a
\* push that posts are at its build, a blob that one goroutine at a time wrote
\* holds the newest records and no others, and each of its records that named
\* an image can be gone back to.
THEOREM ReleasesCorrect == ReleasesSpec => []ReleasesTrue
<1>1. ReleasesInit => IInv
  BY TypeInit, PushInit, BlobTrueInit, BlobTrueSays DEF IInv
<1>2. IInv /\ [ReleasesNext]_releasesVars => IInv'
  BY TypeStep, PushStep, BlobTrueStep, BlobTrueSays DEF IInv, BlobTrue, HistoryComplete, Restorable,
     HistoryOf, Tells, ImagesOf
<1>3. IInv => ReleasesTrue
  BY PushLanded DEF IInv, ReleasesTrue
<1>. QED  BY <1>1, <1>2, <1>3, PTL DEF ReleasesSpec
=============================================================================
