------------------------------- MODULE Assets -------------------------------
(* One asset and one workload that reads it: what an apply does before it     *)
(* stores anything (asset_stamp.go: materialise the asset's files, stamp the  *)
(* workload with their digests), the reconciler's handler of the asset, which *)
(* materialises again (handlers_asset.go), and the cache of fetched URLs both *)
(* share. Contents are version numbers, and a digest is the content itself.   *)
EXTENDS Integers, Sequences, FiniteSets

CONSTANTS
  AssetBodies,   \* what is applied: [asset, user]: the files, or NoAsset; with the workload
  NoAsset,
  AssetKeys,     \* file names
  Refs,          \* those the workload refers to
  Appliers,      \* HTTP requests at a time
  MaxApplies,    \* bound: applies and deletes
  MaxVersion,    \* bound: versions of what the URL serves
  MaxMishaps     \* bound: failed fetches, failed writes of the cache and of the status

\* The version written in the manifest, or a URL with on_failure = "error" if
\* strict; 0 is no content.
AssetFile == {f \in [src : {"inline", "url"}, v : Nat, strict : BOOLEAN] :
                f.src = "inline" => f.v # 0}

ASSUME AssetsAssumption ==
  /\ \A b \in AssetBodies :
       /\ b = [asset |-> b.asset, user |-> b.user] /\ b.user \in BOOLEAN
       /\ b.asset # NoAsset => \E K \in SUBSET AssetKeys : b.asset \in [K -> AssetFile]
  /\ Refs \subseteq AssetKeys /\ Appliers \cap {"reconciler", "retried"} = {}
  /\ {MaxApplies, MaxVersion, MaxMishaps} \subseteq Nat

VARIABLES
  site,      \* the version the URL serves
  cached,    \* the cache's two files: [bytes, tag], 0 for a missing one
  asset,     \* the stored asset manifest, or NoAsset
  stamp,     \* the stored workload's _asset_digests, {} for no workload
  changes,   \* watch events of the asset not yet handled
  disk,      \* per key: the file's content, 0 for none
  digests,   \* the asset's status: per key, 0 for none
  writer,    \* per goroutine: the materialisation it is in
  applies, mishaps,
  soiled,    \* history: the last materialisation was cut short, or not alone, or what it did was not recorded
  drifted    \* history: since the workload was stamped the URL or the asset changed without
             \* it, or a materialisation could not have what the URL serves

assetsVars == <<site, cached, asset, stamp, changes, disk, digests, writer, applies,
                mishaps, soiled, drifted>>

Writers == Appliers \cup {"reconciler", "retried"}
Off == [pc |-> "off", files |-> NoAsset, user |-> FALSE, todo |-> {}, key |-> 0, body |-> 0,
        done |-> {}, failed |-> {}, alone |-> TRUE]
Busy(w) == writer[w].pc # "off"
Is(w, pc) == writer[w].pc = pc
Turn(w, r) == writer' = [writer EXCEPT ![w] = r]
Mishap == mishaps < MaxMishaps /\ mishaps' = mishaps + 1
Digest(ds, k) == IF \E d \in ds : d[1] = k THEN (CHOOSE d \in ds : d[1] = k)[2] ELSE 0

AssetsInit ==
  /\ site = 1 /\ cached = [bytes |-> 0, tag |-> 0] /\ asset = NoAsset /\ stamp = {}
  /\ changes = <<>> /\ disk = [k \in AssetKeys |-> 0] /\ digests = [k \in AssetKeys |-> 0]
  /\ writer = [w \in Writers |-> Off]
  /\ applies = 0 /\ mishaps = 0 /\ soiled = FALSE /\ drifted = FALSE

\* Whoever starts beside another one is no longer alone, nor is the other.
Start(w, files, user) ==
  LET others == {v \in Writers \ {w} : Busy(v)} IN
  writer' = [v \in Writers |->
    IF v = w THEN [Off EXCEPT !.pc = "files", !.files = files, !.user = user,
                              !.todo = DOMAIN files, !.alone = others = {}]
    ELSE IF Busy(v) THEN [writer[v] EXCEPT !.alone = FALSE] ELSE writer[v]]
-----------------------------------------------------------------------------
(* The world: the URL gets a new content.                                   *)

NewContent ==
  /\ site < MaxVersion /\ site' = site + 1 /\ drifted' = TRUE
  /\ UNCHANGED <<cached, asset, stamp, changes, disk, digests, writer, applies, mishaps, soiled>>

\* Variant: the files are left to the reconciler, the stamp is read off the status.
RequestUnwritten(w, b) ==
  /\ w \in Appliers /\ ~Busy(w) /\ applies < MaxApplies /\ applies' = applies + 1
  /\ IF b.asset = NoAsset THEN Turn(w, [Off EXCEPT !.pc = "stamp", !.user = b.user])
     ELSE Turn(w, [Off EXCEPT !.pc = "stamp", !.files = b.asset, !.user = b.user])
  /\ drifted' = (drifted \/ (b.asset # NoAsset))
  /\ UNCHANGED <<site, cached, asset, stamp, changes, disk, digests, mishaps, soiled>>

Request(w, b) ==
  /\ w \in Appliers /\ ~Busy(w) /\ applies < MaxApplies /\ applies' = applies + 1
  /\ IF b.asset = NoAsset THEN Turn(w, [Off EXCEPT !.pc = "stamp", !.user = b.user])
     ELSE Start(w, b.asset, b.user)
  /\ drifted' = (drifted \/ (b.asset # NoAsset))
  /\ UNCHANGED <<site, cached, asset, stamp, changes, disk, digests, mishaps, soiled>>

DeleteAsset ==
  /\ asset # NoAsset /\ applies < MaxApplies /\ applies' = applies + 1
  /\ asset' = NoAsset /\ changes' = Append(changes, NoAsset) /\ drifted' = TRUE
  /\ UNCHANGED <<site, cached, stamp, disk, digests, writer, mishaps, soiled>>
-----------------------------------------------------------------------------
(* materializeAssetSpec: file by file, in any order.                        *)

NextFile(w) ==
  /\ Is(w, "files")
  /\ \E k \in writer[w].todo :
       LET f == writer[w].files[k] IN
       Turn(w, [writer[w] EXCEPT !.todo = @ \ {k}, !.key = k, !.body = f.v,
                                 !.pc = IF f.src = "url" THEN "ask" ELSE "write"])
  /\ UNCHANGED <<site, cached, asset, stamp, changes, disk, digests, applies, mishaps, soiled, drifted>>

\* A file that cannot be had is noted, or ends the materialisation with nothing
\* recorded; a strict one has on_failure = "error".
NotHad(w) ==
  LET me == writer[w] IN
  /\ UNCHANGED drifted
  /\ IF me.files[me.key].strict
     THEN Turn(w, Off) /\ soiled' = TRUE
     ELSE Turn(w, [me EXCEPT !.pc = "files", !.failed = @ \cup {me.key}]) /\ UNCHANGED soiled

\* fetchAssetURLShared: the tag kept goes with the request; without an answer
\* the cached bytes serve, whatever on_failure says.
Ask(w) ==
  /\ Is(w, "ask")
  /\ LET have(v) == /\ Turn(w, [writer[w] EXCEPT !.pc = "write", !.body = v])
                    /\ drifted' = (drifted \/ v # site) /\ UNCHANGED soiled
     IN \/ /\ cached.tag = site /\ UNCHANGED mishaps
           /\ \/ cached.bytes # 0 /\ have(cached.bytes)
              \/ cached.bytes = 0 /\ NotHad(w)
        \/ /\ cached.tag # site /\ UNCHANGED <<mishaps, soiled, drifted>>
           /\ Turn(w, [writer[w] EXCEPT !.pc = "bytes", !.body = site])
        \/ /\ Mishap
           /\ \/ cached.bytes # 0 /\ have(cached.bytes)
              \/ NotHad(w)
  /\ UNCHANGED <<site, cached, asset, stamp, changes, disk, digests, applies>>

\* The bytes, then the tag; an error of either write is passed over.
CacheBytes(w) ==
  /\ Is(w, "bytes")
  /\ \/ cached' = [cached EXCEPT !.bytes = writer[w].body] /\ UNCHANGED mishaps
     \/ Mishap /\ UNCHANGED cached
  /\ Turn(w, [writer[w] EXCEPT !.pc = "tag"])
  /\ UNCHANGED <<site, asset, stamp, changes, disk, digests, applies, soiled, drifted>>

CacheTag(w) ==
  /\ Is(w, "tag")
  /\ \/ cached' = [cached EXCEPT !.tag = writer[w].body] /\ UNCHANGED mishaps
     \/ Mishap /\ UNCHANGED cached
  /\ Turn(w, [writer[w] EXCEPT !.pc = "write"])
  /\ UNCHANGED <<site, asset, stamp, changes, disk, digests, applies, soiled, drifted>>

Write(w) ==
  LET me == writer[w] IN
  /\ Is(w, "write")
  /\ disk' = [disk EXCEPT ![me.key] = me.body]
  /\ Turn(w, [me EXCEPT !.pc = "files", !.done = @ \cup {<<me.key, me.body>>}, !.body = 0])
  /\ UNCHANGED <<site, cached, asset, stamp, changes, digests, applies, mishaps, soiled, drifted>>

\* Variant: a file that failed keeps no digest of the content it has on disk.
RecordOnlyDone(w) ==
  LET me == writer[w] IN
  /\ Is(w, "files") /\ me.todo = {}
  /\ disk' = [k \in AssetKeys |-> IF k \in DOMAIN me.files THEN disk[k] ELSE 0]
  /\ digests' = [k \in AssetKeys |-> Digest(me.done, k)]
  /\ Turn(w, IF w \in Appliers THEN [me EXCEPT !.pc = "stamp"] ELSE Off)
  /\ soiled' = ~me.alone
  /\ drifted' = (drifted \/ \E k \in me.failed : disk[k] # site)
  /\ UNCHANGED <<site, cached, asset, stamp, changes, applies, mishaps>>

\* Files of other names go; a file that failed counts with what it has on disk.
\* Of the reconciler, nothing to show at all is a transient error.
Record(w) ==
  LET me == writer[w]
      all == me.done \cup {<<k, disk[k]>> : k \in {j \in me.failed : disk[j] # 0}}
  IN
  /\ Is(w, "files") /\ me.todo = {}
  /\ disk' = [k \in AssetKeys |-> IF k \in DOMAIN me.files THEN disk[k] ELSE 0]
  /\ digests' = [k \in AssetKeys |-> Digest(all, k)]
  /\ \/ w \in Appliers /\ Turn(w, [me EXCEPT !.pc = "stamp", !.done = all])
     \/ w \notin Appliers /\ (all # {} \/ me.failed = {} \/ Busy("retried")) /\ Turn(w, Off)
     \/ /\ w = "reconciler" /\ all = {} /\ me.failed # {} /\ ~Busy("retried")
        /\ writer' = [writer EXCEPT ![w] = Off, !["retried"] = [Off EXCEPT !.pc = "asleep"]]
  /\ soiled' = ~me.alone
  /\ drifted' = (drifted \/ \E k \in me.failed : disk[k] # site)
  /\ UNCHANGED <<site, cached, asset, stamp, changes, applies, mishaps>>

\* The status is not put: the apply is refused, or the event is done with, for it
\* is no transient error; the files are there and the old status is kept.
RecordFails(w) ==
  LET me == writer[w] IN
  /\ Is(w, "files") /\ me.todo = {} /\ Mishap /\ Turn(w, Off) /\ soiled' = TRUE
  /\ disk' = [k \in AssetKeys |-> IF k \in DOMAIN me.files THEN disk[k] ELSE 0]
  /\ UNCHANGED <<site, cached, asset, stamp, changes, digests, applies, drifted>>
-----------------------------------------------------------------------------
(* The end of an apply: stamp, then store; or nothing stored.               *)

\* stampConsumerSpec: a reference this apply did not materialise is looked up in
\* the status; one found nowhere rejects the apply, files written or not.
Stamp(w) ==
  LET me == writer[w]
      of(k) == IF Digest(me.done, k) # 0 THEN Digest(me.done, k) ELSE digests[k]
      found == \A k \in Refs : of(k) # 0
      \* not alone, or the URL serves something else by now, or the status the stamp
      \* is read off is about to be another one
      late ==
        \/ ~me.alone \/ soiled
        \/ \E k \in Refs :
             \/ asset' # NoAsset /\ k \in DOMAIN asset' /\ asset'[k].src = "url" /\ of(k) # site
             \/ Digest(me.done, k) = 0 /\ (changes # <<>> \/ \E v \in Writers \ {w} : Busy(v))
  IN
  /\ Is(w, "stamp") /\ Turn(w, Off)
  /\ IF me.user /\ ~found
     THEN UNCHANGED <<asset, changes, stamp, drifted>>
     ELSE /\ asset' = IF me.files = NoAsset THEN asset ELSE me.files
          /\ changes' = IF me.files = NoAsset THEN changes ELSE Append(changes, me.files)
          /\ stamp' = IF me.user THEN {<<k, of(k)>> : k \in Refs} ELSE stamp
          /\ drifted' = IF me.user THEN late ELSE drifted
  /\ UNCHANGED <<site, cached, disk, digests, applies, mishaps, soiled>>
-----------------------------------------------------------------------------
(* The reconciler.                                                          *)

\* remove: the directory and the status blob, which may stay; whoever materialises
\* is not alone.
RemoveFiles ==
  /\ disk' = [k \in AssetKeys |-> 0]
  /\ \/ /\ digests' = [k \in AssetKeys |-> 0] /\ soiled' = (\E v \in Writers : Busy(v))
        /\ UNCHANGED mishaps
     \/ Mishap /\ soiled' = TRUE /\ UNCHANGED digests
  /\ writer' = [v \in Writers |-> IF Busy(v) THEN [writer[v] EXCEPT !.alone = FALSE] ELSE writer[v]]

HandleAsset ==
  /\ changes # <<>> /\ ~Busy("reconciler") /\ changes' = Tail(changes)
  /\ IF Head(changes) = NoAsset
     THEN RemoveFiles
     ELSE Start("reconciler", Head(changes), FALSE) /\ UNCHANGED <<disk, digests, soiled, mishaps>>
  /\ UNCHANGED <<site, cached, asset, stamp, applies, drifted>>

RetryAsset ==
  /\ Is("retried", "asleep")
  /\ IF asset = NoAsset THEN Turn("retried", Off) ELSE Start("retried", asset, FALSE)
  /\ UNCHANGED <<site, cached, asset, stamp, changes, disk, digests, applies, mishaps, soiled, drifted>>
-----------------------------------------------------------------------------
AssetsNext ==
  \/ NewContent \/ DeleteAsset \/ HandleAsset \/ RetryAsset
  \/ \E w \in Writers :
       \/ \E b \in AssetBodies : Request(w, b)
       \/ NextFile(w) \/ Ask(w) \/ CacheBytes(w) \/ CacheTag(w) \/ Write(w) \/ Record(w)
       \/ RecordFails(w) \/ Stamp(w)

AssetsSpec == AssetsInit /\ [][AssetsNext]_assetsVars
-----------------------------------------------------------------------------
NothingWritten == changes = <<>> /\ \A w \in Writers : ~Busy(w)

\* With nothing under way the status has the digest of every file on disk and of
\* no other: through fetches that failed, keys that went and came, deletes and
\* applies that were rejected half way; unless the last materialisation was cut
\* short by a strict URL, ran beside another, or could not put its status.
StatusTrue == NothingWritten /\ ~soiled => digests = disk

\* Then the workload's stamp is the content of the files it mounts, so a change
\* of content is a change of its spec: the reconciler's own materialisation,
\* which fetches once more, does not put anything else there as long as it is
\* served what the URL has.
StampTrue ==
  NothingWritten /\ ~soiled /\ ~drifted => \A s \in stamp : disk[s[1]] = s[2]

\* Status and stamp both have the content of the files on disk.
AssetsTrue == StatusTrue /\ StampTrue
=============================================================================
