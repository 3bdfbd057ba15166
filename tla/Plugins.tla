------------------------------ MODULE Plugins ------------------------------
(* Plugins on disk and in requests: an apply expands the blocks that are not  *)
(* of a core kind with the plugin of that name, which it fetches when it is   *)
(* missing or of another version; the WebUI installs in the background, an    *)
(* operator uninstalls; a plugin's answer may ask for writes to the store.    *)
(* Nothing locks the plugins' directory. A body is a sequence of blocks, a    *)
(* block of the kind Core is a manifest.                                      *)
EXTENDS Integers, Sequences, FiniteSets

CONSTANTS
  Requests,       \* what the API is asked at once, each one served once
  Repos,          \* [repo |-> [name, guess, macro]]: plugin.yml's name, the one its URL ends
                  \* with, and whether it has an expand command
  Kinds, Core,    \* names of plugins, and the core kind
  Shipped,        \* the plugins installed at first, at version 1
  PluginAsks,     \* [Requests -> set of [op, body, dry, repo, pin, name, acts]]: what each may be
  NoPlugin, NoPin, Latest, NoBlock,
  MaxRelease, MaxSlips   \* bounds: releases upstream; failures, crashes and expiries

ASSUME PluginsAssumption ==
  /\ {r.name : r \in {Repos[x] : x \in DOMAIN Repos}} \subseteq Kinds
  /\ Core \notin Kinds /\ Shipped \subseteq Kinds /\ MaxRelease \in Nat \ {0} /\ MaxSlips \in Nat
  /\ \A x \in DOMAIN Repos : Repos[x].macro \in BOOLEAN
  /\ \A r \in Requests : \A a \in PluginAsks[r] :
       /\ a.op \in {"apply", "install", "remove", "command"}
       /\ a.repo \in DOMAIN Repos /\ a.pin \in Nat \cup {NoPin, Latest}
       /\ a.body \in Seq([kind : Kinds \cup {Core}, repo : DOMAIN Repos, pin : Nat \cup {NoPin, Latest}])
       /\ a.acts \in Seq({"config", "manifest", "bad"})
  /\ NoBlock \notin [kind : Kinds \cup {Core}, repo : DOMAIN Repos, pin : Nat \cup {NoPin, Latest}]
  /\ NoPlugin \notin [name : Kinds, v : Nat, by : {<<>>} \cup (Requests \X Nat),
                      macro : BOOLEAN, error : BOOLEAN]

VARIABLES
  dirs,     \* [Kinds -> NoPlugin or [name, v, by, macro, error]]: by names the install that
            \* put it there, <<request, block>>, or <<>>
  release,  \* the newest version upstream: every tag up to it exists
  tmp,      \* scratch directories, set of [by, name, v, macro]
  jobs,     \* pluginJobs: [repo |-> "none", "installing" or "failed"]
  asks,     \* [Requests -> the request]
  kept,     \* the store: <<r, i, what>> for the manifests of a block and for its actions
  expanded, \* history: what blocks were expanded with, set of [r, i, pin, v, same]
  gone,     \* history: plugins uninstalled, or lost in a crash
  slips

pluginsVars == <<dirs, release, tmp, jobs, asks, kept, expanded, gone, slips>>

Unasked == [pc |-> "idle", i |-> 1, todo |-> <<>>, plug |-> NoPlugin, src |-> NoBlock]
PluginsInit ==
  /\ dirs = [k \in Kinds |-> IF k \notin Shipped THEN NoPlugin ELSE
              [name |-> k, v |-> 1, by |-> <<>>, macro |-> TRUE, error |-> FALSE]]
  /\ release = MaxRelease - 1 /\ tmp = {} /\ jobs = [x \in DOMAIN Repos |-> "none"]
  /\ asks = [r \in Requests |-> Unasked]
  /\ kept = {} /\ expanded = {} /\ slips = 0
  /\ gone = Kinds \ Shipped

Slip == slips < MaxSlips /\ slips' = slips + 1
At(r, pc) == asks[r].pc = pc
Becomes(r, q) == asks' = [asks EXCEPT ![r] = q]
Goto(r, pc) == Becomes(r, [asks[r] EXCEPT !.pc = pc])
Reject(r) == Goto(r, "rejected")
Ended(r) == asks[r].pc \in {"idle", "ok", "rejected", "lost"}
Block(r) == IF asks[r].i <= Len(asks[r].src.body) THEN asks[r].src.body[asks[r].i] ELSE NoBlock
-----------------------------------------------------------------------------
\* A request comes in. The WebUI's install is refused while one of the same
\* source is listed as running (pluginJobs.Begin); a command needs its plugin.
StartAsk(r, a) ==
  /\ At(r, "idle")
  /\ LET q(pc) == [Unasked EXCEPT !.pc = pc, !.src = a, !.todo = a.acts] IN
     CASE a.op = "apply" -> Becomes(r, q("look")) /\ UNCHANGED jobs
       [] a.op = "install" ->
            IF jobs[a.repo] = "installing" THEN Becomes(r, q("rejected")) /\ UNCHANGED jobs
            ELSE Becomes(r, q("fetch")) /\ jobs' = [jobs EXCEPT ![a.repo] = "installing"]
       [] a.op = "remove" ->
            /\ Becomes(r, q(IF dirs[a.name] = NoPlugin THEN "rejected" ELSE "unhook"))
            /\ UNCHANGED jobs
       [] a.op = "command" ->
            /\ Becomes(r, q(IF dirs[a.name] = NoPlugin THEN "rejected" ELSE "act"))
            /\ UNCHANGED jobs
  /\ UNCHANGED <<dirs, release, tmp, kept, expanded, gone, slips>>

\* Variant: a plugin that is there is used.
NeedsInstallMissing(b) == dirs[b.kind] = NoPlugin

\* expandPluginBlocks: what is missing, or pinned to another version, or asked
\* for as "latest", is installed; a plugin whose install hook failed is not missing.
NeedsInstall(b) ==
  LET p == dirs[b.kind] IN
  \/ p = NoPlugin \/ b.pin = Latest
  \/ p # NoPlugin /\ (~p.macro \/ (b.pin # NoPin /\ p.v # b.pin))

Look(r) ==
  /\ At(r, "look")
  /\ LET b == Block(r) IN
     IF b = NoBlock THEN Becomes(r, [asks[r] EXCEPT !.pc = "put", !.i = 1])
     ELSE IF b.kind = Core THEN Becomes(r, [asks[r] EXCEPT !.i = @ + 1])
     ELSE IF NeedsInstall(b) THEN Goto(r, "fetch")
     ELSE Becomes(r, [asks[r] EXCEPT !.pc = "expand", !.plug = dirs[b.kind]])
  /\ UNCHANGED <<dirs, release, tmp, jobs, kept, expanded, gone, slips>>
-----------------------------------------------------------------------------
Source(r) == IF asks[r].src.op = "install" THEN asks[r].src ELSE Block(r)
\* runPluginInstall records how an install of the WebUI went.
JobFailed(r) ==
  jobs' = IF asks[r].src.op = "install" THEN [jobs EXCEPT ![asks[r].src.repo] = "failed"] ELSE jobs

\* Install, fetch: the tag, or the default branch. No such tag, or the network.
Fetch(r) ==
  LET s == Source(r)
      v == IF s.pin \in {NoPin, Latest} THEN release ELSE s.pin
      repo == Repos[s.repo] IN
  /\ At(r, "fetch")
  /\ \/ /\ v <= release /\ UNCHANGED <<jobs, slips>>
        /\ tmp' = tmp \cup {[by |-> r, name |-> repo.name, v |-> v, macro |-> repo.macro]}
        /\ Goto(r, "clear")
     \/ v > release /\ Reject(r) /\ JobFailed(r) /\ UNCHANGED <<tmp, slips>>
     \/ Slip /\ Reject(r) /\ JobFailed(r) /\ UNCHANGED tmp
  /\ UNCHANGED <<dirs, release, kept, expanded, gone>>

Tree(r) == CHOOSE t \in tmp : t.by = r

\* RemoveAll of what was there, then Rename: two steps.
ClearOld(r) ==
  /\ At(r, "clear")
  /\ dirs' = [dirs EXCEPT ![Tree(r).name] = NoPlugin]
  /\ Goto(r, "move")
  /\ UNCHANGED <<release, tmp, jobs, kept, expanded, gone, slips>>

\* A directory another install has put there meanwhile makes the rename fail.
MoveIn(r) ==
  LET t == Tree(r) IN
  /\ At(r, "move")
  /\ tmp' = tmp \ {t}
  /\ IF dirs[t.name] = NoPlugin
     THEN /\ dirs' = [dirs EXCEPT ![t.name] =
                        [name |-> t.name, v |-> t.v, by |-> <<r, asks[r].i>>, macro |-> t.macro, error |-> FALSE]]
          /\ Becomes(r, [asks[r] EXCEPT !.pc = "hook", !.plug = dirs'[t.name]])
          /\ gone' = gone \ {t.name} /\ UNCHANGED jobs
     ELSE Reject(r) /\ JobFailed(r) /\ UNCHANGED <<dirs, gone>>
  /\ UNCHANGED <<release, kept, expanded, slips>>

\* The install hook, then what installPluginForBlock asks of the result. A hook
\* that fails marks whatever directory has the plugin's name by then.
Suits(r) ==
  LET b == Block(r) p == asks[r].plug IN
  p.name = b.kind /\ p.macro /\ b.pin \in {NoPin, Latest, p.v}
RunHook(r) ==
  LET n == asks[r].plug.name IN
  /\ At(r, "hook")
  /\ \/ /\ IF asks[r].src.op = "install"
           THEN Goto(r, "ok") /\ jobs' = [jobs EXCEPT ![asks[r].src.repo] = "none"]
           ELSE Goto(r, IF Suits(r) THEN "expand" ELSE "rejected") /\ UNCHANGED jobs
        /\ UNCHANGED <<dirs, slips>>
     \/ /\ Slip /\ Reject(r) /\ JobFailed(r)
        /\ dirs' = IF dirs[n] = NoPlugin THEN dirs ELSE [dirs EXCEPT ![n].error = TRUE]
  /\ UNCHANGED <<release, tmp, kept, expanded, gone>>

\* Remove: the uninstall hook has run; jobs of the name its source suggests go.
Uninstall(r) ==
  LET n == asks[r].src.name IN
  /\ At(r, "unhook")
  /\ dirs' = [dirs EXCEPT ![n] = NoPlugin] /\ gone' = gone \cup {n}
  /\ jobs' = [x \in DOMAIN Repos |-> IF Repos[x].guess = n THEN "none" ELSE jobs[x]]
  /\ Goto(r, "ok")
  /\ UNCHANGED <<release, tmp, kept, expanded, slips>>
-----------------------------------------------------------------------------
\* runExpand: what is at the plugin's path by now is run.
Expand(r) ==
  LET b == Block(r) p == dirs[b.kind] IN
  /\ At(r, "expand")
  /\ IF p = NoPlugin \/ (p # NoPlugin /\ ~p.macro) THEN Reject(r) /\ UNCHANGED <<expanded, slips>>
     ELSE \/ /\ Becomes(r, [asks[r] EXCEPT !.pc = "act", !.todo = asks[r].src.acts])
             /\ expanded' = expanded \cup {[r |-> r, i |-> asks[r].i, pin |-> b.pin, v |-> p.v,
                                           same |-> p.by = asks[r].plug.by]}
             /\ UNCHANGED slips
          \/ Slip /\ Reject(r) /\ UNCHANGED expanded
  /\ UNCHANGED <<dirs, release, tmp, jobs, kept, gone>>

\* The plugin's actions, in order; an expansion's come before its manifests are
\* looked at and before the next block. "config" and "manifest" write to the
\* store, "bad" fails (an unknown type, a missing name) or is a manifest that
\* no plugin may return.
Act(r) ==
  LET q == asks[r] IN
  /\ At(r, "act")
  /\ IF q.todo = <<>>
     THEN /\ Becomes(r, IF q.src.op = "command" THEN [q EXCEPT !.pc = "ok"]
                       ELSE [q EXCEPT !.pc = "look", !.i = @ + 1])
          /\ UNCHANGED kept
     ELSE IF Head(q.todo) = "bad" THEN Reject(r) /\ UNCHANGED kept
     ELSE /\ kept' = kept \cup {<<r, q.i, Len(q.src.acts) - Len(q.todo) + 1>>}
          /\ Becomes(r, [q EXCEPT !.todo = Tail(@)])
  /\ UNCHANGED <<dirs, release, tmp, jobs, expanded, gone, slips>>

\* applyPost: the manifests go to the store one by one, or nowhere.
PutNext(r) ==
  LET q == asks[r] IN
  /\ At(r, "put")
  /\ IF Block(r) = NoBlock THEN Goto(r, "ok") /\ UNCHANGED <<kept, slips>>
     ELSE \/ /\ kept' = IF q.src.dry THEN kept ELSE kept \cup {<<r, q.i, 0>>}
             /\ Becomes(r, [q EXCEPT !.i = @ + 1]) /\ UNCHANGED slips
          \/ Slip /\ Reject(r) /\ UNCHANGED kept
  /\ UNCHANGED <<dirs, release, tmp, jobs, expanded, gone>>
-----------------------------------------------------------------------------
Upstream ==
  /\ release < MaxRelease /\ release' = release + 1
  /\ UNCHANGED <<dirs, tmp, jobs, asks, kept, expanded, gone, slips>>

\* pluginJobs.List: a failure is forgotten after a while.
Expire ==
  /\ Slip /\ \E x \in DOMAIN Repos :
       jobs[x] = "failed" /\ jobs' = [jobs EXCEPT ![x] = "none"]
  /\ UNCHANGED <<dirs, release, tmp, asks, kept, expanded, gone>>

\* The controller stops: scratch directories stay, jobs are forgotten.
StopAsks ==
  /\ Slip
  /\ asks' = [r \in Requests |-> IF Ended(r) THEN asks[r] ELSE [asks[r] EXCEPT !.pc = "lost"]]
  /\ jobs' = [x \in DOMAIN Repos |-> "none"]
  /\ gone' = gone \cup {Tree(r).name : r \in {q \in Requests : At(q, "move")}}
  /\ UNCHANGED <<dirs, release, tmp, kept, expanded>>

PluginsNext ==
  \/ \E r \in Requests :
       \/ \E a \in PluginAsks[r] : StartAsk(r, a)
       \/ Look(r) \/ Fetch(r) \/ ClearOld(r) \/ MoveIn(r) \/ RunHook(r)
       \/ Uninstall(r) \/ Expand(r) \/ Act(r) \/ PutNext(r)
  \/ Upstream \/ Expire \/ StopAsks

PluginsSpec == PluginsInit /\ [][PluginsNext]_pluginsVars
-----------------------------------------------------------------------------
\* A block that pins a version is expanded by that version, unless another
\* install has put something else at the plugin's path since it was looked at.
Pinned == \A e \in expanded : e.same => e.pin \in {NoPin, Latest, e.v}

\* A manifest is stored when every block of the apply has been expanded and all
\* that the plugins asked for is done; what answers "ok" is stored, a dry run not.
ActionsFirst ==
  \A r \in Requests :
    LET q == asks[r]
        Mine == {i \in 1..Len(q.src.body) : <<r, i, 0>> \in kept}
        Macros == {i \in 1..Len(q.src.body) : q.src.body[i].kind # Core} IN
    q.src # NoBlock /\ q.src.op = "apply" =>
      /\ Mine # {} => /\ ~q.src.dry
                      /\ \A i \in Macros : /\ \E e \in expanded : e.r = r /\ e.i = i
                                           /\ \A k \in 1..Len(q.src.acts) : <<r, i, k>> \in kept
      /\ q.pc = "ok" /\ ~q.src.dry => Mine = 1..Len(q.src.body)

\* An installed plugin is out of the way only between an install's removal of
\* the old tree and its rename: nobody but the operator, or a crash then, loses it.
NotLost ==
  \A k \in Kinds : dirs[k] = NoPlugin /\ k \notin gone =>
                     \E r \in Requests : At(r, "move") /\ Tree(r).name = k

\* Two installs of one source run at once in the background only after an
\* uninstall has made the controller forget the first one.
OneInstall ==
  \A r, q \in Requests :
    /\ r # q /\ ~Ended(r) /\ ~Ended(q)
    /\ asks[r].src.op = "install" /\ asks[q].src.op = "install"
    /\ asks[r].src.repo = asks[q].src.repo
    => \E u \in Requests : /\ asks[u].pc = "ok" /\ asks[u].src.op = "remove"
                           /\ asks[u].src.name = Repos[asks[r].src.repo].guess

PluginsTrue == Pinned /\ ActionsFirst /\ NotLost /\ OneInstall
=============================================================================
