----------------------------- MODULE MCServices -----------------------------
(* What stands around the workloads, on small instances: each behaviour is    *)
(* one of one component, the others stand still in it.                        *)
EXTENDS Ingress, Assets, Registries, Webhooks, Trail, Plugins, Containers, Wire, Mesh, Forwarded

CONSTANT Parts  \* those a run is about

VARIABLE part

vars == <<part, ingressVars, assetsVars, registriesVars, webhooksVars, trailVars, pluginsVars, containersVars, wireVars, meshVars, forwardedVars>>

AllParts == {"ingress", "assets", "registries", "webhooks", "trail", "plugins", "containers", "wire", "mesh", "forwarded"}
Still(p) ==
  CASE p = "ingress" -> UNCHANGED ingressVars
    [] p = "assets" -> UNCHANGED assetsVars
    [] p = "registries" -> UNCHANGED registriesVars
    [] p = "webhooks" -> UNCHANGED webhooksVars
    [] p = "trail" -> UNCHANGED trailVars
    [] p = "plugins" -> UNCHANGED pluginsVars
    [] p = "containers" -> UNCHANGED containersVars
    [] p = "wire" -> UNCHANGED wireVars
    [] p = "mesh" -> UNCHANGED meshVars
    [] p = "forwarded" -> UNCHANGED forwardedVars

Init ==
  /\ part \in Parts
  /\ IngressInit /\ AssetsInit /\ RegistriesInit /\ WebhooksInit /\ TrailInit /\ PluginsInit /\ ContainersInit /\ WireInit /\ MeshInit /\ ForwardedInit

Next ==
  /\ \/ part = "ingress" /\ IngressNext
     \/ part = "assets" /\ AssetsNext
     \/ part = "registries" /\ RegistriesNext
     \/ part = "webhooks" /\ WebhooksNext
     \/ part = "trail" /\ TrailNext
     \/ part = "plugins" /\ PluginsNext
     \/ part = "containers" /\ ContainersNext
     \/ part = "wire" /\ WireNext
     \/ part = "mesh" /\ MeshNext
     \/ part = "forwarded" /\ ForwardedNext
  /\ UNCHANGED part /\ \A p \in AllParts \ {part} : Still(p)

Spec == Init /\ [][Next]_vars
-----------------------------------------------------------------------------
(* Ingress: up to four replicas, two at once; scaling to two, and a new spec   *)
(* of one replica.                                                            *)

MCFleets == {[kind |-> "scale", size |-> 2], [kind |-> "roll", size |-> 1]}
-----------------------------------------------------------------------------
(* Assets: a file written in the manifest and a fetched one, which is strict, *)
(* or not, or gone.                                                           *)

Inline(v) == [src |-> "inline", v |-> v, strict |-> FALSE]
Url(s) == [src |-> "url", v |-> 0, strict |-> s]
MCAssetBodies ==
  {[asset |-> [f |-> Inline(1), u |-> Url(FALSE)], user |-> TRUE],
   [asset |-> [f |-> Inline(2), u |-> Url(TRUE)], user |-> TRUE],
   [asset |-> [f |-> Inline(2)], user |-> FALSE],
   [asset |-> [f |-> Inline(1), u |-> Url(FALSE)], user |-> FALSE],
   [asset |-> NoAsset, user |-> TRUE]}
-----------------------------------------------------------------------------
(* Registries: two, which may have one url, and a spec that does not decode.  *)

MCRegNames == <<"ghcr", "hub">>
MCRegSpecs == {[url |-> "a", how |-> h] : h \in {"token", "helper", "both"}}
              \cup {[url |-> "b", how |-> "token"]}
-----------------------------------------------------------------------------
(* Webhooks: two targets of one slot, a body inline or from a file, and a     *)
(* target without URL.                                                        *)

To(to, b) == [to |-> to, body |-> b]
MCHookTargets ==
  [success |-> {To("chat", "inline")},
   failure |-> {To("chat", "payload"), To("pager", "file"), To(NoUrl, "payload")},
   recovery |-> {To("pager", "file")}]
-----------------------------------------------------------------------------
(* Plugins: one apply, install or removal beside another, and a third that    *)
(* installs; a fork that has the plugin's name and one without `expand`.      *)

PBlock(k, r, p) == [kind |-> k, repo |-> r, pin |-> p]
PAsk == [op |-> "command", body |-> <<>>, dry |-> FALSE, repo |-> "pgrepo", pin |-> NoPin, name |-> "pg", acts |-> <<"config", "bad">>]
PApply(b, d, a) == [PAsk EXCEPT !.op = "apply", !.body = b, !.dry = d, !.acts = a]
PInstall == [PAsk EXCEPT !.op = "install"]
PRemove == [PAsk EXCEPT !.op = "remove"]
Applies ==
 {PApply(<<PBlock("pg", "pgrepo", 2), PBlock(Core, "pgrepo", NoPin)>>, FALSE, <<"config">>),
  PApply(<<PBlock("pg", "fork", Latest)>>, TRUE, <<"manifest">>),
  PApply(<<PBlock("pg", "pgrepo", NoPin), PBlock("redis", "fork", NoPin)>>, FALSE, <<"config", "bad">>)}
MCPluginAsks == [q1 |-> Applies \cup {PInstall}, q2 |-> {PAsk, PRemove, PApply(<<PBlock("redis", "plain", Latest)>>, FALSE, <<>>),
                       PApply(<<PBlock("pg", "pgrepo", 2), PBlock("pg", "pgrepo", 1)>>, FALSE, <<>>)}, q3 |-> {PInstall}]
MCRepos == [pgrepo |-> [name |-> "pg", guess |-> "pg", macro |-> TRUE],
            fork |-> [name |-> "pg", guess |-> "fork", macro |-> TRUE],
            plain |-> [name |-> "redis", guess |-> "redis", macro |-> FALSE]]
-----------------------------------------------------------------------------
(* Mesh: a pod of the name on each host; the containers of one of them ask.   *)

MCHome == [a1 |-> "a", b1 |-> "h"]
-----------------------------------------------------------------------------
(* Forwarded: two operators, the files of one of which change meanwhile.      *)

MCDrafts == {[web |-> 1], [web |-> 2, cfg |-> 1], [db |-> 1]}
MCFirst == [ann |-> [web |-> 1], bob |-> [web |-> 2, cfg |-> 1]]
=============================================================================
