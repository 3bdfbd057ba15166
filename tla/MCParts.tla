------------------------------- MODULE MCParts -------------------------------
(* The components beside the workload handlers, on small instances: each      *)
(* behaviour is one of one component, the others stand still in it.           *)
EXTENDS Probes, Runs, Requests, DeployRuns, Inits, Releases

CONSTANT Parts  \* those a run is about

VARIABLE part

vars == <<part, probesVars, runsVars, requestsVars, deployRunsVars, initsVars, releasesVars>>

AllParts == {"probes", "runs", "requests", "deployRuns", "inits", "releases"}
Still(p) ==
  CASE p = "probes" -> UNCHANGED probesVars
    [] p = "runs" -> UNCHANGED runsVars
    [] p = "requests" -> UNCHANGED requestsVars
    [] p = "deployRuns" -> UNCHANGED deployRunsVars
    [] p = "inits" -> UNCHANGED initsVars
    [] p = "releases" -> UNCHANGED releasesVars

Init ==
  /\ part \in Parts
  /\ ProbesInit /\ RunsInit /\ RequestsInit /\ DeployRunsInit /\ InitsInit /\ ReleasesInit
  /\ part = "runs" \/ kind = "job"

Next ==
  /\ \/ part = "probes" /\ ProbesNext
     \/ part = "runs" /\ RunsNext
     \/ part = "requests" /\ RequestsNext
     \/ part = "deployRuns" /\ DeployRunsNext
     \/ part = "inits" /\ InitsNext
     \/ part = "releases" /\ ReleasesNext
  /\ UNCHANGED part /\ \A p \in AllParts \ {part} : Still(p)

Spec == Init /\ [][Next]_vars
-----------------------------------------------------------------------------
(* Runs: a calendar of two-minute hours, two-hour days, two-day weeks and a   *)
(* year of a three-day and a two-day month.                                   *)

Only(v)  == {[lo |-> v, hi |-> v, step |-> 1]}
Every(n) == {[lo |-> -1, hi |-> -1, step |-> n]}
All      == {Star}

\* At minute 0 of every hour; at 1:01 on Mondays (written as the end of a range
\* past the week) and on the first of the month.
Hourly == [minute |-> Only(0), hour |-> All, dom |-> All, month |-> All, dow |-> All]
Mixed  == [minute |-> Only(1), hour |-> Every(2), dom |-> Only(1), month |-> All,
           dow |-> {[lo |-> 1, hi |-> 2, step |-> 2]}]

M(s, p, off) == [sched |-> s, policy |-> p, suspend |-> off]
Forbidding == {M(Hourly, "Forbid", FALSE), M(Mixed, "Forbid", FALSE), M(Hourly, "Forbid", TRUE)}
MCMonths == <<3, 2>>
-----------------------------------------------------------------------------
(* Requests: two ingresses and two deployments in two scopes. Bodies swap     *)
(* hosts, take one over, name a resource twice, leave one out, cross scopes,  *)
(* and bring an ingress out of a macro.                                       *)

Res(k, s, n) == [kind |-> k, scope |-> s, name |-> n]
Ing(n, h) == [res |-> Res("ingress", "s", n), host |-> h, version |-> 1, macro |-> FALSE]
Dep(s, n, v) == [res |-> Res("deployment", s, n), host |-> Absent, version |-> v, macro |-> FALSE]
Expanded(e) == [e EXCEPT !.macro = TRUE]
MCResources == {Res("ingress", "s", n) : n \in {"web", "api"}}
               \cup {Res("deployment", "s", "web"), Res("deployment", "t", "web")}
MCBodies ==
  {[list |-> l, prune |-> p] :
     l \in {<<Ing("web", "h1"), Ing("api", "h2")>>, <<Ing("web", "h2"), Ing("api", "h1")>>,
            <<Ing("api", "h1"), Dep("s", "web", 1)>>, <<Ing("web", "h1"), Ing("web", "h2")>>,
            <<Dep("s", "web", 2), Dep("t", "web", 1)>>,
            <<Dep("s", "web", 1), Expanded(Ing("web", "h2"))>>},
     p \in BOOLEAN}
-----------------------------------------------------------------------------
(* DeployRuns: "web" deploys an app with a release block and one without,     *)
(* "docs" the second one alone and waits for a dispatch. The second commit    *)
(* changes the source of the one and the spec of the other.                   *)

MCFiles == <<"docs", "web">>
MCAppsOf == [web |-> <<"api", "pwa">>, docs |-> <<"pwa">>]
MCPathOf == [api |-> "api", pwa |-> "pwa"]
MCTreeAt == <<[api |-> 1, pwa |-> 1], [api |-> 2, pwa |-> 1]>>
MCSpecAt == <<[api |-> 1, pwa |-> 1], [api |-> 1, pwa |-> 2]>>
-----------------------------------------------------------------------------
(* Inits: a spec of one init container tried twice, and one of two.           *)

MCInitManifests == {[spec |-> 1, want |-> 1], [spec |-> 2, want |-> 1], [spec |-> 2, want |-> 2]}
MCSteps == <<1, 2>>
MCTries == <<2, 1>>
-----------------------------------------------------------------------------
(* Releases: a Procfile of a web process and a release phase: one deployment, *)
(* which is built, and a job that takes its image.                            *)

MCProcs == <<"web", "release">>
=============================================================================
