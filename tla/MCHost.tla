------------------------------- MODULE MCHost -------------------------------
(* The controller as a process, what it samples, and its clients, on small    *)
(* instances: each behaviour is one of one component, the others stand still. *)
EXTENDS Metrics, Drift, Manifests, Lifecycle, Streams, Environments, Procfiles

CONSTANT Parts  \* those a run is about

VARIABLE part

vars == <<part, metricsVars, driftVars, manifestsVars, lifecycleVars, streamsVars, environmentsVars,
          procfilesVars>>

AllParts == {"metrics", "drift", "manifests", "lifecycle", "streams", "environments", "procfiles"}
Still(p) ==
  CASE p = "metrics" -> UNCHANGED metricsVars
    [] p = "drift" -> UNCHANGED driftVars
    [] p = "manifests" -> UNCHANGED manifestsVars
    [] p = "lifecycle" -> UNCHANGED lifecycleVars
    [] p = "streams" -> UNCHANGED streamsVars
    [] p = "environments" -> UNCHANGED environmentsVars
    [] p = "procfiles" -> UNCHANGED procfilesVars

Init ==
  /\ part \in Parts
  /\ MetricsInit /\ DriftInit /\ ManifestsInit /\ LifecycleInit /\ StreamsInit /\ EnvironmentsInit
  /\ ProcfilesInit
  /\ part = "metrics" \/ left = CHOOSE b \in Budgets : TRUE
  /\ part = "drift" \/ kind = "deployment"
  /\ part = "streams" \/ job = [prog |-> "push", speaks |-> "text", force |-> FALSE]
  /\ part = "procfiles" \/ lines = CHOOSE ps \in Procfiles : TRUE

Next ==
  /\ \/ part = "metrics" /\ MetricsNext
     \/ part = "drift" /\ DriftNext
     \/ part = "manifests" /\ ManifestsNext
     \/ part = "lifecycle" /\ LifecycleNext
     \/ part = "streams" /\ StreamsNext
     \/ part = "environments" /\ EnvironmentsNext
     \/ part = "procfiles" /\ ProcfilesNext
  /\ UNCHANGED part /\ \A p \in AllParts \ {part} : Still(p)

Spec == Init /\ [][Next]_vars
-----------------------------------------------------------------------------
(* Metrics: the pod's counter, the access log, and midnight with both writers. *)

Spend == [ticks |-> 0, rows |-> 0, pod |-> 0, log |-> 0, days |-> 0, faults |-> 1]
MCBudgets ==
  {[Spend EXCEPT !.ticks = 3, !.pod = 4], [Spend EXCEPT !.rows = 2, !.log = 4],
   [Spend EXCEPT !.ticks = 3, !.rows = 1, !.days = 2]}
-----------------------------------------------------------------------------
(* Drift: every field with a value that changes the container and one that does not. *)

LogsOf(s, n) == [size |-> s, files |-> n]
MCBase ==
  [image |-> "app:1", command |-> <<>>, mode |-> "", network |-> "", networks |-> <<"a", "b">>,
   ports |-> <<>>, restart |-> "", hosts |-> <<"x", "y">>, caps |-> <<"n", "s">>, volumes |-> <<"/d">>,
   env |-> {<<"K", "1">>}, env_from |-> <<>>, ulimits |-> {}, options |-> <<>>, limits |-> "",
   logs |-> LogsOf("", 0), probes |-> "", inits |-> <<>>, autoscale |-> "", on_probe |-> "u1",
   on_deploy |-> "u1", replicas |-> 1, drain |-> "", claims |-> <<"d", "e">>, build_args |-> ""]
MCSettings ==
  [image |-> {"", "app:1", "app:2"}, command |-> {<<>>, <<"run">>}, mode |-> {"", "host", "bogus"},
   network |-> {"", "a"},
   networks |-> {<<>>, <<"a", "b">>, <<"b", "a">>, <<"a", "b", "voodu0">>, <<"a">>},
   ports |-> {<<>>, <<<<"80">>>>, <<<<"lo", "", "80">>>>, <<<<"8080", "80">>>>, <<<<"any", "8080", "80">>>>},
   restart |-> {"", "unless-stopped", "no"}, hosts |-> {<<"x", "y">>, <<"y", "x">>, <<"x">>},
   caps |-> {<<"n", "s">>, <<"s", "n">>, <<"s">>}, volumes |-> {<<"/d">>, <<AssetMount>>},
   env |-> {{<<"K", "1">>}, {<<"VOODU_NAME", "me">>}}, env_from |-> {<<>>, <<"shared">>, <<"gone">>, <<"gone", "shared">>},
   ulimits |-> {{}, {<<"nofile", "1:1">>}, {<<"nofile", "65536:65536">>}}, options |-> {<<>>, <<"--init">>},
   limits |-> {"", "500m", "0.5", "bad"}, logs |-> {LogsOf("", 0), LogsOf("10m", 3), LogsOf("5m", 1)},
   probes |-> {"", "http"}, inits |-> {<<>>, <<"migrate">>}, autoscale |-> {"", "1-3"},
   on_probe |-> {"u1", "u2", "file"}, on_deploy |-> {"u1", "u2", "file"},
   replicas |-> {1, 2}, drain |-> {"", "10s"}, claims |-> {<<"d", "e">>, <<"e", "d">>, <<"d">>},
   build_args |-> {"", "V=1"}]
-----------------------------------------------------------------------------
(* Manifests: every check of every kind of block, and duplicates of all of them. *)

Hook(u, m, b, f) == [url |-> u, method |-> m, body |-> b, file |-> f]
Act(k, c) == [kind |-> k, complete |-> c]
Scale(a, b, c) == [min |-> a, max |-> b, cpu |-> c]
InitOf(n, c, r) == [name |-> n, command |-> c, retries |-> r]
MCPlain ==
  [image |-> "i", build |-> {}, replicas |-> 0, autoscale |-> {}, cmd |-> <<Lit("x")>>, env_from |-> {}, limits |-> "",
   on_deploy |-> {}, on_probe |-> {}, probes |-> {}, inits |-> << >>, drain |-> "", logs |-> [size |-> "", files |-> 0],
   nested |-> {}, host |-> "h", tls |-> "none", schedule |-> "* * * * *",
   url |-> "u", user |-> "me", token |-> "t", helper |-> "", source |-> "inline"]
MCHooks == {{}, {Hook("u", "", FALSE, "asset")}, {Hook("", "", FALSE, "")}, {Hook("u", "GET", TRUE, "")},
            {Hook("u", "PUT", TRUE, "asset")}, {Hook("u", "", FALSE, "plain")}}
MCFields ==
  [image |-> {"", "i"}, build |-> {{}, {""}, {"ctx"}}, replicas |-> {0, 2},
   autoscale |-> {{}, {Scale(1, 3, 80)}, {Scale(0, 3, 80)}, {Scale(3, 2, 80)}, {Scale(1, 2, 101)}},
   cmd |-> {<<Lit("x")>>, <<Var("UNSET", NoDefault)>>, <<Var("UNSET", << >>), Ref("asset")>>,
            <<Var("SET", <<Lit("d")>>), Lit("x")>>, <<Var("REF", NoDefault)>>, <<Var("VAR", NoDefault)>>},
   env_from |-> {{}, {"shared"}}, limits |-> {"", "500m"}, on_deploy |-> MCHooks, on_probe |-> MCHooks,
   probes |-> {{}, {{Act("http", TRUE)}}, {{Act("http", TRUE), Act("tcp", TRUE)}}, {{}}, {{Act("exec", FALSE)}}},
   inits |-> {<< >>, <<InitOf("a", TRUE, 0)>>, <<InitOf("a", TRUE, 0), InitOf("a", TRUE, 1)>>,
              <<InitOf("a", FALSE, 0)>>, <<InitOf("a", TRUE, 6)>>},
   drain |-> {"", "10s", "soon"}, logs |-> {[size |-> "", files |-> 0], [size |-> "5m", files |-> 0]},
   nested |-> {{}, {"hep3"}}, host |-> {"h", ""}, tls |-> {"none", "bare", "off"},
   user |-> {"me", ""}, token |-> {"t", ""}, helper |-> {"", "ecr-login", "ecr"},
   source |-> {"inline", "file", "url", "gone"}]
MCLabels == {<<"s", "n">>, <<"n">>, <<"s", "">>, << >>}
MCShell == {<<"SET", <<Lit("v")>>>>, <<"REF", <<Ref("asset")>>>>, <<"VAR", <<Var("SET", NoDefault)>>>>}
-----------------------------------------------------------------------------
(* Lifecycle: both planes.                                                    *)

MCPlanes == <<"http", "pat">>
-----------------------------------------------------------------------------
(* Environments: a resource alone with its bucket, with shared buckets, and     *)
(* in one file with another.                                                   *)

Written(from, blocks, env, envfile, uses) ==
  [from |-> from, blocks |-> blocks, env |-> env, envfile |-> envfile, uses |-> uses]
MCAuthored ==
  {Written(<< >>, <<Me>>, NoVars, NoVars, {"k"}), Written(<< >>, <<Me>>, "k" :> "fixed", "k" :> "file", {}),
   Written(<<<<"s", "shared">>>>, <<Me>>, NoVars, NoVars, {"k"}),
   Written(<<<<"s", "shared">>, <<"t", "shared">>>>, <<Me>>, NoVars, NoVars, {"k"}),
   Written(<<<<"", "shared">>>>, <<Me, <<"s", "other">>>>, NoVars, "l" :> "file", {"k"})}
MCPayloads == {"k" :> "a", "k" :> "two lines", "k" :> "b" @@ "l" :> "a"}
MCShells == {NoVars}
-----------------------------------------------------------------------------
(* Procfiles: twins in another case, a release line, braced text; and what an *)
(* operator writes in either language. *)
ProcLine(t, c) == [type |-> t, cmd |-> c]
Route(h, p, s) == [host |-> h, port |-> p, service |-> s]
MCProcfiles == {<<ProcLine("release", "plain"), ProcLine("web", "plain"), ProcLine("worker", "plain")>>,
                <<ProcLine("worker", "braced"), ProcLine("web", "plain")>>,
                <<ProcLine("web", "plain"), ProcLine("Web", "plain")>>}
MCRoutings == {[t \in {"web"} |-> Route("plain", 0, "")], [t \in {"web"} |-> Route("braced", 0, "")],
               [t \in {"web", "worker"} |-> IF t = "web" THEN Route("plain", 9000, "") ELSE Route("other", 0, "api")],
               [t \in {"web"} |-> Route("", 0, "")], [t \in {"release"} |-> Route("plain", 0, "")]}

\* What an operator writes becomes what it says, or nothing: HCL (see Manifests),
\* and a Procfile with its app.json (see Procfiles).
WrittenTrue == ManifestsTrue /\ ProcfilesTrue
=============================================================================
