----------------------------- MODULE Procfiles -----------------------------
(* Procfile projects (internal/procfile, cmd/cli/procfile.go, and the server's *)
(* half in receive_pack_procfile.go): lines and .voodu/app.json become         *)
(* manifests on the server, or, ejected, an HCL file the operator applies.     *)
(* A command or a host is "plain", or "braced": it holds a ${VAR}.             *)
EXTENDS Integers, FiniteSets, Sequences

CONSTANTS
  Procfiles,    \* contents a Procfile may have: sequences of [type, cmd]
  Routings,     \* what app.json may declare: functions from process types to entries
  AppFlags,     \* scopes an operator may name with --app
  ScopeVars,    \* scopes whose config has the variable a host names
  ClientHasVar, \* whether the client's environment has the variables of braced text
  BasePort,
  MaxProcEdits, MaxProcApplies  \* bounds: edits, applies and ejects

Auto == 0       \* a port app.json does not give
NoScope == 0
RandomScopes == 1 .. 2 * MaxProcApplies + 1  \* --app names others

ASSUME ProcfilesAssumption ==
  /\ ClientHasVar \in BOOLEAN /\ {BasePort, MaxProcEdits, MaxProcApplies} \subseteq Nat
  /\ AppFlags \cap ({NoScope} \cup RandomScopes) = {} /\ BasePort > Auto

VARIABLES
  lines,     \* the Procfile: << >> when there is none
  app,       \* app.json: "absent", "broken" or "whole", with its scope and routing
  ejected,   \* the file the last eject wrote, its scope and blocks: no blocks when there is none
  upstream,  \* manifests in the controller's store, by scope
  linked,    \* the scope the project was applied to last
  declared,  \* the routing the operator wrote last
  unlinked,  \* whether the link was lost: it could not be written, or was changed by hand
  strayed,   \* whether a plain apply went to another scope than the last
  latestDone,\* what the last apply left: "procfile" with its scope, or nothing to compare
  procEdits, procApplies  \* bounds

procfilesVars == <<lines, app, ejected, upstream, linked, declared, unlinked, strayed, latestDone,
                   procEdits, procApplies>>

NoRouting == << >>
Linked(s, routing) == [st |-> "whole", scope |-> s, routing |-> routing]
NotRead(st) == [st |-> st, scope |-> NoScope, routing |-> NoRouting]
NothingDone == [by |-> "none", scope |-> NoScope]

ProcfilesInit ==
  /\ lines \in Procfiles /\ app = NotRead("absent") /\ upstream = {}
  /\ ejected = [scope |-> NoScope, blocks |-> {}]
  /\ linked = NoScope /\ declared = NoRouting /\ unlinked = FALSE /\ strayed = FALSE
  /\ latestDone = NothingDone /\ procEdits = 0 /\ procApplies = 0
-----------------------------------------------------------------------------
(* Lines to manifests.                                                        *)

IsRelease(p) == p.type \in {"release", "Release"}
Twins == {<<"release", "Release">>, <<"Release", "release">>, <<"web", "Web">>, <<"Web", "web">>}
SameType(s, t) == s = t \/ <<s, t>> \in Twins
\* Parse: no invalid type or empty command, no type twice in any case. (An empty
\* file is refused as a line without a type is.)
Parses(ps) ==
  /\ \A i \in DOMAIN ps : ps[i].type # "" /\ ps[i].cmd # ""
  /\ \A i, j \in DOMAIN ps : SameType(ps[i].type, ps[j].type) => i = j

Pinned(p, routing) == p.type \in DOMAIN routing /\ routing[p.type].port # Auto
\* Variant: a release line takes a port of the row too.
PortTakenByAll(ps, routing, i) ==
  IF Pinned(ps[i], routing) THEN routing[ps[i].type].port ELSE BasePort + i - 1
\* ToManifests: a pinned port, or the next of the row.
PortOf(ps, routing, i) ==
  IF Pinned(ps[i], routing) THEN routing[ps[i].type].port
  ELSE BasePort + Cardinality({j \in 1 .. i - 1 : ~IsRelease(ps[j]) /\ ~Pinned(ps[j], routing)})
\* ToHCL: the next of the row.
EjectedPortOf(ps, i) == BasePort + Cardinality({j \in 1 .. i - 1 : ~IsRelease(ps[j])})

Job(s, p) == [kind |-> "job", scope |-> s, name |-> p.type, cmd |-> p.cmd, port |-> Auto]
Deployment(s, p, port) == [kind |-> "deployment", scope |-> s, name |-> p.type, cmd |-> p.cmd, port |-> port]
\* AppIngress.toSpec: service and port default to the process that has the entry.
Ingress(s, t, e, port) ==
  [kind |-> "ingress", scope |-> s, name |-> t, host |-> e.host,
   service |-> IF e.service = "" THEN t ELSE e.service, port |-> IF e.port = Auto THEN port ELSE e.port]

Index(ps, t) == CHOOSE i \in DOMAIN ps : ps[i].type = t
\* An entry needs a long-running process of its name, and a host.
Routable(ps, routing) ==
  \A t \in DOMAIN routing :
    /\ \E i \in DOMAIN ps : ps[i].type = t /\ ~IsRelease(ps[i])
    /\ routing[t].host # ""
ManifestsOf(s, ps, routing, port) ==
  {IF IsRelease(ps[i]) THEN Job(s, ps[i]) ELSE Deployment(s, ps[i], port[i]) : i \in DOMAIN ps}
  \cup {Ingress(s, t, routing[t], port[Index(ps, t)]) : t \in DOMAIN routing}

ToManifests(s, ps, routing) == ManifestsOf(s, ps, routing, [i \in DOMAIN ps |-> PortOf(ps, routing, i)])
\* ToHCL writes blocks of the same fields; a missing host is not looked at.
ToHCL(s, ps, routing) == ManifestsOf(s, ps, routing, [i \in DOMAIN ps |-> EjectedPortOf(ps, i)])
Ejectable(ps, routing) ==
  \A t \in DOMAIN routing : \E i \in DOMAIN ps : ps[i].type = t /\ ~IsRelease(ps[i])

\* Interpolate runs over the text of a manifest file before HCL does, and takes
\* the ${VAR} inside an escaped $${VAR} for its own.
Braced(m) == (m.kind # "ingress" /\ m.cmd = "braced") \/ (m.kind = "ingress" /\ m.host = "braced")
Readable(blocks) == \A m \in blocks : Braced(m) => ClientHasVar
ReadBlock(m) == IF ~Braced(m) THEN m
                ELSE IF m.kind = "ingress" THEN [m EXCEPT !.host = "spoiled"] ELSE [m EXCEPT !.cmd = "spoiled"]
ReadBack(blocks) == {ReadBlock(m) : m \in blocks}
\* The server fills in app.json from the scope's config before it reads it.
Filled(routing) == [t \in DOMAIN routing |->
  IF routing[t].host = "braced" THEN [routing[t] EXCEPT !.host = "filled"] ELSE routing[t]]
Fillable(s, routing) == (\E t \in DOMAIN routing : routing[t].host = "braced") => s \in ScopeVars
-----------------------------------------------------------------------------
(* The project link: .voodu/app.json beside the Procfile.                     *)

HasLink == app.scope # NoScope
RoutingNow == app.routing

\* Variant: the scope is written over the file.
WriteLinkOver(s) == app.st # "broken" /\ app' = Linked(s, NoRouting)
\* writeProjectLink: the scope changes, the routing is kept; a file that cannot
\* be read is not written.
WriteLink(s) == app.st # "broken" /\ app' = Linked(s, RoutingNow)

\* resolveProcfileScope: --app, then the link, then a new random scope. What
\* cannot be written is a warning.
NewScope == CHOOSE n \in RandomScopes : n \notin {m.scope : m \in upstream} \cup {linked, ejected.scope}
Resolve(flag, s) ==
  IF flag # NoScope
  THEN /\ s = flag
       /\ \/ HasLink /\ app.scope = s /\ UNCHANGED <<app, unlinked>>
          \/ ~(HasLink /\ app.scope = s) /\ WriteLink(s) /\ unlinked' = FALSE
          \/ ~(HasLink /\ app.scope = s) /\ unlinked' = TRUE /\ UNCHANGED app
  ELSE IF HasLink THEN s = app.scope /\ UNCHANGED <<app, unlinked>>
  ELSE /\ s = NewScope
       /\ \/ WriteLink(s) /\ unlinked' = FALSE
          \/ unlinked' = TRUE /\ UNCHANGED app

\* POST /apply: what is there is replaced, what is no longer named stays.
Others(ms) == {m \in upstream : ~\E n \in ms : n.kind = m.kind /\ n.scope = m.scope /\ n.name = m.name}
Upsert(ms) == Others(ms) \cup ms

\* checkIngressHostCollisions: no host twice among the manifests, nor held by
\* another ingress of the store.
Upholds(ms) ==
  \A i \in ms, j \in Upsert(ms) :
    (i.kind = "ingress" /\ j.kind = "ingress" /\ i.host = j.host /\ i.host # "") => i = j
Posts(ms) == Upholds(ms) /\ upstream' = Upsert(ms)

Tallied == procApplies < MaxProcApplies /\ procApplies' = procApplies + 1
Strays(flag, s) == strayed' = (strayed \/ (flag = NoScope /\ ~unlinked /\ linked # NoScope /\ s # linked))

\* runProcfileForwarded and runProcfileReceive: everything is read and made
\* before anything is built or posted, and building, or the post, may fail (see Releases).
ApplyProcfile ==
  \E flag \in AppFlags \cup {NoScope}, s \in AppFlags \cup RandomScopes :
    /\ lines # << >> /\ Tallied /\ Resolve(flag, s) /\ Strays(flag, s)
    /\ linked' = s
    /\ \/ /\ app.st # "broken" /\ Parses(lines) /\ Fillable(s, RoutingNow) /\ Routable(lines, RoutingNow)
          /\ Posts(ToManifests(s, lines, Filled(RoutingNow)))
          /\ latestDone' = [by |-> "procfile", scope |-> s]
       \/ UNCHANGED upstream /\ latestDone' = NothingDone
    /\ UNCHANGED <<lines, ejected, declared, procEdits>>

\* runProcfileEject: an app.json that cannot be read counts as one without routes.
Eject ==
  \E flag \in AppFlags \cup {NoScope}, s \in AppFlags \cup RandomScopes :
    /\ lines # << >> /\ Tallied /\ Resolve(flag, s) /\ Strays(flag, s)
    /\ linked' = s
    /\ \/ /\ Parses(lines) /\ Ejectable(lines, RoutingNow)
          /\ ejected' = [scope |-> s, blocks |-> ToHCL(s, lines, RoutingNow)]
       \/ UNCHANGED ejected
    /\ UNCHANGED <<lines, upstream, declared, latestDone, procEdits>>

\* vd apply of the ejected file, by its name or, without a Procfile, as the
\* directory (discoverApplyFiles takes a Procfile first).
ApplyEjected ==
  /\ ejected.blocks # {} /\ Tallied /\ latestDone' = NothingDone
  /\ \/ Readable(ejected.blocks) /\ Posts(ReadBack(ejected.blocks))
     \/ UNCHANGED upstream
  /\ UNCHANGED <<lines, app, ejected, linked, declared, unlinked, strayed, procEdits>>

\* The operator writes another Procfile, another routing, or damages app.json.
EditProcfile ==
  /\ procEdits < MaxProcEdits /\ procEdits' = procEdits + 1 /\ latestDone' = NothingDone
  /\ \/ /\ lines' \in (Procfiles \cup {<< >>}) \ {lines}
        /\ UNCHANGED <<app, declared, unlinked>>
     \/ \E r \in Routings :
          /\ app.st # "broken" /\ app' = Linked(app.scope, r)
          /\ declared' = r /\ UNCHANGED <<lines, unlinked>>
     \/ app' = NotRead("broken") /\ unlinked' = TRUE /\ UNCHANGED <<lines, declared>>
     \/ app.st = "broken" /\ app' = NotRead("absent") /\ declared' = NoRouting /\ UNCHANGED <<lines, unlinked>>
  /\ UNCHANGED <<ejected, upstream, linked, strayed, procApplies>>

ProcfilesNext == ApplyProcfile \/ Eject \/ ApplyEjected \/ EditProcfile
ProcfilesSpec == ProcfilesInit /\ [][ProcfilesNext]_procfilesVars
-----------------------------------------------------------------------------
(* Properties.                                                                *)

\* What is ejected reads back as what an apply would have made, and neither is
\* possible where the other is not. Not so where app.json pins a port, which
\* ToHCL does not look at, where it leaves out a host, or where a ${VAR} is in
\* a command or a host: the escape does not survive the file's interpolation.
Ejects == \E i \in DOMAIN lines : lines[i].cmd = "braced"
EjectSame ==
  (lines # << >> /\ app.st # "broken" /\ Parses(lines)) =>
    LET routing == RoutingNow IN
    \/ Ejects \/ \E t \in DOMAIN routing : routing[t].port # Auto \/ routing[t].host # "plain"
    \/ IF Routable(lines, routing)
       THEN /\ Ejectable(lines, routing)
            /\ ReadBack(ToHCL("s", lines, routing)) = ToManifests("s", lines, routing)
       ELSE ~Ejectable(lines, routing)

\* A project whose link could be written and was not damaged stays in its scope
\* until --app moves it: no second set of pods; and its routing outlives each
\* writing of the link.
SameScope == ~strayed /\ (app.st = "whole" => app.routing = declared)

\* After an apply every declared route leads to the port its process was given,
\* whatever was applied to the scope before; not where the entry names another
\* service, whose port toSpec does not know.
RoutesReach ==
  latestDone.by = "procfile" =>
    \A t \in DOMAIN RoutingNow :
      RoutingNow[t].service = "" =>
        \E i, d \in upstream :
          /\ i.kind = "ingress" /\ d.kind = "deployment" /\ i.name = t /\ d.name = t
          /\ i.scope = latestDone.scope /\ d.scope = latestDone.scope /\ i.port = d.port
          /\ \A m \in upstream : m.kind = i.kind /\ m.name = t /\ m.scope = i.scope => m = i

ProcfilesTrue == EjectSame /\ SameScope /\ RoutesReach
=============================================================================
