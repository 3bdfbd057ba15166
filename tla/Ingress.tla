------------------------------ MODULE Ingress ------------------------------
(* The route of one ingress and the replicas it points at: the ingress        *)
(* handler (handlers_service.go), its retries (reconciler.go), the deployment *)
(* reconcile and the rolling restart that republish the route while they turn *)
(* replicas over (handlers.go), and the outcomes the reconciler records       *)
(* (reconcile_status.go). The replicas' own life is Deployment's; here they   *)
(* come and go by name. The mesh lookup (Remote) is not wired.                *)
EXTENDS Integers, Sequences, FiniteSets

CONSTANTS
  Names,        \* replicas there can ever be at once, and dead ones still routed to
  Retriers,     \* bound: retries sleeping or running at a time
  Fleets,       \* [size, kind]: deployments applied; kind "roll" when the spec changed
  MaxTries,     \* attempts before the reconciler gives up (6 in the code)
  MaxOrders,    \* bound: what operators ask for
  MaxFailures   \* bound: plugin and docker calls that fail

ASSUME IngressAssumption ==
  /\ {"loop", "restart"} \cap Retriers = {}
  /\ MaxTries \in Nat \ {0} /\ {MaxOrders, MaxFailures} \subseteq Nat
  /\ Fleets \subseteq [kind : {"scale", "roll"}, size : Nat \ {0}]

VARIABLES
  declared,  \* the ingress manifest is stored
  want,      \* replicas the stored deployment asks for; 0 for none stored
  queue,     \* watch events the reconciler has not handled
  up,        \* running replicas
  route,     \* what the router has: upstreams, {} for no route
  status,    \* the ingress's status blob: "none", "clean", "broken"
  worker,    \* per goroutine: the call it is in
  orders, failures,
  misled,    \* history: the route was last written from a list out of date, or
             \* beside a delete, or a failure was answered or recorded since
  crossed    \* history: a restart and a reconcile turned replicas over at once

ingressVars == <<declared, want, queue, up, route, status, worker, orders, failures, misled,
                 crossed>>

Workers == {"loop", "restart"} \cup Retriers
Rest == [pc |-> "rest", task |-> "none", try |-> 1, ups |-> {}, todo |-> {},
         size |-> 0, then |-> "end"]

IngressInit ==
  /\ declared = FALSE /\ want = 0 /\ queue = <<>>
  /\ up = {} /\ route = {} /\ status = "none"
  /\ worker = [w \in Workers |-> Rest]
  /\ orders = 0 /\ failures = 0 /\ misled = FALSE /\ crossed = FALSE

Doing(w, pc) == worker[w].pc = pc
Step(w, r) == worker' = [worker EXCEPT ![w] = r]
GoTo(w, pc) == Step(w, [worker[w] EXCEPT !.pc = pc])
Fails == failures < MaxFailures /\ failures' = failures + 1
-----------------------------------------------------------------------------
(* Operators.                                                               *)

Event(k, n) == [kind |-> k, size |-> n]
Order(ev) ==
  /\ orders < MaxOrders /\ orders' = orders + 1
  /\ queue' = Append(queue, ev)
  /\ UNCHANGED <<up, route, status, worker, failures, misled, crossed>>

PutIngress == declared' = TRUE /\ Order(Event("route", 0)) /\ UNCHANGED want
DropIngress == declared /\ declared' = FALSE /\ Order(Event("unroute", 0)) /\ UNCHANGED want
PutDeployment(f) == want' = f.size /\ Order(f) /\ UNCHANGED declared

\* POST /restart: the handler's Restart on the request's goroutine.
AskRestart ==
  /\ want > 0 /\ Doing("restart", "rest") /\ orders < MaxOrders
  /\ orders' = orders + 1
  /\ Step("restart", [Rest EXCEPT !.pc = "fleet", !.task = "restart", !.todo = up])
  /\ UNCHANGED <<declared, want, queue, up, route, status, failures, misled, crossed>>
-----------------------------------------------------------------------------
(* The reconciler: one event at a time; a retry reads the manifest anew.    *)

TakeEvent ==
  /\ Doing("loop", "rest") /\ queue # <<>>
  /\ queue' = Tail(queue)
  /\ LET ev == Head(queue) IN
     Step("loop",
       CASE ev.kind = "route" -> [Rest EXCEPT !.pc = "resolve", !.task = "ingress"]
         [] ev.kind = "unroute" -> [Rest EXCEPT !.pc = "unroute", !.task = "ingress"]
         [] OTHER -> [Rest EXCEPT !.pc = "fleet", !.task = "deployment", !.size = ev.size,
                                  !.todo = IF ev.kind = "roll" THEN up ELSE {}])
  /\ UNCHANGED <<declared, want, up, route, status, orders, failures, misled, crossed>>

\* The sleep is over; a manifest deleted meanwhile ends the retry.
Wake(w) ==
  /\ w \in Retriers /\ Doing(w, "asleep")
  /\ IF worker[w].task = "ingress"
     THEN Step(w, IF declared THEN [worker[w] EXCEPT !.pc = "resolve"] ELSE Rest)
     ELSE Step(w, [worker[w] EXCEPT !.pc = "fleet", !.size = want])
  /\ UNCHANGED <<declared, want, queue, up, route, status, orders, failures, misled, crossed>>

\* A transient error with attempts left becomes a retry, any other outcome is
\* recorded; a restart answers its caller.
End(w, res) == LET me == worker[w] IN
  IF me.task = "restart" THEN Step(w, Rest)
  ELSE IF res = "transient" /\ me.try < MaxTries
       THEN LET again == [Rest EXCEPT !.pc = "asleep", !.task = me.task, !.try = me.try + 1]
            IN IF w \in Retriers THEN Step(w, again)
               ELSE \E r \in Retriers :
                      /\ Doing(r, "rest")
                      /\ worker' = [worker EXCEPT ![w] = Rest, ![r] = again]
       ELSE Step(w, [me EXCEPT !.pc = "outcome",
                               !.then = IF res = "ok" THEN "clean" ELSE "broken"])

\* retriggerDependentIngresses: the ingress is put again unless its blob is clean.
Retriggered == IF declared /\ status # "clean" THEN Append(queue, Event("route", 0)) ELSE queue

\* persistReconcileOutcome: of an ingress it leaves a blob behind in any case, of
\* a delete too; of a deployment that went well it puts broken ingresses again.
Outcome(w) ==
  /\ Doing(w, "outcome") /\ Step(w, Rest)
  /\ IF worker[w].task = "ingress"
     THEN status' = worker[w].then /\ UNCHANGED <<queue, misled>>
     ELSE /\ misled' = (misled \/ worker[w].then = "broken")
          /\ queue' = IF worker[w].then = "clean" THEN Retriggered ELSE queue
          /\ UNCHANGED status
  /\ UNCHANGED <<declared, want, up, route, orders, failures, crossed>>
-----------------------------------------------------------------------------
(* Applying the ingress: for its own event, or as part of a republish.      *)

\* What follows the apply: a replica to retire, or the end of the task.
After(w, res) ==
  IF worker[w].then = "retire" THEN GoTo(w, "retire") ELSE End(w, res)

\* resolveUpstream: the stored deployment, then its running containers.
Resolve(w) ==
  /\ Doing(w, "resolve")
  /\ IF want = 0 \/ up = {} THEN After(w, "transient")
     ELSE Step(w, [worker[w] EXCEPT !.pc = "invoke", !.ups = up])
  /\ misled' = (misled \/ (worker[w].task # "ingress" /\ up = {}))
  /\ UNCHANGED <<declared, want, queue, up, route, status, orders, failures, crossed>>

\* The plugin's error is permanent.
Invoke(w) ==
  /\ Doing(w, "invoke")
  /\ \/ /\ route' = worker[w].ups
        /\ misled' = (worker[w].ups # up \/ ~declared)
        /\ GoTo(w, "note") /\ UNCHANGED failures
     \/ /\ Fails /\ After(w, "failed")
        /\ misled' = TRUE /\ UNCHANGED route
  /\ UNCHANGED <<declared, want, queue, up, status, orders, crossed>>

Note(w) ==
  /\ Doing(w, "note")
  /\ status' = "clean" /\ After(w, "ok")
  /\ UNCHANGED <<declared, want, queue, up, route, orders, failures, misled, crossed>>

\* remove: without a blob there is nothing to take away.
Unroute(w) ==
  /\ Doing(w, "unroute")
  /\ \/ route' = (IF status = "none" THEN route ELSE {}) /\ status' = "none"
        /\ End(w, "ok") /\ UNCHANGED failures
        /\ misled' = (misled \/ \E v \in Workers \ {w} : worker[v].pc \in {"invoke", "note"})
     \/ status # "none" /\ Fails /\ End(w, "failed") /\ misled' = TRUE
        /\ UNCHANGED <<route, status>>
  /\ UNCHANGED <<declared, want, queue, up, orders, crossed>>
-----------------------------------------------------------------------------
(* Replicas turn over. A replacement is published before the replica it       *)
(* replaces is retired; that publish may fail, the last one not.              *)

\* Nothing keeps a restart and a reconcile of the deployment apart.
Crossed(w) == \E v \in Workers \ {w} :
  worker[v].task \in {"deployment", "restart"} /\ worker[v].pc \notin {"rest", "asleep"}
Unused == Names \ (up \cup route \cup UNION {worker[w].ups : w \in Workers})
\* Which of several replicas is taken makes no difference to the route.
AnyOf(ns) == IF ns = {} THEN {} ELSE {CHOOSE n \in ns : TRUE}
Publish(w, then) ==
  IF up' = {} \/ ~declared
  THEN IF then = "retire" THEN Step(w, [worker[w] EXCEPT !.pc = "retire", !.then = then])
       ELSE Step(w, [worker[w] EXCEPT !.then = then, !.pc = "fleetEnd"])
  ELSE Step(w, [worker[w] EXCEPT !.pc = "resolve", !.then = then])

\* The reconcile counts before it rolls; a restart does not count.
Miscounted(me) == me.task = "deployment" /\ Cardinality(up) # me.size

\* Variant: the replica is retired before its replacement is published.
FleetRetiresFirst(w) ==
  LET me == worker[w] IN
  /\ Doing(w, "fleet")
  /\ CASE Miscounted(me) /\ Cardinality(up) < me.size ->
            \/ \E n \in AnyOf(Unused) : up' = up \cup {n} /\ Step(w, me) /\ UNCHANGED failures
            \/ Fails /\ End(w, "failed") /\ UNCHANGED up
       [] Miscounted(me) /\ Cardinality(up) > me.size ->
            \E n \in AnyOf(up) : up' = up \ {n} /\ Step(w, [me EXCEPT !.todo = @ \ {n}])
                          /\ UNCHANGED failures
       [] ~Miscounted(me) /\ me.todo # {} ->
            \/ \E n \in AnyOf(Unused) : up' = up \cup {n} /\ Step(w, [me EXCEPT !.pc = "retire"])
                                 /\ UNCHANGED failures
            \/ Fails /\ End(w, "failed") /\ UNCHANGED up
       [] OTHER -> UNCHANGED <<up, failures>> /\ Publish(w, "end")
  /\ misled' = (misled \/ failures' # failures)
  /\ crossed' = (crossed \/ Crossed(w))
  /\ UNCHANGED <<declared, want, queue, route, status, orders>>

\* Variant: the route is not published when the fleet has settled.
FleetUnpublished(w) ==
  LET me == worker[w] IN
  /\ Doing(w, "fleet")
  /\ CASE Miscounted(me) /\ Cardinality(up) < me.size ->
            \/ \E n \in AnyOf(Unused) : up' = up \cup {n} /\ Step(w, me) /\ UNCHANGED failures
            \/ Fails /\ End(w, "failed") /\ UNCHANGED up
       [] Miscounted(me) /\ Cardinality(up) > me.size ->
            \E n \in AnyOf(up) : up' = up \ {n} /\ Step(w, [me EXCEPT !.todo = @ \ {n}])
                          /\ UNCHANGED failures
       [] ~Miscounted(me) /\ me.todo # {} ->
            \/ \E n \in AnyOf(Unused) : up' = up \cup {n} /\ Publish(w, "retire")
                                 /\ UNCHANGED failures
            \/ Fails /\ End(w, "failed") /\ UNCHANGED up
       [] OTHER -> UNCHANGED <<up, failures>> /\ GoTo(w, "fleetEnd")
  /\ misled' = (misled \/ failures' # failures)
  /\ crossed' = (crossed \/ Crossed(w))
  /\ UNCHANGED <<declared, want, queue, route, status, orders>>

\* Scaling, then one replica of the old spec after the other, then the route.
Fleet(w) ==
  LET me == worker[w] IN
  /\ Doing(w, "fleet")
  /\ CASE Miscounted(me) /\ Cardinality(up) < me.size ->
            \/ \E n \in AnyOf(Unused) : up' = up \cup {n} /\ Step(w, me) /\ UNCHANGED failures
            \/ Fails /\ End(w, "failed") /\ UNCHANGED up
       [] Miscounted(me) /\ Cardinality(up) > me.size ->
            \E n \in AnyOf(up) : up' = up \ {n} /\ Step(w, [me EXCEPT !.todo = @ \ {n}])
                          /\ UNCHANGED failures
       [] ~Miscounted(me) /\ me.todo # {} ->
            \/ \E n \in AnyOf(Unused) : up' = up \cup {n} /\ Publish(w, "retire")
                                 /\ UNCHANGED failures
            \/ Fails /\ End(w, "failed") /\ UNCHANGED up
       [] OTHER -> UNCHANGED <<up, failures>> /\ Publish(w, "end")
  /\ misled' = (misled \/ failures' # failures)
  /\ crossed' = (crossed \/ Crossed(w))
  /\ UNCHANGED <<declared, want, queue, route, status, orders>>

FleetEnd(w) ==
  /\ Doing(w, "fleetEnd") /\ End(w, "ok")
  /\ UNCHANGED <<declared, want, queue, up, route, status, orders, failures, misled, crossed>>

Retire(w) ==
  /\ Doing(w, "retire")
  /\ \E n \in AnyOf(worker[w].todo) :
       /\ up' = up \ {n}
       /\ Step(w, [worker[w] EXCEPT !.pc = "fleet", !.todo = @ \ {n}, !.ups = {}])
  /\ crossed' = (crossed \/ Crossed(w))
  /\ UNCHANGED <<declared, want, queue, route, status, orders, failures, misled>>
-----------------------------------------------------------------------------
IngressNext ==
  \/ PutIngress \/ DropIngress \/ AskRestart \/ TakeEvent
  \/ \E f \in Fleets : PutDeployment(f)
  \/ \E w \in Workers : Wake(w) \/ Outcome(w) \/ Resolve(w) \/ Invoke(w) \/ Note(w)
                        \/ Unroute(w) \/ Fleet(w) \/ FleetEnd(w) \/ Retire(w)

IngressSpec == IngressInit /\ [][IngressNext]_ingressVars
-----------------------------------------------------------------------------
AtRest == queue = <<>> /\ \A w \in Workers : Doing(w, "rest")

\* With nothing under way the route is the replicas that run: through ingresses
\* applied before there is a replica to route to, retries that give up, rolls
\* and scaling, deletes and the ghost blob they leave; unless a failure was
\* reported since, or a goroutine's list of replicas went out of date before it
\* reached the plugin.
RouteFollows ==
  AtRest /\ ~misled =>
    IF declared THEN up # {} => route = up ELSE route = {}

Unrouting == Doing("loop", "unroute") \/ \E i \in DOMAIN queue : queue[i].kind = "unroute"

\* A rolling replace never leaves the router with dead replicas only: the
\* replacement is in the route before the replica it replaces is retired.
RollKeepsRoute ==
  route # {} /\ ~misled /\ ~crossed /\ ~Unrouting => route \cap up # {}

\* The route is the running replicas at rest, and never only dead ones.
RoutesTrue == RouteFollows /\ RollKeepsRoute
=============================================================================
