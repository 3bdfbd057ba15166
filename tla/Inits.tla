-------------------------------- MODULE Inits --------------------------------
(* Init containers of one deployment (init_containers.go and its callers in   *)
(* handlers.go): every replica's chain runs step by step, with retries, before *)
(* its main container, beside a Restart that does the same. The last attempt  *)
(* that exits with an error leaves its container, which carries the           *)
(* deployment's labels. Releases, env files, images and frozen replicas are   *)
(* in Deployment and Statefulset.                                             *)
EXTENDS Integers, Sequences, FiniteSets

CONSTANTS
  InitManifests,  \* [spec, want]
  Steps,          \* [specs -> number of init containers]
  Tries,          \* [specs -> attempts of each, 1 + retries]
  InitsSurge,     \* canSurge: no pinned host port
  RingSize,       \* maxInitFailures
  NoName,
  MaxReplicas, MaxAsks, MaxHurts   \* bounds: replica ids, applies and restarts, failures

ASSUME InitsAssumption ==
  /\ \A m \in InitManifests : m.spec \in DOMAIN Steps \cap DOMAIN Tries /\ m.want \in Nat
  /\ \A s \in DOMAIN Steps : Steps[s] \in Nat
  /\ \A s \in DOMAIN Tries : Tries[s] \in Nat \ {0}
  /\ RingSize \in Nat \ {0} /\ {MaxReplicas, MaxAsks, MaxHurts} \subseteq Nat

VARIABLES
  wished,      \* the stored manifest
  waking,     \* the loop has an event of it
  ctrs,       \* containers by name: [[id, step] -> [spec, passed, up]], step 0 the main one
  ring,       \* status.InitFailures: <<[id, step]>>
  stamped,    \* status.SpecHash, 0 for none
  known,       \* there is a status
  refused,    \* the last outcome of the loop is an error
  doer,     \* ["loop", "http" -> a handler under way]
  ids, asks, hurts

initsVars == <<wished, waking, ctrs, ring, stamped, known, refused, doer, ids, asks, hurts>>

\* done: the steps of the chain that succeeded.
Off == [pc |-> "off", m |-> [spec |-> 0, want |-> 0], live |-> {}, made |-> {}, todo |-> {},
        old |-> NoName, id |-> 0, step |-> 0, try |-> 1, done |-> 0, back |-> "scale"]
InitsInit ==
  /\ wished = [spec |-> 0, want |-> 0] /\ waking = FALSE /\ ctrs = <<>> /\ ring = <<>>
  /\ stamped = 0 /\ known = FALSE /\ refused = FALSE
  /\ doer = [w \in {"loop", "http"} |-> Off] /\ ids = 0 /\ asks = 0 /\ hurts = 0

Name(id, step) == [id |-> id, step |-> step]
Mains == {n \in DOMAIN ctrs : n.step = 0}
WorkerAt(w, pc) == doer[w].pc = pc
Becomes(w, r) == doer' = [doer EXCEPT ![w] = r]
Hurt == hurts < MaxHurts /\ hurts' = hurts + 1

\* The handler returns; the loop records what it returned.
Return(w, err) == Becomes(w, Off) /\ refused' = IF w = "loop" THEN err ELSE refused

Added(n, c) == ctrs' = [x \in DOMAIN ctrs \cup {n} |-> IF x = n THEN c ELSE ctrs[x]]
Taken(ns) == ctrs' = [x \in DOMAIN ctrs \ ns |-> ctrs[x]]
-----------------------------------------------------------------------------
AskApply(m) ==
  /\ asks < MaxAsks /\ asks' = asks + 1
  /\ wished' = m /\ waking' = TRUE
  /\ UNCHANGED <<ctrs, ring, stamped, known, refused, doer, ids, hurts>>

\* ListByIdentity goes by kind, scope and name: init containers are listed too.
Wake ==
  /\ WorkerAt("loop", "off") /\ waking /\ waking' = FALSE
  /\ Becomes("loop", [Off EXCEPT !.pc = "scale", !.m = wished, !.live = DOMAIN ctrs])
  /\ UNCHANGED <<wished, ctrs, ring, stamped, known, refused, ids, asks, hurts>>

\* Restart, which rolls whatever is listed and stamps nothing.
AskRestart ==
  /\ WorkerAt("http", "off") /\ ctrs # <<>> /\ asks < MaxAsks /\ asks' = asks + 1
  /\ Becomes("http", [Off EXCEPT !.pc = "roll", !.m = wished, !.todo = DOMAIN ctrs])
  /\ UNCHANGED <<wished, waking, ctrs, ring, stamped, known, refused, ids, hurts>>

\* A fresh id for a replica, whose chain begins; old is the one it replaces.
Begins(w, r, old, back) ==
  /\ ids < MaxReplicas /\ ids' = ids + 1
  /\ Becomes(w, [r EXCEPT !.pc = "chain", !.id = ids', !.step = 1, !.try = 1, !.done = 0, !.old = old, !.back = back])

\* ensureReplicaCount; the count of the listing decides what is missing.
ScaleUpOne(w) ==
  LET r == doer[w] IN
  /\ WorkerAt(w, "scale")
  /\ IF Cardinality(r.live) + Cardinality(r.made) < r.m.want THEN Begins(w, r, NoName, "scale")
     ELSE Becomes(w, [r EXCEPT !.pc = "prune"]) /\ UNCHANGED ids
  /\ UNCHANGED <<wished, waking, ctrs, ring, stamped, known, refused, asks, hurts>>

\* "scope-name-init-..." sorts before "scope-name.id".
Earlier(a, b) ==
  \/ a.step > 0 /\ b.step = 0
  \/ (a.step > 0) = (b.step > 0) /\ (a.id < b.id \/ (a.id = b.id /\ a.step < b.step))

\* pruneExtraReplicas keeps the first names, then what was made is stamped.
PruneExtras(w) ==
  LET r == doer[w]
      keep == {n \in r.live : Cardinality({o \in r.live : Earlier(o, n)}) < r.m.want} IN
  /\ WorkerAt(w, "prune")
  /\ Taken(IF Cardinality(r.live) > r.m.want THEN r.live \ keep ELSE {})
  /\ stamped' = (IF r.made # {} THEN r.m.spec ELSE stamped) /\ known' = (known \/ r.made # {})
  /\ Becomes(w, [r EXCEPT !.pc = "drift"])
  /\ UNCHANGED <<wished, waking, ring, refused, ids, asks, hurts>>

\* recreateReplicasIfSpecChanged on what is listed by now and was not just made.
LookForDrift(w) ==
  LET r == doer[w] IN
  /\ WorkerAt(w, "drift")
  /\ IF known /\ stamped # r.m.spec
     THEN /\ Becomes(w, [r EXCEPT !.pc = "roll", !.todo = DOMAIN ctrs \ r.made])
          /\ UNCHANGED <<stamped, refused>>
     ELSE /\ Return(w, FALSE) /\ stamped' = IF known THEN stamped ELSE r.m.spec
  /\ known' = TRUE
  /\ UNCHANGED <<wished, waking, ctrs, ring, ids, asks, hurts>>

\* rollingReplaceReplicas: the next of the listing; without surge it goes first.
RollOne(w) ==
  LET r == doer[w] IN
  /\ WorkerAt(w, "roll")
  /\ \/ \E n \in r.todo :
          /\ Begins(w, [r EXCEPT !.todo = @ \ {n}], n, "retire")
          /\ Taken(IF InitsSurge THEN {} ELSE {n}) /\ UNCHANGED <<stamped, refused>>
     \/ /\ r.todo = {} /\ Return(w, FALSE) /\ UNCHANGED <<ctrs, ids>>
        /\ stamped' = IF w = "loop" THEN r.m.spec ELSE stamped
  /\ UNCHANGED <<wished, waking, ring, known, asks, hurts>>

RetireOld(w) ==
  LET r == doer[w] IN
  /\ WorkerAt(w, "retire")
  /\ Taken({r.old}) /\ Becomes(w, [r EXCEPT !.pc = "roll"])
  /\ UNCHANGED <<wished, waking, ring, stamped, known, refused, ids, asks, hurts>>
-----------------------------------------------------------------------------
\* runOne creates the step's container anew.
RunOne(w) ==
  LET r == doer[w] IN
  /\ WorkerAt(w, "chain") /\ r.step <= Steps[r.m.spec]
  /\ Added(Name(r.id, r.step), [spec |-> r.m.spec, passed |-> 0, up |-> TRUE])
  /\ Becomes(w, [r EXCEPT !.pc = "wait"])
  /\ UNCHANGED <<wished, waking, ring, stamped, known, refused, ids, asks, hurts>>

\* It exits 0 and is removed; or the loop is woken by its end or by the timeout.
StepDone(w) ==
  LET r == doer[w] IN
  /\ WorkerAt(w, "wait") /\ Name(r.id, r.step) \in DOMAIN ctrs /\ Taken({Name(r.id, r.step)})
  /\ Becomes(w, [r EXCEPT !.pc = "chain", !.step = @ + 1, !.try = 1, !.done = @ + 1])
  /\ UNCHANGED <<wished, waking, ring, stamped, known, refused, ids, asks, hurts>>

\* Variant: what follows a failed step runs nevertheless.
GiveUpAndGoOn(w, r) ==
  /\ ring' = Append(ring, Name(r.id, r.step)) /\ known' = TRUE
  /\ Becomes(w, [r EXCEPT !.pc = "chain", !.step = @ + 1, !.try = 1]) /\ UNCHANGED refused

\* RecordInitFailure, and the error ends the handler.
GiveUp(w, r) ==
  /\ ring' = LET all == Append(ring, Name(r.id, r.step))
                 n == Len(all)
             IN IF n > RingSize THEN SubSeq(all, n - RingSize + 1, n) ELSE all
  /\ known' = TRUE /\ Return(w, TRUE)

\* The step fails: on spawning, in its program, whose container stays, or by the
\* timeout. The next attempt, if there is one, starts clean.
StepFails(w, how) ==
  LET r == doer[w]
      n == Name(r.id, r.step) IN
  /\ Hurt
  /\ \/ how = "spawn" /\ WorkerAt(w, "chain") /\ r.step <= Steps[r.m.spec] /\ Taken({n})
     \/ how = "exit" /\ WorkerAt(w, "wait") /\ n \in DOMAIN ctrs /\ ctrs' = [ctrs EXCEPT ![n].up = FALSE]
     \/ how = "exit" /\ WorkerAt(w, "wait") /\ n \notin DOMAIN ctrs /\ UNCHANGED ctrs
     \/ how = "timeout" /\ WorkerAt(w, "wait") /\ Taken({n})
  /\ IF r.try < Tries[r.m.spec]
     THEN Becomes(w, [r EXCEPT !.pc = "chain", !.try = @ + 1]) /\ UNCHANGED <<ring, known, refused>>
     ELSE GiveUp(w, r)
  /\ UNCHANGED <<wished, waking, stamped, ids, asks>>

\* ClearInitFailures writes nothing when there is nothing to drop.
Cleared(id) ==
  IF \A i \in DOMAIN ring : ring[i].id # id THEN ring ELSE SelectSeq(ring, LAMBDA f : f.id # id)

\* The chain is through: what was recorded of this replica is dropped, and its
\* main container is started, or the handler ends with docker's error.
StartMain(w) ==
  LET r == doer[w] IN
  /\ WorkerAt(w, "chain") /\ r.step > Steps[r.m.spec]
  /\ ring' = IF Steps[r.m.spec] = 0 THEN ring ELSE Cleared(r.id)
  /\ \/ /\ Added(Name(r.id, 0), [spec |-> r.m.spec, passed |-> r.done, up |-> TRUE])
        /\ Becomes(w, [r EXCEPT !.pc = r.back, !.made = @ \cup {Name(r.id, 0)}])
        /\ UNCHANGED <<refused, hurts>>
     \/ Hurt /\ Return(w, TRUE) /\ UNCHANGED ctrs
  /\ UNCHANGED <<wished, waking, stamped, known, ids, asks>>

\* The controller stops and replays; the programs of its containers end.
StopController ==
  /\ Hurt /\ doer' = [w \in {"loop", "http"} |-> Off]
  /\ ctrs' = [n \in DOMAIN ctrs |-> [ctrs[n] EXCEPT !.up = n.step = 0]]
  /\ waking' = (wished.spec # 0)
  /\ UNCHANGED <<wished, ring, stamped, known, refused, ids, asks>>

InitsNext ==
  \/ \E m \in InitManifests : AskApply(m)
  \/ Wake \/ AskRestart \/ StopController
  \/ \E w \in {"loop", "http"} :
       \/ ScaleUpOne(w) \/ PruneExtras(w) \/ LookForDrift(w) \/ RollOne(w) \/ RetireOld(w)
       \/ RunOne(w) \/ StepDone(w) \/ StartMain(w)
       \/ \E how \in {"spawn", "exit", "timeout"} : StepFails(w, how)

InitsSpec == InitsInit /\ [][InitsNext]_initsVars
-----------------------------------------------------------------------------
\* Every main container has had all the steps of its spec succeed before it, no step
\* of a replica runs beside its main container, and a replica said to be blocked by
\* an init container has no main container, whatever ran, failed, timed out, was
\* retried or was cut short, by the loop or by a restart beside it.
InitsFirst ==
  /\ \A n \in Mains : /\ ctrs[n].passed = Steps[ctrs[n].spec]
                      /\ \A o \in DOMAIN ctrs \ {n} : o.id = n.id => ~ctrs[o].up
                      /\ \A i \in DOMAIN ring : ring[i].id # n.id
  /\ Len(ring) <= RingSize

\* "Init containers do NOT count as healthy replicas" (manifests/init.mdx): once the
\* loop has handled the last manifest without an error, it has its main containers.
NotReplicas ==
  ~waking /\ (\A w \in {"loop", "http"} : WorkerAt(w, "off")) /\ ~refused =>
    Cardinality(Mains) >= wished.want
=============================================================================
