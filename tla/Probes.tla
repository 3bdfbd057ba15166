------------------------------- MODULE Probes -------------------------------
(* The probes of one container name: the runners of internal/probe, the     *)
(* registry of internal/controller/probes.go that owns them, and the part   *)
(* of the resource's status blob they write.                                *)
(*                                                                          *)
(* An entry is one Start that got as far as spawning runners: a generation  *)
(* of the container.  Every goroutine of the code is a process here: the    *)
(* runners, one drain per runner, the goroutine that records the first      *)
(* snapshot, the callers of Start and Stop, and the handler that stamps the *)
(* same blob.                                                               *)
EXTENDS Integers, Sequences, FiniteSets

CONSTANTS
  Declared,          \* the probes the manifest declares
  Callers,           \* goroutines that replace this container
  Generations,       \* bound: entries there can ever be
  MaxWork,           \* bound: entries and work together
  Buffer,            \* events a runner's channel holds (16 in the code)
  FailureThreshold,  \* consecutive bad work that make a probe unhealthy
  SuccessThreshold,  \* consecutive good work that make it healthy
  Slow               \* a sample may outlast the deadline of Stop

ProbeKinds == {"startup", "liveness", "readiness"}
Phases == {"unknown", "healthy", "unhealthy"}
Gens == 1 .. Generations

ASSUME ProbesAssumption ==
  /\ Declared \subseteq ProbeKinds /\ Declared # {}
  /\ Generations \in Nat /\ MaxWork \in Nat
  /\ Buffer \in Nat \ {0}
  /\ FailureThreshold \in Nat \ {0} /\ SuccessThreshold \in Nat \ {0}
  /\ Slow \in BOOLEAN

VARIABLES
  registry,  \* the entry the map holds for the container, 0 for none
  mem,       \* per entry: replicaReadiness
  runner,    \* per entry and probe: the runner's private state
  queue,     \* per entry and probe: events not yet taken by the drain
  cut,       \* entries whose runners have been cancelled
  first,     \* per entry: the snapshot Start's goroutine has yet to record
  worker,    \* per entry and probe: the drain
  caller,    \* per caller: where it is in Start or Stop
  status,    \* what the status blob holds of the container's readiness
  owed,      \* entries with a restart goroutine that has not run
  lost,      \* probes of entries whose full channel dropped a transition
  sent,      \* per entry: what its webhooks announced so far
  work       \* entries and work so far

probesVars == <<registry, mem, runner, queue, cut, first, worker, caller,
                status, owed, lost, sent, work>>

Nothing == [kind |-> "none"]
Snapshot(m) == [kind |-> "some", passed |-> m.passed, phase |-> m.phase]

\* The state Start and spawnReadiness give a new entry.
FreshMem == [passed |-> "startup" \notin Declared,
             phase |-> IF "readiness" \in Declared THEN "unknown" ELSE "healthy",
             planned |-> FALSE, failed |-> FALSE]
FreshRunner == [st |-> "run", ok |-> 0, bad |-> 0, phase |-> "unknown"]
OffRunner == [FreshRunner EXCEPT !.st = "off"]
IdleWorker == [at |-> "idle", ev |-> Nothing]

\* The probes announced as failed and as recovered, failures less recoveries,
\* and whether a sample of a cancelled runner was announced.
Silence == [ahead |-> 0, dying |-> FALSE]

ProbesInit ==
  /\ registry = 0
  /\ mem = [e \in Gens |-> FreshMem]
  /\ runner = [e \in Gens |-> [k \in Declared |-> OffRunner]]
  /\ queue = [e \in Gens |-> [k \in Declared |-> <<>>]]
  /\ cut = {}
  /\ first = [e \in Gens |-> Nothing]
  /\ worker = [e \in Gens |-> [k \in Declared |-> IdleWorker]]
  /\ caller = [c \in Callers |-> [at |-> "idle", e |-> 0]]
  /\ status = Nothing
  /\ owed = {} /\ lost = {}
  /\ sent = [e \in Gens |-> Silence]
  /\ work = 0

Used == {e \in Gens : \E k \in Declared : runner[e][k].st # "off"}
Goto(c, s) == caller' = [caller EXCEPT ![c].at = s]
-----------------------------------------------------------------------------
(* Start: look the name up; spawn the runners; store the entry and record   *)
(* its first snapshot from a goroutine of its own.                          *)

\* Variant: the map is not consulted.
StartBlind(c) ==
  /\ caller[c].at = "idle"
  /\ Goto(c, "spawn")
  /\ UNCHANGED <<registry, mem, runner, queue, cut, first, worker, status, owed, lost,
                 sent, work>>

StartLookup(c) ==
  /\ caller[c].at = "idle" /\ registry = 0
  /\ Goto(c, "spawn")
  /\ UNCHANGED <<registry, mem, runner, queue, cut, first, worker, status, owed, lost,
                 sent, work>>

StartSpawn(c) ==
  /\ caller[c].at = "spawn" /\ work < MaxWork
  /\ work' = work + 1
  /\ \E e \in Gens \ Used :
       /\ \A d \in Gens \ Used : e <= d
       /\ runner' = [runner EXCEPT ![e] = [k \in Declared |-> FreshRunner]]
       /\ caller' = [caller EXCEPT ![c].at = "store", ![c].e = e]
  /\ UNCHANGED <<registry, mem, queue, cut, first, worker, status, owed, lost, sent>>

StartStore(c) ==
  LET e == caller[c].e IN
  /\ caller[c].at = "store"
  /\ registry' = e
  /\ first' = [first EXCEPT ![e] = Snapshot(mem[e])]
  /\ caller' = [caller EXCEPT ![c].at = "idle", ![c].e = 0]
  /\ UNCHANGED <<mem, runner, queue, cut, worker, status, owed, lost, sent, work>>
-----------------------------------------------------------------------------
(* A runner: sample, publish the event, exit.                               *)

CappedTo(n, top) == IF n < top THEN n + 1 ELSE top

Judge(r, good) ==
  LET ok == IF good THEN CappedTo(r.ok, SuccessThreshold) ELSE 0
      bad == IF good THEN 0 ELSE CappedTo(r.bad, FailureThreshold)
  IN [r EXCEPT !.ok = ok, !.bad = bad,
               !.phase = IF ok = SuccessThreshold THEN "healthy"
                         ELSE IF bad = FailureThreshold THEN "unhealthy"
                         ELSE @]

\* A full channel loses its oldest event, never the new one.
Publish(e, k, ev) ==
  LET q == queue[e][k]
      full == Len(q) = Buffer
  IN /\ queue' = [queue EXCEPT ![e][k] = Append(IF full THEN Tail(q) ELSE q, ev)]
     /\ lost' = IF full /\ Head(q).edge THEN lost \cup {<<e, k>>} ELSE lost

\* A startup runner ends with the sample that makes it healthy; a liveness
\* runner that turns unhealthy leaves a goroutine to restart the container.
Sample(e, k) ==
  /\ runner[e][k].st = "run" /\ work < MaxWork
  /\ work' = work + 1
  /\ \E good \in BOOLEAN :
       LET r == Judge(runner[e][k], good)
           edge == r.phase # runner[e][k].phase
           over == k = "startup" /\ r.phase = "healthy"
       IN /\ runner' = [runner EXCEPT ![e][k] = [r EXCEPT !.st = IF over THEN "done" ELSE @]]
          /\ Publish(e, k, [kind |-> "some", phase |-> r.phase, edge |-> edge,
                            dying |-> e \in cut])
          /\ owed' = IF k = "liveness" /\ edge /\ r.phase = "unhealthy"
                     THEN owed \cup {e} ELSE owed
  /\ UNCHANGED <<registry, mem, cut, first, worker, caller, status, sent>>

\* A cancelled runner may take the tick before it sees the cancellation.
Exit(e, k) ==
  /\ runner[e][k].st = "run" /\ e \in cut
  /\ runner' = [runner EXCEPT ![e][k].st = "done"]
  /\ UNCHANGED <<registry, mem, queue, cut, first, worker, caller, status, owed, lost,
                 sent, work>>

RestartContainer(e) ==
  /\ e \in owed
  /\ owed' = owed \ {e}
  /\ UNCHANGED <<registry, mem, runner, queue, cut, first, worker, caller, status,
                 lost, sent, work>>
-----------------------------------------------------------------------------
(* A drain: take an event; change the memory under its lock; snapshot it;   *)
(* load, modify and put the blob; pass the webhook gate; fire.              *)

\* Variant: a transition to unhealthy does not reach the memory.
TakeGood(e, k) ==
  LET ev == Head(queue[e][k])
      mutates == ev.edge /\ k # "liveness" /\ ev.phase = "healthy"
  IN
  /\ worker[e][k].at = "idle" /\ queue[e][k] # <<>>
  /\ queue' = [queue EXCEPT ![e][k] = Tail(@)]
  /\ mem' = IF ~mutates THEN mem
            ELSE IF k = "readiness" THEN [mem EXCEPT ![e].phase = ev.phase]
            ELSE [mem EXCEPT ![e].passed = TRUE]
  /\ worker' = [worker EXCEPT ![e][k] =
                  IF ev.edge THEN [@ EXCEPT !.ev = ev, !.at = IF mutates THEN "record" ELSE "gate"]
                  ELSE @]
  /\ UNCHANGED <<registry, runner, cut, first, caller, status, owed, lost, sent, work>>

\* drainReadinessEvents, drainLivenessEvents, drainStartupEvents up to the unlock
Take(e, k) ==
  LET ev == Head(queue[e][k])
      mutates == /\ ev.edge
                /\ k # "liveness" /\ (k = "startup" => ev.phase = "healthy")
  IN
  /\ worker[e][k].at = "idle" /\ queue[e][k] # <<>>
  /\ queue' = [queue EXCEPT ![e][k] = Tail(@)]
  /\ mem' = IF ~mutates THEN mem
            ELSE IF k = "readiness" THEN [mem EXCEPT ![e].phase = ev.phase]
            ELSE [mem EXCEPT ![e].passed = TRUE]
  /\ worker' = [worker EXCEPT ![e][k] =
                  IF ev.edge THEN [@ EXCEPT !.ev = ev, !.at = IF mutates THEN "record" ELSE "gate"]
                  ELSE @]
  /\ UNCHANGED <<registry, runner, cut, first, caller, status, owed, lost, sent, work>>

\* The snapshot and RecordReplicaReadiness of it, after a change of memory.
Record(e, k) ==
  /\ worker[e][k].at = "record"
  /\ status' = Snapshot(mem[e])
  /\ worker' = [worker EXCEPT ![e][k].at = "gate"]
  /\ UNCHANGED <<registry, mem, runner, queue, cut, first, caller, owed, lost, sent,
                 work>>

\* The goroutine of Start records the snapshot taken when it was made.
RecordFirst(e) ==
  /\ first[e] # Nothing
  /\ status' = first[e]
  /\ first' = [first EXCEPT ![e] = Nothing]
  /\ UNCHANGED <<registry, mem, runner, queue, cut, worker, caller, owed, lost, sent,
                 work>>

\* Variant: a recovery needs no failure before it.
AnnounceAny(e, k) ==
  LET fails == worker[e][k].ev.phase = "unhealthy"
      fires == ~mem[e].planned
  IN
  /\ worker[e][k].at = "gate"
  /\ worker' = [worker EXCEPT ![e][k] = IdleWorker]
  /\ mem' = IF fires THEN [mem EXCEPT ![e].failed = fails] ELSE mem
  /\ sent' = IF fires THEN [sent EXCEPT ![e].ahead = IF fails THEN @ + 1 ELSE @ - 1] ELSE sent
  /\ UNCHANGED <<registry, runner, queue, cut, first, caller, status, owed, lost, work>>

\* emitProbeTransition.  What is announced is decided under the lock; the
\* webhook leaves on a goroutine of its own, so this is the only order there is.
Announce(e, k) ==
  LET ev == worker[e][k].ev
      fails == ev.phase = "unhealthy"
      fires == ~mem[e].planned /\ (fails \/ mem[e].failed)
  IN
  /\ worker[e][k].at = "gate"
  /\ worker' = [worker EXCEPT ![e][k] = IdleWorker]
  /\ IF fires
     THEN /\ mem' = [mem EXCEPT ![e].failed = fails]
          /\ sent' = [sent EXCEPT ![e].dying = @ \/ ev.dying,
                                  ![e].ahead = IF fails THEN @ + 1 ELSE @ - 1]
     ELSE UNCHANGED <<mem, sent>>
  /\ UNCHANGED <<registry, runner, queue, cut, first, caller, status, owed, lost, work>>
-----------------------------------------------------------------------------
(* Stop: mark the teardown; take the entry out and cancel its runners; wait *)
(* for them, or for the deadline; clear the readiness in the blob.          *)

\* Variant: the teardown is not marked.
MarkNothing(c) ==
  /\ caller[c].at = "idle"
  /\ Goto(c, "marked")
  /\ UNCHANGED <<registry, mem, runner, queue, cut, first, worker, status, owed, lost,
                 sent, work>>

MarkPlannedTeardown(c) ==
  /\ caller[c].at = "idle"
  /\ mem' = IF registry = 0 THEN mem ELSE [mem EXCEPT ![registry].planned = TRUE]
  /\ Goto(c, "marked")
  /\ UNCHANGED <<registry, runner, queue, cut, first, worker, status, owed, lost,
                 sent, work>>

StopCancel(c) ==
  /\ caller[c].at = "marked"
  /\ registry' = 0
  /\ cut' = cut \cup ({registry} \ {0})
  /\ caller' = [caller EXCEPT ![c].at = "wait", ![c].e = registry]
  /\ UNCHANGED <<mem, runner, queue, first, worker, status, owed, lost, sent, work>>

StopWait(c) ==
  LET e == caller[c].e IN
  /\ caller[c].at = "wait"
  /\ e # 0 /\ ~Slow => \A k \in Declared : runner[e][k].st = "done"
  /\ Goto(c, "clear")
  /\ UNCHANGED <<registry, mem, runner, queue, cut, first, worker, status, owed, lost,
                 sent, work>>

\* ClearReplicaReadiness
Clear(c) ==
  /\ caller[c].at = "clear"
  /\ status' = Nothing
  /\ caller' = [caller EXCEPT ![c].at = "idle", ![c].e = 0]
  /\ UNCHANGED <<registry, mem, runner, queue, cut, first, worker, owed, lost, sent,
                 work>>
-----------------------------------------------------------------------------
Serve(c) ==
  \/ StartLookup(c) \/ StartSpawn(c) \/ StartStore(c)
  \/ MarkPlannedTeardown(c) \/ StopCancel(c) \/ StopWait(c) \/ Clear(c)

Drain(e, k) == Take(e, k) \/ Record(e, k) \/ Announce(e, k)

ProbesNext ==
  \/ \E c \in Callers : Serve(c)
  \/ \E e \in Gens : RestartContainer(e) \/ RecordFirst(e)
  \/ \E e \in Gens, k \in Declared : Sample(e, k) \/ Exit(e, k) \/ Drain(e, k)

ProbesSpec == ProbesInit /\ [][ProbesNext]_probesVars
-----------------------------------------------------------------------------
\* Every variable stays in its set.
ProbesTypeOK ==
  /\ registry \in 0 .. Generations
  /\ mem \in [Gens -> [passed : BOOLEAN, phase : Phases, planned : BOOLEAN, failed : BOOLEAN]]
  /\ runner \in [Gens -> [Declared -> [st : {"off", "run", "done"},
       ok : 0 .. SuccessThreshold, bad : 0 .. FailureThreshold, phase : Phases]]]
  /\ \A e \in Gens, k \in Declared : Len(queue[e][k]) <= Buffer
  /\ cut \subseteq Gens /\ owed \subseteq Gens
  /\ \A e \in Gens, k \in Declared : worker[e][k].at \in {"idle", "record", "gate"}
  /\ \A c \in Callers :
       caller[c].at \in {"idle", "spawn", "store", "marked", "wait", "clear"}
  /\ work \in 0 .. MaxWork

\* What GET /pods/<name>/ready answers is what the readiness runner found last,
\* and a startup probe that passed is seen to have passed, once the drains have
\* nothing left to take, unless a full channel dropped the transition.
DrainedAgrees ==
  \A e \in Gens, k \in Declared \ {"liveness"} :
    /\ runner[e][k].st # "off" /\ queue[e][k] = <<>> /\ <<e, k>> \notin lost
    => IF k = "readiness" THEN mem[e].phase = runner[e][k].phase
       ELSE mem[e].passed = (runner[e][k].phase = "healthy")

\* No recovery webhook without a failure webhook of its own, over all the probes
\* of a container and however their drains interleave.
RecoveriesPaired == \A e \in Gens : sent[e].ahead >= 0

\* A sample taken after the runners were cancelled never becomes a webhook: a
\* graceful stop is not announced as a failure.
NoTeardownWebhook == \A e \in Gens : ~sent[e].dying

\* While Stop has not timed out, whoever calls it next finds no runner alive:
\* only the entry in the map, or one about to be stored, has runners.
CleanSlate ==
  \A e \in Gens : (\E k \in Declared : runner[e][k].st = "run") =>
    \/ registry = e
    \/ \E c \in Callers : caller[c].e = e /\ caller[c].at \in {"store", "wait"}

\* What the probes of a container last found is what the controller answers, its
\* runners end with it, and webhooks tell of failures and recoveries that were,
\* and of no graceful stop.
ProbesTrue == DrainedAgrees /\ CleanSlate /\ RecoveriesPaired /\ NoTeardownWebhook
=============================================================================
