----------------------------- MODULE Lifecycle ------------------------------
(* The controller's process (cmd/controller/main.go, server.go, embed.go):    *)
(* the store is opened, the loops are started one after the other, the two    *)
(* planes listen; a signal drains the planes under one deadline and takes the *)
(* rest down in a fixed order, the store last. Besides the loops, which        *)
(* teardown waits for, handlers and requests send off goroutines that nobody   *)
(* waits for: the probes of a replica, a retry, a job that a plugin asked for. *)
EXTENDS Integers, FiniteSets, Sequences, SequencesExt

CONSTANTS
  Callers,    \* requests that may be made of the planes
  Planes,     \* the planes that are configured, in the order they listen
  Unjoined,     \* bound: the goroutines sent off that nobody waits for
  MaxPasses   \* bound: passes the loops make between them

StartOrder == <<"system", "rec", "cron", "scaler", "activity", "metrics", "ingress">>
Loops == ToSet(StartOrder)

ASSUME LifecycleAssumption ==
  /\ MaxPasses \in Nat /\ Unjoined \cap Loops = {}
  /\ Planes \in Seq(ToSet(Planes)) /\ Planes # <<>> /\ Head(Planes) = "http"

VARIABLES
  phase,     \* of the process
  pos,       \* how far Start, Stop or teardown got
  etcd,      \* the store: off, open, closed
  loop,      \* of each background loop
  writer,    \* of each day-file writer: none, open, closed
  heard,     \* the planes that accept connections
  call,      \* of each caller: the plane it called and how far it is
  late,      \* the deadline of Stop has passed
  stray,     \* of each goroutine nobody waits for: what it does
  passes,    \* bound
  spoilt     \* loops and strays that used what was closed under them

lifecycleVars == <<phase, pos, etcd, loop, writer, heard, call, late, stray, passes, spoilt>>

\* The loops that read or write the store, and the writer a loop writes to.
OnStore == {"rec", "cron", "scaler", "metrics", "ingress"}
WriterOf(l) == CASE l \in {"metrics", "ingress"} -> {"metrics"} [] l = "activity" -> {"activity"} [] OTHER -> {}

NoCall == [at |-> "none", plane |-> "http", noted |-> FALSE]

LifecycleInit ==
  /\ phase = "off" /\ pos = 1 /\ etcd = "off"
  /\ loop = [l \in Loops |-> "off"] /\ writer = [w \in {"metrics", "activity"} |-> "none"]
  /\ heard = {} /\ call = [c \in Callers |-> NoCall] /\ late = FALSE
  /\ stray = [s \in Unjoined |-> "none"] /\ passes = 0 /\ spoilt = {}
-----------------------------------------------------------------------------
(* Start.                                                                     *)

\* StartEmbeddedEtcd: a store that does not get ready ends the process.
OpenStore ==
  /\ phase = "off"
  /\ \/ etcd' = "open" /\ phase' = "starting"
     \/ etcd' = "off" /\ phase' = "died"
  /\ UNCHANGED <<pos, loop, writer, heard, call, late, stray, passes, spoilt>>

StartsNext(l) == phase = "starting" /\ pos <= Len(StartOrder) /\ StartOrder[pos] = l
Started(l) == pos' = pos + 1 /\ loop' = [loop EXCEPT ![l] = "resting"]

\* The collector, the reconciler, the cron scheduler and the autoscaler.
StartLoop(l) ==
  /\ StartsNext(l) /\ WriterOf(l) = {}
  /\ Started(l)
  /\ UNCHANGED <<phase, etcd, writer, heard, call, late, stray, passes, spoilt>>

\* A writer whose directory cannot be made is left out, and its loop with it.
StartWithWriter(l) ==
  /\ StartsNext(l) /\ l \in {"activity", "metrics"}
  /\ \/ Started(l) /\ writer' = [writer EXCEPT ![l] = "open"]
     \/ pos' = pos + 1 /\ UNCHANGED <<loop, writer>>
  /\ UNCHANGED <<phase, etcd, heard, call, late, stray, passes, spoilt>>

\* The ingress sampler shares the metrics writer.
StartIngress ==
  /\ StartsNext("ingress")
  /\ IF writer["metrics"] = "open" THEN Started("ingress") ELSE pos' = pos + 1 /\ UNCHANGED loop
  /\ UNCHANGED <<phase, etcd, writer, heard, call, late, stray, passes, spoilt>>

\* A plane listens, or its address is taken: then Start tears down the loops and
\* the store and fails; a plane that listens already does so until main exits.
Listen ==
  LET n == pos - Len(StartOrder) IN
  /\ phase = "starting" /\ n \in DOMAIN Planes
  /\ \/ /\ heard' = heard \cup {Planes[n]} /\ pos' = IF n = Len(Planes) THEN 1 ELSE pos + 1
        /\ phase' = IF n = Len(Planes) THEN "serving" ELSE "starting"
     \/ phase' = "aborting" /\ pos' = 1 /\ UNCHANGED heard
  /\ UNCHANGED <<etcd, loop, writer, call, late, stray, passes, spoilt>>
-----------------------------------------------------------------------------
(* What goes on meanwhile.                                                    *)

Alive == phase \notin {"exited", "died"}

\* A request is taken; a paired action writes its first line.
Ask(c, p) ==
  /\ p \in heard /\ call[c].at = "none"
  /\ call' = [call EXCEPT ![c] = [at |-> "busy", plane |-> p, noted |-> writer["activity"] # "none"]]
  /\ UNCHANGED <<phase, pos, etcd, loop, writer, heard, late, stray, passes, spoilt>>

\* activityTracker.Finish: the handler returns, and what it did is written down.
Answer(c) ==
  /\ call[c].at = "busy" /\ Alive
  /\ call' = [call EXCEPT ![c].at = IF etcd = "open" THEN "answered" ELSE "refused", ![c].noted = FALSE]
  /\ UNCHANGED <<phase, pos, etcd, loop, writer, heard, late, stray, passes, spoilt>>

\* A tick, an event: a loop works, now and then once more after it is cancelled.
Wake(l) ==
  /\ loop[l] \in {"resting", "cancelled"} /\ passes < MaxPasses /\ Alive
  /\ passes' = passes + 1
  /\ loop' = [loop EXCEPT ![l] = IF @ = "resting" THEN "working" ELSE "last"]
  /\ UNCHANGED <<phase, pos, etcd, writer, heard, call, late, stray, spoilt>>

Rest(l) ==
  /\ loop[l] \in {"working", "last"} /\ Alive
  /\ loop' = [loop EXCEPT ![l] = IF @ = "working" THEN "resting" ELSE "ended"]
  /\ spoilt' = IF \/ l \in OnStore /\ etcd # "open"
                  \/ \E w \in WriterOf(l) : writer[w] # "open"
               THEN spoilt \cup {l} ELSE spoilt
  /\ UNCHANGED <<phase, pos, etcd, writer, heard, call, late, stray, passes>>

EndLoop(l) ==
  /\ loop[l] = "cancelled"
  /\ loop' = [loop EXCEPT ![l] = "ended"]
  /\ UNCHANGED <<phase, pos, etcd, writer, heard, call, late, stray, passes, spoilt>>
-----------------------------------------------------------------------------
(* What nobody waits for. Handlers are run by the reconciler, by a retry and by *)
(* a request; a probe's runner and its drain live on a context of their own,    *)
(* and so does what a request sends off to run on its own (a plugin's job, a     *)
(* token's last use). Webhook senders touch neither the store nor a file.       *)

Retrying == \E s \in Unjoined : stray[s] = "retrying"
CallerWaits == \E c \in Callers : call[c].at = "busy"
Reconciles == loop["rec"] \in {"working", "last"}
SendOff(s, as) == Alive /\ stray[s] = "none" /\ stray' = [stray EXCEPT ![s] = as]

\* ProbeRegistry.Start for a replica a handler made.
StartProbe(s) ==
  /\ (Reconciles \/ Retrying \/ CallerWaits) /\ SendOff(s, "probe")
  /\ UNCHANGED <<phase, pos, etcd, loop, writer, heard, call, late, passes, spoilt>>

\* scheduleRetry after the reconciler's own attempt.
ScheduleRetry(s) ==
  /\ Reconciles /\ SendOff(s, "asleep")
  /\ UNCHANGED <<phase, pos, etcd, loop, writer, heard, call, late, passes, spoilt>>

SendErrand(s) ==
  /\ CallerWaits /\ SendOff(s, "errand")
  /\ UNCHANGED <<phase, pos, etcd, loop, writer, heard, call, late, passes, spoilt>>

\* The backoff is over: a reconciler that was told to end is asked for once, before
\* the manifest is read and the handler run.
WakeRetry(s) ==
  /\ stray[s] = "asleep" /\ Alive
  /\ stray' = [stray EXCEPT ![s] = IF loop["rec"] \in {"resting", "working"} THEN "retrying" ELSE "ended"]
  /\ UNCHANGED <<phase, pos, etcd, loop, writer, heard, call, late, passes, spoilt>>

\* A use of the store: a probe's transition, after which it goes on or its replica
\* is stopped; a retry's handler, which may be tried again; an errand.
UseStore(s) ==
  /\ stray[s] \in {"probe", "retrying", "errand"} /\ Alive
  /\ \E to \in CASE stray[s] = "probe" -> {"probe", "ended"}
                 [] stray[s] = "retrying" -> {"asleep", "ended"}
                 [] OTHER -> {"ended"} : stray' = [stray EXCEPT ![s] = to]
  /\ spoilt' = IF etcd = "open" THEN spoilt ELSE spoilt \cup {s}
  /\ UNCHANGED <<phase, pos, etcd, loop, writer, heard, call, late, passes>>
-----------------------------------------------------------------------------
(* Stop.                                                                      *)

Signal ==
  /\ phase = "serving"
  /\ phase' = "draining" /\ heard' = heard \ {Planes[1]}
  /\ UNCHANGED <<pos, etcd, loop, writer, call, late, stray, passes, spoilt>>

DeadlinePasses ==
  /\ phase = "draining" /\ ~late
  /\ late' = TRUE
  /\ UNCHANGED <<phase, pos, etcd, loop, writer, heard, call, stray, passes, spoilt>>

Drained(p) == \A c \in Callers : call[c].at = "busy" => call[c].plane # p

\* Variant: Close in the place of Shutdown.
DrainWithoutWaiting ==
  /\ phase = "draining"
  /\ IF pos < Len(Planes)
     THEN pos' = pos + 1 /\ heard' = heard \ {Planes[pos + 1]} /\ UNCHANGED phase
     ELSE pos' = 1 /\ phase' = "teardown" /\ UNCHANGED heard
  /\ UNCHANGED <<etcd, loop, writer, call, late, stray, passes, spoilt>>

\* Server.Stop: one plane after the other, under one deadline; the next plane
\* accepts connections until it is its turn.
Drain ==
  /\ phase = "draining" /\ (Drained(Planes[pos]) \/ late)
  /\ IF pos < Len(Planes)
     THEN pos' = pos + 1 /\ heard' = heard \ {Planes[pos + 1]} /\ UNCHANGED phase
     ELSE pos' = 1 /\ phase' = "teardown" /\ UNCHANGED heard
  /\ UNCHANGED <<etcd, loop, writer, call, late, stray, passes, spoilt>>

StopOrder == <<"ingress", "metrics", "system", "activity", "scaler", "cron", "rec">>
TearingDown == phase \in {"teardown", "aborting"}
Tearing == TearingDown /\ pos \in DOMAIN StopOrder

\* A loop is told to end; teardown waits for it however long it works.
Cancel ==
  /\ Tearing /\ loop[StopOrder[pos]] \in {"resting", "working"}
  /\ loop' = [loop EXCEPT ![StopOrder[pos]] = IF @ = "resting" THEN "cancelled" ELSE "last"]
  /\ UNCHANGED <<phase, pos, etcd, writer, heard, call, late, stray, passes, spoilt>>

\* Variant: the wait is left out.
JoinAtOnce ==
  /\ Tearing /\ loop[StopOrder[pos]] \notin {"resting", "working"}
  /\ pos' = pos + 1
  /\ writer' = [w \in DOMAIN writer |-> IF w = StopOrder[pos] /\ writer[w] = "open" THEN "closed" ELSE writer[w]]
  /\ UNCHANGED <<phase, etcd, loop, heard, call, late, stray, passes, spoilt>>

\* Once it has ended, the writer of its name, if it has one, is closed.
Join ==
  /\ Tearing /\ loop[StopOrder[pos]] \in {"off", "ended"}
  /\ pos' = pos + 1
  /\ writer' = [w \in DOMAIN writer |-> IF w = StopOrder[pos] /\ writer[w] = "open" THEN "closed" ELSE writer[w]]
  /\ UNCHANGED <<phase, etcd, loop, heard, call, late, stray, passes, spoilt>>

CloseStore ==
  /\ TearingDown /\ pos > Len(StopOrder) /\ etcd = "open"
  /\ etcd' = "closed"
  /\ UNCHANGED <<phase, pos, loop, writer, heard, call, late, stray, passes, spoilt>>

\* main returns, or log.Fatal ends a Start that failed: what a caller still waits
\* for is cut, and the strays end where they are.
Exit ==
  /\ TearingDown /\ etcd = "closed"
  /\ phase' = IF phase = "teardown" THEN "exited" ELSE "died"
  /\ heard' = {}
  /\ call' = [c \in Callers |-> IF call[c].at = "busy" THEN [call[c] EXCEPT !.at = "cut"] ELSE call[c]]
  /\ stray' = [s \in Unjoined |-> IF stray[s] = "none" THEN "none" ELSE "ended"]
  /\ UNCHANGED <<pos, etcd, loop, writer, late, passes, spoilt>>
-----------------------------------------------------------------------------
LifecycleNext ==
  \/ OpenStore \/ StartIngress \/ Listen \/ Signal \/ DeadlinePasses \/ Drain \/ Cancel \/ Join
  \/ CloseStore \/ Exit
  \/ \E l \in Loops : StartLoop(l) \/ StartWithWriter(l) \/ Wake(l) \/ Rest(l) \/ EndLoop(l)
  \/ \E s \in Unjoined :
       StartProbe(s) \/ ScheduleRetry(s) \/ SendErrand(s) \/ WakeRetry(s) \/ UseStore(s)
  \/ \E c \in Callers : Answer(c) \/ \E p \in ToSet(Planes) : Ask(c, p)

LifecycleSpec == LifecycleInit /\ [][LifecycleNext]_lifecycleVars
-----------------------------------------------------------------------------
\* No loop that teardown waits for works on a store or a day file that was closed
\* under it, and an end in order, after a signal or a failed start, leaves none of
\* them behind. It says nothing of the strays: Server.Stop "blocks until all
\* goroutines exit" (server.go:834) is true of the loops alone, and a probe, a
\* retry or an errand may find the store closed.
LoopsOutlived ==
  /\ spoilt \subseteq Unjoined
  /\ ~Alive => \A l \in Loops : loop[l] \in {"off", "ended"}

\* A stop that met its deadline cut nobody off and answered all from an open
\* store: a first line in the trail without a last one means the controller could not wait.
Graceful == phase = "exited" /\ ~late => \A c \in Callers : call[c].at \in {"none", "answered"} /\ ~call[c].noted

\* Stopping leaves nothing half done of the loops', and of the callers' what it had
\* the time to finish (Server.Stop, teardown).
LifecycleTrue == LoopsOutlived /\ Graceful
=============================================================================
