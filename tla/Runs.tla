-------------------------------- MODULE Runs --------------------------------
(* One cronjob, or one job: the cron expression and its next match           *)
(* (cron.go), the scheduler's pass over it (scheduler.go), the goroutine of  *)
(* each run from the read of the manifest to the collection of old           *)
(* containers (handlers_cronjob.go, handlers_job.go), and the reconciler's   *)
(* handler of its manifest, which rewrites the same status blob.             *)
(*                                                                           *)
(* Time is counted in minutes of a calendar whose hours, days, months and    *)
(* weeks are as short as the constants make them.  A field of an expression  *)
(* is the set of its comma-separated parts.                                  *)
EXTENDS Integers, Sequences, FiniteSets, SequencesExt

CONSTANTS
  Kinds,          \* among "cronjob" and "job"
  Manifests,      \* [sched, policy, suspend]: what operators apply
  Slots,          \* bound: the runs there can ever be, 1 .. n
  Hour, Day, Week,\* minutes of an hour, hours of a day, days of a week
  Months,         \* the lengths of the months, in days
  Limit,          \* how far Next looks ahead, in minutes (four years in the code)
  Horizon,        \* bound: the last minute
  Late,           \* bound: minutes from one pass to the next
  MaxEdits,       \* bound: manifests applied and deleted
  GoodCap, BadCap,\* finished runs the history keeps
  None

ASSUME RunsAssumption ==
  /\ Kinds \subseteq {"cronjob", "job"}
  /\ {Hour, Day, Week, Limit, Horizon, Late, MaxEdits} \subseteq Nat
  /\ {GoodCap, BadCap} \subseteq Nat \ {0}
  /\ Months \in Seq(Nat)
  /\ None \notin Seq([run : Slots, st : {"running", "ok", "bad"}])

VARIABLES
  kind,      \* what the resource is
  now,       \* the minute of the scheduler's last pass
  manifest,  \* the manifest in the store, or None
  events,    \* watch events the reconciler has not handled
  applier,   \* the reconciler's handler: where it is and what it loaded
  sched,     \* the scheduler's cache: expression and next fire, or None
  runs,      \* per slot: the goroutine of a run
  cont,      \* per slot: its container
  mark,      \* the key is in inFlight
  blob,      \* the status blob: the history, newest first, or None
  edits,     \* manifests applied and deleted so far
  stale      \* history: a save went over a blob its writer had not read, or a
             \* delete was handled under a run

runsVars == <<kind, now, manifest, events, applier, sched, runs, cont, mark,
              blob, edits, stale>>
-----------------------------------------------------------------------------
(* The expression.                                                          *)

Star == [lo |-> -1, hi |-> -1, step |-> 1]

\* parseRange: "*" is the whole range, the step counts from its start.
Span(p, min, max) ==
  IF p.lo = -1 THEN [p EXCEPT !.lo = min, !.hi = max] ELSE p
GoodPart(p, min, max) ==
  LET s == Span(p, min, max) IN p.step > 0 /\ min <= s.lo /\ s.lo <= s.hi /\ s.hi <= max
PartBits(p, min, max) ==
  LET s == Span(p, min, max) IN {v \in s.lo .. s.hi : (v - s.lo) % p.step = 0}

\* parseField
GoodField(f, min, max) == f # {} /\ \A p \in f : GoodPart(p, min, max)
FieldBits(f, min, max) == UNION {PartBits(p, min, max) : p \in f}

LongestMonth == CHOOSE n \in ToSet(Months) : \A k \in ToSet(Months) : k <= n

Parses(s) ==
  /\ GoodField(s.minute, 0, Hour - 1) /\ GoodField(s.hour, 0, Day - 1)
  /\ GoodField(s.dom, 1, LongestMonth) /\ GoodField(s.month, 1, Len(Months))
  /\ GoodField(s.dow, 0, Week)

\* ParseSchedule: Sunday is 0 and the week's length alike; only a bare "*"
\* leaves a day field out of account.
Parsed(s) ==
  [minutes |-> FieldBits(s.minute, 0, Hour - 1),
   hours   |-> FieldBits(s.hour, 0, Day - 1),
   doms    |-> FieldBits(s.dom, 1, LongestMonth),
   months  |-> FieldBits(s.month, 1, Len(Months)),
   dows    |-> {d % Week : d \in FieldBits(s.dow, 0, Week)},
   domStar |-> s.dom = {Star},
   dowStar |-> s.dow = {Star}]

Year == FoldLeft(LAMBDA a, b : a + b, 0, Months)
DaysBefore(m) == FoldLeft(LAMBDA a, b : a + b, 0, SubSeq(Months, 1, m - 1))
Civil == [t \in 0 .. Horizon + Limit |->
  LET day == t \div (Hour * Day)
      yday == day % Year
      month == CHOOSE m \in DOMAIN Months :
                 DaysBefore(m) <= yday /\ yday < DaysBefore(m) + Months[m]
  IN [minute |-> t % Hour, hour |-> (t \div Hour) % Day, month |-> month,
      dom |-> yday - DaysBefore(month) + 1, dow |-> day % Week]]

\* Variant: both day fields must match.
MatchBoth(p, t) ==
  LET c == Civil[t] IN
  /\ c.minute \in p.minutes /\ c.hour \in p.hours /\ c.month \in p.months
  /\ c.dom \in p.doms /\ c.dow \in p.dows

\* match: with both day fields given, either suffices.
Match(p, t) ==
  LET c == Civil[t] IN
  /\ c.minute \in p.minutes /\ c.hour \in p.hours /\ c.month \in p.months
  /\ CASE p.domStar /\ p.dowStar -> TRUE
       [] p.domStar -> c.dow \in p.dows
       [] p.dowStar -> c.dom \in p.doms
       [] OTHER -> c.dom \in p.doms \/ c.dow \in p.dows

\* Next: the first match after the minute, the zero time when there is none.
NextFire(p, t) ==
  LET hits == {u \in t + 1 .. t + Limit : Match(p, u)}
  IN IF hits = {} THEN 0 ELSE CHOOSE u \in hits : \A v \in hits : u <= v

\* What an expression means, read off the fields: a part covers a value it
\* reaches in whole steps, a day is due by the fields that say something.
Covers(f, min, max, v) ==
  \E p \in f, k \in 0 .. max :
    LET s == Span(p, min, max) IN v = s.lo + k * p.step /\ v <= s.hi
Due(s, t) ==
  LET c == Civil[t]
      days == Covers(s.dom, 1, LongestMonth, c.dom)
      week == Covers(s.dow, 0, Week, c.dow) \/ (c.dow = 0 /\ Covers(s.dow, 0, Week, Week))
  IN /\ Covers(s.minute, 0, Hour - 1, c.minute) /\ Covers(s.hour, 0, Day - 1, c.hour)
     /\ Covers(s.month, 1, Len(Months), c.month)
     /\ s.dom # {Star} /\ s.dow # {Star} => days \/ week
     /\ s.dow = {Star} => days
     /\ s.dom = {Star} => week
-----------------------------------------------------------------------------
(* The history.                                                             *)

\* capHistory: the newest finished runs of each kind, and every running one.
Newer(h, i, st) == Cardinality({j \in 1 .. i - 1 : h[j].st = st})
Retained(h) == {i \in DOMAIN h : /\ h[i].st = "ok" => Newer(h, i, "ok") < GoodCap
                             /\ h[i].st = "bad" => Newer(h, i, "bad") < BadCap}
Rank(S, i) == Cardinality({j \in S : j <= i})
Capped(h) == [n \in 1 .. Cardinality(Retained(h)) |->
                h[CHOOSE i \in Retained(h) : Rank(Retained(h), i) = n]]

\* appendRun: the run's entry is replaced where it is, or goes in front.
Upsert(b, entry) ==
  LET h == IF b = None THEN <<>> ELSE b
      at == {i \in DOMAIN h : h[i].run = entry.run}
  IN Capped(IF at = {} THEN <<entry>> \o h
            ELSE [h EXCEPT ![CHOOSE i \in at : TRUE] = entry])

Save(b, loaded) == blob' = b /\ stale' = (stale \/ blob # loaded)
-----------------------------------------------------------------------------
IdleRun == [pc |-> "off", loaded |-> None, st |-> "running", keep |-> {}, ran |-> FALSE]
IdleApplier == [pc |-> "idle", loaded |-> None]

RunsInit ==
  /\ kind \in Kinds
  /\ now = 1 /\ manifest = None /\ events = <<>> /\ applier = IdleApplier
  /\ sched = None
  /\ runs = [r \in Slots |-> IdleRun] /\ cont = [r \in Slots |-> "none"]
  /\ mark = FALSE /\ blob = None /\ edits = 0 /\ stale = FALSE

At(r, pc) == runs[r].pc = pc
To(r, pc) == runs' = [runs EXCEPT ![r].pc = pc]
Begun(r) == runs[r].pc \notin {"off", "get", "done"}
Resting == \A r \in Slots : runs[r].pc \in {"off", "done"}
NextSlot == {r \in Slots : At(r, "off") /\ \A q \in Slots : At(q, "off") => r <= q}

Put(m) ==
  /\ edits < MaxEdits
  /\ edits' = edits + 1 /\ manifest' = m /\ events' = Append(events, "put")
  /\ UNCHANGED <<kind, now, applier, sched, runs, cont, mark, blob, stale>>

Delete ==
  /\ edits < MaxEdits /\ manifest # None
  /\ edits' = edits + 1 /\ manifest' = None /\ events' = Append(events, "delete")
  /\ UNCHANGED <<kind, now, applier, sched, runs, cont, mark, blob, stale>>
-----------------------------------------------------------------------------
(* The reconciler: apply keeps the history of the blob it loads; remove      *)
(* takes the containers, then the blob. A run under way loses its container, *)
(* and records itself in a new blob.                                         *)

UnderRun == stale' = (stale \/ \E r \in Slots : Begun(r))

LoadForApply ==
  /\ applier.pc = "idle" /\ events # <<>> /\ Head(events) = "put"
  /\ events' = Tail(events)
  /\ applier' = [pc |-> "save", loaded |-> blob]
  /\ UNCHANGED <<kind, now, manifest, sched, runs, cont, mark, blob, edits, stale>>

SaveForApply ==
  /\ applier.pc = "save"
  /\ Save(IF applier.loaded = None THEN <<>> ELSE applier.loaded, applier.loaded)
  /\ applier' = IdleApplier
  /\ UNCHANGED <<kind, now, manifest, events, sched, runs, cont, mark, edits>>

RemoveContainers ==
  /\ applier.pc = "idle" /\ events # <<>> /\ Head(events) = "delete"
  /\ events' = Tail(events)
  /\ cont' = [r \in Slots |-> "none"]
  /\ applier' = [pc |-> "clear", loaded |-> None]
  /\ UnderRun
  /\ UNCHANGED <<kind, now, manifest, sched, runs, mark, blob, edits>>

ClearStatus ==
  /\ applier.pc = "clear"
  /\ blob' = None /\ applier' = IdleApplier /\ UnderRun
  /\ UNCHANGED <<kind, now, manifest, events, sched, runs, cont, mark, edits>>
-----------------------------------------------------------------------------
(* The scheduler.                                                           *)

\* The tick's goroutine starts with the manifest still to be read.
Dispatch == \E r \in NextSlot : To(r, "get")

\* Variant: a due tick leaves the next fire where it was.
EvaluateStuck(d) ==
  /\ kind = "cronjob" /\ now + d <= Horizon
  /\ now' = now + d
  /\ CASE manifest = None \/ manifest.suspend ->
            sched' = None /\ UNCHANGED runs
       [] sched = None \/ sched.expr # manifest.sched ->
            /\ sched' = IF Parses(manifest.sched)
                        THEN [expr |-> manifest.sched,
                              next |-> NextFire(Parsed(manifest.sched), now')]
                        ELSE sched
            /\ UNCHANGED runs
       [] now' < sched.next -> UNCHANGED <<sched, runs>>
       [] OTHER -> Dispatch /\ UNCHANGED sched
  /\ UNCHANGED <<kind, manifest, events, applier, cont, mark, blob, edits, stale>>

\* evaluate and dispatchOne, a minute after the last pass or later: a cached schedule of
\* another expression is replaced without firing, a due one is advanced first.
Evaluate(d) ==
  /\ kind = "cronjob" /\ now + d <= Horizon
  /\ now' = now + d
  /\ CASE manifest = None \/ manifest.suspend ->
            sched' = None /\ UNCHANGED runs
       [] sched = None \/ sched.expr # manifest.sched ->
            /\ sched' = IF Parses(manifest.sched)
                        THEN [expr |-> manifest.sched,
                              next |-> NextFire(Parsed(manifest.sched), now')]
                        ELSE sched
            /\ UNCHANGED runs
       [] now' < sched.next -> UNCHANGED <<sched, runs>>
       [] OTHER -> /\ Dispatch
                   /\ sched' = [sched EXCEPT !.next = NextFire(Parsed(sched.expr), now')]
  /\ UNCHANGED <<kind, manifest, events, applier, cont, mark, blob, edits, stale>>

\* POST /cronjobs/run: the tick runs on the request's goroutine.
RunNow ==
  /\ kind = "cronjob" /\ manifest # None
  /\ Dispatch
  /\ UNCHANGED <<kind, now, manifest, events, applier, sched, cont, mark, blob, edits, stale>>

\* POST /jobs/run holds its connection until the run is recorded, and the
\* operators of this model ask for one run after the other.
RunOnce ==
  /\ kind = "job" /\ manifest # None /\ Resting
  /\ Dispatch
  /\ UNCHANGED <<kind, now, manifest, events, applier, sched, cont, mark, blob, edits, stale>>
-----------------------------------------------------------------------------
(* A run: Tick of a cronjob, RunOnce of a job.                              *)

Suspended == manifest.suspend

\* Variant: the mark is not looked at.
GetBlind(r) ==
  /\ kind = "cronjob" /\ At(r, "get")
  /\ To(r, IF manifest = None \/ Suspended THEN "done" ELSE "load")
  /\ UNCHANGED <<kind, now, manifest, events, applier, sched, cont, mark, blob,
                 edits, stale>>

\* The manifest is read anew; a Forbid run goes on only if it sets the mark.
Get(r) ==
  LET forbid == manifest.policy = "Forbid" IN
  /\ kind = "cronjob" /\ At(r, "get")
  /\ IF manifest = None \/ Suspended \/ (forbid /\ mark)
     THEN To(r, "done") /\ UNCHANGED mark
     ELSE To(r, "load") /\ mark' = (mark \/ forbid)
  /\ UNCHANGED <<kind, now, manifest, events, applier, sched, cont, blob, edits,
                 stale>>

\* A job's run knows neither a policy nor suspension.
JobGet(r) ==
  /\ kind = "job" /\ At(r, "get")
  /\ To(r, IF manifest = None THEN "done" ELSE "load")
  /\ UNCHANGED <<kind, now, manifest, events, applier, sched, cont, mark, blob,
                 edits, stale>>

Load(r) ==
  /\ \E s \in {"load", "reload"} :
       /\ At(r, s)
       /\ runs' = [runs EXCEPT ![r].pc = IF s = "load" THEN "save" ELSE "resave",
                               ![r].loaded = blob]
  /\ UNCHANGED <<kind, now, manifest, events, applier, sched, cont, mark, blob,
                 edits, stale>>

SaveRunning(r) ==
  /\ At(r, "save")
  /\ Save(Upsert(runs[r].loaded, [run |-> r, st |-> "running"]), runs[r].loaded)
  /\ runs' = [runs EXCEPT ![r].pc = "spawn", ![r].loaded = None]
  /\ UNCHANGED <<kind, now, manifest, events, applier, sched, cont, mark, edits>>

\* Bad resources, or docker's refusal, end the run without a container.
Spawn(r) ==
  /\ At(r, "spawn")
  /\ \/ cont' = [cont EXCEPT ![r] = "up"] /\ To(r, "wait")
     \/ UNCHANGED cont /\ runs' = [runs EXCEPT ![r].pc = "reload", ![r].st = "bad"]
  /\ UNCHANGED <<kind, now, manifest, events, applier, sched, mark, blob, edits,
                 stale>>

\* The program in the container ends.
Finish(r) ==
  /\ cont[r] = "up"
  /\ \E res \in {"ok", "bad"} : cont' = [cont EXCEPT ![r] = res]
  /\ UNCHANGED <<kind, now, manifest, events, applier, sched, runs, mark, blob,
                 edits, stale>>

\* docker wait returns, with an error when the container was removed.
Wait(r) ==
  /\ At(r, "wait") /\ cont[r] # "up"
  /\ runs' = [runs EXCEPT ![r].pc = "reload", ![r].ran = TRUE,
                          ![r].st = IF cont[r] = "ok" THEN "ok" ELSE "bad"]
  /\ UNCHANGED <<kind, now, manifest, events, applier, sched, cont, mark, blob,
                 edits, stale>>

\* Variant: the finished run goes in as a new entry.
SaveFinishedOnTop(r) ==
  /\ At(r, "resave")
  /\ Save(Capped(<<[run |-> r, st |-> runs[r].st]>> \o
                 (IF runs[r].loaded = None THEN <<>> ELSE runs[r].loaded)), runs[r].loaded)
  /\ runs' = [runs EXCEPT ![r].loaded = None,
                          ![r].pc = IF runs[r].ran THEN "keep" ELSE "end"]
  /\ UNCHANGED <<kind, now, manifest, events, applier, sched, cont, mark, edits>>

\* A run whose container did not start does not collect.
SaveFinished(r) ==
  /\ At(r, "resave")
  /\ Save(Upsert(runs[r].loaded, [run |-> r, st |-> runs[r].st]), runs[r].loaded)
  /\ runs' = [runs EXCEPT ![r].loaded = None,
                          ![r].pc = IF runs[r].ran THEN "keep" ELSE "end"]
  /\ UNCHANGED <<kind, now, manifest, events, applier, sched, cont, mark, edits>>

Keep(r) ==
  /\ At(r, "keep")
  /\ runs' = [runs EXCEPT ![r].pc = "collect",
                          ![r].keep = IF blob = None THEN {}
                                      ELSE {blob[i].run : i \in DOMAIN blob}]
  /\ UNCHANGED <<kind, now, manifest, events, applier, sched, cont, mark, blob,
                 edits, stale>>

\* Variant: nothing is collected.
CollectNothing(r) ==
  /\ At(r, "collect")
  /\ runs' = [runs EXCEPT ![r].pc = "end", ![r].keep = {}]
  /\ UNCHANGED <<kind, now, manifest, events, applier, sched, cont, mark, blob,
                 edits, stale>>

\* gcRunContainers: stopped containers of runs that are not in the history.
Collect(r) ==
  /\ At(r, "collect")
  /\ cont' = [q \in Slots |-> IF cont[q] \in {"ok", "bad"} /\ q \notin runs[r].keep
                              THEN "none" ELSE cont[q]]
  /\ runs' = [runs EXCEPT ![r].pc = "end", ![r].keep = {}]
  /\ UNCHANGED <<kind, now, manifest, events, applier, sched, mark, blob, edits,
                 stale>>

\* The deferred unmark, whatever the policy was.
End(r) ==
  /\ At(r, "end")
  /\ mark' = FALSE
  /\ To(r, "done")
  /\ UNCHANGED <<kind, now, manifest, events, applier, sched, cont, blob, edits,
                 stale>>
-----------------------------------------------------------------------------
TickStep(r) ==
  /\ kind = "cronjob"
  /\ \/ Get(r) \/ Load(r) \/ SaveRunning(r) \/ Spawn(r) \/ Wait(r) \/ SaveFinished(r)
     \/ Keep(r) \/ Collect(r) \/ End(r)

\* JobHandler's own code for the same steps: appendRun loads and saves, before
\* the container is started and after it ended.
JobAppendRun(r) == kind = "job" /\ (Load(r) \/ SaveRunning(r) \/ SaveFinished(r))
JobSpawn(r) == kind = "job" /\ Spawn(r)
JobWait(r) == kind = "job" /\ Wait(r)
JobCollect(r) == kind = "job" /\ (Keep(r) \/ Collect(r) \/ End(r))
JobApply == kind = "job" /\ (LoadForApply \/ SaveForApply)
JobRemove == kind = "job" /\ (RemoveContainers \/ ClearStatus)
CronJobHandle ==
  kind = "cronjob" /\ (LoadForApply \/ SaveForApply \/ RemoveContainers \/ ClearStatus)

RunsNext ==
  \/ \E d \in 1 .. Late : Evaluate(d)
  \/ RunNow \/ RunOnce \/ Delete
  \/ \E m \in Manifests : Put(m)
  \/ CronJobHandle \/ JobApply \/ JobRemove
  \/ \E r \in Slots :
       \/ TickStep(r) \/ Finish(r)
       \/ JobGet(r) \/ JobAppendRun(r) \/ JobSpawn(r) \/ JobWait(r) \/ JobCollect(r)

RunsSpec == RunsInit /\ [][RunsNext]_runsVars
-----------------------------------------------------------------------------
Active(r) == runs[r].pc \notin {"off", "done"}
Entries == IF blob = None THEN {} ELSE {blob[i] : i \in DOMAIN blob}

\* A pass over a schedule it has cached dispatches a tick exactly when a minute
\* since the pass before was due, however late the pass is; a first pass, or one
\* after an edit of the expression, never does.
OnTime ==
  [][now' # now =>
      (runs' # runs <=>
        /\ manifest # None /\ ~manifest.suspend
        /\ sched # None /\ sched.expr = manifest.sched
        /\ \E u \in now + 1 .. now' : Due(manifest.sched, u))]_runsVars

\* No run begins beside another: a job's never do, by its callers, nor a cronjob's
\* when every manifest forbids it.
Exclusive == kind = "job" \/ \A m \in Manifests : m.policy = "Forbid"

\* concurrency_policy = "Forbid": a run starts no container while that of an
\* earlier run is up, be they scheduled or asked for by hand.
NoOverlap == Exclusive => Cardinality({r \in Slots : cont[r] = "up"}) <= 1

\* When nothing is under way, every success the history shows has its container,
\* so `voodu logs` finds it, and unless the newest run had no container and so
\* collected nothing, docker holds the containers of no other runs.
LogsKept ==
  Exclusive /\ Resting /\ applier.pc = "idle" /\ ~stale =>
    /\ \A e \in Entries : e.st = "ok" => cont[e.run] = "ok"
    /\ Entries # {} /\ cont[blob[1].run] # "none" =>
         \A r \in Slots : cont[r] # "none" => \E e \in Entries : e.run = r /\ e.st = cont[r]

\* A run the history calls running is running: each is finalised where it
\* stands, once, unless a save went over an entry its writer had not read or the
\* delete took the blob from under it.
HistoryHonest ==
  ~stale => /\ \A e \in Entries : e.st = "running" => Active(e.run)
            /\ \A e, f \in Entries : e.run = f.run => e = f

\* Runs do not overlap under Forbid, and the history and the containers that are
\* kept tell what they did.
RunsKept == NoOverlap /\ LogsKept /\ HistoryHonest
=============================================================================
