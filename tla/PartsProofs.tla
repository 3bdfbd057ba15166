----------------------------- MODULE PartsProofs -----------------------------
(***************************************************************************)
(* Proofs about the components beside the workload handlers.  Probes: for  *)
(* any number of entries, probes, thresholds and callers; what the code    *)
(* promises only while one goroutine at a time replaces a container is     *)
(* proved under that assumption, stated in the theorem.  Inits: for any    *)
(* manifests, chains, retries and cap of the ring.  Runs: for any manifest *)
(* and expression, any number of runs, and any caps of the history.        *)
(***************************************************************************)
EXTENDS Probes, Inits, Runs, FiniteSetTheorems, SequenceTheorems, TLAPS

-----------------------------------------------------------------------------
(* Probes. The argument: the memory is one queue behind the runner. What is   *)
(* shown agrees with the event before the oldest one in the channel, each     *)
(* event is a transition or repeats the one before it, and the newest is what *)
(* the runner holds; a dropped event breaks the chain only if it was a        *)
(* transition, and the event that ends a startup probe, the last of its       *)
(* channel, is never dropped.                                                 *)

Event == [kind : {"some"}, phase : Phases, edge : BOOLEAN, dying : BOOLEAN]
Snapshots == [kind : {"some"}, passed : BOOLEAN, phase : Phases]
Memory == [passed : BOOLEAN, phase : Phases, planned : BOOLEAN, failed : BOOLEAN]
Runner == [st : {"off", "run", "done"}, ok : 0 .. SuccessThreshold,
           bad : 0 .. FailureThreshold, phase : Phases]
Worker == [at : {"idle", "record", "gate"}, ev : Event \cup {Nothing}]
CallerAt == [at : {"idle", "spawn", "store", "marked", "wait", "clear"}, e : 0 .. Generations]
Announced == [ahead : Int, dying : BOOLEAN]

\* Every variable has its type; a drain that works has an event.
ProbesType ==
  /\ registry \in 0 .. Generations /\ mem \in [Gens -> Memory]
  /\ runner \in [Gens -> [Declared -> Runner]]
  /\ queue \in [Gens -> [Declared -> Seq(Event)]]
  /\ \A e \in Gens, k \in Declared : Len(queue[e][k]) <= Buffer
  /\ cut \subseteq Gens /\ first \in [Gens -> Snapshots \cup {Nothing}]
  /\ worker \in [Gens -> [Declared -> Worker]]
  /\ \A e \in Gens, k \in Declared : worker[e][k].at # "idle" => worker[e][k].ev \in Event
  /\ caller \in [Callers -> CallerAt]
  /\ \A c \in Callers : caller[c].at = "store" => caller[c].e \in Gens
  /\ status \in Snapshots \cup {Nothing}
  /\ owed \subseteq Gens /\ lost \subseteq Gens \X Declared
  /\ sent \in [Gens -> Announced] /\ work \in 0 .. MaxWork

OffIsFresh == \A e \in Gens, k \in Declared :
  runner[e][k].st = "off" => runner[e][k].phase = "unknown" /\ queue[e][k] = <<>>

\* The readiness probe of an entry: memory, channel and runner in a chain.
Chained(m, q, r) ==
  /\ q = <<>> => m.phase = r.phase
  /\ q # <<>> => q[Len(q)].phase = r.phase /\ (q[1].edge \/ q[1].phase = m.phase)
  /\ \A i \in 1 .. Len(q) - 1 : q[i + 1].edge \/ q[i + 1].phase = q[i].phase

ReadinessChain ==
  "readiness" \in Declared =>
    \A e \in Gens : <<e, "readiness">> \in lost \/ Chained(mem[e], queue[e]["readiness"], runner[e]["readiness"])

\* The startup probe of an entry: it becomes healthy once, with its last sample.
Starting(m, q, r) ==
  /\ r.st # "done" => r.phase # "healthy"
  /\ q = <<>> => (m.passed <=> r.phase = "healthy")
  /\ q # <<>> => ~m.passed /\ q[Len(q)].phase = r.phase
  /\ q # <<>> => (r.phase = "healthy" => q[Len(q)].edge)
  /\ \A i \in 1 .. Len(q) - 1 : q[i].phase # "healthy"

StartupOnce ==
  "startup" \in Declared =>
    \A e \in Gens : Starting(mem[e], queue[e]["startup"], runner[e]["startup"])

\* What may still be recovered from was announced before.
Paired == \A e \in Gens : sent[e].ahead >= 0 /\ (mem[e].failed => sent[e].ahead >= 1)

\* A sample is of a cancelled runner only once its entry is cancelled.
DyingAreCut ==
  \A e \in Gens, k \in Declared :
    /\ \A i \in DOMAIN queue[e][k] : queue[e][k][i].dying => e \in cut
    /\ worker[e][k].at # "idle" => (worker[e][k].ev.dying => e \in cut)

ProbesIInv == ProbesType /\ OffIsFresh /\ ReadinessChain /\ StartupOnce /\ Paired /\ DyingAreCut

\* While one goroutine at a time replaces the container: what it stops it marked
\* before, so no cancelled entry announces anything.
MarkedFirst ==
  /\ \A c \in Callers : /\ caller[c].at \in {"spawn", "store"} => registry = 0
                        /\ caller[c].at = "marked" => registry = 0 \/ mem[registry].planned
  /\ \A e \in cut : mem[e].planned
  /\ NoTeardownWebhook

-----------------------------------------------------------------------------
(* Channels.                                                                  *)

\* What a channel holds after a runner published ev to it.
Publishing(q, ev) == Append(IF Len(q) = Buffer THEN Tail(q) ELSE q, ev)

LEMMA TailFacts ==
  ASSUME NEW q \in Seq(Event), q # <<>>
  PROVE  /\ Len(q) \in Nat \ {0} /\ Head(q) = q[1] /\ q[1] \in Event
         /\ Tail(q) \in Seq(Event) /\ Len(Tail(q)) = Len(q) - 1
         /\ \A i \in 1 .. Len(q) - 1 : Tail(q)[i] = q[i + 1]
         /\ Tail(q) = <<>> <=> Len(q) = 1
<1>1. Len(q) \in Nat \ {0} /\ Head(q) = q[1] /\ q[1] \in Event
  OBVIOUS
<1>2. /\ Tail(q) \in Seq(Event) /\ Len(Tail(q)) = Len(q) - 1
      /\ \A i \in 1 .. Len(q) - 1 : Tail(q)[i] = q[i + 1]
  OBVIOUS
<1> DEFINE t == Tail(q)
<1>3. t \in Seq(Event) /\ Len(t) = Len(q) - 1
  BY <1>2
<1> HIDE DEF t
<1>4. t = <<>> <=> Len(q) = 1
  BY <1>3, <1>1
<1>. QED  BY <1>1, <1>2, <1>4 DEF t

LEMMA PublishFacts ==
  ASSUME NEW q \in Seq(Event), Len(q) <= Buffer, NEW ev \in Event
  PROVE  LET n == Publishing(q, ev) IN
         /\ n \in Seq(Event) /\ Len(n) \in Nat \ {0} /\ Len(n) <= Buffer /\ n # <<>> /\ n[Len(n)] = ev
         /\ Len(q) = Buffer => Len(n) = Len(q) /\ \A i \in 1 .. Len(n) - 1 : n[i] = q[i + 1]
         /\ Len(q) # Buffer => Len(n) = Len(q) + 1 /\ \A i \in 1 .. Len(n) - 1 : n[i] = q[i]
<1> USE ProbesAssumption
<1> DEFINE rest == IF Len(q) = Buffer THEN Tail(q) ELSE q
<1>1. rest \in Seq(Event) /\ Len(rest) \in Nat /\ Len(rest) < Buffer
  <2>1. CASE Len(q) = Buffer
    <3>1. q # <<>>
      BY <2>1
    <3>. QED  BY <2>1, <3>1, TailFacts
  <2>. QED  BY <2>1
<1>2. /\ Len(q) = Buffer => Len(rest) = Len(q) - 1 /\ \A i \in 1 .. Len(rest) : rest[i] = q[i + 1]
      /\ Len(q) # Buffer => rest = q
  BY TailFacts
<1> HIDE DEF rest
<1>3. /\ Append(rest, ev) \in Seq(Event) /\ Len(Append(rest, ev)) = Len(rest) + 1
      /\ Append(rest, ev)[Len(rest) + 1] = ev
      /\ \A i \in 1 .. Len(rest) : Append(rest, ev)[i] = rest[i]
  BY <1>1
<1>4. Publishing(q, ev) = Append(rest, ev)
  BY DEF Publishing, rest
<1>5. Append(rest, ev) # <<>>
  BY <1>1, <1>3
<1>. QED  BY <1>1, <1>2, <1>3, <1>4, <1>5

LEMMA ChainedPublish ==
  ASSUME NEW m \in Memory, NEW q \in Seq(Event), NEW r \in Runner, NEW s \in Runner,
         NEW ev \in Event, Len(q) <= Buffer, Chained(m, q, r),
         ev.phase = s.phase, s.phase # r.phase => ev.edge,
         Len(q) = Buffer => ~q[1].edge
  PROVE  Chained(m, Publishing(q, ev), s)
<1> DEFINE n == Publishing(q, ev)
<1>1. /\ n \in Seq(Event) /\ Len(n) \in Nat \ {0} /\ Len(n) <= Buffer /\ n # <<>> /\ n[Len(n)] = ev
      /\ Len(q) = Buffer => Len(n) = Len(q) /\ \A i \in 1 .. Len(n) - 1 : n[i] = q[i + 1]
      /\ Len(q) # Buffer => Len(n) = Len(q) + 1 /\ \A i \in 1 .. Len(n) - 1 : n[i] = q[i]
  BY PublishFacts
<1> HIDE DEF n
<1> USE ProbesAssumption
<1>2. Len(q) \in Nat /\ (q = <<>> <=> Len(q) = 0)
  OBVIOUS
<1>3. \A i \in 1 .. Len(n) - 1 : n[i + 1].edge \/ n[i + 1].phase = n[i].phase
  <2> SUFFICES ASSUME NEW i \in 1 .. Len(n) - 1, ~n[i + 1].edge PROVE n[i + 1].phase = n[i].phase
    OBVIOUS
  <2>1. CASE i = Len(n) - 1
    BY <1>1, <2>1, <1>2 DEF Chained
  <2>2. CASE i # Len(n) - 1
    <3>1. i \in 1 .. Len(n) - 1 /\ i + 1 \in 1 .. Len(n) - 1
      BY <1>1, <2>2
    <3>2. CASE Len(q) = Buffer
      BY <1>1, <3>1, <3>2 DEF Chained
    <3>3. CASE Len(q) # Buffer
      BY <1>1, <3>1, <3>3 DEF Chained
    <3>. QED  BY <3>2, <3>3
  <2>. QED  BY <2>1, <2>2
<1>4. n[1].edge \/ n[1].phase = m.phase
  <2>1. CASE Len(n) = 1
    <3>1. n[1] = ev
      BY <1>1, <2>1
    <3>2. CASE q = <<>>
      BY <3>1, <3>2 DEF Chained
    <3>3. CASE q # <<>>
      BY <1>1, <1>2, <2>1, <3>3, <3>1 DEF Chained
    <3>. QED  BY <3>2, <3>3
  <2>2. CASE Len(n) # 1
    <3>1. 1 \in 1 .. Len(n) - 1 /\ Len(q) # 0
      <4>1. Len(n) \in Nat /\ Len(n) >= 2
        <5>1. \A c \in Nat \ {0} : c # 1 => c \in Nat /\ c >= 2
          OBVIOUS
        <5>. QED  BY <1>1, <2>2, <5>1
      <4>2. Len(n) = Len(q) \/ Len(n) = Len(q) + 1
        BY <1>1
      <4>. QED  BY <1>2, <4>1, <4>2
    <3>2. CASE Len(q) = Buffer
      BY <1>1, <3>1, <3>2, <1>2 DEF Chained
    <3>3. CASE Len(q) # Buffer
      BY <1>1, <1>2, <3>1, <3>3 DEF Chained
    <3>. QED  BY <3>2, <3>3
  <2>. QED  BY <2>1, <2>2
<1>5. Chained(m, n, s)
  BY <1>1, <1>3, <1>4 DEF Chained
<1>. QED  BY <1>5 DEF n

LEMMA ChainedTake ==
  ASSUME NEW m \in Memory, NEW l \in Memory, NEW q \in Seq(Event), NEW r \in Runner,
         q # <<>>, Chained(m, q, r), l.phase = IF q[1].edge THEN q[1].phase ELSE m.phase
  PROVE  Chained(l, Tail(q), r)
<1>1. l.phase = q[1].phase
  BY DEF Chained
<1>2. CASE Len(q) = 1
  <2> DEFINE t == Tail(q)
  <2>1. t = <<>> /\ Len(t) = 0
    BY <1>2, TailFacts
  <2>2. l.phase = r.phase
    BY <1>1, <1>2 DEF Chained
  <2> HIDE DEF t
  <2>3. \A i \in 1 .. Len(t) - 1 : FALSE
    BY <2>1
  <2>4. Chained(l, t, r)
    BY <2>1, <2>2, <2>3 DEF Chained
  <2>. QED  BY <2>4 DEF t
<1>3. CASE Len(q) # 1
  <2> DEFINE t == Tail(q)
  <2>1. /\ t # <<>> /\ Len(t) \in Nat \ {0} /\ Len(q) = Len(t) + 1
        /\ \A i \in 1 .. Len(t) : t[i] = q[i + 1]
    BY <1>3, TailFacts
  <2> HIDE DEF t
  <2>2. t[Len(t)].phase = r.phase
    BY <2>1 DEF Chained
  <2>3. t[1].edge \/ t[1].phase = l.phase
    BY <1>1, <2>1 DEF Chained
  <2>4. ASSUME NEW i \in 1 .. Len(t) - 1 PROVE t[i + 1].edge \/ t[i + 1].phase = t[i].phase
    BY <2>1 DEF Chained
  <2>5. Chained(l, t, r)
    BY <2>1, <2>2, <2>3, <2>4 DEF Chained
  <2>. QED  BY <2>5 DEF t
<1>. QED  BY <1>2, <1>3

LEMMA StartingPublish ==
  ASSUME NEW m \in Memory, NEW q \in Seq(Event), NEW r \in Runner, NEW s \in Runner,
         NEW ev \in Event, Len(q) <= Buffer, Starting(m, q, r), r.st = "run",
         ev.phase = s.phase, s.phase # r.phase => ev.edge,
         s.st # "done" => s.phase # "healthy"
  PROVE  Starting(m, Publishing(q, ev), s)
<1> DEFINE n == Publishing(q, ev)
<1>1. /\ n \in Seq(Event) /\ Len(n) \in Nat \ {0} /\ Len(n) <= Buffer /\ n # <<>> /\ n[Len(n)] = ev
      /\ Len(q) = Buffer => Len(n) = Len(q) /\ \A i \in 1 .. Len(n) - 1 : n[i] = q[i + 1]
      /\ Len(q) # Buffer => Len(n) = Len(q) + 1 /\ \A i \in 1 .. Len(n) - 1 : n[i] = q[i]
  BY PublishFacts
<1> HIDE DEF n
<1>2. Len(q) \in Nat /\ (q = <<>> <=> Len(q) = 0)
  OBVIOUS
<1>3. r.phase # "healthy" /\ ~m.passed
  BY DEF Starting
<1>4. \A i \in 1 .. Len(q) : q[i].phase # "healthy"
  <2> TAKE i \in 1 .. Len(q)
  <2>1. i \in 1 .. Len(q) - 1 \/ i = Len(q)
    BY <1>2
  <2>2. q # <<>>
    BY <1>2
  <2>. QED  BY <1>3, <2>1, <2>2 DEF Starting
<1>5. \A i \in 1 .. Len(n) - 1 : n[i].phase # "healthy"
  <2> TAKE i \in 1 .. Len(n) - 1
  <2>1. (Len(q) = Buffer => i + 1 \in 1 .. Len(q)) /\ (Len(q) # Buffer => i \in 1 .. Len(q))
    BY <1>1, <1>2
  <2>. QED  BY <1>1, <1>4, <2>1
<1>6. Starting(m, n, s)
  BY <1>1, <1>3, <1>5 DEF Starting
<1>. QED  BY <1>6 DEF n

LEMMA StartingTake ==
  ASSUME NEW m \in Memory, NEW l \in Memory, NEW q \in Seq(Event), NEW r \in Runner,
         q # <<>>, Starting(m, q, r),
         l.passed <=> m.passed \/ (q[1].edge /\ q[1].phase = "healthy")
  PROVE  Starting(l, Tail(q), r)
<1>1. CASE Len(q) = 1
  <2>1. Tail(q) = <<>> /\ Len(Tail(q)) = 0
    BY <1>1, TailFacts
  <2>2. q[1].phase = r.phase /\ ~m.passed /\ (r.phase = "healthy" => q[1].edge)
    BY <1>1 DEF Starting
  <2>. QED  BY <2>1, <2>2 DEF Starting
<1>2. CASE Len(q) # 1
  <2> DEFINE t == Tail(q)
  <2>1. /\ t # <<>> /\ Len(t) \in Nat \ {0} /\ Len(q) = Len(t) + 1
        /\ \A i \in 1 .. Len(t) : t[i] = q[i + 1]
    BY <1>2, TailFacts
  <2> HIDE DEF t
  <2>2. q[1].phase # "healthy"
    BY <2>1 DEF Starting
  <2>3. ~l.passed
    BY <2>2 DEF Starting
  <2>4. t[Len(t)] = q[Len(q)]
    BY <2>1
  <2>5. ASSUME NEW i \in 1 .. Len(t) - 1 PROVE t[i].phase # "healthy"
    BY <2>1 DEF Starting
  <2>6. Starting(l, t, r)
    BY <2>1, <2>3, <2>4, <2>5 DEF Starting
  <2>. QED  BY <2>6 DEF t
<1>. QED  BY <1>1, <1>2

-----------------------------------------------------------------------------
(* The steps.                                                                 *)

\* One cell of a table by entry and probe.
LEMMA Cell ==
  ASSUME NEW S, NEW f \in [Gens -> [Declared -> S]], NEW e \in Gens, NEW k \in Declared, NEW v \in S
  PROVE  /\ [f EXCEPT ![e][k] = v] \in [Gens -> [Declared -> S]]
         /\ \A d \in Gens, j \in Declared :
              [f EXCEPT ![e][k] = v][d][j] = IF d = e /\ j = k THEN v ELSE f[d][j]
OBVIOUS

LEMMA ProbesInitOK == ProbesInit => ProbesIInv
<1> SUFFICES ASSUME ProbesInit PROVE ProbesIInv
  OBVIOUS
<1> USE ProbesAssumption DEF ProbesInit
<1>1. FreshMem \in Memory /\ OffRunner \in Runner /\ IdleWorker \in Worker /\ Silence \in Announced
  BY DEF FreshMem, Memory, Phases, FreshRunner, Runner, OffRunner, IdleWorker, Worker, Silence, Announced
<1>2. OffRunner.st = "off" /\ OffRunner.phase = "unknown" /\ IdleWorker.at = "idle"
  BY DEF OffRunner, FreshRunner, IdleWorker
<1>3. ProbesType
  BY <1>1, <1>2 DEF CallerAt, ProbesType
<1>4. OffIsFresh /\ DyingAreCut
  BY <1>2 DEF OffIsFresh, DyingAreCut
<1>5. ReadinessChain
  BY <1>2 DEF ReadinessChain, Chained, FreshMem
<1>6. StartupOnce
  <2> SUFFICES ASSUME "startup" \in Declared, NEW e \in Gens
               PROVE  Starting(mem[e], queue[e]["startup"], runner[e]["startup"])
    BY DEF StartupOnce
  <2>1. mem[e] = FreshMem /\ queue[e]["startup"] = <<>> /\ runner[e]["startup"] = OffRunner
    OBVIOUS
  <2>2. ~FreshMem.passed
    BY DEF FreshMem
  <2>3. Len(<<>>) = 0 /\ \A i \in 1 .. 0 - 1 : FALSE
    OBVIOUS
  <2>. QED  BY <1>2, <2>1, <2>2, <2>3 DEF Starting
<1>7. Paired
  BY DEF Paired, FreshMem, Silence
<1>. QED  BY <1>3, <1>4, <1>5, <1>6, <1>7 DEF ProbesIInv

\* A step of a caller that starts no runner: the probes only see a new mark, a
\* new entry in the map or a cancellation.
LEMMA CallerStep ==
  ASSUME ProbesIInv, NEW c \in Callers, NEW to \in CallerAt, to.at = "store" => to.e \in Gens,
         caller' = [caller EXCEPT ![c] = to], registry' \in 0 .. Generations,
         UNCHANGED <<runner, queue, worker, owed, lost, sent, work>>,
         cut \subseteq cut', cut' \subseteq Gens,
         mem' \in [Gens -> Memory],
         \A e \in Gens : /\ mem'[e].passed <=> mem[e].passed
                         /\ mem'[e].phase = mem[e].phase
                         /\ mem'[e].failed <=> mem[e].failed,
         first' \in [Gens -> Snapshots \cup {Nothing}], status' \in Snapshots \cup {Nothing}
  PROVE  ProbesIInv'
<1> USE DEF ProbesIInv
<1>1. ProbesType'
  BY DEF ProbesType
<1>2. OffIsFresh'
  BY DEF OffIsFresh
<1>3. ReadinessChain'
  BY DEF ReadinessChain, Chained
<1>4. StartupOnce'
  BY DEF StartupOnce, Starting
<1>5. Paired'
  BY DEF Paired
<1>6. DyingAreCut'
  BY DEF DyingAreCut
<1>. QED  BY <1>1, <1>2, <1>3, <1>4, <1>5, <1>6

LEMMA StartLookupOK ==
  ASSUME ProbesIInv, NEW c \in Callers, StartLookup(c) PROVE ProbesIInv'
BY CallerStep DEF ProbesIInv, ProbesType, CallerAt, StartLookup, Goto

LEMMA CallerTo ==
  ASSUME NEW a \in CallerAt, NEW w \in {"idle", "spawn", "store", "marked", "wait", "clear"},
         NEW n \in 0 .. Generations
  PROVE  /\ [a EXCEPT !.at = w, !.e = n] \in CallerAt
         /\ [a EXCEPT !.at = w, !.e = n].at = w /\ [a EXCEPT !.at = w, !.e = n].e = n
BY DEF CallerAt

LEMMA SnapshotLemma == ASSUME NEW m \in Memory PROVE Snapshot(m) \in Snapshots
BY DEF Snapshot, Snapshots, Memory

LEMMA StartStoreOK ==
  ASSUME ProbesIInv, NEW c \in Callers, StartStore(c) PROVE ProbesIInv'
<1> DEFINE g == caller[c].e
           to == [caller[c] EXCEPT !.at = "idle", !.e = 0]
<1>1. g \in Gens /\ registry' = g /\ first' = [first EXCEPT ![g] = Snapshot(mem[g])]
      /\ caller' = [caller EXCEPT ![c] = to]
      /\ UNCHANGED <<mem, runner, queue, cut, worker, status, owed, lost, sent, work>>
  BY DEF StartStore, ProbesIInv, ProbesType
<1>2. to \in CallerAt /\ to.at = "idle"
  <2>1. caller[c] \in CallerAt /\ 0 \in 0 .. Generations
    BY ProbesAssumption DEF ProbesIInv, ProbesType
  <2>. QED  BY <2>1, CallerTo
<1>3. registry' \in 0 .. Generations
  BY <1>1, ProbesAssumption DEF Gens
<1>4. first' \in [Gens -> Snapshots \cup {Nothing}]
  BY <1>1, SnapshotLemma DEF ProbesIInv, ProbesType
<1> HIDE DEF g, to
<1>. QED  BY <1>1, <1>2, <1>3, <1>4, CallerStep DEF ProbesIInv, ProbesType

LEMMA MarkOK ==
  ASSUME ProbesIInv, NEW c \in Callers, MarkPlannedTeardown(c) PROVE ProbesIInv'
<1> DEFINE to == [caller[c] EXCEPT !.at = "marked"]
<1>1. caller' = [caller EXCEPT ![c] = to]
      /\ UNCHANGED <<registry, runner, queue, cut, first, worker, status, owed, lost, sent, work>>
  BY DEF MarkPlannedTeardown, Goto
<1>2. to \in CallerAt /\ to.at = "marked"
  BY DEF ProbesIInv, ProbesType, CallerAt
<1>3. /\ mem' \in [Gens -> Memory]
      /\ \A e \in Gens : /\ mem'[e].passed <=> mem[e].passed
                         /\ mem'[e].phase = mem[e].phase
                         /\ mem'[e].failed <=> mem[e].failed
  <2>1. CASE registry = 0
    BY <2>1 DEF MarkPlannedTeardown, ProbesIInv, ProbesType
  <2>2. CASE registry # 0
    <3>1. registry \in Gens
      BY <2>2, ProbesAssumption DEF ProbesIInv, ProbesType, Gens
    <3>2. PICK m \in Memory : /\ mem' = [mem EXCEPT ![registry] = m]
                              /\ m.passed <=> mem[registry].passed
                              /\ m.phase = mem[registry].phase
                              /\ m.failed <=> mem[registry].failed
      <4>1. mem[registry] \in Memory
        BY <3>1 DEF ProbesIInv, ProbesType
      <4>2. mem' = [mem EXCEPT ![registry] = [mem[registry] EXCEPT !.planned = TRUE]]
        BY <2>2 DEF MarkPlannedTeardown
      <4>. QED  BY <4>1, <4>2 DEF Memory
    <3>. QED  BY <3>1, <3>2 DEF ProbesIInv, ProbesType
  <2>. QED  BY <2>1, <2>2
<1> HIDE DEF to
<1>. QED  BY <1>1, <1>2, <1>3, CallerStep DEF ProbesIInv, ProbesType

LEMMA StopCancelOK ==
  ASSUME ProbesIInv, NEW c \in Callers, StopCancel(c) PROVE ProbesIInv'
<1> DEFINE to == [caller[c] EXCEPT !.at = "wait", !.e = registry]
<1> USE ProbesAssumption
<1>1. caller' = [caller EXCEPT ![c] = to] /\ registry' = 0 /\ cut' = cut \cup ({registry} \ {0})
      /\ UNCHANGED <<mem, runner, queue, first, worker, status, owed, lost, sent, work>>
  BY DEF StopCancel
<1>2. to \in CallerAt /\ to.at = "wait"
  BY DEF ProbesIInv, ProbesType, CallerAt
<1>3. cut' \subseteq Gens /\ cut \subseteq cut' /\ registry' \in 0 .. Generations
  BY <1>1 DEF ProbesIInv, ProbesType, Gens
<1> HIDE DEF to
<1>. QED  BY <1>1, <1>2, <1>3, CallerStep DEF ProbesIInv, ProbesType

LEMMA StopWaitOK ==
  ASSUME ProbesIInv, NEW c \in Callers, StopWait(c) PROVE ProbesIInv'
<1> DEFINE to == [caller[c] EXCEPT !.at = "clear"]
<1>1. caller' = [caller EXCEPT ![c] = to]
      /\ UNCHANGED <<registry, mem, runner, queue, cut, first, worker, status, owed, lost, sent, work>>
  BY DEF StopWait, Goto
<1>2. to \in CallerAt /\ to.at = "clear"
  BY DEF ProbesIInv, ProbesType, CallerAt
<1> HIDE DEF to
<1>. QED  BY <1>1, <1>2, CallerStep DEF ProbesIInv, ProbesType

LEMMA ClearOK ==
  ASSUME ProbesIInv, NEW c \in Callers, Clear(c) PROVE ProbesIInv'
<1> DEFINE to == [caller[c] EXCEPT !.at = "idle", !.e = 0]
<1>1. caller' = [caller EXCEPT ![c] = to] /\ status' = Nothing
      /\ UNCHANGED <<registry, mem, runner, queue, cut, first, worker, owed, lost, sent, work>>
  BY DEF Clear
<1>2. to \in CallerAt /\ to.at = "idle"
  <2>1. caller[c] \in CallerAt /\ 0 \in 0 .. Generations
    BY ProbesAssumption DEF ProbesIInv, ProbesType
  <2>. QED  BY <2>1, CallerTo
<1> HIDE DEF to
<1>. QED  BY <1>1, <1>2, CallerStep DEF ProbesIInv, ProbesType

LEMMA StartSpawnOK ==
  ASSUME ProbesIInv, NEW c \in Callers, StartSpawn(c) PROVE ProbesIInv'
<1> USE DEF ProbesIInv
<1>1. PICK g \in Gens \ Used :
        /\ runner' = [runner EXCEPT ![g] = [k \in Declared |-> FreshRunner]]
        /\ caller' = [caller EXCEPT ![c].at = "store", ![c].e = g]
  BY DEF StartSpawn
<1>2. work' \in 0 .. MaxWork
      /\ UNCHANGED <<registry, mem, queue, cut, first, worker, status, owed, lost, sent>>
  BY ProbesAssumption DEF StartSpawn, ProbesType
<1>3. FreshRunner \in Runner /\ FreshRunner.phase = "unknown" /\ FreshRunner.st = "run"
  BY ProbesAssumption DEF FreshRunner, Runner, Phases
<1>4. /\ runner' \in [Gens -> [Declared -> Runner]]
      /\ \A d \in Gens, k \in Declared : runner'[d][k] = IF d = g THEN FreshRunner ELSE runner[d][k]
  BY <1>1, <1>3 DEF ProbesType
<1>5. \A k \in Declared : runner[g][k].st = "off" /\ runner[g][k].phase = "unknown" /\ queue[g][k] = <<>>
  BY <1>1 DEF Used, OffIsFresh
<1>6. ProbesType'
  <2>1. PICK to \in CallerAt : caller' = [caller EXCEPT ![c] = to] /\ to.e \in Gens
    <3>1. [caller[c] EXCEPT !.at = "store", !.e = g] \in CallerAt
          /\ [caller[c] EXCEPT !.at = "store", !.e = g].e = g
      <4>1. g \in 0 .. Generations /\ caller[c] \in CallerAt
        BY <1>1, ProbesAssumption DEF ProbesType, Gens
      <4>. QED  BY <4>1, CallerTo
    <3>. QED  BY <1>1, <3>1
  <2>2. caller' \in [Callers -> CallerAt]
        /\ \A d \in Callers : caller'[d].at = "store" => caller'[d].e \in Gens
    BY <2>1 DEF ProbesType
  <2>. QED  BY <1>2, <1>4, <2>2 DEF ProbesType
<1>7. OffIsFresh'
  BY <1>2, <1>3, <1>4 DEF OffIsFresh
<1>8. ReadinessChain'
  <2> SUFFICES ASSUME "readiness" \in Declared, NEW d \in Gens, <<d, "readiness">> \notin lost
               PROVE  Chained(mem[d], queue[d]["readiness"], runner'[d]["readiness"])
    BY <1>2 DEF ReadinessChain
  <2>1. Chained(mem[d], queue[d]["readiness"], runner[d]["readiness"])
    BY DEF ReadinessChain
  <2>2. runner'[d]["readiness"].phase = runner[d]["readiness"].phase
    BY <1>3, <1>4, <1>5
  <2>. QED  BY <2>1, <2>2 DEF Chained
<1>9. StartupOnce'
  BY <1>2, <1>3, <1>4, <1>5 DEF StartupOnce, Starting
<1>10. Paired' /\ DyingAreCut'
  BY <1>2 DEF Paired, DyingAreCut
<1>. QED  BY <1>6, <1>7, <1>8, <1>9, <1>10

-----------------------------------------------------------------------------
LEMMA JudgeLemma ==
  ASSUME NEW r \in Runner, NEW good \in BOOLEAN
  PROVE  Judge(r, good) \in Runner /\ Judge(r, good).st = r.st
<1> USE ProbesAssumption
<1> DEFINE ok == IF good THEN CappedTo(r.ok, SuccessThreshold) ELSE 0
           bad == IF good THEN 0 ELSE CappedTo(r.bad, FailureThreshold)
           ph == IF ok = SuccessThreshold THEN "healthy"
                 ELSE IF bad = FailureThreshold THEN "unhealthy" ELSE r.phase
<1>1. ok \in 0 .. SuccessThreshold /\ bad \in 0 .. FailureThreshold
  BY DEF CappedTo, Runner
<1>2. ph \in Phases
  BY DEF Phases, Runner
<1>3. Judge(r, good) = [r EXCEPT !.ok = ok, !.bad = bad, !.phase = ph]
  BY DEF Judge
<1> HIDE DEF ok, bad, ph
<1>4. [r EXCEPT !.ok = ok, !.bad = bad, !.phase = ph]
        \in [st : {r.st}, ok : {ok}, bad : {bad}, phase : {ph}]
  BY DEF Runner
<1>5. r.st \in {"off", "run", "done"}
  BY DEF Runner
<1>. QED  BY <1>1, <1>2, <1>3, <1>4, <1>5 DEF Runner

LEMMA SampleOK ==
  ASSUME ProbesIInv, NEW e \in Gens, NEW k \in Declared, Sample(e, k) PROVE ProbesIInv'
<1> USE DEF ProbesIInv
<1> DEFINE r == runner[e][k]
           q == queue[e][k]
<1>1. PICK good \in BOOLEAN :
        LET s == Judge(r, good)
            edge == s.phase # r.phase
            over == k = "startup" /\ s.phase = "healthy"
        IN /\ runner' = [runner EXCEPT ![e][k] = [s EXCEPT !.st = IF over THEN "done" ELSE @]]
           /\ Publish(e, k, [kind |-> "some", phase |-> s.phase, edge |-> edge, dying |-> e \in cut])
           /\ owed' = IF k = "liveness" /\ edge /\ s.phase = "unhealthy" THEN owed \cup {e} ELSE owed
  BY DEF Sample
<1> DEFINE j == Judge(r, good)
           s == [j EXCEPT !.st = IF k = "startup" /\ j.phase = "healthy" THEN "done" ELSE @]
           ev == [kind |-> "some", phase |-> j.phase, edge |-> j.phase # r.phase, dying |-> e \in cut]
<1>2. r \in Runner /\ r.st = "run" /\ q \in Seq(Event) /\ Len(q) <= Buffer
  BY DEF Sample, ProbesType
<1>3. work' \in 0 .. MaxWork
      /\ UNCHANGED <<registry, mem, cut, first, worker, caller, status, sent>>
  BY ProbesAssumption DEF Sample, ProbesType
<1>4. j \in Runner /\ j.st = "run"
  BY <1>2, JudgeLemma
<1>5. /\ runner' = [runner EXCEPT ![e][k] = s] /\ queue' = [queue EXCEPT ![e][k] = Publishing(q, ev)]
      /\ lost' = IF Len(q) = Buffer /\ Head(q).edge THEN lost \cup {<<e, k>>} ELSE lost
      /\ owed' \in {owed, owed \cup {e}}
  BY <1>1 DEF Publish, Publishing
<1> HIDE DEF j
<1>6. /\ s \in Runner /\ s.phase = j.phase /\ s.st # "off"
      /\ k = "startup" => (s.st # "done" => s.phase # "healthy")
  BY <1>4 DEF Runner
<1>7. /\ ev \in Event /\ ev.phase = s.phase /\ (s.phase # r.phase => ev.edge)
      /\ ev.dying => e \in cut
  <2>1. (j.phase # r.phase) \in BOOLEAN /\ (e \in cut) \in BOOLEAN /\ j.phase \in Phases
    BY <1>4 DEF Runner
  <2>2. ev \in Event /\ ev.phase = j.phase
    BY <2>1 DEF Event
  <2>3. (ev.dying <=> e \in cut) /\ (ev.edge <=> j.phase # r.phase)
    OBVIOUS
  <2>. QED  BY <1>6, <2>2, <2>3
<1> HIDE DEF s, ev, r, q
<1>8. /\ Publishing(q, ev) \in Seq(Event) /\ Len(Publishing(q, ev)) <= Buffer
      /\ Publishing(q, ev) # <<>>
      /\ \A i \in DOMAIN Publishing(q, ev) :
           Publishing(q, ev)[i] = ev \/ \E h \in DOMAIN q : Publishing(q, ev)[i] = q[h]
  <2> DEFINE n == Publishing(q, ev)
  <2>1. /\ n \in Seq(Event) /\ Len(n) \in Nat \ {0} /\ Len(n) <= Buffer /\ n # <<>> /\ n[Len(n)] = ev
        /\ Len(q) = Buffer => Len(n) = Len(q) /\ \A i \in 1 .. Len(n) - 1 : n[i] = q[i + 1]
        /\ Len(q) # Buffer => Len(n) = Len(q) + 1 /\ \A i \in 1 .. Len(n) - 1 : n[i] = q[i]
    BY <1>2, <1>7, PublishFacts
  <2> HIDE DEF n
  <2>2. ASSUME NEW i \in DOMAIN n, n[i] # ev PROVE \E h \in DOMAIN q : n[i] = q[h]
    <3>1. i \in 1 .. Len(n) - 1
      BY <2>1, <2>2
    <3>2. DOMAIN q = 1 .. Len(q) /\ Len(q) \in Nat
      BY <1>2
    <3>3. CASE Len(q) = Buffer
      BY <2>1, <3>1, <3>2, <3>3
    <3>4. CASE Len(q) # Buffer
      <4>1. Len(n) = Len(q) + 1 /\ n[i] = q[i]
        BY <2>1, <3>1, <3>4
      <4>2. i \in DOMAIN q
        BY <3>1, <3>2, <4>1
      <4>. QED  BY <4>1, <4>2
    <3>. QED  BY <3>3, <3>4
  <2>3. n \in Seq(Event) /\ Len(n) <= Buffer /\ n # <<>>
        /\ \A i \in DOMAIN n : n[i] = ev \/ \E h \in DOMAIN q : n[i] = q[h]
    BY <2>1, <2>2
  <2>. QED  BY <2>3 DEF n
<1>9. /\ runner' \in [Gens -> [Declared -> Runner]]
      /\ \A d \in Gens, l \in Declared : runner'[d][l] = IF d = e /\ l = k THEN s ELSE runner[d][l]
  BY <1>5, <1>6, Cell DEF ProbesType
<1>10. /\ queue' \in [Gens -> [Declared -> Seq(Event)]]
       /\ \A d \in Gens, l \in Declared :
            queue'[d][l] = IF d = e /\ l = k THEN Publishing(q, ev) ELSE queue[d][l]
  BY <1>5, <1>8, Cell DEF ProbesType
<1>11. ProbesType'
  BY <1>8, <1>10, <1>5, <1>3, <1>9 DEF ProbesType
<1>12. OffIsFresh'
  <2> SUFFICES ASSUME NEW d \in Gens, NEW l \in Declared, runner'[d][l].st = "off"
               PROVE  runner'[d][l].phase = "unknown" /\ queue'[d][l] = <<>>
    BY DEF OffIsFresh
  <2>1. ~(d = e /\ l = k)
    BY <1>6, <1>9
  <2>2. runner'[d][l] = runner[d][l] /\ queue'[d][l] = queue[d][l]
    BY <1>9, <1>10, <2>1
  <2>. QED  BY <2>2 DEF OffIsFresh
<1>13. ReadinessChain'
  <2> SUFFICES ASSUME "readiness" \in Declared, NEW d \in Gens, <<d, "readiness">> \notin lost'
               PROVE  Chained(mem[d], queue'[d]["readiness"], runner'[d]["readiness"])
    BY <1>3 DEF ReadinessChain
  <2>1. Chained(mem[d], queue[d]["readiness"], runner[d]["readiness"])
    BY <1>5 DEF ReadinessChain
  <2>2. CASE d = e /\ k = "readiness"
    <3>1. mem[e] \in Memory /\ Chained(mem[e], q, r)
      BY <2>1, <2>2 DEF ProbesType, q, r
    <3>2. Len(q) = Buffer => ~q[1].edge
      BY <1>2, ProbesAssumption, TailFacts, <1>5, <2>2
    <3>3. Chained(mem[e], Publishing(q, ev), s)
      BY <1>2, <1>6, <1>7, <3>1, <3>2, ChainedPublish
    <3>. QED  BY <1>9, <1>10, <2>2, <3>3
  <2>3. CASE ~(d = e /\ k = "readiness")
    BY <1>9, <1>10, <2>1, <2>3
  <2>. QED  BY <2>2, <2>3
<1>14. StartupOnce'
  <2> SUFFICES ASSUME "startup" \in Declared, NEW d \in Gens
               PROVE  Starting(mem[d], queue'[d]["startup"], runner'[d]["startup"])
    BY <1>3 DEF StartupOnce
  <2>1. Starting(mem[d], queue[d]["startup"], runner[d]["startup"])
    BY DEF StartupOnce
  <2>2. CASE d = e /\ k = "startup"
    BY <2>1, <2>2, <1>2, <1>6, <1>7, StartingPublish, <1>9, <1>10 DEF ProbesType, q, r
  <2>3. CASE ~(d = e /\ k = "startup")
    BY <1>9, <1>10, <2>1, <2>3
  <2>. QED  BY <2>2, <2>3
<1>15. Paired'
  BY <1>3 DEF Paired
<1>16. DyingAreCut'
  <2> SUFFICES ASSUME NEW d \in Gens, NEW l \in Declared
               PROVE  \A i \in DOMAIN queue'[d][l] : queue'[d][l][i].dying => d \in cut
    BY <1>3 DEF DyingAreCut
  <2>1. CASE d = e /\ l = k
    BY <1>10, <2>1, <1>7, <1>8 DEF DyingAreCut, q
  <2>2. CASE ~(d = e /\ l = k)
    BY <1>10, <2>2 DEF DyingAreCut
  <2>. QED  BY <2>1, <2>2
<1>. QED  BY <1>11, <1>12, <1>13, <1>14, <1>15, <1>16

LEMMA ExitRunnerOK ==
  ASSUME ProbesIInv, NEW e \in Gens, NEW k \in Declared, Exit(e, k) PROVE ProbesIInv'
<1> USE DEF ProbesIInv
<1>1. PICK s \in Runner : /\ runner' = [runner EXCEPT ![e][k] = s] /\ s.st = "done"
                          /\ s.phase = runner[e][k].phase
  <2>1. runner[e][k] \in Runner
    BY DEF ProbesType
  <2>2. [runner[e][k] EXCEPT !.st = "done"] \in Runner
        /\ [runner[e][k] EXCEPT !.st = "done"].st = "done"
        /\ [runner[e][k] EXCEPT !.st = "done"].phase = runner[e][k].phase
    BY <2>1 DEF Runner
  <2>3. runner' = [runner EXCEPT ![e][k] = [runner[e][k] EXCEPT !.st = "done"]]
    BY DEF Exit
  <2>. QED  BY <2>2, <2>3
<1>2. UNCHANGED <<registry, mem, queue, cut, first, worker, caller, status, owed, lost, sent, work>>
  BY DEF Exit
<1>3. /\ runner' \in [Gens -> [Declared -> Runner]]
      /\ \A d \in Gens, l \in Declared : runner'[d][l] = IF d = e /\ l = k THEN s ELSE runner[d][l]
  BY <1>1, Cell DEF ProbesType
<1>4. \A d \in Gens, l \in Declared : /\ runner'[d][l].phase = runner[d][l].phase
                                     /\ runner'[d][l].st \in {runner[d][l].st, "done"}
  BY <1>1, <1>3
<1>5. ProbesType'
  BY <1>2, <1>3 DEF ProbesType
<1>6. OffIsFresh'
  BY <1>2, <1>4 DEF OffIsFresh
<1>7. ReadinessChain' /\ StartupOnce'
  BY <1>2, <1>4 DEF ReadinessChain, Chained, StartupOnce, Starting
<1>8. Paired' /\ DyingAreCut'
  BY <1>2 DEF Paired, DyingAreCut
<1>. QED  BY <1>5, <1>6, <1>7, <1>8

\* Steps of which the probes see nothing.
LEMMA AsideStep ==
  ASSUME ProbesIInv,
         UNCHANGED <<registry, mem, runner, queue, cut, caller, lost, sent, work>>,
         owed' \subseteq Gens, status' \in Snapshots \cup {Nothing},
         first' \in [Gens -> Snapshots \cup {Nothing}],
         worker' \in [Gens -> [Declared -> Worker]],
         \A d \in Gens, l \in Declared :
           worker'[d][l].at # "idle" => worker[d][l].at # "idle" /\ worker'[d][l].ev = worker[d][l].ev
  PROVE  ProbesIInv'
<1> USE DEF ProbesIInv
<1>1. ProbesType'
  BY DEF ProbesType
<1>2. OffIsFresh' /\ ReadinessChain' /\ StartupOnce' /\ Paired'
  BY DEF OffIsFresh, ReadinessChain, StartupOnce, Paired
<1>3. DyingAreCut'
  BY DEF DyingAreCut
<1>. QED  BY <1>1, <1>2, <1>3

LEMMA RestartContainerOK ==
  ASSUME ProbesIInv, NEW e \in Gens, RestartContainer(e) PROVE ProbesIInv'
BY AsideStep DEF RestartContainer, ProbesIInv, ProbesType

LEMMA RecordFirstOK ==
  ASSUME ProbesIInv, NEW e \in Gens, RecordFirst(e) PROVE ProbesIInv'
BY AsideStep DEF RecordFirst, ProbesIInv, ProbesType

LEMMA RecordOK ==
  ASSUME ProbesIInv, NEW e \in Gens, NEW k \in Declared, Record(e, k) PROVE ProbesIInv'
<1> USE DEF ProbesIInv
<1>1. PICK w \in Worker : /\ worker' = [worker EXCEPT ![e][k] = w] /\ w.ev = worker[e][k].ev
  <2>1. worker[e][k] \in Worker
    BY DEF ProbesType
  <2>2. [worker[e][k] EXCEPT !.at = "gate"] \in Worker
        /\ [worker[e][k] EXCEPT !.at = "gate"].ev = worker[e][k].ev
    BY <2>1 DEF Worker
  <2>3. worker' = [worker EXCEPT ![e][k] = [worker[e][k] EXCEPT !.at = "gate"]]
    BY DEF Record
  <2>. QED  BY <2>2, <2>3
<1>2. /\ worker[e][k].at = "record" /\ status' = Snapshot(mem[e])
      /\ UNCHANGED <<registry, mem, runner, queue, cut, first, caller, owed, lost, sent, work>>
  BY DEF Record
<1>3. /\ worker' \in [Gens -> [Declared -> Worker]]
      /\ \A d \in Gens, l \in Declared : worker'[d][l] = IF d = e /\ l = k THEN w ELSE worker[d][l]
  BY <1>1, Cell DEF ProbesType
<1>4. \A d \in Gens, l \in Declared :
        worker'[d][l].at # "idle" => worker[d][l].at # "idle" /\ worker'[d][l].ev = worker[d][l].ev
  BY <1>1, <1>2, <1>3
<1>5. status' \in Snapshots /\ owed' \subseteq Gens /\ first' \in [Gens -> Snapshots \cup {Nothing}]
  BY <1>2, SnapshotLemma DEF ProbesType
<1>. QED  BY <1>2, <1>3, <1>4, <1>5, AsideStep

LEMMA TakeOK ==
  ASSUME ProbesIInv, NEW e \in Gens, NEW k \in Declared, Take(e, k) PROVE ProbesIInv'
<1> USE DEF ProbesIInv
<1> DEFINE q == queue[e][k]
           ev == Head(q)
           mutates == ev.edge /\ k # "liveness" /\ (k = "startup" => ev.phase = "healthy")
<1>1. /\ q \in Seq(Event) /\ q # <<>> /\ ev = q[1] /\ ev \in Event
      /\ Tail(q) \in Seq(Event) /\ Len(Tail(q)) <= Buffer
  BY TailFacts, ProbesAssumption DEF Take, ProbesType
<1>2. UNCHANGED <<registry, runner, cut, first, caller, status, owed, lost, sent, work>>
      /\ queue' = [queue EXCEPT ![e][k] = Tail(q)]
  BY DEF Take
<1>3. PICK m \in Memory : /\ mem' = [mem EXCEPT ![e] = m] /\ (m.failed <=> mem[e].failed)
                          /\ m.phase = IF k = "readiness" /\ ev.edge THEN ev.phase ELSE mem[e].phase
                          /\ m.passed <=> mem[e].passed \/ (k = "startup" /\ ev.edge /\ ev.phase = "healthy")
  <2>1. mem[e] \in Memory /\ ev.phase \in Phases
    BY <1>1 DEF ProbesType, Event
  <2>2. CASE ~mutates
    BY <2>2, <2>1 DEF Take, ProbesType
  <2>3. CASE mutates /\ k = "readiness"
    <3> DEFINE m == [mem[e] EXCEPT !.phase = ev.phase]
    <3>1. m \in Memory /\ m.phase = ev.phase /\ (m.failed <=> mem[e].failed) /\ (m.passed <=> mem[e].passed)
      BY <2>1 DEF Memory
    <3>2. mem' = [mem EXCEPT ![e] = m]
      BY <2>3 DEF Take
    <3> HIDE DEF m, ev
    <3>. QED  BY <2>3, <3>1, <3>2
  <2>4. CASE mutates /\ k # "readiness"
    <3> DEFINE m == [mem[e] EXCEPT !.passed = TRUE]
    <3>1. m \in Memory /\ m.phase = mem[e].phase /\ (m.failed <=> mem[e].failed) /\ m.passed
      BY <2>1 DEF Memory
    <3>2. mem' = [mem EXCEPT ![e] = m] /\ k = "startup" /\ ev.edge /\ ev.phase = "healthy"
      BY <2>4, ProbesAssumption DEF Take, ProbeKinds
    <3> HIDE DEF m, ev
    <3>. QED  BY <3>1, <3>2
  <2>. QED  BY <2>2, <2>3, <2>4
<1>4. PICK w \in Worker : /\ worker' = [worker EXCEPT ![e][k] = w]
                          /\ w.at # "idle" => w.ev = ev
  <2>1. worker[e][k] \in Worker /\ worker[e][k].at = "idle"
    BY DEF ProbesType, Take
  <2>2. CASE ~ev.edge
    BY <2>2, <2>1 DEF Take
  <2>3. CASE ev.edge
    <3> DEFINE to == IF mutates THEN "record" ELSE "gate"
    <3>1. worker' = [worker EXCEPT ![e][k] = [worker[e][k] EXCEPT !.ev = ev, !.at = to]]
      BY <2>3 DEF Take
    <3>2. to \in {"record", "gate"}
      OBVIOUS
    <3> HIDE DEF to, ev
    <3>3. [worker[e][k] EXCEPT !.ev = ev, !.at = to] \in [at : {to}, ev : {ev}]
      BY <2>1 DEF Worker
    <3>4. \A x \in [at : {to}, ev : {ev}] : x \in Worker /\ x.ev = ev
      BY <1>1, <3>2 DEF Worker
    <3>. QED  BY <3>1, <3>3, <3>4
  <2>. QED  BY <2>2, <2>3
<1> HIDE DEF ev, q
<1>5. /\ queue' \in [Gens -> [Declared -> Seq(Event)]]
      /\ \A d \in Gens, l \in Declared : queue'[d][l] = IF d = e /\ l = k THEN Tail(q) ELSE queue[d][l]
  BY <1>1, <1>2, Cell DEF ProbesType
<1>6. /\ worker' \in [Gens -> [Declared -> Worker]]
      /\ \A d \in Gens, l \in Declared : worker'[d][l] = IF d = e /\ l = k THEN w ELSE worker[d][l]
  BY <1>4, Cell DEF ProbesType
<1>7. mem' \in [Gens -> Memory] /\ \A d \in Gens : mem'[d] = IF d = e THEN m ELSE mem[d]
  BY <1>3 DEF ProbesType
<1>8. ProbesType'
  <2>1. \A d \in Gens, l \in Declared : Len(queue'[d][l]) <= Buffer
    BY <1>1, <1>5 DEF ProbesType
  <2>2. \A d \in Gens, l \in Declared : worker'[d][l].at # "idle" => worker'[d][l].ev \in Event
    BY <1>1, <1>4, <1>6 DEF ProbesType
  <2>. QED  BY <1>2, <1>5, <1>6, <1>7, <2>1, <2>2 DEF ProbesType
<1>9. OffIsFresh'
  BY <1>1, <1>2, <1>5 DEF OffIsFresh, q
<1>10. ReadinessChain'
  <2> SUFFICES ASSUME "readiness" \in Declared, NEW d \in Gens, <<d, "readiness">> \notin lost
               PROVE  Chained(mem'[d], queue'[d]["readiness"], runner[d]["readiness"])
    BY <1>2 DEF ReadinessChain
  <2>1. Chained(mem[d], queue[d]["readiness"], runner[d]["readiness"])
    BY DEF ReadinessChain
  <2>2. CASE d = e /\ k = "readiness"
    BY <2>1, <2>2, <1>1, <1>3, ChainedTake, <1>5, <1>7 DEF q, ProbesType
  <2>3. CASE ~(d = e /\ k = "readiness")
    BY <1>3, <1>5, <1>7, <2>3, <2>1 DEF Chained
  <2>. QED  BY <2>2, <2>3
<1>11. StartupOnce'
  <2> SUFFICES ASSUME "startup" \in Declared, NEW d \in Gens
               PROVE  Starting(mem'[d], queue'[d]["startup"], runner[d]["startup"])
    BY <1>2 DEF StartupOnce
  <2>1. Starting(mem[d], queue[d]["startup"], runner[d]["startup"])
    BY DEF StartupOnce
  <2>2. CASE d = e /\ k = "startup"
    BY <2>1, <2>2, <1>1, <1>3, StartingTake, <1>5, <1>7 DEF q, ProbesType
  <2>3. CASE ~(d = e /\ k = "startup")
    BY <1>3, <1>5, <1>7, <2>3, <2>1 DEF Starting
  <2>. QED  BY <2>2, <2>3
<1>12. Paired'
  BY <1>3, <1>7, <1>2 DEF Paired
<1>13. DyingAreCut'
  <2>1. \A i \in DOMAIN q : q[i].dying => e \in cut
    BY DEF DyingAreCut, q
  <2>2. \A i \in DOMAIN Tail(q) : Tail(q)[i].dying => e \in cut
    <3> TAKE i \in DOMAIN Tail(q)
    <3>1. Tail(q)[i] = q[i + 1] /\ i + 1 \in DOMAIN q
      BY <1>1, TailFacts
    <3>. QED  BY <2>1, <3>1
  <2>3. w.at # "idle" => (w.ev.dying => e \in cut)
    <3>1. 1 \in DOMAIN q
      BY <1>1, TailFacts
    <3>. QED  BY <1>1, <1>4, <2>1, <3>1
  <2>4. ASSUME NEW d \in Gens, NEW l \in Declared
        PROVE  /\ \A i \in DOMAIN queue'[d][l] : queue'[d][l][i].dying => d \in cut
               /\ worker'[d][l].at # "idle" => (worker'[d][l].ev.dying => d \in cut)
    <3>1. CASE d = e /\ l = k
      BY <1>5, <1>6, <3>1, <2>2, <2>3
    <3>2. CASE ~(d = e /\ l = k)
      BY <1>5, <1>6, <3>2 DEF DyingAreCut
    <3>. QED  BY <3>1, <3>2
  <2>. QED  BY <1>2, <2>4 DEF DyingAreCut
<1>. QED  BY <1>8, <1>9, <1>10, <1>11, <1>12, <1>13

\* A drain's event passes the gate: what fires it, and what that leaves.
LEMMA AnnounceStep ==
  ASSUME ProbesIInv, NEW e \in Gens, NEW k \in Declared, Announce(e, k)
  PROVE  /\ UNCHANGED <<registry, runner, queue, cut, first, caller, status, owed, lost, work>>
         /\ worker' \in [Gens -> [Declared -> Worker]]
         /\ \A d \in Gens, l \in Declared :
              worker'[d][l].at # "idle" => worker'[d][l] = worker[d][l]
         /\ \/ mem' = mem /\ sent' = sent
            \/ \E m \in Memory, a \in Announced :
                 /\ mem' = [mem EXCEPT ![e] = m] /\ sent' = [sent EXCEPT ![e] = a]
                 /\ (m.passed <=> mem[e].passed) /\ m.phase = mem[e].phase
                 /\ ~m.planned /\ ~mem[e].planned
                 /\ (a.dying <=> sent[e].dying \/ worker[e][k].ev.dying)
                 /\ \/ m.failed /\ a.ahead = sent[e].ahead + 1
                    \/ ~m.failed /\ mem[e].failed /\ a.ahead = sent[e].ahead - 1
<1> USE DEF ProbesIInv
<1> DEFINE ev == worker[e][k].ev
           fails == ev.phase = "unhealthy"
           fires == ~mem[e].planned /\ (fails \/ mem[e].failed)
<1>1. UNCHANGED <<registry, runner, queue, cut, first, caller, status, owed, lost, work>>
      /\ worker[e][k].at = "gate" /\ worker' = [worker EXCEPT ![e][k] = IdleWorker]
  BY DEF Announce
<1>2. IdleWorker \in Worker /\ IdleWorker.at = "idle"
  BY DEF IdleWorker, Worker
<1>3. /\ worker' \in [Gens -> [Declared -> Worker]]
      /\ \A d \in Gens, l \in Declared : worker'[d][l].at # "idle" => worker'[d][l] = worker[d][l]
  BY <1>1, <1>2, Cell DEF ProbesType
<1>4. CASE ~fires
  BY <1>1, <1>3, <1>4 DEF Announce
<1>5. CASE fires
  <2>1. /\ mem[e] \in Memory /\ sent[e] \in Announced /\ fails \in BOOLEAN
        /\ ev \in Event /\ ev.dying \in BOOLEAN
    BY <1>1 DEF ProbesType, Event
  <2> DEFINE dying == sent[e].dying \/ ev.dying
             ahead == IF fails THEN sent[e].ahead + 1 ELSE sent[e].ahead - 1
  <2>2. /\ mem' = [mem EXCEPT ![e] = [mem[e] EXCEPT !.failed = fails]]
        /\ sent' = [sent EXCEPT ![e] = [sent[e] EXCEPT !.dying = dying, !.ahead = ahead]]
    BY <1>5 DEF Announce, ProbesType, Announced
  <2>3. dying \in BOOLEAN /\ ahead \in Int
    BY <2>1 DEF Announced
  <2>4. ~mem[e].planned /\ (fails \/ mem[e].failed)
    BY <1>5
  <2>5. /\ fails => ahead = sent[e].ahead + 1
        /\ ~fails => ahead = sent[e].ahead - 1
        /\ dying <=> sent[e].dying \/ ev.dying
    OBVIOUS
  <2> HIDE DEF dying, ahead, fails
  <2>6. [mem[e] EXCEPT !.failed = fails]
          \in [passed : {mem[e].passed}, phase : {mem[e].phase}, planned : {mem[e].planned}, failed : {fails}]
    BY <2>1 DEF Memory
  <2>7. PICK m \in Memory : /\ mem' = [mem EXCEPT ![e] = m]
                            /\ m.passed = mem[e].passed /\ m.phase = mem[e].phase
                            /\ m.planned = mem[e].planned /\ m.failed = fails
    BY <2>1, <2>2, <2>6 DEF Memory
  <2>8. [sent[e] EXCEPT !.dying = dying, !.ahead = ahead] \in [ahead : {ahead}, dying : {dying}]
    BY <2>1 DEF Announced
  <2>9. PICK a \in Announced : sent' = [sent EXCEPT ![e] = a] /\ a.ahead = ahead /\ a.dying = dying
    BY <2>3, <2>2, <2>8 DEF Announced
  <2>10. /\ (m.passed <=> mem[e].passed) /\ m.phase = mem[e].phase
         /\ ~m.planned /\ ~mem[e].planned
    BY <2>4, <2>7
  <2>11. a.dying <=> sent[e].dying \/ ev.dying
    BY <2>5, <2>9
  <2>12. \/ m.failed /\ a.ahead = sent[e].ahead + 1
         \/ ~m.failed /\ mem[e].failed /\ a.ahead = sent[e].ahead - 1
    BY <2>7, <2>5, <2>9, <2>4
  <2>. QED  BY <1>1, <1>3, <2>7, <2>9, <2>10, <2>11, <2>12
<1>. QED  BY <1>4, <1>5

LEMMA AnnounceOK ==
  ASSUME ProbesIInv, NEW e \in Gens, NEW k \in Declared, Announce(e, k) PROVE ProbesIInv'
<1> USE DEF ProbesIInv
<1>1. /\ UNCHANGED <<registry, runner, queue, cut, first, caller, status, owed, lost, work>>
      /\ worker' \in [Gens -> [Declared -> Worker]]
      /\ \A d \in Gens, l \in Declared : worker'[d][l].at # "idle" => worker'[d][l] = worker[d][l]
  BY AnnounceStep
<1>2. /\ mem' \in [Gens -> Memory] /\ sent' \in [Gens -> Announced]
      /\ \A d \in Gens : (mem'[d].passed <=> mem[d].passed) /\ mem'[d].phase = mem[d].phase
      /\ Paired'
  <2>1. CASE mem' = mem /\ sent' = sent
    BY <2>1 DEF ProbesType, Paired
  <2>2. CASE ~(mem' = mem /\ sent' = sent)
    <3>1. PICK m \in Memory, a \in Announced :
            /\ mem' = [mem EXCEPT ![e] = m] /\ sent' = [sent EXCEPT ![e] = a]
            /\ (m.passed <=> mem[e].passed) /\ m.phase = mem[e].phase
            /\ \/ m.failed /\ a.ahead = sent[e].ahead + 1
               \/ ~m.failed /\ mem[e].failed /\ a.ahead = sent[e].ahead - 1
      BY <2>2, AnnounceStep
    <3>2. /\ mem' \in [Gens -> Memory] /\ sent' \in [Gens -> Announced]
          /\ \A d \in Gens : mem'[d] = (IF d = e THEN m ELSE mem[d]) /\ sent'[d] = (IF d = e THEN a ELSE sent[d])
      BY <3>1 DEF ProbesType
    <3>3. sent[e].ahead \in Int /\ sent[e].ahead >= 0 /\ (mem[e].failed => sent[e].ahead >= 1)
      BY DEF ProbesType, Announced, Paired
    <3>4. a.ahead >= 0 /\ (m.failed => a.ahead >= 1)
      BY <3>1, <3>3
    <3>5. Paired'
      BY <3>2, <3>4 DEF Paired
    <3>. QED  BY <3>1, <3>2, <3>5
  <2>. QED  BY <2>1, <2>2
<1>3. ProbesType'
  BY <1>1, <1>2 DEF ProbesType
<1>4. OffIsFresh'
  BY <1>1 DEF OffIsFresh
<1>5. ReadinessChain'
  BY <1>1, <1>2 DEF ReadinessChain, Chained
<1>6. StartupOnce'
  BY <1>1, <1>2 DEF StartupOnce, Starting
<1>7. DyingAreCut'
  BY <1>1 DEF DyingAreCut
<1>. QED  BY <1>2, <1>3, <1>4, <1>5, <1>6, <1>7

LEMMA ProbesStill == ProbesIInv /\ UNCHANGED probesVars => ProbesIInv'
BY AsideStep DEF probesVars, ProbesIInv, ProbesType

LEMMA ProbesInductive == ProbesIInv /\ [ProbesNext]_probesVars => ProbesIInv'
BY StartLookupOK, StartSpawnOK, StartStoreOK, MarkOK, StopCancelOK, StopWaitOK, ClearOK, RestartContainerOK,
   RecordFirstOK, SampleOK, ExitRunnerOK, TakeOK, RecordOK, AnnounceOK, ProbesStill DEF Serve, Drain,
   ProbesNext

\* Every variable keeps its type and no channel holds more than its buffer,
\* whatever the callers, the runners and the drains do beside each other.
THEOREM ProbesTypeCorrect == ProbesSpec => []ProbesType
<1>1. ProbesIInv => ProbesType
  BY DEF ProbesIInv
<1>. QED  BY <1>1, ProbesInitOK, ProbesInductive, PTL DEF ProbesSpec

\* Whatever callers do beside each other, drained channels that lost no
\* transition leave what the runners found, and no recovery is announced without
\* a failure of its own.
THEOREM ProbesAgree == ProbesSpec => [](DrainedAgrees /\ RecoveriesPaired)
<1>1. ProbesIInv => DrainedAgrees /\ RecoveriesPaired
  <2> SUFFICES ASSUME ProbesIInv PROVE DrainedAgrees /\ RecoveriesPaired
    OBVIOUS
  <2> USE DEF ProbesIInv
  <2>1. RecoveriesPaired
    BY DEF Paired, RecoveriesPaired
  <2>2. ASSUME NEW e \in Gens, "readiness" \in Declared, queue[e]["readiness"] = <<>>, <<e, "readiness">> \notin lost
        PROVE  mem[e].phase = runner[e]["readiness"].phase
    BY <2>2 DEF ReadinessChain, Chained
  <2>3. ASSUME NEW e \in Gens, "startup" \in Declared, queue[e]["startup"] = <<>>
        PROVE  mem[e].passed = (runner[e]["startup"].phase = "healthy")
    BY <2>3 DEF StartupOnce, Starting, ProbesType, Memory
  <2>4. \A k \in Declared \ {"liveness"} : k = "startup" \/ k = "readiness"
    BY ProbesAssumption DEF ProbeKinds
  <2>. QED  BY <2>1, <2>2, <2>3, <2>4 DEF DrainedAgrees
<1>. QED  BY <1>1, ProbesInitOK, ProbesInductive, PTL DEF ProbesSpec

-----------------------------------------------------------------------------
(* One goroutine at a time replaces the container, as every caller in the     *)
(* code means to: what is announced and what runs is then of the entry in the *)
(* map alone.                                                                 *)

LEMMA TakeKeepsMarks ==
  ASSUME ProbesIInv, NEW e \in Gens, NEW k \in Declared, Take(e, k)
  PROVE  \A d \in Gens : mem'[d].planned <=> mem[d].planned
<1>1. \A d \in Gens : mem[d] \in Memory
  BY DEF ProbesIInv, ProbesType
<1>2. mem \in [Gens -> Memory]
  BY DEF ProbesIInv, ProbesType
<1>3. \/ mem' = mem
      \/ \E ph \in Phases : mem' = [mem EXCEPT ![e] = [mem[e] EXCEPT !.phase = ph]]
      \/ mem' = [mem EXCEPT ![e] = [mem[e] EXCEPT !.passed = TRUE]]
  <2>1. Head(queue[e][k]).phase \in Phases
    <3>1. queue[e][k] \in Seq(Event) /\ queue[e][k] # <<>>
      BY DEF Take, ProbesIInv, ProbesType
    <3>2. Head(queue[e][k]) \in Event
      BY <3>1, TailFacts
    <3>. QED  BY <3>2 DEF Event
  <2>. QED  BY <2>1 DEF Take
<1>4. /\ \A ph \in Phases : [mem[e] EXCEPT !.phase = ph].planned = mem[e].planned
      /\ [mem[e] EXCEPT !.passed = TRUE].planned = mem[e].planned
  BY <1>1 DEF Memory
<1>. QED  BY <1>2, <1>3, <1>4

LEMMA MarkedInitOK == ProbesInit => MarkedFirst
BY DEF ProbesInit, NoTeardownWebhook, Silence, MarkedFirst

\* Steps that mark, cancel and announce nothing keep what was marked first.
LEMMA MarkedKept ==
  ASSUME ProbesIInv, MarkedFirst, UNCHANGED <<registry, cut, sent, caller>>,
         \A e \in Gens : mem'[e].planned <=> mem[e].planned
  PROVE  MarkedFirst'
BY ProbesAssumption DEF ProbesIInv, ProbesType, Gens, MarkedFirst, NoTeardownWebhook

LEMMA MarkedServe ==
  ASSUME ProbesIInv, MarkedFirst, NEW c, Callers = {c}, Serve(c) PROVE MarkedFirst'
<1>1. /\ c \in Callers /\ caller[c] \in CallerAt /\ mem \in [Gens -> Memory]
      /\ caller \in [Callers -> CallerAt] /\ cut \subseteq Gens /\ (registry # 0 => registry \in Gens)
  BY ProbesAssumption DEF ProbesIInv, ProbesType, Gens
<1>2. /\ caller[c].at \in {"spawn", "store"} => registry = 0
      /\ caller[c].at = "marked" => registry = 0 \/ mem[registry].planned
      /\ \A e \in cut : mem[e].planned
      /\ NoTeardownWebhook
  BY <1>1 DEF MarkedFirst
<1>3. CASE StartLookup(c)
  BY <1>1, <1>3, <1>2 DEF StartLookup, Goto, CallerAt, MarkedFirst, NoTeardownWebhook
<1>4. CASE StartSpawn(c)
  BY <1>1, <1>4, <1>2 DEF StartSpawn, CallerAt, MarkedFirst, NoTeardownWebhook
<1>5. CASE StartStore(c)
  BY <1>1, <1>5, <1>2 DEF StartStore, CallerAt, MarkedFirst, NoTeardownWebhook
<1>6. CASE MarkPlannedTeardown(c)
  BY <1>1, <1>6, <1>2 DEF MarkPlannedTeardown, Goto, CallerAt, Memory, Gens, MarkedFirst, NoTeardownWebhook
<1>7. CASE StopCancel(c)
  BY <1>1, <1>7, <1>2 DEF StopCancel, CallerAt, MarkedFirst, NoTeardownWebhook
<1>8. CASE StopWait(c)
  BY <1>1, <1>8, <1>2 DEF StopWait, Goto, CallerAt, MarkedFirst, NoTeardownWebhook
<1>9. CASE Clear(c)
  BY <1>1, <1>9, <1>2 DEF Clear, CallerAt, MarkedFirst, NoTeardownWebhook
<1>. QED  BY <1>3, <1>4, <1>5, <1>6, <1>7, <1>8, <1>9 DEF Serve

LEMMA MarkedAnnounce ==
  ASSUME ProbesIInv, MarkedFirst, NEW e \in Gens, NEW k \in Declared, Announce(e, k)
  PROVE  MarkedFirst'
<1>1. UNCHANGED <<registry, runner, queue, cut, first, caller, status, owed, lost, work>>
  BY AnnounceStep
<1>2. CASE mem' = mem /\ sent' = sent
  BY <1>1, <1>2, MarkedKept
<1>3. CASE ~(mem' = mem /\ sent' = sent)
  <2>1. PICK m \in Memory, a \in Announced :
          /\ mem' = [mem EXCEPT ![e] = m] /\ sent' = [sent EXCEPT ![e] = a]
          /\ ~m.planned /\ ~mem[e].planned
          /\ (a.dying <=> sent[e].dying \/ worker[e][k].ev.dying)
    BY <1>3, AnnounceStep
  <2>2. \A d \in Gens : mem'[d].planned <=> mem[d].planned
    BY <2>1 DEF ProbesIInv, ProbesType
  <2>3. ~worker[e][k].ev.dying
    BY <2>1 DEF MarkedFirst, Announce, ProbesIInv, DyingAreCut
  <2>4. \A d \in Gens : ~sent'[d].dying
    BY <2>1, <2>3 DEF MarkedFirst, NoTeardownWebhook, ProbesIInv, ProbesType
  <2>5. cut \subseteq Gens /\ (registry # 0 => registry \in Gens)
    BY ProbesAssumption DEF ProbesIInv, ProbesType, Gens
  <2>. QED  BY <1>1, <2>2, <2>4, <2>5 DEF MarkedFirst, NoTeardownWebhook
<1>. QED  BY <1>2, <1>3

LEMMA MarkedInductive ==
  ASSUME NEW c, Callers = {c}
  PROVE  ProbesIInv /\ MarkedFirst /\ [ProbesNext]_probesVars => MarkedFirst'
<1> SUFFICES ASSUME ProbesIInv, MarkedFirst, [ProbesNext]_probesVars PROVE MarkedFirst'
  OBVIOUS
<1>1. CASE \E b \in Callers : Serve(b)
  BY <1>1, MarkedServe
<1>2. ASSUME NEW e \in Gens, RestartContainer(e) \/ RecordFirst(e) PROVE MarkedFirst'
  BY <1>2, MarkedKept DEF RestartContainer, RecordFirst
<1>3. ASSUME NEW e \in Gens, NEW k \in Declared, Sample(e, k) \/ Exit(e, k) \/ Record(e, k) PROVE MarkedFirst'
  BY <1>3, MarkedKept DEF Sample, Exit, Record
<1>4. ASSUME NEW e \in Gens, NEW k \in Declared, Take(e, k) PROVE MarkedFirst'
  BY <1>4, TakeKeepsMarks, MarkedKept DEF Take
<1>5. ASSUME NEW e \in Gens, NEW k \in Declared, Announce(e, k) PROVE MarkedFirst'
  BY <1>5, MarkedAnnounce
<1>6. CASE UNCHANGED probesVars
  BY <1>6, MarkedKept DEF probesVars
<1>. QED  BY <1>1, <1>2, <1>3, <1>4, <1>5, <1>6 DEF ProbesNext, Drain

\* While one goroutine at a time replaces the container, no sample of a runner
\* that was cancelled becomes a webhook, even when Stop does not wait for it.
THEOREM ProbesQuiet ==
  ASSUME NEW c, Callers = {c}
  PROVE  ProbesSpec => []NoTeardownWebhook
<1>1. MarkedFirst => NoTeardownWebhook
  BY DEF MarkedFirst
<1>. QED  BY <1>1, ProbesInitOK, ProbesInductive, MarkedInitOK, MarkedInductive, PTL DEF ProbesSpec
-----------------------------------------------------------------------------
LEMMA SlateServe ==
  ASSUME ProbesIInv, MarkedFirst, CleanSlate, ~Slow, NEW c, Callers = {c}, Serve(c) PROVE CleanSlate'
<1> DEFINE Runs(e) == \E k \in Declared : runner[e][k].st = "run"
<1>1. /\ c \in Callers /\ caller[c] \in CallerAt /\ caller \in [Callers -> CallerAt]
      /\ runner \in [Gens -> [Declared -> Runner]] /\ 0 \notin Gens
  BY DEF ProbesIInv, ProbesType, Gens
<1>2. caller[c].at \in {"spawn", "store"} => registry = 0
  BY <1>1 DEF MarkedFirst
<1>3. \A e \in Gens : Runs(e) => registry = e \/ (caller[c].e = e /\ caller[c].at \in {"store", "wait"})
  BY <1>1 DEF CleanSlate
<1>4. SUFFICES \A e \in Gens : Runs(e)' => registry' = e \/ (caller'[c].e = e /\ caller'[c].at \in {"store", "wait"})
  BY <1>1 DEF CleanSlate
<1>5. CASE StartSpawn(c)
  <2>1. PICK g \in Gens : /\ runner' = [runner EXCEPT ![g] = [k \in Declared |-> FreshRunner]]
                         /\ caller' = [caller EXCEPT ![c].at = "store", ![c].e = g]
    BY <1>5 DEF StartSpawn
  <2>2. caller[c].at = "spawn" /\ caller'[c].at = "store" /\ caller'[c].e = g
    <3>1. caller' = [caller EXCEPT ![c] = [caller[c] EXCEPT !.at = "store", !.e = g]]
      BY <2>1
    <3>2. g \in 0 .. Generations
      BY ProbesAssumption DEF Gens
    <3>3. [caller[c] EXCEPT !.at = "store", !.e = g].at = "store" /\ [caller[c] EXCEPT !.at = "store", !.e = g].e = g
      <4>1. caller[c] \in CallerAt
        BY <1>1
      <4>. QED  BY <3>2, <4>1, CallerTo
    <3>. QED  BY <1>1, <1>5, <3>1, <3>3 DEF StartSpawn
  <2>3. \A e \in Gens : ~Runs(e)
    BY <1>1, <1>2, <1>3, <2>2
  <2>4. \A e \in Gens : e # g => ~Runs(e)'
    BY <1>1, <2>1, <2>3
  <2>. QED  BY <2>2, <2>4
<1>6. ASSUME runner' = runner PROVE \A e \in Gens : Runs(e)' <=> Runs(e)
  BY <1>6
<1> HIDE DEF Runs
<1>7. CASE StartLookup(c)
  BY <1>7, <1>1, <1>3, <1>6 DEF StartLookup
<1>8. CASE StartStore(c)
  BY <1>8, <1>1, <1>2, <1>3, <1>6 DEF StartStore
<1>9. CASE MarkPlannedTeardown(c)
  BY <1>9, <1>3, <1>6 DEF MarkPlannedTeardown
<1>10. CASE StopCancel(c)
  <2>1. caller[c].at = "marked" /\ runner' = runner /\ caller'[c].at = "wait" /\ caller'[c].e = registry
    <3>1. caller' = [caller EXCEPT ![c] = [caller[c] EXCEPT !.at = "wait", !.e = registry]]
      BY <1>10 DEF StopCancel
    <3>2. registry \in 0 .. Generations
      BY DEF ProbesIInv, ProbesType
    <3>3. [caller[c] EXCEPT !.at = "wait", !.e = registry].at = "wait"
          /\ [caller[c] EXCEPT !.at = "wait", !.e = registry].e = registry
      <4>1. caller[c] \in CallerAt
        BY <1>1
      <4>. QED  BY <3>2, <4>1, CallerTo
    <3>. QED  BY <1>1, <1>10, <3>1, <3>3 DEF StopCancel
  <2>. QED  BY <1>3, <1>6, <2>1
<1>11. CASE StopWait(c)
  BY <1>11, <1>1, <1>3, <1>6 DEF StopWait, Runs
<1>12. CASE Clear(c)
  BY <1>12, <1>3, <1>6 DEF Clear
<1>. QED  BY <1>5, <1>7, <1>8, <1>9, <1>10, <1>11, <1>12 DEF Serve

LEMMA SlateKept ==
  ASSUME ProbesIInv, CleanSlate, UNCHANGED <<registry, caller>>,
         \A e \in Gens, k \in Declared : runner'[e][k].st = "run" => runner[e][k].st = "run"
  PROVE  CleanSlate'
BY DEF CleanSlate

LEMMA SampleStops ==
  ASSUME ProbesIInv, NEW e \in Gens, NEW k \in Declared, Sample(e, k) \/ Exit(e, k)
  PROVE  \A d \in Gens, l \in Declared : runner'[d][l].st = "run" => runner[d][l].st = "run"
<1>1. runner[e][k].st = "run"
  BY DEF Sample, Exit
<1>2. \E s : runner' = [runner EXCEPT ![e][k] = s]
  <2>1. CASE Sample(e, k)
    BY <2>1 DEF Sample
  <2>2. CASE Exit(e, k)
    BY <2>2 DEF Exit
  <2>. QED  BY <2>1, <2>2
<1>3. \A d \in Gens, l \in Declared : (d = e /\ l = k) \/ runner'[d][l] = runner[d][l]
  BY <1>2 DEF ProbesIInv, ProbesType
<1>. QED  BY <1>1, <1>3

LEMMA SlateInductive ==
  ASSUME NEW c, Callers = {c}, ~Slow
  PROVE  ProbesIInv /\ MarkedFirst /\ CleanSlate /\ [ProbesNext]_probesVars => CleanSlate'
<1> SUFFICES ASSUME ProbesIInv, MarkedFirst, CleanSlate, [ProbesNext]_probesVars PROVE CleanSlate'
  OBVIOUS
<1>1. CASE \E b \in Callers : Serve(b)
  BY <1>1, SlateServe
<1>2. ASSUME NEW e \in Gens, RestartContainer(e) \/ RecordFirst(e) PROVE CleanSlate'
  BY <1>2, SlateKept DEF RestartContainer, RecordFirst
<1>3. ASSUME NEW e \in Gens, NEW k \in Declared, Sample(e, k) \/ Exit(e, k) PROVE CleanSlate'
  BY <1>3, SampleStops, SlateKept DEF Sample, Exit
<1>4. ASSUME NEW e \in Gens, NEW k \in Declared, Drain(e, k) PROVE CleanSlate'
  BY <1>4, SlateKept DEF Drain, Take, Record, Announce
<1>5. CASE UNCHANGED probesVars
  BY <1>5, SlateKept DEF probesVars
<1>. QED  BY <1>1, <1>2, <1>3, <1>4, <1>5 DEF ProbesNext

\* While one goroutine at a time replaces the container and no sample outlasts the
\* deadline of Stop: what the probes last found is what the controller answers,
\* runners end with their entry, and no webhook tells of a graceful stop or of a
\* recovery that nothing preceded.
THEOREM ProbesCorrect ==
  ASSUME NEW c, Callers = {c}, ~Slow
  PROVE  ProbesSpec => []ProbesTrue
<1>1. ProbesInit => CleanSlate
  BY DEF ProbesInit, CleanSlate, OffRunner, FreshRunner
<1>2. MarkedFirst => NoTeardownWebhook
  BY DEF MarkedFirst
<1>3. ProbesSpec => []CleanSlate
  BY <1>1, ProbesInitOK, ProbesInductive, MarkedInitOK, MarkedInductive, SlateInductive, PTL DEF ProbesSpec
<1>4. DrainedAgrees /\ RecoveriesPaired /\ NoTeardownWebhook /\ CleanSlate => ProbesTrue
  BY DEF ProbesTrue
<1>. QED  BY <1>3, <1>4, ProbesAgree, ProbesQuiet, PTL
-----------------------------------------------------------------------------
(* Inits. The argument: an id is given to one replica, whose chain one        *)
(* goroutine walks; while it does there is no main container of that id, no    *)
(* failure recorded of it, and every container of it but the step at hand is   *)
(* done. What a handler that failed, was cut short or gave up leaves behind    *)
(* has an id nobody works on again. The operators take the state they speak    *)
(* of: cs the containers, rg the ring of failures, n the ids given.            *)

Doers == {"loop", "http"}
DoerFields == {"pc", "m", "live", "made", "todo", "old", "id", "step", "try", "done", "back"}
DoerShape(r) == r = [f \in DoerFields |-> r[f]]

\* Whoever starts replicas has a manifest that was applied; wi is the stored one.
Applied(r, wi) ==
  r.pc # "off" /\ (r.pc = "roll" => r.todo # {}) => r.m \in InitManifests /\ wi \in InitManifests

Walking(r) == r.pc \in {"chain", "wait"}
Chain(r, cs, rg, n) ==
  Walking(r) =>
    /\ r.id \in 1 .. n /\ r.step \in Nat \ {0} /\ r.done = r.step - 1
    /\ r.step <= Steps[r.m.spec] + (IF r.pc = "wait" THEN 0 ELSE 1)
    /\ r.back \in {"scale", "retire"}
    /\ Name(r.id, 0) \notin DOMAIN cs
    /\ \A o \in DOMAIN cs : o.id = r.id => ~cs[o].up \/ (r.pc = "wait" /\ o = Name(r.id, r.step))
    /\ \A i \in DOMAIN rg : rg[i].id # r.id

CtrFields == {"spec", "passed", "up"}
Herd(cs, n) ==
  /\ cs = [x \in DOMAIN cs |-> cs[x]]
  /\ \A x \in DOMAIN cs : /\ x = Name(x.id, x.step) /\ x.id \in 1 .. n
                          /\ cs[x] = [f \in CtrFields |-> cs[x][f]]

InitRing(rg, n) ==
  /\ rg \in Seq([id : Nat, step : Nat]) /\ Len(rg) <= RingSize
  /\ \A i \in DOMAIN rg : rg[i].id \in 1 .. n

MainsFirst(cs, rg) ==
  \A x \in DOMAIN cs : x.step = 0 =>
    /\ cs[x].passed = Steps[cs[x].spec]
    /\ \A o \in DOMAIN cs \ {x} : o.id = x.id => ~cs[o].up
    /\ \A i \in DOMAIN rg : rg[i].id # x.id

Things(cs, rg, n) == n \in Nat /\ Herd(cs, n) /\ InitRing(rg, n) /\ MainsFirst(cs, rg)
DoerTrue(r, cs, rg, n, wi) == DoerShape(r) /\ Applied(r, wi) /\ Chain(r, cs, rg, n)

InitsIInv ==
  /\ Things(ctrs, ring, ids)
  /\ doer = [w \in Doers |-> doer[w]]
  /\ waking \/ wished.spec # 0 \/ DOMAIN ctrs # {} => wished \in InitManifests
  /\ \A w \in Doers : DoerTrue(doer[w], ctrs, ring, ids, wished)
  /\ \A v, w \in Doers : v # w /\ Walking(doer[v]) /\ Walking(doer[w]) => doer[v].id # doer[w].id

LEMMA OffIs == DoerShape(Off) /\ Off.pc = "off"
BY DEF Off, DoerShape, DoerFields

\* The parts of the invariant, of one goroutine.
LEMMA DoerParts ==
  ASSUME InitsIInv, NEW w \in Doers
  PROVE  /\ DoerShape(doer[w]) /\ Applied(doer[w], wished) /\ Chain(doer[w], ctrs, ring, ids)
         /\ Herd(ctrs, ids) /\ InitRing(ring, ids) /\ MainsFirst(ctrs, ring) /\ ids \in Nat
         /\ \A v \in Doers \ {w} : Chain(doer[v], ctrs, ring, ids) /\ DoerShape(doer[v]) /\ Applied(doer[v], wished)
         /\ \A v \in Doers \ {w} : Walking(doer[v]) /\ Walking(doer[w]) => doer[v].id # doer[w].id
BY DEF InitsIInv, Things, DoerTrue

\* What a step of one goroutine has to show.
LEMMA OneSteps ==
  ASSUME InitsIInv, NEW w \in Doers, NEW r2, Becomes(w, r2),
         Things(ctrs', ring', ids'), DoerTrue(r2, ctrs', ring', ids', wished),
         \A v \in Doers \ {w} : Chain(doer[v], ctrs', ring', ids'),
         \A v \in Doers \ {w} : Walking(r2) /\ Walking(doer[v]) => r2.id # doer[v].id,
         UNCHANGED wished, waking' => waking, DOMAIN ctrs' # {} => DOMAIN ctrs # {} \/ wished \in InitManifests
  PROVE  InitsIInv'
BY DoerParts DEF Becomes, InitsIInv, DoerTrue

\* Containers that go disturb nothing.
LEMMA FewerCtrs ==
  ASSUME NEW cs, NEW rg, NEW n, NEW D \in SUBSET DOMAIN cs, Things(cs, rg, n)
  PROVE  LET c2 == [x \in D |-> cs[x]]
         IN Things(c2, rg, n) /\ DOMAIN c2 = D /\ \A r : Chain(r, cs, rg, n) => Chain(r, c2, rg, n)
BY DEF Things, Herd, MainsFirst, Chain

\* One goroutine goes on to something else than a chain; containers may go.
LEMMA QuietKeeps ==
  ASSUME InitsIInv, NEW w \in Doers, NEW r2, Becomes(w, r2), ~Walking(r2), DoerShape(r2), Applied(r2, wished),
         NEW D \in SUBSET DOMAIN ctrs, ctrs' = [x \in D |-> ctrs[x]],
         UNCHANGED <<ring, ids, wished>>, waking' => waking
  PROVE  InitsIInv'
BY FewerCtrs, DoerParts, OneSteps DEF InitsIInv, DoerTrue, Chain

\* A new id begins its chain.
LEMMA BeginsKeeps ==
  ASSUME InitsIInv, NEW w \in Doers, NEW r, NEW old, NEW back \in {"scale", "retire"}, Begins(w, r, old, back),
         DoerShape(r), r.m \in InitManifests, wished \in InitManifests,
         NEW D \in SUBSET DOMAIN ctrs, ctrs' = [x \in D |-> ctrs[x]], UNCHANGED <<ring, wished, waking>>
  PROVE  InitsIInv'
<1>1. PICK r2 : r2 = [r EXCEPT !.pc = "chain", !.id = ids + 1, !.step = 1, !.try = 1, !.done = 0, !.old = old, !.back = back]
  OBVIOUS
<1>2. Becomes(w, r2) /\ ids' = ids + 1
  BY <1>1 DEF Begins
<1>3. DoerShape(r2) /\ r2.pc = "chain" /\ r2.id = ids + 1 /\ r2.step = 1 /\ r2.done = 0 /\ r2.back = back /\ r2.m = r.m
  BY <1>1 DEF DoerShape, DoerFields
<1>4. Things(ctrs', ring, ids) /\ DOMAIN ctrs' = D /\ \A q : Chain(q, ctrs, ring, ids) => Chain(q, ctrs', ring, ids)
  BY FewerCtrs DEF InitsIInv
<1>5. ids \in Nat
  BY DEF InitsIInv, Things
<1>6. Things(ctrs', ring', ids')
  BY <1>2, <1>4, <1>5 DEF Things, Herd, InitRing
<1>7. Chain(r2, ctrs', ring', ids')
  <2>0. \A x \in DOMAIN ctrs' : x.id \in 1 .. ids
    BY <1>4 DEF Things, Herd
  <2>1. \A x \in DOMAIN ctrs' : x.id # ids + 1
    BY <1>5, <2>0
  <2>2. \A i \in DOMAIN ring : ring[i].id # ids + 1
    BY <1>4, <1>5 DEF Things, InitRing
  <2>3. Name(ids + 1, 0) \notin DOMAIN ctrs'
    BY <2>1 DEF Name
  <2>4. Steps[r.m.spec] \in Nat
    BY InitsAssumption
  <2>. QED  BY <1>2, <1>3, <1>5, <2>1, <2>2, <2>3, <2>4 DEF Chain
<1>8. DoerTrue(r2, ctrs', ring', ids', wished)
  BY <1>3, <1>7 DEF DoerTrue, Applied
<1>9. \A v \in Doers \ {w} : Chain(doer[v], ctrs', ring', ids') /\ (Walking(doer[v]) => r2.id # doer[v].id)
  BY <1>4, DoerParts, <1>2, <1>3, <1>5 DEF Chain
<1>. QED  BY <1>2, <1>6, <1>8, <1>9, OneSteps

LEMMA InitsStarts ==
  ASSUME InitsInit PROVE InitsIInv
BY InitsAssumption, OffIs DEF InitsInit, Things, Herd, InitRing, MainsFirst, Doers, DoerTrue, Applied,
   Chain, Walking, InitsIInv

\* What stays is what there is, cut down to all of it.
LEMMA AllStay ==
  ASSUME InitsIInv PROVE ctrs = [x \in DOMAIN ctrs |-> ctrs[x]] /\ DOMAIN ctrs \in SUBSET DOMAIN ctrs
BY DEF InitsIInv, Things, Herd

LEMMA AskKeeps ==
  ASSUME InitsIInv, NEW m \in InitManifests, AskApply(m) PROVE InitsIInv'
BY DEF AskApply, InitsIInv, DoerTrue, Applied

LEMMA WakeKeeps ==
  ASSUME InitsIInv, Wake PROVE InitsIInv'
<1>1. PICK r2 : r2 = [Off EXCEPT !.pc = "scale", !.m = wished, !.live = DOMAIN ctrs]
  OBVIOUS
<1>2. DoerShape(r2) /\ r2.pc = "scale" /\ r2.m = wished
  BY <1>1 DEF Off, DoerShape, DoerFields
<1>3. Applied(r2, wished) /\ ~Walking(r2)
  BY <1>2 DEF Applied, Walking, Wake, InitsIInv
<1>4. Becomes("loop", r2) /\ UNCHANGED <<ctrs, ring, ids, wished>> /\ ~waking'
  BY <1>1 DEF Wake
<1>. QED  BY <1>2, <1>3, <1>4, AllStay, QuietKeeps DEF Doers

LEMMA AskRestartKeeps ==
  ASSUME InitsIInv, AskRestart PROVE InitsIInv'
<1>1. PICK r2 : r2 = [Off EXCEPT !.pc = "roll", !.m = wished, !.todo = DOMAIN ctrs]
  OBVIOUS
<1>2. DoerShape(r2) /\ r2.pc = "roll" /\ r2.m = wished /\ r2.todo = DOMAIN ctrs
  BY <1>1 DEF Off, DoerShape, DoerFields
<1>3. Applied(r2, wished) /\ ~Walking(r2)
  BY <1>2 DEF Applied, Walking, InitsIInv
<1>4. Becomes("http", r2) /\ UNCHANGED <<ctrs, ring, ids, wished, waking>>
  BY <1>1 DEF AskRestart
<1>. QED  BY <1>2, <1>3, <1>4, AllStay, QuietKeeps DEF Doers

LEMMA ScaleKeeps ==
  ASSUME InitsIInv, NEW w \in Doers, ScaleUpOne(w) PROVE InitsIInv'
<1>1. PICK r : r = doer[w]
  OBVIOUS
<1>2. DoerShape(r) /\ r.pc = "scale" /\ r.m \in InitManifests /\ wished \in InitManifests
  BY <1>1, DoerParts DEF ScaleUpOne, WorkerAt, Applied
<1>3. UNCHANGED <<ctrs, ring, wished, waking>>
  BY DEF ScaleUpOne
<1>4. CASE Begins(w, r, NoName, "scale")
  BY <1>2, <1>3, <1>4, AllStay, BeginsKeeps
<1>5. CASE Becomes(w, [r EXCEPT !.pc = "prune"]) /\ UNCHANGED ids
  BY <1>2, <1>3, <1>5, AllStay, QuietKeeps DEF DoerShape, DoerFields, Applied, Walking
<1>. QED  BY <1>1, <1>4, <1>5 DEF ScaleUpOne

LEMMA PruneExtrasKeeps ==
  ASSUME InitsIInv, NEW w \in Doers, PruneExtras(w) PROVE InitsIInv'
<1>1. PICK r : r = doer[w]
  OBVIOUS
<1>2. DoerShape(r) /\ r.pc = "prune" /\ r.m \in InitManifests /\ wished \in InitManifests
  BY <1>1, DoerParts DEF PruneExtras, WorkerAt, Applied
<1>3. PICK r2 : r2 = [r EXCEPT !.pc = "drift"]
  OBVIOUS
<1>4. DoerShape(r2) /\ r2.pc = "drift" /\ r2.m = r.m
  BY <1>2, <1>3 DEF DoerShape, DoerFields
<1>5. Applied(r2, wished) /\ ~Walking(r2)
  BY <1>2, <1>4 DEF Applied, Walking
<1>6. Becomes(w, r2) /\ UNCHANGED <<ring, ids, wished, waking>>
  BY <1>1, <1>3 DEF PruneExtras
<1>7. PICK D \in SUBSET DOMAIN ctrs : ctrs' = [x \in D |-> ctrs[x]]
  <2>1. \E ns : Taken(ns)
    BY DEF PruneExtras
  <2>. QED  BY <2>1 DEF Taken
<1>. QED  BY <1>4, <1>5, <1>6, <1>7, QuietKeeps

LEMMA LookKeeps ==
  ASSUME InitsIInv, NEW w \in Doers, LookForDrift(w) PROVE InitsIInv'
<1>1. PICK r : r = doer[w]
  OBVIOUS
<1>2. DoerShape(r) /\ r.pc = "drift" /\ r.m \in InitManifests /\ wished \in InitManifests
  BY <1>1, DoerParts DEF LookForDrift, WorkerAt, Applied
<1>3. UNCHANGED <<ctrs, ring, ids, wished, waking>>
  BY DEF LookForDrift
<1>4. CASE Becomes(w, [r EXCEPT !.pc = "roll", !.todo = DOMAIN ctrs \ r.made])
  BY <1>2, <1>3, <1>4, AllStay, QuietKeeps DEF DoerShape, DoerFields, Applied, Walking
<1>5. CASE Return(w, FALSE)
  BY <1>3, <1>5, OffIs, AllStay, QuietKeeps DEF Return, Walking, Applied
<1>. QED  BY <1>1, <1>4, <1>5 DEF LookForDrift

LEMMA RollKeeps ==
  ASSUME InitsIInv, NEW w \in Doers, RollOne(w) PROVE InitsIInv'
<1>1. PICK r : r = doer[w]
  OBVIOUS
<1>2. DoerShape(r) /\ r.pc = "roll" /\ (r.todo # {} => r.m \in InitManifests /\ wished \in InitManifests)
  BY <1>1, DoerParts DEF RollOne, WorkerAt, Applied
<1>3. UNCHANGED <<ring, wished, waking>>
  BY DEF RollOne
<1>4. ASSUME NEW n \in r.todo, Begins(w, [r EXCEPT !.todo = @ \ {n}], n, "retire"), Taken(IF InitsSurge THEN {} ELSE {n})
      PROVE  InitsIInv'
  BY <1>2, <1>4, <1>3, BeginsKeeps DEF DoerShape, DoerFields, Taken
<1>5. CASE Return(w, FALSE) /\ UNCHANGED <<ctrs, ids>>
  BY <1>3, <1>5, OffIs, AllStay, QuietKeeps DEF Return, Walking, Applied
<1>. QED  BY <1>1, <1>4, <1>5 DEF RollOne

LEMMA RetireKeeps ==
  ASSUME InitsIInv, NEW w \in Doers, RetireOld(w) PROVE InitsIInv'
BY DoerParts, QuietKeeps DEF RetireOld, WorkerAt, Applied, DoerShape, DoerFields, Walking, Taken

\* A container is added under a name of the id its goroutine works on.
LEMMA OneMore ==
  ASSUME NEW cs, NEW rg, NEW n, NEW nm, NEW c, Things(cs, rg, n),
         nm = Name(nm.id, nm.step), nm.id \in 1 .. n, c = [f \in CtrFields |-> c[f]],
         Name(nm.id, 0) \notin DOMAIN cs,
         nm.step = 0 => /\ c.passed = Steps[c.spec]
                        /\ \A o \in DOMAIN cs : o.id = nm.id => ~cs[o].up
                        /\ \A i \in DOMAIN rg : rg[i].id # nm.id
  PROVE  LET c2 == [x \in DOMAIN cs \cup {nm} |-> IF x = nm THEN c ELSE cs[x]]
         IN /\ Things(c2, rg, n) /\ DOMAIN c2 = DOMAIN cs \cup {nm} /\ c2[nm] = c
            /\ \A x \in DOMAIN cs \ {nm} : c2[x] = cs[x]
            /\ \A r : Chain(r, cs, rg, n) /\ (Walking(r) => r.id # nm.id) => Chain(r, c2, rg, n)
<1>1. PICK c2 : c2 = [x \in DOMAIN cs \cup {nm} |-> IF x = nm THEN c ELSE cs[x]]
  OBVIOUS
<1>2. DOMAIN c2 = DOMAIN cs \cup {nm} /\ c2[nm] = c /\ \A x \in DOMAIN cs \ {nm} : c2[x] = cs[x]
  BY <1>1
<1>3. c2 = [x \in DOMAIN c2 |-> c2[x]]
  BY <1>1
<1>4. Herd(c2, n)
  BY <1>2, <1>3 DEF Things, Herd
<1>5. MainsFirst(c2, rg)
  <2>. SUFFICES ASSUME NEW x \in DOMAIN c2, x.step = 0
                PROVE  /\ c2[x].passed = Steps[c2[x].spec]
                       /\ \A o \in DOMAIN c2 \ {x} : o.id = x.id => ~c2[o].up
                       /\ \A i \in DOMAIN rg : rg[i].id # x.id
    BY DEF MainsFirst
  <2>1. CASE x = nm
    BY <1>2, <2>1
  <2>2. CASE x # nm
    BY <1>2, <2>2 DEF Things, Herd, MainsFirst
  <2>. QED  BY <2>1, <2>2
<1>6. ASSUME NEW r, Chain(r, cs, rg, n), Walking(r) => r.id # nm.id PROVE Chain(r, c2, rg, n)
  <2>1. CASE Walking(r)
    BY <1>6, <2>1, <1>2 DEF Name, Chain
  <2>2. CASE ~Walking(r)
    BY <2>2 DEF Chain
  <2>. QED  BY <2>1, <2>2
<1>. QED  BY <1>1, <1>2, <1>4, <1>5, <1>6 DEF Things

\* Of the goroutine whose chain goes on.
LEMMA ChainParts ==
  ASSUME InitsIInv, NEW w \in Doers, NEW r, r = doer[w], Walking(r)
  PROVE  /\ DoerShape(r) /\ r.m \in InitManifests /\ wished \in InitManifests
         /\ r.id \in 1 .. ids /\ r.step \in Nat \ {0} /\ r.done = r.step - 1 /\ r.back \in {"scale", "retire"}
         /\ r.step <= Steps[r.m.spec] + (IF r.pc = "wait" THEN 0 ELSE 1) /\ Steps[r.m.spec] \in Nat
         /\ Name(r.id, 0) \notin DOMAIN ctrs
         /\ \A o \in DOMAIN ctrs : o.id = r.id => ~ctrs[o].up \/ (r.pc = "wait" /\ o = Name(r.id, r.step))
         /\ \A i \in DOMAIN ring : ring[i].id # r.id
         /\ \A v \in Doers \ {w} : Chain(doer[v], ctrs, ring, ids) /\ (Walking(doer[v]) => doer[v].id # r.id)
         /\ Things(ctrs, ring, ids) /\ ids \in Nat
BY DoerParts, InitsAssumption DEF Applied, Walking, Chain, InitsIInv, Things

LEMMA RunOneKeeps ==
  ASSUME InitsIInv, NEW w \in Doers, RunOne(w) PROVE InitsIInv'
<1>1. PICK r : r = doer[w]
  OBVIOUS
<1>2. r.pc = "chain" /\ Walking(r) /\ r.step <= Steps[r.m.spec]
  BY <1>1 DEF RunOne, WorkerAt, Walking
<1>3. PICK nm, c : nm = Name(r.id, r.step) /\ c = [spec |-> r.m.spec, passed |-> 0, up |-> TRUE]
  OBVIOUS
<1>4. nm = Name(nm.id, nm.step) /\ nm.id = r.id /\ nm.step = r.step /\ c = [f \in CtrFields |-> c[f]]
  BY <1>3 DEF Name, CtrFields
<1>5. ctrs' = [x \in DOMAIN ctrs \cup {nm} |-> IF x = nm THEN c ELSE ctrs[x]]
  BY <1>1, <1>3 DEF RunOne, Added
<1>6. /\ Things(ctrs', ring, ids) /\ DOMAIN ctrs' = DOMAIN ctrs \cup {nm}
      /\ \A x \in DOMAIN ctrs \ {nm} : ctrs'[x] = ctrs[x]
      /\ \A q : Chain(q, ctrs, ring, ids) /\ (Walking(q) => q.id # nm.id) => Chain(q, ctrs', ring, ids)
  <2>1. Things(ctrs, ring, ids) /\ nm.id \in 1 .. ids /\ nm.step # 0 /\ Name(nm.id, 0) \notin DOMAIN ctrs
    BY <1>1, <1>2, <1>4, ChainParts
  <2>. QED  BY <1>4, <1>5, <2>1, OneMore
<1>7. PICK r2 : r2 = [r EXCEPT !.pc = "wait"]
  OBVIOUS
<1>8. /\ DoerShape(r2) /\ r2.pc = "wait" /\ r2.id = r.id /\ r2.step = r.step /\ r2.done = r.done
      /\ r2.back = r.back /\ r2.m = r.m
  BY <1>1, <1>2, <1>7, ChainParts DEF DoerShape, DoerFields
<1>9. Chain(r2, ctrs', ring, ids)
  <2>1. Name(r.id, 0) \notin DOMAIN ctrs'
    BY <1>1, <1>2, <1>4, ChainParts, <1>6 DEF Name
  <2>. QED  BY <1>1, <1>2, <1>3, <1>6, <1>8, <2>1, ChainParts DEF Chain
<1>10. DoerTrue(r2, ctrs', ring, ids, wished)
  BY <1>1, <1>2, <1>8, <1>9, ChainParts DEF DoerTrue, Applied
<1>11. \A v \in Doers \ {w} : Chain(doer[v], ctrs', ring, ids) /\ (Walking(doer[v]) => doer[v].id # r2.id)
  BY <1>1, <1>2, <1>4, <1>6, <1>8, ChainParts
<1>12. Becomes(w, r2) /\ UNCHANGED <<ring, ids, wished, waking>> /\ wished \in InitManifests
  BY <1>1, <1>2, <1>7, ChainParts DEF RunOne
<1>. QED  BY <1>6, <1>10, <1>11, <1>12, OneSteps

LEMMA StepDoneKeeps ==
  ASSUME InitsIInv, NEW w \in Doers, StepDone(w) PROVE InitsIInv'
<1>1. PICK r : r = doer[w]
  OBVIOUS
<1>2. r.pc = "wait" /\ Walking(r)
  BY <1>1 DEF StepDone, WorkerAt, Walking
<1>3. PICK nm : nm = Name(r.id, r.step)
  OBVIOUS
<1>4. PICK D \in SUBSET DOMAIN ctrs : ctrs' = [x \in D |-> ctrs[x]] /\ nm \notin D
  BY <1>1, <1>3 DEF StepDone, Taken
<1>5. Things(ctrs', ring, ids) /\ DOMAIN ctrs' = D /\ \A q : Chain(q, ctrs, ring, ids) => Chain(q, ctrs', ring, ids)
  BY <1>1, <1>2, <1>4, ChainParts, FewerCtrs
<1>6. PICK r2 : r2 = [r EXCEPT !.pc = "chain", !.step = @ + 1, !.try = 1, !.done = @ + 1]
  OBVIOUS
<1>7. /\ DoerShape(r2) /\ r2.pc = "chain" /\ r2.id = r.id /\ r2.step = r.step + 1 /\ r2.done = r.done + 1
      /\ r2.back = r.back /\ r2.m = r.m
  <2>1. DoerShape(r)
    BY <1>1, DoerParts
  <2>. QED  BY <1>6, <2>1 DEF DoerShape, DoerFields
<1>8. Chain(r2, ctrs', ring, ids)
  BY <1>1, <1>2, <1>3, <1>4, <1>5, ChainParts, <1>7 DEF Chain
<1>9. DoerTrue(r2, ctrs', ring, ids, wished)
  BY <1>1, <1>2, <1>7, <1>8, ChainParts DEF DoerTrue, Applied
<1>10. \A v \in Doers \ {w} : Chain(doer[v], ctrs', ring, ids) /\ (Walking(doer[v]) => doer[v].id # r2.id)
  BY <1>1, <1>2, <1>5, <1>7, ChainParts
<1>11. Becomes(w, r2) /\ UNCHANGED <<ring, ids, wished, waking>>
  BY <1>1, <1>6 DEF StepDone
<1>. QED  BY <1>5, <1>9, <1>10, <1>11, OneSteps

\* The ring with one failure more, as GiveUp leaves it: at most RingSize stay.
RingWith(rg, nm) ==
  LET all == Append(rg, nm)
  IN IF Len(all) > RingSize THEN SubSeq(all, Len(all) - RingSize + 1, Len(all)) ELSE all

LEMMA RingGrows ==
  ASSUME NEW rg, NEW n \in Nat, InitRing(rg, n), NEW nm \in [id : Nat, step : Nat], nm.id \in 1 .. n
  PROVE  LET new == RingWith(rg, nm)
         IN InitRing(new, n) /\ \A i \in DOMAIN new : new[i].id = nm.id \/ \E j \in DOMAIN rg : new[i].id = rg[j].id
<1>. DEFINE S == [id : Nat, step : Nat]
<1>0. RingSize \in Nat \ {0}
  BY InitsAssumption
<1>1. PICK all : all = Append(rg, nm)
  OBVIOUS
<1>2. /\ rg \in Seq(S) /\ all \in Seq(S) /\ Len(all) = Len(rg) + 1 /\ Len(rg) \in Nat /\ all[Len(all)] = nm
      /\ \A i \in 1 .. Len(rg) : all[i] = rg[i]
      /\ DOMAIN rg = 1 .. Len(rg) /\ DOMAIN all = 1 .. Len(all) /\ Len(rg) <= RingSize
  <2>. HIDE DEF S
  <2>1. rg \in Seq(S) /\ Len(rg) <= RingSize /\ nm \in S
    BY DEF InitRing, S
  <2>. QED  BY <1>1, <2>1, AppendProperties, LenProperties
<1>3. \A i \in 1 .. Len(all) : all[i].id = nm.id \/ \E j \in DOMAIN rg : all[i].id = rg[j].id
  <2>. SUFFICES ASSUME NEW i \in 1 .. Len(all) PROVE all[i].id = nm.id \/ \E j \in DOMAIN rg : all[i].id = rg[j].id
    OBVIOUS
  <2>1. i = Len(all) \/ i \in 1 .. Len(rg)
    BY <1>2
  <2>. HIDE DEF S
  <2>. QED  BY <1>2, <2>1
<1>4. CASE Len(all) <= RingSize
  <2>1. \A i \in DOMAIN all : all[i].id \in 1 .. n
    BY <1>2, <1>3 DEF InitRing
  <2>2. ~(Len(all) > RingSize)
    BY <1>0, <1>2, <1>4
  <2>3. RingWith(rg, nm) = all
    BY <1>1, <2>2 DEF RingWith
  <2>. QED  BY <1>1, <1>2, <1>3, <1>4, <2>1, <2>2, <2>3 DEF InitRing
<1>5. CASE Len(all) > RingSize
  <2>1. PICK new : new = SubSeq(all, Len(all) - RingSize + 1, Len(all))
    OBVIOUS
  <2>2. PICK a : a = Len(all) - RingSize + 1
    OBVIOUS
  <2>3. a \in 1 .. Len(all) /\ Len(all) - a + 1 = RingSize
    BY <1>0, <1>2, <1>5, <2>2
  <2>4. new \in Seq(S) /\ Len(new) = RingSize /\ DOMAIN new = 1 .. RingSize
        /\ \A i \in 1 .. RingSize : new[i] = all[a + i - 1] /\ a + i - 1 \in 1 .. Len(all)
    <3>. HIDE DEF S
    <3>1. \A i \in 1 .. RingSize : a + i - 1 \in 1 .. Len(all)
      BY <1>0, <1>2, <2>3
    <3>2. new \in Seq(S) /\ Len(new) = RingSize /\ \A i \in 1 .. RingSize : new[i] = all[a + i - 1]
      <4>1. new = SubSeq(all, a, Len(all))
        BY <2>1, <2>2
      <4>2. Len(all) \in 1 .. Len(all) /\ a <= Len(all) + 1
        BY <1>2, <2>3
      <4>. QED  BY <1>2, <2>3, <4>1, <4>2, SubSeqProperties
    <3>. QED  BY <3>1, <3>2, LenProperties
  <2>5. \A i \in DOMAIN new : new[i].id = nm.id \/ \E j \in DOMAIN rg : new[i].id = rg[j].id
    <3>. HIDE DEF S
    <3>. QED  BY <1>3, <2>4
  <2>6. \A i \in DOMAIN new : new[i].id \in 1 .. n
    BY <2>5 DEF InitRing
  <2>7. InitRing(new, n)
    BY <1>0, <2>4, <2>6 DEF InitRing
  <2>8. RingWith(rg, nm) = new
    BY <1>1, <1>5, <2>1 DEF RingWith
  <2>. QED  BY <2>5, <2>7, <2>8
<1>6. Len(all) <= RingSize \/ Len(all) > RingSize
  BY <1>0, <1>2
<1>. QED  BY <1>4, <1>5, <1>6

\* What a failed attempt leaves: the step's container is gone, or down.
LEMMA FailLeaves ==
  ASSUME InitsIInv, NEW w \in Doers, NEW r, r = doer[w], NEW how, StepFails(w, how)
  PROVE  /\ Walking(r) /\ r.step <= Steps[r.m.spec]
         /\ Things(ctrs', ring, ids) /\ DOMAIN ctrs' \subseteq DOMAIN ctrs
         /\ \A v \in Doers \ {w} : Chain(doer[v], ctrs', ring, ids)
         /\ \A o \in DOMAIN ctrs' : o.id = r.id => ~ctrs'[o].up
<1>1. PICK nm : nm = Name(r.id, r.step)
  OBVIOUS
<1>2. /\ Walking(r) /\ (r.pc = "chain" => r.step <= Steps[r.m.spec])
      /\ \/ Taken({nm})
         \/ r.pc = "wait" /\ nm \in DOMAIN ctrs /\ ctrs' = [ctrs EXCEPT ![nm].up = FALSE]
         \/ r.pc = "wait" /\ nm \notin DOMAIN ctrs /\ UNCHANGED ctrs
  BY <1>1 DEF StepFails, WorkerAt, Walking
<1>3. r.step <= Steps[r.m.spec]
  BY <1>2, ChainParts DEF Walking
<1>4. CASE Taken({nm})
  BY <1>4, <1>2, ChainParts, FewerCtrs, <1>1, <1>3 DEF Taken
<1>5. CASE r.pc = "wait" /\ nm \in DOMAIN ctrs /\ ctrs' = [ctrs EXCEPT ![nm].up = FALSE]
  <2>1. Things(ctrs, ring, ids) /\ Name(r.id, 0) \notin DOMAIN ctrs
    BY <1>2, ChainParts
  <2>2. nm = Name(nm.id, nm.step) /\ nm.id = r.id /\ nm.step # 0
    BY <1>1, <1>2, ChainParts DEF Name
  <2>3. PICK c : c = [ctrs[nm] EXCEPT !.up = FALSE]
    OBVIOUS
  <2>4. c = [f \in CtrFields |-> c[f]] /\ ~c.up
    BY <1>5, <2>1, <2>3 DEF Things, Herd, CtrFields
  <2>5. nm.id \in 1 .. ids
    BY <1>5, <2>1 DEF Things, Herd
  <2>6. ctrs' = [x \in DOMAIN ctrs \cup {nm} |-> IF x = nm THEN c ELSE ctrs[x]]
    BY <1>5, <2>3
  <2>7. Name(nm.id, 0) \notin DOMAIN ctrs
    BY <2>1, <2>2
  <2>8. /\ Things(ctrs', ring, ids) /\ DOMAIN ctrs' = DOMAIN ctrs \cup {nm}
        /\ \A x \in DOMAIN ctrs \ {nm} : ctrs'[x] = ctrs[x]
        /\ \A q : Chain(q, ctrs, ring, ids) /\ (Walking(q) => q.id # nm.id) => Chain(q, ctrs', ring, ids)
    <3>1. c = [f \in CtrFields |-> c[f]]
      BY <2>4
    <3>. HIDE <2>4
    <3>2. Things(ctrs, ring, ids)
      BY <2>1
    <3>. QED  BY <2>2, <2>5, <2>6, <2>7, <3>1, <3>2, OneMore
  <2>9. ctrs'[nm] = c
    BY <2>6
  <2>10. \A v \in Doers \ {w} : Chain(doer[v], ctrs', ring, ids)
    BY <1>2, <2>2, <2>8, ChainParts
  <2>11. \A o \in DOMAIN ctrs' : o.id = r.id => ~ctrs'[o].up
    BY <1>1, <1>2, <1>5, <2>4, <2>8, <2>9, ChainParts
  <2>. QED  BY <1>2, <1>3, <1>5, <2>8, <2>10, <2>11
<1>6. CASE r.pc = "wait" /\ nm \notin DOMAIN ctrs /\ UNCHANGED ctrs
  BY <1>1, <1>2, <1>3, <1>6, ChainParts
<1>. QED  BY <1>2, <1>4, <1>5, <1>6

LEMMA StepFailsKeeps ==
  ASSUME InitsIInv, NEW w \in Doers, NEW how, StepFails(w, how) PROVE InitsIInv'
<1>1. PICK r : r = doer[w]
  OBVIOUS
<1>2. /\ Walking(r) /\ r.step <= Steps[r.m.spec]
      /\ Things(ctrs', ring, ids) /\ DOMAIN ctrs' \subseteq DOMAIN ctrs
      /\ \A v \in Doers \ {w} : Chain(doer[v], ctrs', ring, ids)
      /\ \A o \in DOMAIN ctrs' : o.id = r.id => ~ctrs'[o].up
  BY <1>1, FailLeaves
<1>3. UNCHANGED <<wished, waking, ids>>
  BY DEF StepFails
<1>4. CASE Becomes(w, [r EXCEPT !.pc = "chain", !.try = @ + 1]) /\ UNCHANGED ring
  <2>1. PICK r2 : r2 = [r EXCEPT !.pc = "chain", !.try = @ + 1]
    OBVIOUS
  <2>2. /\ DoerShape(r2) /\ r2.pc = "chain" /\ r2.id = r.id /\ r2.step = r.step /\ r2.done = r.done
        /\ r2.back = r.back /\ r2.m = r.m
    <3>1. DoerShape(r)
      BY <1>1, DoerParts
    <3>. QED  BY <2>1, <3>1 DEF DoerShape, DoerFields
  <2>3. Chain(r2, ctrs', ring, ids)
    BY <1>1, <1>2, ChainParts, <2>2 DEF Chain
  <2>4. DoerTrue(r2, ctrs', ring, ids, wished)
    BY <1>1, <1>2, <2>2, <2>3, ChainParts DEF DoerTrue, Applied
  <2>5. \A v \in Doers \ {w} : Walking(doer[v]) => doer[v].id # r2.id
    BY <1>1, <1>2, <2>2, ChainParts
  <2>6. Becomes(w, r2)
    BY <1>4, <2>1
  <2>. QED  BY <1>2, <1>3, <1>4, <2>4, <2>5, <2>6, OneSteps
<1>5. CASE GiveUp(w, r)
  <2>1. PICK nm : nm = Name(r.id, r.step)
    OBVIOUS
  <2>2. nm.id = r.id /\ nm \in [id : Nat, step : Nat] /\ nm.id \in 1 .. ids
    <3>1. r.id \in 1 .. ids /\ ids \in Nat /\ r.step \in Nat
      BY <1>1, <1>2, ChainParts
    <3>2. r.id \in Nat
      BY <3>1
    <3>3. nm = [id |-> r.id, step |-> r.step]
      BY <2>1 DEF Name
    <3>. QED  BY <3>1, <3>2, <3>3
  <2>3. InitRing(ring', ids) /\ \A i \in DOMAIN ring' : ring'[i].id = nm.id \/ \E j \in DOMAIN ring : ring'[i].id = ring[j].id
    <3>1. ids \in Nat /\ InitRing(ring, ids)
      BY <1>2 DEF Things
    <3>2. ring' = RingWith(ring, nm)
      BY <1>5, <2>1 DEF GiveUp, RingWith
    <3>. QED  BY <2>2, <3>1, <3>2, RingGrows
  <2>4. MainsFirst(ctrs', ring')
    BY <1>1, <1>2, ChainParts, <2>2, <2>3 DEF Things, Herd, MainsFirst
  <2>5. Things(ctrs', ring', ids)
    BY <1>2, <2>3, <2>4 DEF Things
  <2>6. \A v \in Doers \ {w} : Chain(doer[v], ctrs', ring', ids)
    BY <1>1, <1>2, ChainParts, <2>2, <2>3 DEF Chain
  <2>7. DoerTrue(Off, ctrs', ring', ids, wished) /\ ~Walking(Off)
    BY OffIs DEF DoerTrue, Applied, Chain, Walking
  <2>8. Becomes(w, Off)
    BY <1>5 DEF GiveUp, Return
  <2>. QED  BY <1>2, <1>3, <2>5, <2>6, <2>7, <2>8, OneSteps
<1>. QED  BY <1>1, <1>4, <1>5 DEF StepFails

LEMMA StartMainKeeps ==
  ASSUME InitsIInv, NEW w \in Doers, StartMain(w) PROVE InitsIInv'
<1>1. PICK r : r = doer[w]
  OBVIOUS
<1>2. r.pc = "chain" /\ Walking(r) /\ r.step > Steps[r.m.spec]
  BY <1>1 DEF StartMain, WorkerAt, Walking
<1>3. ring' = ring
  BY <1>1, <1>2, ChainParts DEF StartMain, Cleared
<1>4. UNCHANGED <<wished, waking, ids>> /\ wished \in InitManifests
  BY <1>1, <1>2, ChainParts DEF StartMain
<1>5. CASE /\ Added(Name(r.id, 0), [spec |-> r.m.spec, passed |-> r.done, up |-> TRUE])
           /\ Becomes(w, [r EXCEPT !.pc = r.back, !.made = @ \cup {Name(r.id, 0)}])
  <2>1. PICK nm, c : nm = Name(r.id, 0) /\ c = [spec |-> r.m.spec, passed |-> r.done, up |-> TRUE]
    OBVIOUS
  <2>2. /\ nm = Name(nm.id, nm.step) /\ nm.id = r.id /\ nm.step = 0
        /\ c = [f \in CtrFields |-> c[f]] /\ c.passed = r.done /\ c.spec = r.m.spec
    BY <2>1 DEF Name, CtrFields
  <2>3. r.done = Steps[r.m.spec]
    BY <1>1, <1>2, ChainParts
  <2>4. /\ Things(ctrs, ring, ids) /\ nm.id \in 1 .. ids /\ Name(nm.id, 0) \notin DOMAIN ctrs
        /\ \A o \in DOMAIN ctrs : o.id = nm.id => ~ctrs[o].up
        /\ \A i \in DOMAIN ring : ring[i].id # nm.id
    BY <1>1, <1>2, <2>2, ChainParts
  <2>5. ctrs' = [x \in DOMAIN ctrs \cup {nm} |-> IF x = nm THEN c ELSE ctrs[x]]
    BY <1>5, <2>1 DEF Added
  <2>6. /\ Things(ctrs', ring, ids)
        /\ \A q : Chain(q, ctrs, ring, ids) /\ (Walking(q) => q.id # nm.id) => Chain(q, ctrs', ring, ids)
    <3>1. c.passed = Steps[c.spec]
      BY <2>2, <2>3
    <3>2. c = [f \in CtrFields |-> c[f]] /\ nm = Name(nm.id, nm.step)
      BY <2>2
    <3>. QED  BY <2>4, <2>5, <3>1, <3>2, OneMore
  <2>7. PICK r2 : r2 = [r EXCEPT !.pc = r.back, !.made = @ \cup {Name(r.id, 0)}]
    OBVIOUS
  <2>8. DoerShape(r2) /\ r2.pc = r.back /\ r2.m = r.m
    <3>1. DoerShape(r)
      BY <1>1, DoerParts
    <3>. QED  BY <2>7, <3>1 DEF DoerShape, DoerFields
  <2>9. ~Walking(r2) /\ Applied(r2, wished)
    BY <1>1, <1>2, <2>8, ChainParts DEF Walking, Applied
  <2>10. DoerTrue(r2, ctrs', ring', ids', wished)
    BY <2>8, <2>9 DEF DoerTrue, Chain
  <2>11. \A v \in Doers \ {w} : Chain(doer[v], ctrs', ring, ids)
    BY <1>1, <1>2, <2>2, <2>6, ChainParts
  <2>12. Becomes(w, r2)
    BY <1>5, <2>7
  <2>. QED  BY <1>3, <1>4, <2>6, <2>9, <2>10, <2>11, <2>12, OneSteps
<1>6. CASE Return(w, TRUE) /\ UNCHANGED ctrs
  BY <1>3, <1>4, <1>6, OffIs, AllStay, QuietKeeps DEF Return, Walking, Applied
<1>. QED  BY <1>1, <1>5, <1>6 DEF StartMain

LEMMA StopControllerKeeps ==
  ASSUME InitsIInv, StopController PROVE InitsIInv'
<1>1. /\ ctrs' = [n \in DOMAIN ctrs |-> [ctrs[n] EXCEPT !.up = n.step = 0]] /\ UNCHANGED <<ring, ids, wished>>
      /\ doer' = [w \in Doers |-> Off] /\ waking' = (wished.spec # 0)
  BY DEF StopController, Doers
<1>2. Things(ctrs, ring, ids)
  BY DEF InitsIInv
<1>3. /\ DOMAIN ctrs' = DOMAIN ctrs /\ ctrs' = [x \in DOMAIN ctrs' |-> ctrs'[x]]
      /\ \A x \in DOMAIN ctrs : ctrs'[x] = [ctrs[x] EXCEPT !.up = x.step = 0]
  BY <1>1
<1>4. ASSUME NEW x \in DOMAIN ctrs
      PROVE  /\ ctrs'[x] = [f \in CtrFields |-> ctrs'[x][f]]
             /\ ctrs'[x].passed = ctrs[x].passed /\ ctrs'[x].spec = ctrs[x].spec /\ (ctrs'[x].up <=> x.step = 0)
  <2>1. ctrs[x] = [f \in CtrFields |-> ctrs[x][f]]
    BY <1>2 DEF Things, Herd
  <2>2. PICK b \in BOOLEAN : b <=> x.step = 0
    OBVIOUS
  <2>3. ctrs'[x] = [ctrs[x] EXCEPT !.up = b]
    BY <1>3, <2>2
  <2>. QED  BY <2>1, <2>2, <2>3 DEF CtrFields
<1>5. Herd(ctrs', ids)
  BY <1>2, <1>3, <1>4 DEF Things, Herd
<1>6. MainsFirst(ctrs', ring)
  <2>. SUFFICES ASSUME NEW x \in DOMAIN ctrs, x.step = 0
                PROVE  /\ ctrs'[x].passed = Steps[ctrs'[x].spec]
                       /\ \A o \in DOMAIN ctrs \ {x} : o.id = x.id => ~ctrs'[o].up
                       /\ \A i \in DOMAIN ring : ring[i].id # x.id
    BY <1>3 DEF MainsFirst
  <2>1. \A o \in DOMAIN ctrs : o.step = 0 /\ o.id = x.id => o = x
    BY <1>2 DEF Things, Herd
  <2>2. ctrs[x].passed = Steps[ctrs[x].spec] /\ \A i \in DOMAIN ring : ring[i].id # x.id
    BY <1>2 DEF Things, MainsFirst
  <2>3. ctrs'[x].passed = Steps[ctrs'[x].spec]
    BY <1>4, <2>2
  <2>4. ASSUME NEW o \in DOMAIN ctrs \ {x}, o.id = x.id PROVE ~ctrs'[o].up
    <3>1. o.step # 0
      BY <2>1, <2>4
    <3>. QED  BY <1>4, <3>1
  <2>. QED  BY <2>2, <2>3, <2>4
<1>7. Things(ctrs', ring', ids')
  BY <1>1, <1>2, <1>5, <1>6 DEF Things
<1>8. DoerTrue(Off, ctrs', ring', ids', wished') /\ ~Walking(Off)
  BY OffIs DEF DoerTrue, Applied, Chain, Walking
<1>. QED  BY <1>1, <1>3, <1>7, <1>8 DEF InitsIInv

LEMMA InitsStep ==
  ASSUME InitsIInv, [InitsNext]_initsVars PROVE InitsIInv'
BY AskKeeps, WakeKeeps, AskRestartKeeps, StopControllerKeeps, ScaleKeeps, PruneExtrasKeeps, LookKeeps,
   RollKeeps, RetireKeeps, RunOneKeeps, StepDoneKeeps, StartMainKeeps, StepFailsKeeps DEF initsVars, InitsIInv,
   InitsNext, Doers

LEMMA InitsMean ==
  ASSUME InitsIInv PROVE InitsFirst
BY DEF InitsIInv, Things, MainsFirst, InitRing, InitsFirst, Mains

\* Whatever ran, failed, timed out, was retried or cut short, by the loop or by a
\* restart beside it (init_containers.go, runInitChain): a main container started
\* only after every step of its spec had succeeded, no step of a replica is up
\* beside its main container, no failure is on record of a replica that has one,
\* and appendInitFailure keeps maxInitFailures of them.
THEOREM InitsCorrect == InitsSpec => []InitsFirst
<1>1. InitsInit => InitsIInv
  BY InitsStarts
<1>2. InitsIInv /\ [InitsNext]_initsVars => InitsIInv'
  BY InitsStep
<1>3. InitsIInv => InitsFirst
  BY InitsMean
<1>. QED  BY <1>1, <1>2, <1>3, PTL DEF InitsSpec

-----------------------------------------------------------------------------
(* Runs. The argument: where no run begins beside another, the history's      *)
(* front is the run under way, which finalises it where it stands; what the   *)
(* run collects after that is all the history does not show, and a run that   *)
(* had no container, and collects nothing, says so in front.                  *)

RunPcs == {"off", "get", "load", "save", "spawn", "wait", "reload", "resave", "keep",
           "collect", "end", "done"}
Results == {"running", "ok", "bad"}
Once(h) == \A i, j \in DOMAIN h : h[i].run = h[j].run => i = j
Histories == {None} \cup {h \in Seq([run : Slots, st : Results]) : Once(h)}
RunRecords == [pc : RunPcs, loaded : Histories, st : Results, keep : SUBSET Slots,
               ran : BOOLEAN]

\* Every variable a run or the reconciler touches has its type; a history has a
\* run once.
RunsType ==
  /\ kind \in {"cronjob", "job"} /\ manifest \in Manifests \cup {None}
  /\ applier \in [pc : {"idle", "save", "clear"}, loaded : Histories]
  /\ runs \in [Slots -> RunRecords] /\ cont \in [Slots -> {"none", "up", "ok", "bad"}]
  /\ mark \in BOOLEAN /\ blob \in Histories /\ stale \in BOOLEAN

\* A run that has recorded itself, and not yet how it ended; and one whose
\* container has been up and is not collected after yet.
Open(r) == runs[r].pc \in {"spawn", "wait", "reload", "resave"}
Holding(r) == \/ runs[r].pc \in {"wait", "keep", "collect"}
              \/ runs[r].pc \in {"reload", "resave"} /\ runs[r].ran
Unseen == {"off", "get", "load", "save"}

\* One run and its container.
RunStands(r) ==
  /\ cont[r] = "up" => runs[r].pc = "wait"
  /\ runs[r].pc \in Unseen \cup {"spawn"} => cont[r] = "none" /\ ~runs[r].ran
  /\ runs[r].pc \in {"reload", "resave"} =>
       /\ runs[r].st # "running"
       /\ ~runs[r].ran => cont[r] = "none" /\ runs[r].st = "bad"

\* A job's callers wait for one another, a cronjob's runs for the mark.
OneRun ==
  /\ kind = "job" => \A q, r \in Slots : Active(q) /\ Active(r) => q = r
  /\ Exclusive => \A q, r \in Slots : Begun(q) /\ Begun(r) => q = r
  /\ Exclusive /\ kind = "cronjob" => \A r \in Slots : Begun(r) => mark

\* The history calls a run running until it is finalised; while it runs it is in
\* front.
EntriesTrue ==
  ~stale => \A e \in Entries : /\ runs[e.run].pc \notin Unseen
                               /\ e.st = "running" <=> Open(e.run)
InFront ==
  Exclusive /\ ~stale => \A r \in Slots : Open(r) => Entries # {} /\ blob[1].run = r

\* What the history says of a container, and what a collection spares.
ContainersTold ==
  Exclusive /\ ~stale =>
    /\ applier.pc # "clear" => \A e \in Entries : e.st = "ok" => cont[e.run] = "ok"
    /\ \A e \in Entries : e.st # "running" /\ cont[e.run] # "none" => e.st = cont[e.run]
    /\ \A r \in Slots :
         /\ runs[r].pc = "wait" => cont[r] # "none"
         /\ runs[r].pc = "collect" => runs[r].keep = {e.run : e \in Entries}
         /\ runs[r].pc \in {"reload", "resave"} /\ runs[r].ran => cont[r] = runs[r].st
Tidy ==
  Entries # {} /\ cont[blob[1].run] # "none" =>
    \A r \in Slots : cont[r] # "none" => \E e \in Entries : e.run = r /\ e.st = cont[r]
Collected == Exclusive /\ ~stale /\ (\A r \in Slots : ~Holding(r)) => Tidy

RunsIInv ==
  /\ RunsType /\ (\A r \in Slots : RunStands(r)) /\ OneRun
  /\ EntriesTrue /\ InFront /\ ContainersTold /\ Collected

-----------------------------------------------------------------------------
(* The cap keeps the order and drops nothing in front.                        *)

\* The members of a set of numbers are ranked from 1 without a gap.
LEMMA RankFacts ==
  ASSUME NEW n \in Nat, NEW S \in SUBSET (1 .. n)
  PROVE  /\ Cardinality(S) \in Nat
         /\ \A i \in S : Rank(S, i) \in 1 .. Cardinality(S)
         /\ \A i, k \in S : Rank(S, i) = Rank(S, k) => i = k
         /\ \A m \in 1 .. Cardinality(S) : \E i \in S : Rank(S, i) = m
<1>. DEFINE low(i) == {j \in S : j <= i}
            f == [i \in S |-> Rank(S, i)]
<1>1. IsFiniteSet(S) /\ Cardinality(S) \in Nat
  <2>1. IsFiniteSet(1 .. n)  BY FS_Interval
  <2>. QED  BY <2>1, FS_Subset, FS_CardinalityType
<1>0. \A x \in S : x \in Nat  OBVIOUS
<1>2. ASSUME NEW i \in S
      PROVE  IsFiniteSet(low(i)) /\ Rank(S, i) \in 1 .. Cardinality(S)
  BY <1>0, <1>1, FS_Subset, FS_CardinalityType, FS_EmptySet DEF Rank
<1>3. ASSUME NEW i \in S, NEW k \in S, i < k PROVE Rank(S, i) # Rank(S, k)
  <2>0. i \in Nat /\ k \in Nat  BY <1>0
  <2>1. low(i) \in SUBSET low(k) /\ k \in low(k) /\ k \notin low(i)
    <3>1. \A j \in S : j <= i => j <= k  BY <1>0, <1>3, <2>0
    <3>2. k <= k /\ ~(k <= i)  BY <1>3, <2>0
    <3>. QED  BY <3>1, <3>2
  <2>2. Cardinality(low(i)) # Cardinality(low(k))
    BY <1>2, <2>1, FS_Subset
  <2>. QED  BY <2>2 DEF Rank
<1>4. \A i, k \in S : Rank(S, i) = Rank(S, k) => i = k
  BY <1>3
<1>5. f \in Injection(S, 1 .. Cardinality(S))
  BY <1>2, <1>4 DEF Injection, IsInjective
<1>6. IsFiniteSet(1 .. Cardinality(S)) /\ Cardinality(1 .. Cardinality(S)) = Cardinality(S)
  BY <1>1, FS_Interval
<1>7. f \in Surjection(S, 1 .. Cardinality(S))
  BY <1>5, <1>6, FS_Injection
<1>8. \A m \in 1 .. Cardinality(S) : \E i \in S : Rank(S, i) = m
  BY <1>7 DEF Surjection
<1>. QED  BY <1>1, <1>2, <1>4, <1>8

\* capHistory: what is left are entries of the history, each once, and the
\* newest is among them.
LEMMA CappedFacts ==
  ASSUME NEW E, NEW h \in Seq(E)
  PROVE  /\ Capped(h) \in Seq(E)
         /\ \A n \in DOMAIN Capped(h) : \E i \in DOMAIN h : Capped(h)[n] = h[i]
         /\ Once(h) => Once(Capped(h))
         /\ h # <<>> => Capped(h) # <<>> /\ Capped(h)[1] = h[1]
<1>. DEFINE S == Retained(h)
            at(m) == CHOOSE i \in S : Rank(S, i) = m
<1>1. Len(h) \in Nat /\ DOMAIN h = 1 .. Len(h) /\ S \in SUBSET (1 .. Len(h))
  BY DEF Retained
<1>2. /\ Cardinality(S) \in Nat
      /\ \A i \in S : Rank(S, i) \in 1 .. Cardinality(S)
      /\ \A i, k \in S : Rank(S, i) = Rank(S, k) => i = k
      /\ \A m \in 1 .. Cardinality(S) : \E i \in S : Rank(S, i) = m
  BY <1>1, RankFacts
<1>3. \A m \in 1 .. Cardinality(S) : at(m) \in S /\ Rank(S, at(m)) = m
  BY <1>2
<1>4. \A i \in S : at(Rank(S, i)) = i
  BY <1>2, <1>3
<1>5. DOMAIN Capped(h) = 1 .. Cardinality(S) /\ \A m \in 1 .. Cardinality(S) : Capped(h)[m] = h[at(m)]
  BY DEF Capped
<1>6. Capped(h) \in Seq(E)
  <2>1. \A m \in 1 .. Cardinality(S) : h[at(m)] \in E
    BY <1>1, <1>3
  <2>2. Capped(h) = [m \in 1 .. Cardinality(S) |-> h[at(m)]]
    BY DEF Capped
  <2>. HIDE DEF S, at
  <2>. QED  BY <1>2, <2>1, <2>2, SeqDef
<1>7. \A m \in DOMAIN Capped(h) : \E i \in DOMAIN h : Capped(h)[m] = h[i]
  BY <1>1, <1>3, <1>5
<1>8. ASSUME Once(h) PROVE Once(Capped(h))
  BY <1>1, <1>3, <1>5, <1>8 DEF Once
<1>9. ASSUME h # <<>> PROVE Capped(h) # <<>> /\ Capped(h)[1] = h[1]
  <2>1. 1 \in DOMAIN h
    BY <1>1, <1>9
  <2>2. \A st : Newer(h, 1, st) = 0
    BY FS_EmptySet DEF Newer
  <2>3. 1 \in S
    BY <2>1, <2>2, RunsAssumption DEF Retained
  <2>4. {j \in S : j <= 1} = {1}
    BY <1>1, <2>3
  <2>5. Rank(S, 1) = 1
    <3>. DEFINE X == {j \in S : j <= 1}
    <3>1. X = {1}  BY <2>4
    <3>2. Rank(S, 1) = Cardinality(X)  BY DEF Rank
    <3>3. Cardinality({1}) = 1  BY FS_Singleton
    <3>. HIDE DEF X, S
    <3>. QED  BY <3>1, <3>2, <3>3
  <2>6. 1 \in 1 .. Cardinality(S) /\ at(1) = 1
    BY <1>2, <1>4, <2>3, <2>5
  <2>7. 1 \in DOMAIN Capped(h) /\ Capped(h)[1] = h[1]
    BY <1>5, <2>6
  <2>. QED  BY <1>6, <2>7
<1>. QED  BY <1>6, <1>7, <1>8, <1>9

\* appendRun: the entry replaces the run's own or goes in front; the others are
\* entries there were, of other runs.
LEMMA UpsertFacts ==
  ASSUME NEW b \in Histories, NEW me \in [run : Slots, st : Results]
  PROVE  /\ Upsert(b, me) \in Histories \ {None}
         /\ \A n \in DOMAIN Upsert(b, me) :
              \/ Upsert(b, me)[n] = me
              \/ /\ b # None /\ Upsert(b, me)[n].run # me.run
                 /\ \E i \in DOMAIN b : Upsert(b, me)[n] = b[i]
         /\ \/ b = None
            \/ b # <<>> /\ b[1].run = me.run
            \/ b # None /\ (\A i \in DOMAIN b : b[i].run # me.run)
            => Upsert(b, me) # <<>> /\ Upsert(b, me)[1] = me
<1>. DEFINE E == [run : Slots, st : Results]
            h == IF b = None THEN <<>> ELSE b
            at == {i \in DOMAIN h : h[i].run = me.run}
            own == CHOOSE i \in at : TRUE
            g == IF at = {} THEN <<me>> \o h ELSE [h EXCEPT ![own] = me]
<1>1. h \in Seq(E) /\ Once(h) /\ (b = None => h = <<>>) /\ (b # None => h = b)
  BY DEF Histories, Once
<1>. HIDE DEF h
<1>2. at = {} \/ (own \in at /\ at = {own})
  BY <1>1 DEF Once
<1>3. CASE at = {}
  <2>1. g = <<me>> \o h  BY <1>3
  <2>2. \A i \in DOMAIN h : h[i].run # me.run  BY <1>3
  <2>. HIDE DEF at, g
  <2>3. g \in Seq(E) /\ g # <<>> /\ g[1] = me /\ Len(g) = Len(h) + 1
    BY <1>1, <2>1
  <2>4. \A i \in DOMAIN g : i = 1 \/ (i - 1 \in DOMAIN h /\ g[i] = h[i - 1])
    BY <1>1, <2>1
  <2>5. \A i \in DOMAIN g : i \in Nat  BY <2>3
  <2>6. Once(g)
    <3>1. SUFFICES ASSUME NEW i \in DOMAIN g, NEW j \in DOMAIN g, g[i].run = g[j].run
                   PROVE  i = j
      BY DEF Once
    <3>2. i = 1 <=> j = 1
      BY <2>2, <2>3, <2>4, <3>1
    <3>3. i # 1 => i - 1 = j - 1
      BY <1>1, <2>4, <3>1, <3>2 DEF Once
    <3>. QED  BY <2>5, <3>2, <3>3
  <2>7. \A i \in DOMAIN g : g[i] = me \/ (g[i].run # me.run /\ \E j \in DOMAIN h : g[i] = h[j])
    BY <2>2, <2>3, <2>4
  <2>8. Upsert(b, me) = Capped(g)
    BY Zenon DEF Upsert, g, at, own, h
  <2>. HIDE DEF E
  <2>9. /\ Capped(g) \in Seq(E) /\ Once(Capped(g))
        /\ \A n \in DOMAIN Capped(g) : \E i \in DOMAIN g : Capped(g)[n] = g[i]
        /\ Capped(g) # <<>> /\ Capped(g)[1] = me
    BY <2>3, <2>6, CappedFacts
  <2>. QED  BY <1>1, <2>7, <2>8, <2>9, RunsAssumption DEF Histories, E, Results
<1>4. CASE at # {}
  <2>1. g = [h EXCEPT ![own] = me]  BY <1>4
  <2>2. own \in DOMAIN h /\ h[own].run = me.run /\ \A i \in DOMAIN h : h[i].run = me.run => i = own
    BY <1>2, <1>4
  <2>. HIDE DEF at, g, own
  <2>3. g \in Seq(E) /\ DOMAIN g = DOMAIN h /\ g[own] = me /\ \A i \in DOMAIN h : i # own => g[i] = h[i]
    BY <1>1, <2>1, <2>2
  <2>4. Once(g)
    BY <1>1, <2>2, <2>3 DEF Once
  <2>5. \A i \in DOMAIN g : g[i] = me \/ (g[i].run # me.run /\ \E j \in DOMAIN h : g[i] = h[j])
    BY <2>2, <2>3
  <2>6. g # <<>>
    BY <1>1, <2>2, <2>3
  <2>7. h # <<>> /\ h[1].run = me.run => g[1] = me
    <3>1. h # <<>> => 1 \in DOMAIN h  BY <1>1
    <3>. QED  BY <2>2, <2>3, <3>1
  <2>8. Upsert(b, me) = Capped(g)
    BY Zenon DEF Upsert, g, at, own, h
  <2>. HIDE DEF E
  <2>9. /\ Capped(g) \in Seq(E) /\ Once(Capped(g))
        /\ \A n \in DOMAIN Capped(g) : \E i \in DOMAIN g : Capped(g)[n] = g[i]
        /\ Capped(g) # <<>> /\ Capped(g)[1] = g[1]
    BY <2>3, <2>4, <2>6, CappedFacts
  <2>. QED  BY <1>1, <2>2, <2>5, <2>7, <2>8, <2>9, RunsAssumption DEF Histories, E, Results
<1>. QED  BY <1>3, <1>4

-----------------------------------------------------------------------------
(* Every step keeps the invariant.                                            *)

LEMMA EntriesIn ==
  ASSUME RunsType
  PROVE  \A e \in Entries : e.run \in Slots /\ e.st \in Results
<1>1. CASE blob = None
  BY <1>1 DEF Entries
<1>2. CASE blob # None
  <2>. DEFINE E == [run : Slots, st : Results]
  <2>1. blob \in Seq(E) /\ Entries = {blob[i] : i \in DOMAIN blob}
    BY <1>2 DEF Entries, RunsType, Histories
  <2>2. \A x \in E : x.run \in Slots /\ x.st \in Results
    OBVIOUS
  <2>. HIDE DEF E
  <2>3. \A i \in DOMAIN blob : blob[i] \in E
    BY <2>1
  <2>. QED  BY <2>1, <2>2, <2>3
<1>. QED  BY <1>1, <1>2

LEMMA RunsStart == RunsInit => RunsIInv
<1>. SUFFICES ASSUME RunsInit PROVE RunsIInv
  OBVIOUS
<1>1. IdleRun \in RunRecords
  BY DEF IdleRun, RunRecords, RunPcs, Results, Histories
<1>2. RunsType
  BY <1>1, RunsAssumption DEF RunsInit, RunsType, IdleApplier, Histories
<1>3. \A r \in Slots : runs[r].pc = "off" /\ cont[r] = "none" /\ ~runs[r].ran
  BY DEF RunsInit, IdleRun
<1>4. Entries = {} /\ blob = None
  BY DEF RunsInit, Entries
<1>. QED
  BY <1>2, <1>3, <1>4 DEF RunsIInv, RunStands, OneRun, EntriesTrue, InFront, ContainersTold,
     Collected, Tidy, Active, Begun, Open, Unseen

\* What is put, deleted, read or timed touches no run and no history.
LEMMA AsideKeeps ==
  ASSUME RunsIInv, UNCHANGED <<kind, runs, cont, mark, blob, stale>>,
         manifest' \in Manifests \cup {None},
         applier' \in [pc : {"idle", "save", "clear"}, loaded : Histories],
         applier.pc = "clear" => applier'.pc = "clear"
  PROVE  RunsIInv'
<1>1. Entries' = Entries
  BY DEF Entries
<1>2. RunsType'
  BY DEF RunsIInv, RunsType
<1>3. (\A r \in Slots : RunStands(r))'
  BY DEF RunsIInv, RunStands
<1>4. OneRun'
  BY DEF RunsIInv, OneRun, Active, Begun, Exclusive
<1>5. EntriesTrue' /\ InFront'
  BY <1>1 DEF RunsIInv, EntriesTrue, InFront, Exclusive, Open
<1>6. ContainersTold'
  BY <1>1 DEF RunsIInv, ContainersTold, Exclusive
<1>7. Collected'
  BY <1>1 DEF RunsIInv, Collected, Tidy, Exclusive, Holding
<1>. QED  BY <1>2, <1>3, <1>4, <1>5, <1>6, <1>7 DEF RunsIInv

LEMMA SaidAsideKeeps ==
  ASSUME RunsIInv,
         \/ \E m \in Manifests : Put(m)
         \/ Delete \/ LoadForApply
  PROVE  RunsIInv'
BY AsideKeeps DEF RunsIInv, Put, RunsType, Delete, LoadForApply

\* A run moves, with its container and the history as they are.
LEMMA MoveKeeps ==
  ASSUME RunsIInv, NEW r \in Slots, NEW me \in RunRecords, runs' = [runs EXCEPT ![r] = me],
         UNCHANGED <<kind, manifest, applier, cont, blob, stale>>, mark' \in BOOLEAN,
         RunStands(r)', OneRun',
         runs[r].pc \notin Unseen => me.pc \notin Unseen, Open(r)' <=> Open(r), Holding(r) => Holding(r)',
         Exclusive /\ ~stale =>
           /\ me.pc = "wait" => cont[r] # "none"
           /\ me.pc = "collect" => me.keep = {e.run : e \in Entries}
           /\ me.pc \in {"reload", "resave"} /\ me.ran => cont[r] = me.st
  PROVE  RunsIInv'
<1>1. RunsType
  BY DEF RunsIInv
<1>2. Entries' = Entries
  BY DEF Entries
<1>3. runs' \in [Slots -> RunRecords] /\ runs'[r] = me /\ \A q \in Slots : q # r => runs'[q] = runs[q]
  BY <1>1 DEF RunsType
<1>4. RunsType'
  BY <1>1, <1>3 DEF RunsType
<1>5. (\A q \in Slots : RunStands(q))'
  BY <1>3 DEF RunsIInv, RunStands
<1>6. /\ \A q \in Slots : Open(q)' <=> Open(q)
      /\ \A q \in Slots : Holding(q) => Holding(q)'
      /\ \A q \in Slots : runs[q].pc \notin Unseen => runs'[q].pc \notin Unseen
  BY <1>3 DEF Open, Holding
<1>7. Exclusive' = Exclusive
  BY DEF Exclusive
<1>8. \A e \in Entries : e.run \in Slots
  BY <1>1, EntriesIn
<1>9. EntriesTrue'
  BY <1>2, <1>6, <1>8 DEF RunsIInv, EntriesTrue
<1>10. InFront'
  BY <1>2, <1>6, <1>7 DEF RunsIInv, InFront
<1>11. ContainersTold'
  BY <1>2, <1>3, <1>7 DEF RunsIInv, ContainersTold
<1>12. Collected'
  BY <1>2, <1>6, <1>7 DEF RunsIInv, Collected, Tidy
<1>. QED  BY <1>4, <1>5, <1>9, <1>10, <1>11, <1>12 DEF RunsIInv

\* What makes a run begun, and keeps it the only one.
LEMMA OnlyRun ==
  ASSUME RunsIInv, NEW r \in Slots, NEW me \in RunRecords, runs' = [runs EXCEPT ![r] = me],
         UNCHANGED kind,
         Active(r)' => Active(r), Begun(r)' => Begun(r), mark' = mark
  PROVE  OneRun'
BY DEF RunsIInv, RunsType, Active, Begun, OneRun, Exclusive

\* The fields of a run whose stage alone changes.
LEMMA OneStep ==
  ASSUME RunsType, NEW r \in Slots, NEW pc \in RunPcs, To(r, pc),
         NEW me, me = [runs[r] EXCEPT !.pc = pc]
  PROVE  /\ me \in RunRecords /\ runs' = [runs EXCEPT ![r] = me] /\ runs'[r] = me
         /\ me.pc = pc /\ me.st = runs[r].st /\ me.ran = runs[r].ran /\ me.keep = runs[r].keep
BY DEF RunsType, RunRecords, To

LEMMA DispatchKeeps ==
  ASSUME RunsIInv, Dispatch, kind = "job" => Resting,
         UNCHANGED <<kind, manifest, applier, cont, mark, blob, stale>>
  PROVE  RunsIInv'
<1>1. PICK r \in Slots : At(r, "off") /\ To(r, "get")
  BY DEF Dispatch, NextSlot
<1>. DEFINE me == [runs[r] EXCEPT !.pc = "get"]
<1>2. RunsType
  BY DEF RunsIInv
<1>3. /\ me \in RunRecords /\ runs' = [runs EXCEPT ![r] = me] /\ runs'[r] = me
      /\ me.pc = "get" /\ me.ran = runs[r].ran
  BY <1>1, <1>2, OneStep DEF RunPcs
<1>. HIDE DEF me
<1>4. \A q \in Slots : q # r => runs'[q] = runs[q]
  BY <1>2, <1>3 DEF RunsType
<1>5. OneRun'
  BY <1>4, <1>3 DEF Active, Resting, Begun, RunsIInv, OneRun, Exclusive
<1>6. RunStands(r)'
  BY <1>1, <1>3 DEF RunsIInv, RunStands, At, Unseen
<1>7. /\ runs[r].pc \notin Unseen => me.pc \notin Unseen
      /\ Open(r)' <=> Open(r)
      /\ Holding(r) => Holding(r)'
  BY <1>1, <1>3 DEF Open, Holding, Unseen, At
<1>. QED  BY <1>2, <1>3, <1>5, <1>6, <1>7, MoveKeeps DEF RunsType

LEMMA AsksKeep ==
  ASSUME RunsIInv,
         \/ \E d \in 1 .. Late : Evaluate(d)
         \/ RunNow \/ RunOnce
  PROVE  RunsIInv'
<1>1. RunsType  BY DEF RunsIInv
<1>2. CASE RunNow \/ RunOnce
  BY <1>2, DispatchKeeps DEF RunNow, RunOnce
<1>3. ASSUME NEW d \in 1 .. Late, Evaluate(d) PROVE RunsIInv'
  BY <1>3, DispatchKeeps, <1>1, AsideKeeps DEF Evaluate, RunsType
<1>. QED  BY <1>2, <1>3

\* The read of the manifest: a run that goes on finds nobody before it.
LEMMA GetKeeps ==
  ASSUME RunsIInv, NEW r \in Slots, Get(r) \/ JobGet(r)
  PROVE  RunsIInv'
<1>1. RunsType
  BY DEF RunsIInv
<1>2. At(r, "get") /\ UNCHANGED <<kind, manifest, applier, cont, blob, stale>>
  BY DEF Get, JobGet
<1>3. CASE To(r, "done") /\ UNCHANGED mark
  <2>. DEFINE me == [runs[r] EXCEPT !.pc = "done"]
  <2>1. /\ me \in RunRecords /\ runs' = [runs EXCEPT ![r] = me] /\ runs'[r] = me
        /\ me.pc = "done" /\ me.ran = runs[r].ran
    BY <1>1, <1>3, OneStep DEF RunPcs
  <2>. HIDE DEF me
  <2>2. OneRun'
    BY <2>1, <1>2, <1>3, OnlyRun DEF Active, Begun
  <2>3. RunStands(r)'
    BY <1>2, <2>1 DEF RunsIInv, RunStands, At, Unseen
  <2>4. /\ runs[r].pc \notin Unseen => me.pc \notin Unseen
        /\ Open(r)' <=> Open(r)
        /\ Holding(r) => Holding(r)'
    BY <1>2, <2>1 DEF Open, Holding, Unseen, At
  <2>. QED  BY <1>1, <1>2, <1>3, <2>1, <2>2, <2>3, <2>4, MoveKeeps DEF RunsType
<1>4. CASE /\ To(r, "load") /\ mark' \in BOOLEAN
           /\ Exclusive /\ kind = "cronjob" => ~mark /\ mark'
  <2>. DEFINE me == [runs[r] EXCEPT !.pc = "load"]
  <2>1. /\ me \in RunRecords /\ runs' = [runs EXCEPT ![r] = me] /\ runs'[r] = me
        /\ me.pc = "load" /\ me.ran = runs[r].ran
    BY <1>1, <1>4, OneStep DEF RunPcs
  <2>. HIDE DEF me
  <2>2. \A q \in Slots : q # r => runs'[q] = runs[q]
    BY <1>1, <2>1 DEF RunsType
  <2>3. OneRun'
    BY <1>4, <1>2, <1>1, <2>2 DEF RunsIInv, OneRun, Active, At, RunsType, Begun, Exclusive
  <2>4. RunStands(r)'
    BY <1>2, <2>1 DEF RunsIInv, RunStands, At, Unseen
  <2>5. /\ runs[r].pc \notin Unseen => me.pc \notin Unseen
        /\ Open(r)' <=> Open(r)
        /\ Holding(r) => Holding(r)'
    BY <1>2, <2>1 DEF Open, Holding, Unseen, At
  <2>. QED  BY <1>1, <1>2, <1>4, <2>1, <2>3, <2>4, <2>5, MoveKeeps DEF RunsType
<1>5. CASE JobGet(r)
  BY <1>5, <1>1, <1>3, <1>4 DEF JobGet, RunsType
<1>6. CASE Get(r)
  <2>1. CASE manifest = None \/ Suspended \/ (manifest.policy = "Forbid" /\ mark)
    BY <1>3, <1>6, <2>1 DEF Get
  <2>2. CASE ~(manifest = None \/ Suspended \/ (manifest.policy = "Forbid" /\ mark))
    BY <1>6, <2>2, <1>1, <1>4 DEF Get, Exclusive, RunsType
  <2>. QED  BY <2>1, <2>2
<1>. QED  BY <1>5, <1>6

LEMMA LoadKeeps ==
  ASSUME RunsIInv, NEW r \in Slots, Load(r)
  PROVE  RunsIInv'
<1>1. RunsType
  BY DEF RunsIInv
<1>2. PICK s \in {"load", "reload"} :
        /\ At(r, s)
        /\ runs' = [runs EXCEPT ![r].pc = IF s = "load" THEN "save" ELSE "resave",
                                ![r].loaded = blob]
  BY DEF Load
<1>. DEFINE next == IF s = "load" THEN "save" ELSE "resave"
<1>0. PICK me : me = [runs[r] EXCEPT !.pc = next, !.loaded = blob]
  OBVIOUS
<1>3. /\ me \in RunRecords /\ me.pc = next
      /\ me.st = runs[r].st /\ me.ran = runs[r].ran /\ me.keep = runs[r].keep
  <2>1. next \in RunPcs /\ blob \in Histories /\ runs[r] \in RunRecords
    BY <1>1 DEF RunsType, RunPcs
  <2>. HIDE DEF next
  <2>. QED  BY <1>0, <2>1 DEF RunRecords
<1>4. runs' = [runs EXCEPT ![r] = me] /\ runs'[r] = me
  BY <1>0, <1>1, <1>2 DEF RunsType
<1>5. runs[r].pc = s /\ ((s = "load" /\ me.pc = "save") \/ (s = "reload" /\ me.pc = "resave"))
  BY <1>2, <1>3 DEF At
<1>6. UNCHANGED <<kind, manifest, applier, cont, mark, blob, stale>>
  BY DEF Load
<1>7. OneRun'
  <2>1. Active(r) /\ Begun(r)
    BY <1>5 DEF Active, Begun
  <2>. QED  BY <1>3, <1>4, <1>6, <2>1, OnlyRun
<1>8. RunStands(r)'
  BY <1>3, <1>4, <1>5, <1>6 DEF RunsIInv, RunStands, Unseen
<1>9. /\ runs[r].pc \notin Unseen => me.pc \notin Unseen
      /\ Open(r)' <=> Open(r)
      /\ Holding(r) => Holding(r)'
  BY <1>3, <1>4, <1>5 DEF Open, Holding, Unseen
<1>10. Exclusive /\ ~stale /\ me.pc \in {"reload", "resave"} /\ me.ran => cont[r] = me.st
  BY <1>3, <1>5 DEF RunsIInv, ContainersTold
<1>. QED  BY <1>1, <1>3, <1>4, <1>5, <1>6, <1>7, <1>8, <1>9, <1>10, MoveKeeps DEF RunsType

\* docker refuses the container.
LEMMA RefusedKeeps ==
  ASSUME RunsIInv, NEW r \in Slots, At(r, "spawn"),
         runs' = [runs EXCEPT ![r].pc = "reload", ![r].st = "bad"], ~runs[r].ran,
         UNCHANGED <<kind, manifest, applier, cont, mark, blob, stale>>
  PROVE  RunsIInv'
<1>1. RunsType
  BY DEF RunsIInv
<1>0. PICK me : me = [runs[r] EXCEPT !.pc = "reload", !.st = "bad"]
  OBVIOUS
<1>2. /\ me \in RunRecords /\ me.pc = "reload" /\ me.st = "bad" /\ ~me.ran
      /\ runs[r].pc = "spawn"
  <2>1. "reload" \in RunPcs /\ "bad" \in Results /\ runs[r] \in RunRecords
    BY <1>1 DEF RunsType, RunPcs, Results
  <2>2. me \in RunRecords /\ me.pc = "reload" /\ me.st = "bad" /\ me.ran = runs[r].ran
    BY <1>0, <2>1 DEF RunRecords
  <2>. QED  BY <2>2 DEF At
<1>3. runs' = [runs EXCEPT ![r] = me] /\ runs'[r] = me
  BY <1>0, <1>1 DEF RunsType
<1>4. OneRun'
  <2>1. Active(r) /\ Begun(r)
    BY <1>2 DEF Active, Begun
  <2>. QED  BY <1>2, <1>3, <2>1, OnlyRun
<1>5. RunStands(r)'
  BY <1>2, <1>3 DEF RunsIInv, RunStands, Unseen
<1>6. /\ runs[r].pc \notin Unseen => me.pc \notin Unseen
      /\ Open(r)' <=> Open(r)
      /\ Holding(r) => Holding(r)'
  BY <1>2, <1>3 DEF Open, Holding, Unseen
<1>. QED  BY <1>1, <1>2, <1>3, <1>4, <1>5, <1>6, MoveKeeps DEF RunsType

LEMMA WaitKeeps ==
  ASSUME RunsIInv, NEW r \in Slots, Wait(r)
  PROVE  RunsIInv'
<1>1. RunsType
  BY DEF RunsIInv
<1>. DEFINE res == IF cont[r] = "ok" THEN "ok" ELSE "bad"
<1>0. PICK me : me = [runs[r] EXCEPT !.pc = "reload", !.ran = TRUE, !.st = res]
  OBVIOUS
<1>2. /\ me \in RunRecords /\ me.pc = "reload" /\ me.st = res /\ me.ran = TRUE
      /\ runs[r].pc = "wait"
  <2>1. "reload" \in RunPcs /\ res \in Results /\ runs[r] \in RunRecords
    BY <1>1 DEF RunsType, RunPcs, Results
  <2>. HIDE DEF res
  <2>2. me \in RunRecords /\ me.pc = "reload" /\ me.st = res /\ me.ran = TRUE
    BY <1>0, <2>1 DEF RunRecords
  <2>. QED  BY <2>2 DEF At, Wait
<1>3. /\ runs' = [runs EXCEPT ![r] = me] /\ runs'[r] = me /\ cont[r] # "up"
      /\ UNCHANGED <<kind, manifest, applier, cont, mark, blob, stale>>
  BY <1>0, <1>1 DEF RunsType, Wait
<1>4. Exclusive /\ ~stale => cont[r] # "none"
  BY <1>2 DEF RunsIInv, ContainersTold
<1>5. cont[r] # "none" => cont[r] = res
  BY <1>1, <1>3 DEF RunsType
<1>6. OneRun'
  <2>1. Active(r) /\ Begun(r)
    BY <1>2 DEF Active, Begun
  <2>. QED  BY <1>2, <1>3, <2>1, OnlyRun
<1>7. RunStands(r)'
  BY <1>2, <1>3 DEF RunsIInv, RunStands, Unseen
<1>8. /\ runs[r].pc \notin Unseen => me.pc \notin Unseen
      /\ Open(r)' <=> Open(r)
      /\ Holding(r) => Holding(r)'
  BY <1>2, <1>3 DEF Open, Holding, Unseen
<1>. QED  BY <1>1, <1>2, <1>3, <1>4, <1>5, <1>6, <1>7, <1>8, MoveKeeps DEF RunsType

LEMMA KeepKeeps ==
  ASSUME RunsIInv, NEW r \in Slots, Keep(r)
  PROVE  RunsIInv'
<1>1. RunsType
  BY DEF RunsIInv
<1>. DEFINE kept == {e.run : e \in Entries}
<1>0. PICK me : me = [runs[r] EXCEPT !.pc = "collect", !.keep = kept]
  OBVIOUS
<1>2. kept = IF blob = None THEN {} ELSE {blob[i].run : i \in DOMAIN blob}
  BY DEF Entries
<1>3. kept \in SUBSET Slots
  BY <1>1, EntriesIn
<1>4. runs' = [runs EXCEPT ![r].pc = "collect", ![r].keep = kept] /\ runs[r].pc = "keep"
  BY <1>2, Zenon DEF Keep, At
<1>5. UNCHANGED <<kind, manifest, applier, cont, mark, blob, stale>>
  BY DEF Keep
<1>. HIDE DEF kept
<1>6. /\ me \in RunRecords /\ me.pc = "collect" /\ me.keep = kept /\ me.ran = runs[r].ran
  <2>1. "collect" \in RunPcs /\ runs[r] \in RunRecords
    BY <1>1 DEF RunsType, RunPcs
  <2>. QED  BY <1>0, <1>3, <2>1 DEF RunRecords
<1>7. runs' = [runs EXCEPT ![r] = me] /\ runs'[r] = me
  BY <1>0, <1>1, <1>4 DEF RunsType
<1>8. OneRun'
  <2>1. Active(r) /\ Begun(r)
    BY <1>4 DEF Active, Begun
  <2>. QED  BY <1>5, <1>6, <1>7, <2>1, OnlyRun
<1>9. RunStands(r)'
  BY <1>4, <1>5, <1>6, <1>7 DEF RunsIInv, RunStands, Unseen
<1>10. /\ runs[r].pc \notin Unseen => me.pc \notin Unseen
       /\ Open(r)' <=> Open(r)
       /\ Holding(r) => Holding(r)'
  BY <1>4, <1>6, <1>7 DEF Open, Holding, Unseen
<1>11. me.keep = {e.run : e \in Entries}
  BY <1>6 DEF kept
<1>. QED  BY <1>1, <1>5, <1>6, <1>7, <1>8, <1>9, <1>10, <1>11, MoveKeeps DEF RunsType

LEMMA EndKeeps ==
  ASSUME RunsIInv, NEW r \in Slots, End(r)
  PROVE  RunsIInv'
<1>1. RunsType
  BY DEF RunsIInv
<1>2. At(r, "end") /\ To(r, "done") /\ mark' = FALSE /\ UNCHANGED <<kind, manifest, applier, cont, blob, stale>>
  BY DEF End
<1>. DEFINE me == [runs[r] EXCEPT !.pc = "done"]
<1>3. /\ me \in RunRecords /\ runs' = [runs EXCEPT ![r] = me] /\ runs'[r] = me
      /\ me.pc = "done" /\ me.ran = runs[r].ran
  BY <1>1, <1>2, OneStep DEF RunPcs
<1>. HIDE DEF me
<1>4. \A q \in Slots : q # r => runs'[q] = runs[q]
  BY <1>1, <1>3 DEF RunsType
<1>5. OneRun'
  BY <1>2, <1>3, <1>4 DEF Begun, Active, At, RunsIInv, OneRun, Exclusive
<1>6. RunStands(r)'
  BY <1>2, <1>3 DEF RunsIInv, RunStands, At, Unseen
<1>7. /\ runs[r].pc \notin Unseen => me.pc \notin Unseen
      /\ Open(r)' <=> Open(r)
      /\ Holding(r) => Holding(r)'
  BY <1>2, <1>3 DEF Open, Holding, Unseen, At
<1>. QED  BY <1>1, <1>2, <1>3, <1>5, <1>6, <1>7, MoveKeeps DEF RunsType

\* What a save of a run's entry does to a history its writer has read.
LEMMA SaveEffect ==
  ASSUME RunsType, NEW r \in Slots, NEW st \in Results,
         Save(Upsert(runs[r].loaded, [run |-> r, st |-> st]), runs[r].loaded)
  PROVE  /\ blob' \in Histories /\ stale' \in BOOLEAN
         /\ ~stale' =>
              /\ ~stale
              /\ \A x \in Entries' : \/ x = [run |-> r, st |-> st]
                                     \/ x \in Entries /\ x.run # r
              /\ \/ \A x \in Entries : x.run # r
                 \/ Entries # {} /\ blob[1].run = r
                 => Entries' # {} /\ blob'[1] = [run |-> r, st |-> st]
<1>. DEFINE b == runs[r].loaded
            e == [run |-> r, st |-> st]
            u == Upsert(b, e)
<1>1. b \in Histories
  BY DEF RunsType, RunRecords
<1>2. e \in [run : Slots, st : Results] /\ e.run = r
  OBVIOUS
<1>3. blob' = u /\ stale' = (stale \/ blob # b)
  BY DEF Save
<1>. HIDE DEF b, e
<1>4. /\ u \in Histories \ {None}
      /\ \A n \in DOMAIN u : \/ u[n] = e
                             \/ /\ b # None /\ u[n].run # e.run
                                /\ \E i \in DOMAIN b : u[n] = b[i]
  BY <1>1, <1>2, UpsertFacts
<1>0. /\ b = None => u # <<>> /\ u[1] = e
      /\ b # <<>> /\ b[1].run = e.run => u # <<>> /\ u[1] = e
      /\ b # None /\ (\A i \in DOMAIN b : b[i].run # e.run) => u # <<>> /\ u[1] = e
  BY <1>1, <1>2, UpsertFacts
<1>. HIDE DEF u
<1>5. Entries' = {u[n] : n \in DOMAIN u}
  BY <1>3, <1>4 DEF Entries
<1>6. u # <<>> => u[1] \in Entries'
  <2>1. u # <<>> => 1 \in DOMAIN u
    BY <1>4 DEF Histories
  <2>. QED  BY <1>5, <2>1
<1>7. ASSUME ~stale'
      PROVE  /\ ~stale
             /\ \A x \in Entries' : x = e \/ (x \in Entries /\ x.run # r)
             /\ \/ \A x \in Entries : x.run # r
                \/ Entries # {} /\ blob[1].run = r
                => Entries' # {} /\ blob'[1] = e
  <2>1. ~stale /\ blob = b
    BY <1>3, <1>7
  <2>2. b # None => Entries = {b[i] : i \in DOMAIN b}
    BY <2>1 DEF Entries
  <2>3. \A x \in Entries' : x = e \/ (x \in Entries /\ x.run # r)
    BY <1>2, <1>4, <1>5, <2>2
  <2>4. ASSUME \A x \in Entries : x.run # r PROVE u # <<>> /\ u[1] = e
    BY <1>2, <1>0, <2>2, <2>4
  <2>5. ASSUME Entries # {}, blob[1].run = r PROVE u # <<>> /\ u[1] = e
    BY <2>1, <2>5, <2>2, <1>2, <1>0 DEF Entries
  <2>. QED  BY <1>3, <1>6, <2>1, <2>3, <2>4, <2>5
<1>. QED  BY <1>1, <1>3, <1>4, <1>7, Zenon DEF e, RunsType

LEMMA SaveRunningKeeps ==
  ASSUME RunsIInv, NEW r \in Slots, SaveRunning(r)
  PROVE  RunsIInv'
<1>. DEFINE e == [run |-> r, st |-> "running"]
<1>1. RunsType
  BY DEF RunsIInv
<1>2. /\ runs[r].pc = "save" /\ runs' = [runs EXCEPT ![r].pc = "spawn", ![r].loaded = None]
      /\ Save(Upsert(runs[r].loaded, e), runs[r].loaded)
      /\ UNCHANGED <<kind, manifest, applier, cont, mark>>
  BY DEF SaveRunning, At
<1>3. PICK me : me = [runs[r] EXCEPT !.pc = "spawn", !.loaded = None]
  OBVIOUS
<1>4. me \in RunRecords /\ me.pc = "spawn" /\ me.ran = runs[r].ran
  <2>1. "spawn" \in RunPcs /\ None \in Histories /\ runs[r] \in RunRecords
    BY <1>1 DEF RunsType, RunPcs, Histories
  <2>. QED  BY <1>3, <2>1 DEF RunRecords
<1>5. /\ runs' \in [Slots -> RunRecords] /\ runs'[r] = me
      /\ \A q \in Slots : q # r => runs'[q] = runs[q]
  BY <1>1, <1>2, <1>3, <1>4 DEF RunsType
<1>6. /\ blob' \in Histories /\ stale' \in BOOLEAN
      /\ ~stale' =>
           /\ ~stale
           /\ \A x \in Entries' : x = e \/ (x \in Entries /\ x.run # r)
           /\ \/ \A x \in Entries : x.run # r
              \/ Entries # {} /\ blob[1].run = r
              => Entries' # {} /\ blob'[1] = e
  <2>1. "running" \in Results  BY DEF Results
  <2>. HIDE DEF Results
  <2>. QED  BY <1>1, <1>2, <2>1, SaveEffect
<1>7. RunsType'
  BY <1>1, <1>2, <1>5, <1>6 DEF RunsType
<1>8. (\A q \in Slots : RunStands(q))'
  BY <1>2, <1>4, <1>5 DEF RunsIInv, RunStands, Unseen
<1>9. /\ \A q \in Slots : (Begun(q)' <=> Begun(q)) /\ (Active(q)' <=> Active(q))
      /\ Begun(r) /\ Exclusive' = Exclusive
  BY <1>2, <1>4, <1>5 DEF Begun, Active, Exclusive
<1>10. OneRun'
  BY <1>2, <1>9 DEF RunsIInv, OneRun
<1>11. Exclusive => \A q \in Slots : q # r => ~Begun(q)
  BY <1>9 DEF RunsIInv, OneRun
<1>12. \A q \in Slots : q # r => (Open(q)' <=> Open(q))
  BY <1>5 DEF Open
<1>13. Open(r)' /\ runs'[r].pc = "spawn" /\ cont'[r] = "none"
  BY <1>2, <1>4, <1>5 DEF Open, RunsIInv, RunStands, Unseen
<1>14. \A x \in Entries : x.run \in Slots
  BY <1>1, EntriesIn
<1>15. EntriesTrue'
  BY <1>5, <1>6, <1>12, <1>13, <1>14 DEF RunsIInv, EntriesTrue, Unseen
<1>16. Exclusive /\ ~stale' => Entries' # {} /\ blob'[1].run = r
  BY <1>2, <1>6 DEF RunsIInv, EntriesTrue, Unseen
<1>17. \A q \in Slots : q # r => (Open(q) => Begun(q))
  BY DEF Open, Begun
<1>18. InFront'
  BY <1>9, <1>11, <1>12, <1>16, <1>17 DEF InFront
<1>19. ContainersTold'
  <2>1. Exclusive => \A q \in Slots : runs'[q].pc \notin {"wait", "collect", "reload", "resave"}
    BY <1>5, <1>11, <1>13 DEF Begun
  <2>2. \A x \in Entries' : ~stale' => x = e \/ x \in Entries
    BY <1>6
  <2>3. e.st = "running"  OBVIOUS
  <2>. HIDE DEF e
  <2>. QED  BY <1>2, <1>6, <1>9, <2>1, <2>2, <2>3 DEF RunsIInv, ContainersTold
<1>20. Collected'
  BY <1>9, <1>13, <1>16 DEF Collected, Tidy
<1>. QED  BY <1>7, <1>8, <1>10, <1>15, <1>18, <1>19, <1>20 DEF RunsIInv

LEMMA SaveFinishedKeeps ==
  ASSUME RunsIInv, NEW r \in Slots, SaveFinished(r)
  PROVE  RunsIInv'
<1>. DEFINE e == [run |-> r, st |-> runs[r].st]
            next == IF runs[r].ran THEN "keep" ELSE "end"
<1>1. RunsType
  BY DEF RunsIInv
<1>2. /\ runs[r].pc = "resave" /\ runs' = [runs EXCEPT ![r].loaded = None, ![r].pc = next]
      /\ Save(Upsert(runs[r].loaded, e), runs[r].loaded)
      /\ UNCHANGED <<kind, manifest, applier, cont, mark>>
  BY DEF SaveFinished, At
<1>3. PICK me : me = [runs[r] EXCEPT !.loaded = None, !.pc = next]
  OBVIOUS
<1>4. me \in RunRecords /\ me.pc = next /\ me.ran = runs[r].ran
  <2>1. next \in RunPcs /\ None \in Histories /\ runs[r] \in RunRecords
    BY <1>1 DEF RunsType, RunPcs, Histories
  <2>. HIDE DEF next
  <2>. QED  BY <1>3, <2>1 DEF RunRecords
<1>5. /\ runs' \in [Slots -> RunRecords] /\ runs'[r] = me
      /\ \A q \in Slots : q # r => runs'[q] = runs[q]
  BY <1>1, <1>2, <1>3, <1>4 DEF RunsType
<1>6. /\ blob' \in Histories /\ stale' \in BOOLEAN
      /\ ~stale' =>
           /\ ~stale
           /\ \A x \in Entries' : x = e \/ (x \in Entries /\ x.run # r)
           /\ \/ \A x \in Entries : x.run # r
              \/ Entries # {} /\ blob[1].run = r
              => Entries' # {} /\ blob'[1] = e
  <2>1. runs[r].st \in Results  BY <1>1 DEF RunsType, RunRecords
  <2>. HIDE DEF Results
  <2>. QED  BY <1>1, <1>2, <2>1, SaveEffect
<1>7. RunsType'
  BY <1>1, <1>2, <1>5, <1>6 DEF RunsType
<1>8. (\A q \in Slots : RunStands(q))'
  BY <1>2, <1>4, <1>5 DEF RunsIInv, RunStands, Unseen
<1>9. /\ \A q \in Slots : (Begun(q)' <=> Begun(q)) /\ (Active(q)' <=> Active(q))
      /\ Begun(r) /\ Exclusive' = Exclusive
  BY <1>2, <1>4, <1>5 DEF Begun, Active, Exclusive
<1>10. OneRun'
  BY <1>2, <1>9 DEF RunsIInv, OneRun
<1>11. Exclusive => \A q \in Slots : q # r => ~Begun(q)
  BY <1>9 DEF RunsIInv, OneRun
<1>12. \A q \in Slots : q # r => (Open(q)' <=> Open(q))
  BY <1>5 DEF Open
<1>13. /\ Open(r) /\ ~Open(r)' /\ runs'[r].pc \in {"keep", "end"}
       /\ runs'[r].pc = "end" => ~runs[r].ran
  BY <1>2, <1>4, <1>5 DEF Open
<1>14. \A x \in Entries : x.run \in Slots
  BY <1>1, EntriesIn
<1>15. /\ runs[r].st # "running"
       /\ ~runs[r].ran => cont[r] = "none" /\ runs[r].st = "bad"
       /\ Exclusive /\ ~stale /\ runs[r].ran => cont[r] = runs[r].st
  BY <1>2 DEF RunsIInv, RunStands, ContainersTold
<1>16. EntriesTrue'
  BY <1>5, <1>6, <1>12, <1>13, <1>14, <1>15 DEF RunsIInv, EntriesTrue, Unseen
<1>17. Exclusive /\ ~stale' => Entries' # {} /\ blob'[1].run = r
  BY <1>13, <1>6 DEF RunsIInv, InFront
<1>18. InFront'
  BY <1>9, <1>11, <1>12, <1>13 DEF InFront, Open, Begun
<1>19. ContainersTold'
  <2>1. Exclusive => \A q \in Slots : runs'[q].pc \notin {"wait", "collect", "reload", "resave"}
    BY <1>5, <1>11, <1>13 DEF Begun
  <2>2. \A x \in Entries' : ~stale' => x = e \/ x \in Entries
    BY <1>6
  <2>3. Exclusive /\ ~stale' =>
          /\ e.st = "ok" => cont[e.run] = "ok"
          /\ cont[e.run] # "none" => e.st = cont[e.run]
    BY <1>6, <1>15
  <2>. HIDE DEF e
  <2>. QED  BY <1>2, <1>6, <1>9, <2>1, <2>2, <2>3 DEF RunsIInv, ContainersTold
<1>20. Collected'
  <2>1. CASE runs[r].ran
    <3>1. Holding(r)'
      BY <1>4, <1>5, <2>1 DEF Holding
    <3>. QED  BY <3>1 DEF Collected
  <2>2. CASE ~runs[r].ran
    <3>1. cont'[r] = "none"
      BY <1>2, <1>15, <2>2
    <3>. QED  BY <1>9, <1>17, <3>1 DEF Collected, Tidy
  <2>. QED  BY <2>1, <2>2
<1>. QED  BY <1>7, <1>8, <1>10, <1>16, <1>18, <1>19, <1>20 DEF RunsIInv

\* A container comes up, or its program ends: its run has recorded itself and not
\* yet how it ended.
LEMMA ContainerKeeps ==
  ASSUME RunsIInv, NEW r \in Slots, NEW c \in {"up", "ok", "bad"}, cont' = [cont EXCEPT ![r] = c],
         UNCHANGED <<kind, manifest, applier, mark, blob, stale>>,
         runs[r].pc \in {"spawn", "wait"}, runs' \in [Slots -> RunRecords], runs'[r].pc = "wait",
         \A q \in Slots : q # r => runs'[q] = runs[q]
  PROVE  RunsIInv'
<1>1. RunsType
  BY DEF RunsIInv
<1>2. /\ cont' \in [Slots -> {"none", "up", "ok", "bad"}] /\ cont'[r] = c
      /\ \A q \in Slots : q # r => cont'[q] = cont[q]
  BY <1>1 DEF RunsType
<1>3. RunsType'
  BY <1>1, <1>2 DEF RunsType
<1>4. (\A q \in Slots : RunStands(q))'
  BY <1>2 DEF RunStands, Unseen, RunsIInv
<1>5. /\ \A q \in Slots : (Begun(q)' <=> Begun(q)) /\ (Active(q)' <=> Active(q)) /\ (Open(q)' <=> Open(q))
      /\ Begun(r) /\ Exclusive' = Exclusive /\ Entries' = Entries /\ Open(r) /\ Holding(r)'
  BY DEF Begun, Active, Open, Exclusive, Entries, Holding
<1>6. OneRun'
  BY <1>5 DEF RunsIInv, OneRun
<1>7. \A x \in Entries : x.run \in Slots
  BY <1>1, EntriesIn
<1>8. EntriesTrue'
  BY <1>5, <1>7 DEF RunsIInv, EntriesTrue, Unseen
<1>9. InFront'
  BY <1>5 DEF RunsIInv, InFront
<1>10. ContainersTold'
  BY <1>5, <1>2, <1>7 DEF RunsIInv, EntriesTrue, OneRun, Begun, ContainersTold
<1>11. Collected'
  BY <1>5 DEF Collected
<1>. QED  BY <1>3, <1>4, <1>6, <1>8, <1>9, <1>10, <1>11 DEF RunsIInv

LEMMA SpawnKeeps ==
  ASSUME RunsIInv, NEW r \in Slots, Spawn(r)
  PROVE  RunsIInv'
<1>1. RunsType
  BY DEF RunsIInv
<1>2. runs[r].pc = "spawn" /\ UNCHANGED <<kind, manifest, applier, mark, blob, stale>>
  BY DEF Spawn, At
<1>3. CASE cont' = [cont EXCEPT ![r] = "up"] /\ To(r, "wait")
  <2>1. runs' \in [Slots -> RunRecords] /\ runs'[r].pc = "wait" /\ \A q \in Slots : q # r => runs'[q] = runs[q]
    <3>. DEFINE me == [runs[r] EXCEPT !.pc = "wait"]
    <3>1. me \in RunRecords /\ runs' = [runs EXCEPT ![r] = me] /\ me.pc = "wait"
      BY <1>1, <1>3, OneStep DEF RunPcs
    <3>. HIDE DEF me
    <3>. QED  BY <1>1, <3>1 DEF RunsType
  <2>. QED  BY <1>2, <1>3, <2>1, ContainerKeeps
<1>4. CASE UNCHANGED cont /\ runs' = [runs EXCEPT ![r].pc = "reload", ![r].st = "bad"]
  <2>1. ~runs[r].ran
    BY <1>2 DEF RunsIInv, RunStands
  <2>. QED  BY <1>2, <1>4, <2>1, RefusedKeeps DEF At
<1>. QED  BY <1>3, <1>4 DEF Spawn

LEMMA FinishKeeps ==
  ASSUME RunsIInv, NEW r \in Slots, Finish(r)
  PROVE  RunsIInv'
BY ContainerKeeps DEF RunsIInv, Finish, RunStands, RunsType

\* The collection takes what the history does not show; after it the two agree.
LEMMA CollectKeeps ==
  ASSUME RunsIInv, NEW r \in Slots, Collect(r)
  PROVE  RunsIInv'
<1>1. RunsType
  BY DEF RunsIInv
<1>2. /\ runs[r].pc = "collect" /\ runs' = [runs EXCEPT ![r].pc = "end", ![r].keep = {}]
      /\ cont' = [q \in Slots |-> IF cont[q] \in {"ok", "bad"} /\ q \notin runs[r].keep
                                  THEN "none" ELSE cont[q]]
      /\ UNCHANGED <<kind, manifest, applier, mark, blob, stale>>
  BY DEF Collect, At
<1>3. PICK me : me = [runs[r] EXCEPT !.pc = "end", !.keep = {}]
  OBVIOUS
<1>4. me \in RunRecords /\ me.pc = "end" /\ me.ran = runs[r].ran
  <2>1. "end" \in RunPcs /\ runs[r] \in RunRecords
    BY <1>1 DEF RunsType, RunPcs
  <2>. QED  BY <1>3, <2>1 DEF RunRecords
<1>5. /\ runs' \in [Slots -> RunRecords] /\ runs'[r] = me
      /\ \A q \in Slots : q # r => runs'[q] = runs[q]
  BY <1>1, <1>2, <1>3, <1>4 DEF RunsType
<1>6. /\ cont' \in [Slots -> {"none", "up", "ok", "bad"}]
      /\ \A q \in Slots : \/ cont'[q] = cont[q]
                          \/ cont'[q] = "none" /\ q \notin runs[r].keep
      /\ \A q \in Slots : cont'[q] \in {"ok", "bad"} => q \in runs[r].keep
  BY <1>1, <1>2 DEF RunsType
<1>7. RunsType'
  BY <1>1, <1>2, <1>5, <1>6 DEF RunsType
<1>8. (\A q \in Slots : RunStands(q))'
  BY <1>2, <1>4, <1>5, <1>6 DEF RunsIInv, RunStands, Unseen
<1>9. /\ \A q \in Slots : (Begun(q)' <=> Begun(q)) /\ (Active(q)' <=> Active(q)) /\ (Open(q)' <=> Open(q))
      /\ Begun(r) /\ Exclusive' = Exclusive /\ Entries' = Entries /\ ~Open(r)
  BY <1>2, <1>4, <1>5 DEF Begun, Active, Open, Exclusive, Entries
<1>10. OneRun'
  BY <1>2, <1>9 DEF RunsIInv, OneRun
<1>11. \A x \in Entries : x.run \in Slots
  BY <1>1, EntriesIn
<1>12. EntriesTrue'
  BY <1>2, <1>4, <1>5, <1>9, <1>11 DEF RunsIInv, EntriesTrue, Unseen
<1>13. InFront'
  BY <1>2, <1>9 DEF RunsIInv, InFront
<1>14. Exclusive => \A q \in Slots : q # r => ~Begun(q)
  BY <1>9 DEF RunsIInv, OneRun
<1>15. Exclusive /\ ~stale => runs[r].keep = {x.run : x \in Entries}
  BY <1>2 DEF RunsIInv, ContainersTold
<1>16. ContainersTold'
  BY <1>4, <1>5, <1>14, <1>6, <1>11, <1>15, <1>2, <1>9 DEF Begun, RunsIInv, ContainersTold
<1>17. Collected'
  <2>1. SUFFICES ASSUME Exclusive, ~stale, NEW q \in Slots, cont'[q] # "none"
                 PROVE  \E x \in Entries : x.run = q /\ x.st = cont'[q]
    BY <1>2, <1>9 DEF Collected, Tidy
  <2>2. cont'[q] = cont[q] /\ cont[q] # "up"
    BY <1>6, <2>1, <1>2, <1>14 DEF Begun, RunsIInv, RunStands
  <2>3. q \in runs[r].keep
    BY <1>1, <1>6, <2>1, <2>2 DEF RunsType
  <2>4. PICK x \in Entries : x.run = q
    BY <1>15, <2>1, <2>3
  <2>5. ~Open(q)
    BY <1>2, <1>14, <2>1 DEF Begun, Open
  <2>6. x.st # "running"
    BY <2>1, <2>4, <2>5 DEF RunsIInv, EntriesTrue
  <2>7. x.st = cont[q]
    BY <2>1, <2>2, <2>4, <2>6 DEF RunsIInv, ContainersTold
  <2>. QED  BY <2>2, <2>4, <2>7
<1>. QED  BY <1>7, <1>8, <1>10, <1>12, <1>13, <1>16, <1>17 DEF RunsIInv

\* The reconciler keeps the history it has read.
LEMMA SaveForApplyKeeps ==
  ASSUME RunsIInv, SaveForApply
  PROVE  RunsIInv'
<1>1. RunsType
  BY DEF RunsIInv
<1>2. /\ applier.pc = "save" /\ applier'.pc = "idle"
      /\ applier' \in [pc : {"idle", "save", "clear"}, loaded : Histories]
      /\ UNCHANGED <<kind, manifest, runs, cont, mark>>
  BY DEF SaveForApply, IdleApplier, Histories
<1>3. /\ blob' = IF applier.loaded = None THEN <<>> ELSE applier.loaded
      /\ stale' = (stale \/ blob # applier.loaded)
  BY DEF SaveForApply, Save
<1>4. <<>> \in Histories /\ <<>> # None
  <2>1. <<>> \in Seq([run : Slots, st : Results])  OBVIOUS
  <2>2. DOMAIN <<>> = {}  OBVIOUS
  <2>3. Once(<<>>)  BY <2>2 DEF Once
  <2>4. <<>> # None  BY <2>1, RunsAssumption DEF Results
  <2>. QED  BY <2>1, <2>3, <2>4 DEF Histories
<1>5. blob' \in Histories /\ stale' \in BOOLEAN
  BY <1>1, <1>3, <1>4 DEF RunsType
<1>6. ~stale' => ~stale /\ Entries' = Entries /\ (Entries # {} => blob' = blob)
  <2>1. SUFFICES ASSUME ~stale' PROVE Entries' = Entries /\ (Entries # {} => blob' = blob)
    BY <1>3
  <2>2. CASE blob = None
    <3>1. blob' = <<>> /\ blob' # None /\ Entries = {}
      BY <1>3, <1>4, <2>1, <2>2 DEF Entries
    <3>2. Entries' = {blob'[i] : i \in DOMAIN blob'} /\ DOMAIN blob' = {}
      BY <3>1 DEF Entries
    <3>. QED  BY <3>1, <3>2
  <2>3. CASE blob # None
    BY <1>3, <2>1, <2>3 DEF Entries
  <2>. QED  BY <2>2, <2>3
<1>7. RunsType'
  BY <1>1, <1>2, <1>5 DEF RunsType
<1>8. (\A q \in Slots : RunStands(q))'
  BY <1>2 DEF RunsIInv, RunStands
<1>9. OneRun'
  BY <1>2 DEF RunsIInv, OneRun, Active, Begun, Exclusive
<1>10. EntriesTrue'
  BY <1>2, <1>6 DEF RunsIInv, EntriesTrue, Open
<1>11. InFront'
  BY <1>2, <1>6 DEF RunsIInv, InFront, Open, Exclusive
<1>12. ContainersTold'
  BY <1>2, <1>6 DEF RunsIInv, ContainersTold, Exclusive
<1>13. Collected'
  BY <1>2, <1>6 DEF RunsIInv, Collected, Tidy, Holding, Exclusive
<1>. QED  BY <1>7, <1>8, <1>9, <1>10, <1>11, <1>12, <1>13 DEF RunsIInv

\* The delete takes the containers, and then the history, of runs that ended.
LEMMA RemoveKeeps ==
  ASSUME RunsIInv, RemoveContainers \/ ClearStatus
  PROVE  RunsIInv'
<1>1. RunsType
  BY DEF RunsIInv
<1>2. /\ UNCHANGED <<kind, manifest, runs, mark>>
      /\ applier' \in [pc : {"idle", "save", "clear"}, loaded : Histories]
      /\ stale' = (stale \/ \E r \in Slots : Begun(r))
  BY DEF RemoveContainers, ClearStatus, UnderRun, IdleApplier, Histories
<1>3. \/ blob' = blob /\ cont' = [r \in Slots |-> "none"] /\ applier'.pc = "clear"
      \/ blob' = None /\ cont' = cont
  BY DEF RemoveContainers, ClearStatus
<1>4. \/ blob' = blob /\ Entries' = Entries /\ (\A r \in Slots : cont'[r] = "none") /\ applier'.pc = "clear"
      \/ Entries' = {} /\ cont' = cont
  BY <1>3 DEF Entries
<1>5. ~stale' => ~stale /\ \A r \in Slots : ~Begun(r)
  BY <1>2
<1>6. \A r \in Slots : Open(r) => Begun(r)
  BY DEF Open, Begun
<1>7. \A x \in Entries : x.run \in Slots
  BY <1>1, EntriesIn
<1>8. RunsType'
  BY <1>1, <1>3, <1>2 DEF RunsType, Histories
<1>9. (\A q \in Slots : RunStands(q))'
  <2>1. ASSUME NEW q \in Slots PROVE RunStands(q)'
    BY <1>4, <1>2 DEF RunsIInv, RunStands
  <2>. QED  BY <2>1
<1>10. OneRun'
  BY <1>2 DEF RunsIInv, OneRun, Active, Begun, Exclusive
<1>11. EntriesTrue'
  BY <1>2, <1>4, <1>5 DEF RunsIInv, EntriesTrue, Open
<1>12. InFront'
  BY <1>2, <1>5, <1>6 DEF InFront, Open
<1>13. ContainersTold'
  BY <1>2, <1>5, <1>4, <1>7 DEF Begun, ContainersTold
<1>14. Collected'
  BY <1>4 DEF Collected, Tidy
<1>. QED  BY <1>8, <1>9, <1>10, <1>11, <1>12, <1>13, <1>14 DEF RunsIInv

LEMMA RunsStep == RunsIInv /\ [RunsNext]_runsVars => RunsIInv'
BY AsideKeeps, AsksKeep, SaidAsideKeeps, SaveForApplyKeeps, RemoveKeeps, GetKeeps, LoadKeeps,
   SaveRunningKeeps, SpawnKeeps, WaitKeeps, SaveFinishedKeeps, KeepKeeps, CollectKeeps, EndKeeps, FinishKeeps
   DEF runsVars, RunsIInv, RunsType, CronJobHandle, JobApply, JobRemove, TickStep, JobAppendRun, JobSpawn,
   JobWait, JobCollect, RunsNext

LEMMA RunsMean ==
  ASSUME RunsIInv
  PROVE  RunsKept
<1>1. RunsType
  BY DEF RunsIInv
<1>2. NoOverlap
  <2>1. SUFFICES ASSUME Exclusive PROVE Cardinality({r \in Slots : cont[r] = "up"}) <= 1
    BY DEF NoOverlap
  <2>. DEFINE U == {r \in Slots : cont[r] = "up"}
  <2>2. \A q, r \in U : q = r
    BY <2>1 DEF RunsIInv, RunStands, OneRun, Begun
  <2>3. U = {} \/ \E r : U = {r}
    BY <2>2
  <2>4. Cardinality({}) = 0 /\ \A r : Cardinality({r}) = 1
    BY FS_EmptySet, FS_Singleton
  <2>. HIDE DEF U
  <2>5. Cardinality(U) = 0 \/ Cardinality(U) = 1
    BY <2>3, <2>4
  <2>6. Cardinality(U) <= 1
    BY <2>5
  <2>. QED  BY <2>6 DEF U
<1>3. LogsKept
  BY DEF LogsKept, Tidy, Resting, Holding, RunsIInv, ContainersTold, Collected
<1>4. HistoryHonest
  BY <1>1 DEF HistoryHonest, RunsIInv, EntriesTrue, Open, Active, Entries, RunsType, Histories, Once
<1>. QED  BY <1>2, <1>3, <1>4 DEF RunsKept

\* However late the passes, whoever asks and whatever is applied and deleted beside
\* a run (scheduler.go, handlers_cronjob.go, handlers_job.go): where runs do not
\* begin beside one another no two containers are up, and once nothing is under way
\* the history and the containers agree; and the history calls running what runs.
THEOREM RunsCorrect == RunsSpec => []RunsKept
<1>1. RunsInit => RunsIInv
  BY RunsStart
<1>2. RunsIInv /\ [RunsNext]_runsVars => RunsIInv'
  BY RunsStep
<1>3. RunsIInv => RunsKept
  BY RunsMean
<1>. QED  BY <1>1, <1>2, <1>3, PTL DEF RunsSpec
=============================================================================
