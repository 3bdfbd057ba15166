------------------------------ MODULE HostProofs ------------------------------
(***************************************************************************)
(* Proofs about what runs around the handlers: the controller as a process *)
(* (Lifecycle), for any number of callers, planes and passes of the loops; *)
(* a manifest's way to its pods (Drift), for every manifest; the samplers, *)
(* the day files and their retention (Metrics), for any number of days;    *)
(* what a push or an apply says to the client that shows it (Streams), for *)
(* any number of results; and where a container's environment comes from   *)
(* (Environments), for any manifests and payloads.                         *)
(***************************************************************************)
EXTENDS Lifecycle, Drift, Metrics, Streams, Environments, FiniteSetTheorems, SequenceTheorems,
        WellFoundedInduction, TLAPS

-----------------------------------------------------------------------------
(* Lifecycle. The argument: teardown has ended every loop before it closes    *)
(* the store, and every loop that writes to a day file before it closes the   *)
(* file; and a drain that beat its deadline went past each plane only when    *)
(* nobody waited there, and nobody can call it again.                         *)

ProcessPhases == {"off", "starting", "serving", "draining", "teardown", "aborting", "exited", "died"}
LoopStates == {"off", "resting", "working", "cancelled", "last", "ended"}
Writers == {"metrics", "activity"}
Call == [at : {"none", "busy", "answered", "refused", "cut"}, plane : ToSet(Planes), noted : BOOLEAN]

\* Every variable has its type.
LifecycleType ==
  /\ phase \in ProcessPhases /\ pos \in Nat \ {0} /\ etcd \in {"off", "open", "closed"}
  /\ loop \in [Loops -> LoopStates] /\ writer \in [Writers -> {"none", "open", "closed"}]
  /\ heard \subseteq ToSet(Planes) /\ call \in [Callers -> Call]
  /\ late \in BOOLEAN /\ passes \in 0 .. MaxPasses
  /\ stray \in [Unjoined -> {"none", "probe", "asleep", "retrying", "errand", "ended"}]

Quiet(l) == loop[l] \in {"off", "ended"}

\* What a loop works with is open, and teardown leaves nothing running behind it.
LoopsSafe ==
  /\ spoilt \subseteq Unjoined
  /\ \A l \in Loops : ~Quiet(l) => etcd = "open" /\ \A w \in WriterOf(l) : writer[w] = "open"
  /\ TearingDown => \A i \in DOMAIN StopOrder : i < pos => Quiet(StopOrder[i])
  /\ ~Alive => etcd # "open"

\* Where the process is tells whether the store is open, and nobody calls early.
StoreInStep ==
  /\ phase = "off" => heard = {} /\ etcd = "off" /\ \A c \in Callers : call[c].at = "none"
  /\ phase \in {"starting", "serving", "draining"} => etcd = "open"

\* A plane that was drained in time has nobody waiting and hears nobody.
DrainedBehind ==
  /\ phase = "serving" => pos = 1
  /\ phase = "draining" => /\ pos \in DOMAIN Planes
                           /\ \A i \in 1 .. pos : Planes[i] \notin heard
                           /\ ~late => \A i \in 1 .. pos - 1 : Drained(Planes[i])
  /\ phase \in {"teardown", "exited"} =>
       heard = {} /\ (~late => \A c \in Callers : call[c].at # "busy")

\* What a caller may have been told so far.
AnsweredWell ==
  /\ \A c \in Callers : call[c].noted => call[c].at \in {"busy", "cut"}
  /\ phase \notin {"aborting", "died"} /\ ~late =>
       \A c \in Callers : call[c].at \in {"none", "busy", "answered"}

LifecycleIInv == LifecycleType /\ LoopsSafe /\ StoreInStep /\ DrainedBehind /\ AnsweredWell

LEMMA LoopNames ==
  /\ Loops = {"system", "rec", "cron", "scaler", "activity", "metrics", "ingress"}
  /\ DOMAIN StartOrder = 1 .. 7 /\ Len(StartOrder) = 7
BY DEF StartOrder, Loops, ToSet

LEMMA StopNames ==
  /\ DOMAIN StopOrder = 1 .. 7 /\ Len(StopOrder) = 7
  /\ \A i \in 1 .. 7 : StopOrder[i] \in Loops
  /\ \A l \in Loops : \E i \in 1 .. 7 : StopOrder[i] = l
  /\ \A i \in 1 .. 7 : StopOrder[i] \in Writers =>
       \A l \in Loops : StopOrder[i] \in WriterOf(l) => \E j \in 1 .. i : StopOrder[j] = l
BY LoopNames DEF StopOrder, Writers, WriterOf

LEMMA WriterNames == \A l \in Loops : WriterOf(l) \subseteq Writers
BY LoopNames DEF WriterOf, Writers

LEMMA PlaneNames ==
  /\ Len(Planes) \in Nat \ {0} /\ DOMAIN Planes = 1 .. Len(Planes)
  /\ \A i \in DOMAIN Planes : Planes[i] \in ToSet(Planes)
  /\ \A p \in ToSet(Planes) : \E i \in DOMAIN Planes : Planes[i] = p
  /\ "http" \in ToSet(Planes)
BY LifecycleAssumption DEF ToSet

LEMMA LifecycleInitOK == LifecycleInit => LifecycleIInv
<1> SUFFICES ASSUME LifecycleInit PROVE LifecycleIInv
  OBVIOUS
<1> USE DEF LifecycleInit
<1>1. LifecycleType
  <2>1. NoCall \in Call
    BY PlaneNames DEF NoCall, Call
  <2>2. call \in [Callers -> Call]
    BY <2>1
  <2>3. passes \in 0 .. MaxPasses /\ pos \in Nat \ {0}
    BY LifecycleAssumption
  <2>4. loop \in [Loops -> LoopStates] /\ writer \in [Writers -> {"none", "open", "closed"}]
    BY DEF LoopStates, Writers
  <2>5. late \in BOOLEAN /\ phase \in ProcessPhases
    BY DEF ProcessPhases
  <2>. QED  BY <2>2, <2>3, <2>4, <2>5 DEF LifecycleType
<1>2. LoopsSafe
  BY DEF LoopsSafe, Quiet, TearingDown, Alive
<1>3. AnsweredWell /\ StoreInStep
  BY DEF AnsweredWell, StoreInStep, NoCall
<1>. QED  BY <1>1, <1>2, <1>3 DEF LifecycleIInv, DrainedBehind

\* A step that leaves the loops, their writers, the store and what teardown
\* got to alone.
LEMMA LoopsAlone ==
  ASSUME LoopsSafe, spoilt' = spoilt, loop' = loop, writer' = writer, etcd' = etcd,
         TearingDown' => TearingDown /\ pos' = pos,
         ~Alive' => ~Alive
  PROVE  LoopsSafe'
BY DEF LoopsSafe, Quiet

\* A step in which nothing but one loop changes, which was not off or ended.
LEMMA OneLoopOn ==
  ASSUME LifecycleIInv, NEW l \in Loops, NEW s \in LoopStates \ {"off"},
         loop' = [loop EXCEPT ![l] = s], ~Quiet(l),
         UNCHANGED <<phase, pos, etcd, writer, heard, call, late, stray>>,
         passes' \in 0 .. MaxPasses, spoilt' = spoilt
  PROVE  LifecycleIInv'
<1> USE DEF LifecycleIInv
<1>1. LifecycleType'
  BY DEF LifecycleType
<1>2. \A k \in Loops : Quiet(k)' => Quiet(k) \/ k = l
  BY DEF LifecycleType, Quiet
<1>3. \A k \in Loops : Quiet(k) => Quiet(k)'
  BY DEF LifecycleType, Quiet
<1>4. LoopsSafe'
  BY <1>3, StopNames DEF LoopsSafe, TearingDown, Alive
<1>5. StoreInStep' /\ DrainedBehind' /\ AnsweredWell'
  BY DEF StoreInStep, DrainedBehind, AnsweredWell, Drained
<1>. QED  BY <1>1, <1>4, <1>5

LEMMA OpenStoreOK == LifecycleIInv /\ OpenStore => LifecycleIInv'
<1> SUFFICES ASSUME LifecycleIInv, OpenStore PROVE LifecycleIInv'
  OBVIOUS
<1> USE DEF LifecycleIInv, OpenStore
<1>1. LifecycleType'
  BY DEF LifecycleType, ProcessPhases
<1>2. LoopsSafe'
  <2>1. etcd # "open"
    BY DEF StoreInStep
  <2>. QED  BY <2>1 DEF LoopsSafe, Quiet, TearingDown, Alive
<1>3. StoreInStep' /\ DrainedBehind' /\ AnsweredWell'
  BY DEF StoreInStep, DrainedBehind, AnsweredWell, Drained
<1>. QED  BY <1>1, <1>2, <1>3

\* The three ways in which Start goes past a loop.
LEMMA StartStep ==
  ASSUME LifecycleIInv, phase = "starting", NEW l \in Loops, pos' = pos + 1,
         UNCHANGED <<phase, etcd, heard, call, late, stray, passes, spoilt>>,
         writer' \in [Writers -> {"none", "open", "closed"}],
         \A w \in Writers : writer[w] = "open" => writer'[w] = "open",
         \/ loop' = loop
         \/ /\ loop' = [loop EXCEPT ![l] = "resting"]
            /\ \A w \in WriterOf(l) : writer'[w] = "open"
  PROVE  LifecycleIInv'
<1> USE DEF LifecycleIInv
<1>1. LifecycleType'
  BY DEF LifecycleType, LoopStates
<1>2. LoopsSafe'
  BY WriterNames DEF Quiet, LifecycleType, LoopsSafe, StoreInStep, TearingDown, Alive
<1>3. StoreInStep' /\ DrainedBehind' /\ AnsweredWell'
  BY DEF StoreInStep, DrainedBehind, AnsweredWell
<1>. QED  BY <1>1, <1>2, <1>3

LEMMA StartsOK ==
  ASSUME LifecycleIInv, NEW l \in Loops, StartLoop(l) \/ StartWithWriter(l) \/ StartIngress
  PROVE  LifecycleIInv'
<1> USE DEF StartsNext, Started
<1>1. CASE StartLoop(l)
  BY <1>1, StartStep DEF StartLoop, LifecycleIInv, LifecycleType
<1>2. CASE StartWithWriter(l)
  BY <1>2, StartStep DEF StartWithWriter, WriterOf, Writers, LifecycleIInv, LifecycleType
<1>3. CASE StartIngress
  BY LoopNames, <1>3, StartStep DEF WriterOf, StartIngress, LifecycleIInv, LifecycleType
<1>. QED  BY <1>1, <1>2, <1>3

LEMMA ListenOK == LifecycleIInv /\ Listen => LifecycleIInv'
<1> SUFFICES ASSUME LifecycleIInv, Listen PROVE LifecycleIInv'
  OBVIOUS
<1> USE DEF LifecycleIInv
<1>1. /\ phase = "starting" /\ heard' \subseteq ToSet(Planes) /\ pos' \in Nat \ {0}
      /\ \/ phase' = "starting"
         \/ phase' \in {"serving", "aborting"} /\ pos' = 1
      /\ UNCHANGED <<etcd, loop, writer, call, late, stray, passes, spoilt>>
  BY PlaneNames DEF Listen, LifecycleType
<1>2. LifecycleType'
  BY <1>1 DEF LifecycleType, ProcessPhases
<1>3. LoopsSafe'
  BY <1>1, StopNames DEF LoopsSafe, Quiet, TearingDown, Alive
<1>4. StoreInStep' /\ DrainedBehind' /\ AnsweredWell'
  BY <1>1 DEF StoreInStep, DrainedBehind, AnsweredWell
<1>. QED  BY <1>2, <1>3, <1>4
-----------------------------------------------------------------------------
LEMMA AskOK ==
  ASSUME LifecycleIInv, NEW c \in Callers, NEW p \in ToSet(Planes), Ask(c, p)
  PROVE  LifecycleIInv'
<1> USE DEF LifecycleIInv, Ask
<1> DEFINE r == [at |-> "busy", plane |-> p, noted |-> writer["activity"] # "none"]
<1>1. r \in Call /\ r.at = "busy" /\ r.plane = p
  BY DEF Call
<1>2. call' = [call EXCEPT ![c] = r] /\ p \in heard
  OBVIOUS
<1> HIDE DEF r
<1>3. LifecycleType'
  BY <1>1, <1>2 DEF LifecycleType
<1>4. call' \in [Callers -> Call] /\ \A d \in Callers : call'[d] = call[d] \/ call'[d] = r
  BY <1>1, <1>2 DEF LifecycleType
<1>5. LoopsSafe' /\ StoreInStep'
  BY LoopsAlone DEF LoopsSafe, TearingDown, Alive, StoreInStep
<1>6. AnsweredWell'
  BY <1>1, <1>4 DEF AnsweredWell
<1>7. DrainedBehind'
  <2>1. phase \notin {"teardown", "exited"}
    BY <1>2 DEF DrainedBehind
  <2>2. ASSUME phase = "draining", ~late, NEW i \in 1 .. pos - 1
        PROVE  Drained(Planes[i])'
    BY <2>2, <1>1, <1>2, <1>4 DEF DrainedBehind, LifecycleType, Drained
  <2>. QED  BY <2>1, <2>2 DEF DrainedBehind
<1>. QED  BY <1>3, <1>5, <1>6, <1>7

LEMMA AnswerOK ==
  ASSUME LifecycleIInv, NEW c \in Callers, Answer(c)
  PROVE  LifecycleIInv'
<1> USE DEF LifecycleIInv
<1> DEFINE how == IF etcd = "open" THEN "answered" ELSE "refused"
<1>1. PICK r \in Call : /\ call' = [call EXCEPT ![c] = r] /\ r.at = how
                         /\ ~r.noted /\ r.plane = call[c].plane
  <2>1. [call[c] EXCEPT !.at = how, !.noted = FALSE] \in Call
    BY DEF Call, LifecycleType
  <2>2. call' = [call EXCEPT ![c] = [call[c] EXCEPT !.at = how, !.noted = FALSE]]
    BY DEF Answer, LifecycleType
  <2>3. LET r == [call[c] EXCEPT !.at = how, !.noted = FALSE]
        IN  r.at = how /\ ~r.noted /\ r.plane = call[c].plane
    BY DEF Call, LifecycleType
  <2>. QED  BY <2>1, <2>2, <2>3
<1>2. call[c].at = "busy" /\ Alive /\ UNCHANGED <<phase, pos, etcd, loop, writer, heard, late, stray, passes, spoilt>>
  BY DEF Answer
<1>3. \A d \in Callers : (d # c /\ call'[d] = call[d]) \/ (d = c /\ call'[d] = r)
  BY <1>1 DEF LifecycleType
<1>4. LifecycleType'
  BY <1>1, <1>2 DEF LifecycleType
<1>5. LoopsSafe' /\ StoreInStep'
  BY <1>2, LoopsAlone DEF LoopsSafe, TearingDown, Alive, StoreInStep
<1>6. AnsweredWell'
  BY <1>1, <1>3, <1>2 DEF AnsweredWell, StoreInStep, DrainedBehind, LifecycleType, ProcessPhases, LoopsSafe,
     Alive
<1>7. DrainedBehind'
  BY <1>1, <1>2, <1>3 DEF DrainedBehind, Drained
<1>. QED  BY <1>4, <1>5, <1>6, <1>7

LEMMA LoopsOK ==
  ASSUME LifecycleIInv, NEW l \in Loops, Wake(l) \/ Rest(l) \/ EndLoop(l)
  PROVE  LifecycleIInv'
<1> USE DEF LifecycleIInv
<1>1. CASE Wake(l)
  <2> DEFINE s == IF loop[l] = "resting" THEN "working" ELSE "last"
  <2>1. ~Quiet(l) /\ s \in LoopStates \ {"off"} /\ passes' \in 0 .. MaxPasses
    BY <1>1, LifecycleAssumption DEF Wake, Quiet, LifecycleType, LoopStates
  <2>2. loop' = [loop EXCEPT ![l] = s]
    BY <1>1 DEF Wake, LifecycleType
  <2> HIDE DEF s
  <2>. QED  BY <1>1, <2>1, <2>2, OneLoopOn DEF Wake, LoopsSafe
<1>2. CASE Rest(l)
  <2> DEFINE s == IF loop[l] = "working" THEN "resting" ELSE "ended"
  <2>1. ~Quiet(l) /\ s \in LoopStates \ {"off"}
    BY <1>2 DEF Rest, Quiet, LoopStates
  <2>2. loop' = [loop EXCEPT ![l] = s]
    BY <1>2 DEF Rest, LifecycleType
  <2>3. spoilt' = spoilt
    BY <1>2, <2>1 DEF Rest, LoopsSafe
  <2> HIDE DEF s
  <2>. QED  BY <1>2, <2>1, <2>2, <2>3, OneLoopOn DEF Rest, LifecycleType
<1>3. CASE EndLoop(l)
  BY <1>3, OneLoopOn DEF EndLoop, Quiet, LoopsSafe, LoopStates, LifecycleType
<1>. QED  BY <1>1, <1>2, <1>3

\* What the strays do is theirs alone.
LEMMA StraysOK ==
  ASSUME LifecycleIInv, NEW s \in Unjoined,
         StartProbe(s) \/ ScheduleRetry(s) \/ SendErrand(s) \/ WakeRetry(s) \/ UseStore(s)
  PROVE  LifecycleIInv'
<1> USE DEF LifecycleIInv
<1>1. /\ UNCHANGED <<phase, pos, etcd, loop, writer, heard, call, late, passes>>
      /\ spoilt' = spoilt \/ spoilt' = spoilt \cup {s}
      /\ \E k \in {"none", "probe", "asleep", "retrying", "errand", "ended"} : stray' = [stray EXCEPT ![s] = k]
  BY DEF StartProbe, ScheduleRetry, SendErrand, WakeRetry, UseStore, SendOff, LifecycleType
<1>2. LifecycleType'
  BY <1>1 DEF LifecycleType
<1>3. LoopsSafe'
  BY <1>1 DEF LoopsSafe, Quiet, TearingDown, Alive
<1>4. StoreInStep' /\ DrainedBehind' /\ AnsweredWell'
  BY <1>1 DEF StoreInStep, DrainedBehind, AnsweredWell, Drained
<1>. QED  BY <1>2, <1>3, <1>4

LEMMA CancelOK == LifecycleIInv /\ Cancel => LifecycleIInv'
<1> SUFFICES ASSUME LifecycleIInv, Cancel PROVE LifecycleIInv'
  OBVIOUS
<1> USE DEF LifecycleIInv
<1> DEFINE l == StopOrder[pos]
           s == IF loop[l] = "resting" THEN "cancelled" ELSE "last"
<1>1. l \in Loops
  BY StopNames DEF Cancel, Tearing
<1>2. ~Quiet(l) /\ s \in LoopStates \ {"off"} /\ loop' = [loop EXCEPT ![l] = s]
  BY <1>1 DEF Cancel, Quiet, LoopStates, LifecycleType
<1>3. UNCHANGED <<phase, pos, etcd, writer, heard, call, late, stray, passes, spoilt>>
  BY DEF Cancel
<1> HIDE DEF l, s
<1>. QED  BY <1>1, <1>2, <1>3, OneLoopOn DEF LoopsSafe, LifecycleType
-----------------------------------------------------------------------------
LEMMA SignalOK == LifecycleIInv /\ Signal => LifecycleIInv'
<1> SUFFICES ASSUME LifecycleIInv, Signal PROVE LifecycleIInv'
  OBVIOUS
<1> USE DEF LifecycleIInv, Signal
<1>1. LifecycleType'
  BY DEF LifecycleType, ProcessPhases
<1>2. LoopsSafe'
  BY LoopsAlone DEF LoopsSafe, TearingDown, Alive
<1>3. pos = 1 /\ pos \in DOMAIN Planes
  BY PlaneNames DEF DrainedBehind
<1>4. StoreInStep' /\ DrainedBehind' /\ AnsweredWell'
  BY <1>3 DEF StoreInStep, DrainedBehind, AnsweredWell
<1>. QED  BY <1>1, <1>2, <1>4

LEMMA DeadlineOK == LifecycleIInv /\ DeadlinePasses => LifecycleIInv'
<1> SUFFICES ASSUME LifecycleIInv, DeadlinePasses PROVE LifecycleIInv'
  OBVIOUS
<1> USE DEF LifecycleIInv, DeadlinePasses
<1>1. LifecycleType'
  BY DEF LifecycleType
<1>2. LoopsSafe'
  BY LoopsAlone DEF LoopsSafe, TearingDown, Alive
<1>3. StoreInStep' /\ DrainedBehind' /\ AnsweredWell'
  BY DEF StoreInStep, DrainedBehind, AnsweredWell
<1>. QED  BY <1>1, <1>2, <1>3

LEMMA DrainOK == LifecycleIInv /\ Drain => LifecycleIInv'
<1> SUFFICES ASSUME LifecycleIInv, Drain PROVE LifecycleIInv'
  OBVIOUS
<1> USE DEF LifecycleIInv
<1>1. /\ phase = "draining" /\ (Drained(Planes[pos]) \/ late)
      /\ UNCHANGED <<etcd, loop, writer, call, late, stray, passes, spoilt>>
      /\ \/ pos < Len(Planes) /\ pos' = pos + 1 /\ heard' = heard \ {Planes[pos + 1]} /\ phase' = phase
         \/ ~(pos < Len(Planes)) /\ pos' = 1 /\ phase' = "teardown" /\ heard' = heard
  BY DEF Drain
<1>2. /\ pos \in DOMAIN Planes
      /\ \A i \in 1 .. pos : Planes[i] \notin heard
      /\ ~late => \A i \in 1 .. pos : Drained(Planes[i])
  <2>1. pos \in DOMAIN Planes /\ \A i \in 1 .. pos : Planes[i] \notin heard
    BY <1>1 DEF DrainedBehind
  <2>2. ASSUME ~late, NEW i \in 1 .. pos PROVE Drained(Planes[i])
    BY <1>1, <2>2 DEF LifecycleType, DrainedBehind
  <2>. QED  BY <2>1, <2>2
<1>3. LifecycleType'
  BY <1>1 DEF LifecycleType, ProcessPhases
<1>4. LoopsSafe'
  BY <1>1, StopNames DEF LoopsSafe, Quiet, TearingDown, Alive
<1>5. StoreInStep' /\ AnsweredWell'
  BY <1>1 DEF StoreInStep, AnsweredWell
<1>6. DrainedBehind'
  <2>1. CASE pos < Len(Planes)
    BY <1>1, <1>2, <2>1, PlaneNames DEF DrainedBehind, Drained
  <2>2. CASE ~(pos < Len(Planes))
    <3>1. pos = Len(Planes)
      BY <1>2, <2>2, PlaneNames
    <3>2. heard = {}
      BY <1>2, <3>1, PlaneNames DEF LifecycleType
    <3>3. ~late => \A c \in Callers : call[c].at # "busy"
      BY <3>1, PlaneNames, <1>2 DEF LifecycleType, Call, Drained
    <3>. QED  BY <1>1, <2>2, <3>2, <3>3 DEF DrainedBehind
  <2>. QED  BY <2>1, <2>2
<1>. QED  BY <1>3, <1>4, <1>5, <1>6
-----------------------------------------------------------------------------
LEMMA JoinOK == LifecycleIInv /\ Join => LifecycleIInv'
<1> SUFFICES ASSUME LifecycleIInv, Join PROVE LifecycleIInv'
  OBVIOUS
<1> USE DEF LifecycleIInv
<1>1. /\ TearingDown /\ pos \in 1 .. 7 /\ Quiet(StopOrder[pos]) /\ pos' = pos + 1
      /\ UNCHANGED <<phase, etcd, loop, heard, call, late, stray, passes, spoilt>>
  BY StopNames DEF Join, Tearing, Quiet
<1>2. /\ writer' \in [Writers -> {"none", "open", "closed"}]
      /\ \A w \in Writers : w = StopOrder[pos] \/ writer'[w] = writer[w]
  BY DEF Join, LifecycleType
<1>3. LifecycleType'
  BY <1>1, <1>2 DEF LifecycleType
<1>4. \A i \in 1 .. 7 : i < pos' => Quiet(StopOrder[i])
  BY <1>1, StopNames DEF LoopsSafe
<1>5. ASSUME NEW l \in Loops, ~Quiet(l), NEW w \in WriterOf(l) PROVE writer'[w] = "open"
  <2>1. w \in Writers /\ writer[w] = "open"
    BY <1>5, WriterNames DEF LoopsSafe
  <2>2. ASSUME w = StopOrder[pos] PROVE FALSE
    BY <1>1, <1>5, <2>1, <2>2, StopNames, <1>4
  <2>. QED  BY <1>2, <2>1, <2>2
<1>6. LoopsSafe'
  BY <1>1, <1>4, StopNames, <1>5 DEF Quiet, LoopsSafe, TearingDown, Alive
<1>7. StoreInStep' /\ DrainedBehind' /\ AnsweredWell'
  BY <1>1 DEF StoreInStep, DrainedBehind, AnsweredWell, TearingDown
<1>. QED  BY <1>3, <1>6, <1>7

LEMMA CloseStoreOK == LifecycleIInv /\ CloseStore => LifecycleIInv'
<1> SUFFICES ASSUME LifecycleIInv, CloseStore PROVE LifecycleIInv'
  OBVIOUS
<1> USE DEF LifecycleIInv, CloseStore
<1>1. LifecycleType'
  BY DEF LifecycleType
<1>2. \A i \in 1 .. 7 : i < pos
  BY StopNames DEF LifecycleType
<1>3. \A l \in Loops : Quiet(l)
  BY <1>2, StopNames DEF LoopsSafe
<1>4. LoopsSafe'
  BY <1>3, StopNames DEF LoopsSafe, Quiet, TearingDown, Alive
<1>5. StoreInStep' /\ DrainedBehind' /\ AnsweredWell'
  BY DEF StoreInStep, DrainedBehind, AnsweredWell, TearingDown
<1>. QED  BY <1>1, <1>4, <1>5

LEMMA ExitOK == LifecycleIInv /\ Exit => LifecycleIInv'
<1> SUFFICES ASSUME LifecycleIInv, Exit PROVE LifecycleIInv'
  OBVIOUS
<1> USE DEF LifecycleIInv
<1>1. /\ etcd = "closed" /\ heard' = {}
      /\ \/ phase = "teardown" /\ phase' = "exited"
         \/ phase = "aborting" /\ phase' = "died"
      /\ UNCHANGED <<pos, etcd, loop, writer, late, passes, spoilt>>
  BY DEF Exit, TearingDown
<1>2. /\ call' \in [Callers -> Call]
      /\ \A c \in Callers : \/ call'[c] = call[c] /\ call[c].at # "busy"
                            \/ call[c].at = "busy" /\ call'[c].at = "cut"
  BY DEF Exit, LifecycleType, Call
<1>3. LifecycleType'
  <2>1. stray' \in [Unjoined -> {"none", "probe", "asleep", "retrying", "errand", "ended"}]
    BY DEF Exit, LifecycleType
  <2>. QED  BY <1>1, <1>2, <2>1 DEF LifecycleType, ProcessPhases
<1>4. LoopsSafe'
  BY <1>1 DEF LoopsSafe, Quiet, TearingDown, Alive
<1>5. StoreInStep'
  BY <1>1 DEF StoreInStep
<1>6. DrainedBehind' /\ AnsweredWell'
  BY <1>1, <1>2 DEF DrainedBehind, AnsweredWell
<1>. QED  BY <1>3, <1>4, <1>5, <1>6

LEMMA LifecycleStill == LifecycleIInv /\ UNCHANGED lifecycleVars => LifecycleIInv'
<1> SUFFICES ASSUME LifecycleIInv, UNCHANGED lifecycleVars PROVE LifecycleIInv'
  OBVIOUS
<1> USE DEF LifecycleIInv, lifecycleVars
<1>1. LifecycleType' /\ StoreInStep'
  BY DEF LifecycleType, StoreInStep
<1>2. LoopsSafe'
  BY LoopsAlone DEF LoopsSafe, TearingDown, Alive
<1>3. DrainedBehind' /\ AnsweredWell'
  BY DEF DrainedBehind, AnsweredWell, Drained
<1>. QED  BY <1>1, <1>2, <1>3

LEMMA LifecycleInductive == LifecycleIInv /\ [LifecycleNext]_lifecycleVars => LifecycleIInv'
BY OpenStoreOK, ListenOK, SignalOK, DeadlineOK, DrainOK, CancelOK, JoinOK, CloseStoreOK, ExitOK, StartsOK,
   LoopNames, LoopsOK, StraysOK, AnswerOK, AskOK, LifecycleStill DEF LifecycleNext

\* Every variable of the process keeps its type, from its start to its end.
THEOREM LifecycleTypeCorrect == LifecycleSpec => []LifecycleType
<1>1. LifecycleIInv => LifecycleType
  BY DEF LifecycleIInv
<1>. QED  BY <1>1, LifecycleInitOK, LifecycleInductive, PTL DEF LifecycleSpec

\* No loop that teardown waits for works on a store or a day file that was closed
\* under it, none is left running by an end in order, and a stop that met its
\* deadline answered every call from an open store (Server.Stop, teardown), however
\* many passes, callers and planes there are and whatever the goroutines do that
\* nobody waits for.
THEOREM LifecycleCorrect == LifecycleSpec => []LifecycleTrue
<1>1. LifecycleIInv => LifecycleTrue
  BY DEF LifecycleIInv, LoopsSafe, LoopsOutlived, Quiet, DrainedBehind, AnsweredWell, Graceful,
     LifecycleTrue
<1>. QED  BY <1>1, LifecycleInitOK, LifecycleInductive, PTL DEF LifecycleSpec

-----------------------------------------------------------------------------
(* Drift. The argument: the hash determines the pod, but for what Hashed      *)
(* leaves out of it, and what a manifest asks for determines the hash: both   *)
(* for any two manifests there could be. The reconciles only carry this along: *)
(* the pods and the hash that is kept are those of the manifest that was last  *)
(* taken, whatever has been edited, removed or refused since.                  *)

\* The names of networks, and lists of them.
Words == STRING \cup {"voodu0"}

\* A manifest the operator can write, and one of kind k.
ManifestTyped(m) ==
  /\ DOMAIN m = ManifestFields /\ m = [f \in ManifestFields |-> m[f]]
  /\ m.network \in Words /\ m.networks \in Seq(Words)
ManifestOf(k, m) == ManifestTyped(m) /\ (k = "deployment" => m.claims = <<>>)

LEMMA EffectiveFields ==
  ASSUME NEW k \in {"deployment", "statefulset"}, NEW m, ManifestTyped(m)
  PROVE  LET e == Effective(k, m) IN
         /\ e.networks = IF m.mode = "" THEN Attached(m) ELSE m.networks
         /\ e.image = IF k = "deployment" /\ m.image = "" THEN "app:latest" ELSE m.image
         /\ e.ports = LoopbackPorts(m.ports)
         /\ e.restart = IF m.restart = "" THEN "unless-stopped" ELSE m.restart
         /\ e.mode = m.mode /\ e.command = m.command /\ e.hosts = m.hosts /\ e.caps = m.caps
         /\ e.volumes = m.volumes /\ e.env = m.env /\ e.env_from = m.env_from
         /\ e.ulimits = m.ulimits /\ e.options = m.options /\ e.limits = m.limits
         /\ e.logs = m.logs /\ e.probes = m.probes /\ e.inits = m.inits
         /\ e.autoscale = m.autoscale /\ e.on_probe = m.on_probe /\ e.on_deploy = m.on_deploy
         /\ e.claims = m.claims /\ e.build_args = m.build_args
BY DEF Effective, DeploymentDefaults, StatefulsetDefaults, ManifestTyped, ManifestFields

LEMMA EffectiveClaims ==
  ASSUME NEW k \in {"deployment", "statefulset"}, NEW m, ManifestTyped(m)
  PROVE  Effective(k, m).claims = m.claims
BY DEF Effective, DeploymentDefaults, StatefulsetDefaults, ManifestTyped, ManifestFields

LEMMA RangeSplits ==
  ASSUME NEW ns \in Seq(Words), ns # <<>> PROVE Range(ns) = {ns[1]} \cup Range(Tail(ns))
<1>1. /\ Len(ns) \in Nat \ {0} /\ DOMAIN ns = 1 .. Len(ns) /\ Len(Tail(ns)) = Len(ns) - 1
      /\ DOMAIN Tail(ns) = 1 .. Len(ns) - 1 /\ \A i \in 1 .. Len(ns) - 1 : Tail(ns)[i] = ns[i + 1]
  OBVIOUS
<1>2. ASSUME NEW i \in 1 .. Len(ns), i # 1 PROVE ns[i] \in Range(Tail(ns))
  <2>1. i - 1 \in 1 .. Len(ns) - 1 BY <1>1, <1>2
  <2>2. Tail(ns)[i - 1] = ns[i] BY <1>1, <2>1
  <2>. QED BY <1>1, <2>1, <2>2 DEF Range
<1>3. ASSUME NEW i \in 1 .. Len(ns) - 1 PROVE Tail(ns)[i] \in Range(ns)
  BY <1>1 DEF Range
<1>4. ns[1] \in Range(ns) BY <1>1 DEF Range
<1>5. Range(ns) \subseteq {ns[1]} \cup Range(Tail(ns)) BY <1>1, <1>2 DEF Range
<1>6. Range(Tail(ns)) \subseteq Range(ns) BY <1>1, <1>3 DEF Range
<1>. QED BY <1>4, <1>5, <1>6

LEMMA AttachedNetworks ==
  ASSUME NEW m, ManifestTyped(m)
  PROVE  Attached(m) \in Seq(Words) /\ Attached(m) # <<>> /\ "voodu0" \in Range(Attached(m))
<1> DEFINE ns == IF m.networks = <<>> /\ m.network # "" THEN <<m.network>> ELSE m.networks
<1>0. m.network \in Words /\ m.networks \in Seq(Words) BY DEF ManifestTyped
<1>1. ns \in Seq(Words)
  <2>1. \A x \in Words : <<x>> \in Seq(Words) OBVIOUS
  <2>2. <<m.network>> \in Seq(Words) BY <1>0, <2>1
  <2>. QED BY <1>0, <2>2
<1>2. Attached(m) = WithVoodu0(ns) BY DEF Attached
<1> HIDE DEF ns
<1>3. CASE Contains(ns, "voodu0")
  BY <1>3, <1>1, <1>2 DEF WithVoodu0, Contains, Range
<1>4. CASE ~Contains(ns, "voodu0")
  <2>1. WithVoodu0(ns) = Append(ns, "voodu0") BY <1>4 DEF WithVoodu0
  <2>a. "voodu0" \in Words BY DEF Words
  <2>b. ASSUME NEW x \in Words
        PROVE  /\ Append(ns, x) \in Seq(Words) /\ Len(Append(ns, x)) = Len(ns) + 1
               /\ Append(ns, x)[Len(ns) + 1] = x
    BY <1>1
  <2>2. /\ Append(ns, "voodu0") \in Seq(Words) /\ Len(Append(ns, "voodu0")) = Len(ns) + 1
        /\ Append(ns, "voodu0")[Len(ns) + 1] = "voodu0"
    BY <2>a, <2>b
  <2>c. Append(ns, "voodu0") # <<>>
    BY <1>1, <2>2
  <2>3. Len(ns) + 1 \in DOMAIN Append(ns, "voodu0") BY <1>1, <2>2
  <2>4. "voodu0" \in Range(Append(ns, "voodu0")) BY <2>2, <2>3 DEF Range
  <2>. QED BY <1>2, <2>1, <2>2, <2>c, <2>4
<1>. QED BY <1>3, <1>4

RunFields == {"image", "command", "restart", "volumes", "primary", "joined", "published", "hosts",
              "caps", "files", "env", "ulimits", "cpus", "logs", "options", "mounted"}

\* What is compared of a run: its fields one by one.
ComparedRun(k, run) ==
  [f \in RunFields |-> CASE f = "joined" -> (run.joined \cup {run.primary}) \ {""}
                         [] f = "primary" -> ""
                         [] f = "files" -> IF k = "deployment" THEN run.files ELSE <<>>
                         [] OTHER -> run[f]]

\* The run of a spec, field by field.
RunOf(run, e, d) ==
  /\ DOMAIN run = RunFields /\ run = [f \in RunFields |-> run[f]]
  /\ run.image = e.image /\ run.command = e.command /\ run.restart = e.restart
  /\ run.volumes = <<e.volumes, Sorted(e.claims)>>
  /\ run.primary = (IF e.mode # "" THEN e.mode
                    ELSE IF e.networks # <<>> THEN e.networks[1] ELSE "")
  /\ run.joined = (IF e.mode = "" /\ e.networks # <<>>
                   THEN Range(Tail(e.networks)) \ {e.networks[1], ""} ELSE {})
  /\ run.published = (IF e.mode \notin {"host", "none"} THEN e.ports ELSE <<>>)
  /\ run.hosts = (IF e.mode \notin {"host", "none"} THEN {"gateway"} ELSE {}) \cup (Range(e.hosts) \ {""})
  /\ run.caps = Range(e.caps) \ {""} /\ run.files = EnvFilesOf(e.env_from)
  /\ run.env = Over2(Platform, e.env) /\ run.ulimits = Over2(UlimitFloor, e.ulimits)
  /\ run.cpus = Cpus(e.limits) /\ run.logs = LogOptions(e.logs) /\ run.options = NonEmpty(e.options)
  /\ run.mounted = Digests(AssetMount \in Range(e.volumes), d)

LEMMA HashedRunFields ==
  ASSUME NEW k, NEW e, NEW d, NEW run, RunOf(run, e, d) PROVE HashedRun(k, run) = ComparedRun(k, run)
BY DEF HashedRun, ComparedRun, RunOf, RunFields

LEMMA RunFieldsOf == ASSUME NEW e, NEW d PROVE RunOf(RunArgs(Asked(e, d)), e, d)
<1> DEFINE c == Asked(e, d)
<1>1. /\ c.image = e.image /\ c.command = e.command /\ c.ports = e.ports
      /\ c.volumes = <<e.volumes, Sorted(e.claims)>> /\ c.networks = e.networks /\ c.mode = e.mode
      /\ c.restart = e.restart /\ c.files = EnvFilesOf(e.env_from) /\ c.env = Over2(Platform, e.env)
      /\ c.cpus = Cpus(e.limits) /\ c.hosts = e.hosts /\ c.caps = e.caps /\ c.ulimits = e.ulimits
      /\ c.options = e.options /\ c.logs = LogOptions(e.logs)
      /\ c.mounted = Digests(AssetMount \in Range(e.volumes), d)
  BY DEF Asked
<1> HIDE DEF c
<1> DEFINE run == RunArgs(c)
<1>2. DOMAIN run = RunFields /\ run = [f \in RunFields |-> run[f]] BY DEF RunArgs, RunFields
<1>3. /\ run.image = c.image /\ run.command = c.command /\ run.restart = c.restart /\ run.volumes = c.volumes
      /\ run.primary = IF c.mode # "" THEN c.mode ELSE IF c.networks # <<>> THEN c.networks[1] ELSE ""
      /\ run.joined = IF c.mode = "" /\ c.networks # <<>> THEN Range(Tail(c.networks)) \ {c.networks[1], ""} ELSE {}
      /\ run.published = IF Bridged(c) THEN c.ports ELSE <<>>
      /\ run.hosts = (IF Bridged(c) THEN {"gateway"} ELSE {}) \cup (Range(c.hosts) \ {""})
      /\ run.caps = Range(c.caps) \ {""} /\ run.files = c.files /\ run.env = c.env
      /\ run.ulimits = Over2(UlimitFloor, c.ulimits) /\ run.cpus = c.cpus /\ run.logs = c.logs
      /\ run.options = NonEmpty(c.options) /\ run.mounted = c.mounted
  BY DEF RunArgs
<1> HIDE DEF run
<1>4. Bridged(c) <=> e.mode \notin {"host", "none"} BY <1>1 DEF Bridged
<1>. QED BY <1>1, <1>2, <1>3, <1>4 DEF c, run, RunOf

LEMMA HashedPod ==
  ASSUME NEW k, NEW e, NEW d
  PROVE  LET h == Hashed(k, PodOf(e, d)) IN
         /\ PodOf(e, d) # NoPod
         /\ h.run = HashedRun(k, RunArgs(Asked(e, d))) /\ h.inits = e.inits /\ h.probes = e.probes
         /\ h = [run |-> h.run, inits |-> h.inits, probes |-> h.probes]
<1> DEFINE run == RunArgs(Asked(e, d))
<1> DEFINE given == PodOf(e, d)
<1>1. given = [run |-> run, inits |-> e.inits, probes |-> e.probes] BY DEF PodOf
<1> HIDE DEF run, given
<1>2. given # NoPod
  BY <1>1 DEF NoPod
<1> DEFINE h == [given EXCEPT !.run = HashedRun(k, @)]
<1>3. Hashed(k, given) = h BY <1>2 DEF Hashed
<1>4. h \in [run : {HashedRun(k, run)}, inits : {e.inits}, probes : {e.probes}] BY <1>1
<1> HIDE DEF h
<1>5. /\ h.run = HashedRun(k, run) /\ h.inits = e.inits /\ h.probes = e.probes
      /\ h = [run |-> h.run, inits |-> h.inits, probes |-> h.probes]
  BY <1>4
<1>. QED BY <1>2, <1>3, <1>5 DEF given, run

\* The networks of a run, the first among them.
LEMMA NetworksOf ==
  ASSUME NEW e, NEW d, e.networks \in Seq(Words)
  PROVE  LET run == RunArgs(Asked(e, d)) IN
         (run.joined \cup {run.primary}) \ {""} =
           IF e.mode # "" THEN {e.mode} ELSE Range(e.networks) \ {""}
<1> DEFINE run == RunArgs(Asked(e, d))
<1>1. /\ run.primary = (IF e.mode # "" THEN e.mode
                        ELSE IF e.networks # <<>> THEN e.networks[1] ELSE "")
      /\ run.joined = (IF e.mode = "" /\ e.networks # <<>>
                       THEN Range(Tail(e.networks)) \ {e.networks[1], ""} ELSE {})
  BY RunFieldsOf DEF RunOf
<1> HIDE DEF run
<1>2. CASE e.mode # "" BY <1>1, <1>2 DEF run
<1>3. CASE e.mode = "" /\ e.networks # <<>>
  BY <1>3, RangeSplits, <1>1 DEF run
<1>4. CASE e.mode = "" /\ e.networks = <<>>
  <2>1. Range(<<>>) = {} BY DEF Range
  <2>. QED BY <1>1, <1>4, <2>1 DEF run
<1>. QED BY <1>2, <1>3, <1>4

\* Two specs that agree on what follows run the same pods.
LEMMA SamePods ==
  ASSUME NEW k, NEW e, NEW d, NEW f, NEW g, e.networks \in Seq(Words), f.networks \in Seq(Words),
         e.image = f.image, e.command = f.command, e.restart = f.restart, e.volumes = f.volumes,
         Sorted(e.claims) = Sorted(f.claims), e.mode = f.mode, Range(e.networks) = Range(f.networks),
         e.ports = f.ports, Range(e.hosts) = Range(f.hosts), Range(e.caps) = Range(f.caps),
         k = "deployment" => e.env_from = f.env_from, e.env = f.env, e.ulimits = f.ulimits,
         e.limits = f.limits, e.logs = f.logs, e.options = f.options, e.inits = f.inits, e.probes = f.probes,
         Digests(AssetMount \in Range(e.volumes), d) = Digests(AssetMount \in Range(f.volumes), g)
  PROVE  Hashed(k, PodOf(e, d)) = Hashed(k, PodOf(f, g))
<1> DEFINE r == RunArgs(Asked(e, d))
           q == RunArgs(Asked(f, g))
<1>0. RunOf(r, e, d) /\ RunOf(q, f, g) BY RunFieldsOf
<1>2. (r.joined \cup {r.primary}) \ {""} = (q.joined \cup {q.primary}) \ {""}
  <2>1. (r.joined \cup {r.primary}) \ {""} = IF e.mode # "" THEN {e.mode} ELSE Range(e.networks) \ {""}
    BY NetworksOf
  <2>2. (q.joined \cup {q.primary}) \ {""} = IF f.mode # "" THEN {f.mode} ELSE Range(f.networks) \ {""}
    BY NetworksOf
  <2> HIDE DEF r, q
  <2>. QED BY <2>1, <2>2
<1> HIDE DEF r, q
<1>1. /\ r.image = q.image /\ r.command = q.command /\ r.restart = q.restart /\ r.volumes = q.volumes
      /\ r.published = q.published /\ r.hosts = q.hosts /\ r.caps = q.caps
      /\ k = "deployment" => r.files = q.files
      /\ r.env = q.env /\ r.ulimits = q.ulimits /\ r.cpus = q.cpus /\ r.logs = q.logs
      /\ r.options = q.options /\ r.mounted = q.mounted
  BY <1>0 DEF RunOf
<1>3. HashedRun(k, r) = HashedRun(k, q)
  <2>1. HashedRun(k, r) = ComparedRun(k, r) /\ HashedRun(k, q) = ComparedRun(k, q)
    BY <1>0, HashedRunFields
  <2>3. \A x \in RunFields \ {"joined", "primary", "files"} : r[x] = q[x]
    BY <1>1 DEF RunFields
  <2>4. ComparedRun(k, r) = ComparedRun(k, q) BY <1>1, <1>2, <2>3 DEF ComparedRun
  <2>. QED BY <2>1, <2>4
<1>4. LET h == Hashed(k, PodOf(e, d))
          i == Hashed(k, PodOf(f, g)) IN
      /\ h = [run |-> h.run, inits |-> h.inits, probes |-> h.probes]
      /\ i = [run |-> i.run, inits |-> i.inits, probes |-> i.probes]
      /\ h.run = HashedRun(k, r) /\ i.run = HashedRun(k, q)
      /\ h.inits = i.inits /\ h.probes = i.probes
  BY HashedPod DEF r, q
<1>. QED BY <1>3, <1>4

LEMMA EffectiveNetworks ==
  ASSUME NEW k \in {"deployment", "statefulset"}, NEW m, ManifestTyped(m)
  PROVE  LET e == Effective(k, m) IN
         /\ e.networks \in Seq(Words)
         /\ m.mode = "" => "voodu0" \in Range(e.networks)
         /\ m.mode # "" => e.networks = m.networks
<1>1. Effective(k, m).networks = IF m.mode = "" THEN Attached(m) ELSE m.networks BY EffectiveFields
<1>. QED BY <1>1, AttachedNetworks DEF ManifestTyped

\* Specs of equal hash: what the hash covers is equal.
LEMMA CommonFields ==
  ASSUME NEW e, NEW f, Common(e) = Common(f)
  PROVE  /\ e.image = f.image /\ e.command = f.command /\ e.ports = f.ports /\ e.volumes = f.volumes
         /\ e.env = f.env /\ e.mode = f.mode /\ e.restart = f.restart
         /\ Range(e.networks) = Range(f.networks) /\ Range(e.hosts) = Range(f.hosts)
         /\ Range(e.caps) = Range(f.caps) /\ e.ulimits = f.ulimits /\ e.options = f.options
         /\ e.limits = f.limits /\ e.logs = f.logs /\ e.inits = f.inits /\ e.probes = f.probes
<1>1. ASSUME NEW x, NEW y, x = y, x = Common(e), y = Common(f)
      PROVE /\ x.image = y.image /\ x.command = y.command /\ x.ports = y.ports /\ x.volumes = y.volumes
            /\ x.env = y.env /\ x.mode = y.mode /\ x.restart = y.restart
            /\ x.nets = y.nets /\ x.hosts = y.hosts /\ x.caps = y.caps /\ x.ulimits = y.ulimits
            /\ x.options = y.options /\ x.limits = y.limits /\ x.logs = y.logs /\ x.inits = y.inits
            /\ x.probes = y.probes
  BY <1>1
<1>. QED BY DEF Common, Sorted

\* The hash determines the pod, but for what Hashed leaves out of it.
LEMMA HashDeterminesPod ==
  ASSUME NEW k \in {"deployment", "statefulset"}, NEW m, NEW n, NEW d, NEW g,
         ManifestOf(k, m), ManifestOf(k, n),
         SpecHash(k, Effective(k, m), d) = SpecHash(k, Effective(k, n), g)
  PROVE  Hashed(k, PodOf(Effective(k, m), d)) = Hashed(k, PodOf(Effective(k, n), g))
<1> DEFINE e == Effective(k, m)
           f == Effective(k, n)
<1>1. e.networks \in Seq(Words) /\ f.networks \in Seq(Words) BY EffectiveNetworks DEF ManifestOf
<1>2. e.claims = m.claims /\ f.claims = n.claims
  BY EffectiveClaims DEF ManifestOf
<1> HIDE DEF e, f
<1>3. CASE k = "deployment"
  <2>1. DeploymentHash(e, d) = DeploymentHash(f, g) BY <1>3 DEF SpecHash, e, f
  <2>2. /\ Common(e) = Common(f) /\ e.env_from = f.env_from
        /\ Digests(DeploymentRefs(e), d) = Digests(DeploymentRefs(f), g)
    BY <2>1 DEF DeploymentHash
  <2>3. e.volumes = f.volumes BY <2>2, CommonFields
  <2>4. Digests(AssetMount \in Range(e.volumes), d) = Digests(AssetMount \in Range(f.volumes), g)
    BY <2>2, <2>3 DEF Digests, DeploymentRefs
  <2>5. e.claims = f.claims BY <1>2, <1>3 DEF ManifestOf
  <2>. QED BY <1>1, <2>2, <2>4, <2>5, CommonFields, SamePods DEF e, f
<1>4. CASE k = "statefulset"
  <2>1. StatefulsetHash(e, d) = StatefulsetHash(f, g) BY <1>4 DEF SpecHash, e, f
  <2>2. /\ Common(e) = Common(f) /\ Sorted(e.claims) = Sorted(f.claims)
        /\ Digests(StatefulsetRefs(e), d) = Digests(StatefulsetRefs(f), g)
    BY <2>1 DEF StatefulsetHash
  <2>3. e.volumes = f.volumes BY <2>2, CommonFields
  <2>4. Digests(AssetMount \in Range(e.volumes), d) = Digests(AssetMount \in Range(f.volumes), g)
    BY <2>2, <2>3 DEF Digests, StatefulsetRefs
  <2>. QED BY <1>1, <1>4, <2>2, <2>4, CommonFields, SamePods DEF e, f
<1>. QED BY <1>3, <1>4

\* What a manifest asks for determines its hash.
LEMMA WishDeterminesHash ==
  ASSUME NEW k \in {"deployment", "statefulset"}, NEW m, NEW n, NEW d, NEW g,
         ManifestOf(k, m), ManifestOf(k, n), ~Refused(k, m), ~Refused(k, n),
         Wish(k, m, d) = Wish(k, n, g)
  PROVE  SpecHash(k, Effective(k, m), d) = SpecHash(k, Effective(k, n), g)
<1> DEFINE e == Effective(k, m)
           f == Effective(k, n)
           he == Hashed(k, PodOf(e, d))
           hf == Hashed(k, PodOf(f, g))
<1>1. e.networks \in Seq(Words) /\ f.networks \in Seq(Words) BY EffectiveNetworks DEF ManifestOf
<1>2. /\ e.mode = m.mode /\ f.mode = n.mode
      /\ m.mode = "" => "voodu0" \in Range(e.networks)
      /\ n.mode = "" => "voodu0" \in Range(f.networks)
      /\ m.mode # "" => e.networks = m.networks
      /\ n.mode # "" => f.networks = n.networks
  <2>1. ManifestTyped(m) /\ ManifestTyped(n) BY DEF ManifestOf
  <2>2. e.mode = m.mode BY <2>1, EffectiveFields
  <2>3. f.mode = n.mode BY <2>1, EffectiveFields
  <2>. QED BY <2>1, <2>2, <2>3, EffectiveNetworks
<1>3. /\ m.mode # "" => m.mode \in {"host", "none"} /\ m.networks = <<>>
      /\ n.mode # "" => n.mode \in {"host", "none"} /\ n.networks = <<>>
  BY DEF Refused, ModeRefused
<1>4. /\ he = hf /\ e.ports = f.ports /\ e.env = f.env /\ e.ulimits = f.ulimits /\ e.options = f.options
      /\ e.limits = f.limits /\ e.logs = f.logs /\ Range(e.hosts) = Range(f.hosts)
      /\ Range(e.caps) = Range(f.caps) /\ Range(e.networks) = Range(f.networks)
      /\ e.build_args = f.build_args
      /\ k = "deployment" => e.env_from = f.env_from /\ e.autoscale = f.autoscale
      /\ Digests(e.on_probe = "file" \/ (k = "deployment" /\ e.on_deploy = "file"), d)
           = Digests(f.on_probe = "file" \/ (k = "deployment" /\ f.on_deploy = "file"), g)
  <2> DEFINE w == Wish(k, m, d)
             v == Wish(k, n, g)
  <2>1. /\ w.pod = he /\ w.ports = e.ports /\ w.env = e.env /\ w.ulimits = e.ulimits
        /\ w.options = e.options /\ w.limits = e.limits /\ w.logs = e.logs /\ w.hosts = Range(e.hosts)
        /\ w.caps = Range(e.caps) /\ w.nets = Range(e.networks) /\ w.args = e.build_args
        /\ k = "deployment" => w.shared = <<e.env_from, e.autoscale>>
        /\ w.bodies = Digests(e.on_probe = "file" \/ (k = "deployment" /\ e.on_deploy = "file"), d)
    BY DEF Wish
  <2>2. /\ v.pod = hf /\ v.ports = f.ports /\ v.env = f.env /\ v.ulimits = f.ulimits
        /\ v.options = f.options /\ v.limits = f.limits /\ v.logs = f.logs /\ v.hosts = Range(f.hosts)
        /\ v.caps = Range(f.caps) /\ v.nets = Range(f.networks) /\ v.args = f.build_args
        /\ k = "deployment" => v.shared = <<f.env_from, f.autoscale>>
        /\ v.bodies = Digests(f.on_probe = "file" \/ (k = "deployment" /\ f.on_deploy = "file"), g)
    BY DEF Wish
  <2>3. w = v OBVIOUS
  <2> HIDE DEF w, v, he, hf, e, f
  <2>. QED BY <2>1, <2>2, <2>3
<1> DEFINE r == RunArgs(Asked(e, d))
           q == RunArgs(Asked(f, g))
<1>5. HashedRun(k, r) = HashedRun(k, q) /\ e.inits = f.inits /\ e.probes = f.probes
  BY <1>4, HashedPod
<1>6. RunOf(r, e, d) /\ RunOf(q, f, g) BY RunFieldsOf
<1>7. ComparedRun(k, r) = ComparedRun(k, q) BY <1>5, <1>6, HashedRunFields
<1>8. /\ (r.joined \cup {r.primary}) \ {""} = IF e.mode # "" THEN {e.mode} ELSE Range(e.networks) \ {""}
      /\ (q.joined \cup {q.primary}) \ {""} = IF f.mode # "" THEN {f.mode} ELSE Range(f.networks) \ {""}
  BY <1>1, NetworksOf
<1> HIDE DEF he, hf, e, f, r, q
<1>9. /\ \A x \in RunFields \ {"joined", "primary", "files"} : r[x] = q[x]
      /\ (r.joined \cup {r.primary}) \ {""} = (q.joined \cup {q.primary}) \ {""}
  <2>1. ASSUME NEW x \in RunFields, x \notin {"joined", "primary", "files"} PROVE r[x] = q[x]
    BY <1>7, <2>1 DEF ComparedRun
  <2>2. ComparedRun(k, r)["joined"] = ComparedRun(k, q)["joined"] BY <1>7
  <2>3. "joined" \in RunFields BY DEF RunFields
  <2>4. (r.joined \cup {r.primary}) \ {""} = (q.joined \cup {q.primary}) \ {""}
    BY <2>2, <2>3 DEF ComparedRun
  <2>. QED BY <2>1, <2>4
<1>10. /\ r.image = q.image /\ r.command = q.command /\ r.restart = q.restart /\ r.volumes = q.volumes
       /\ r.mounted = q.mounted
  BY <1>9 DEF RunFields
<1>11. /\ e.image = f.image /\ e.command = f.command /\ e.restart = f.restart
       /\ e.volumes = f.volumes /\ Sorted(e.claims) = Sorted(f.claims)
       /\ Digests(AssetMount \in Range(e.volumes), d) = Digests(AssetMount \in Range(f.volumes), g)
  <2>1. /\ r.image = e.image /\ r.command = e.command /\ r.restart = e.restart
        /\ r.volumes = <<e.volumes, Sorted(e.claims)>>
        /\ r.mounted = Digests(AssetMount \in Range(e.volumes), d)
    BY <1>6 DEF RunOf
  <2>2. /\ q.image = f.image /\ q.command = f.command /\ q.restart = f.restart
        /\ q.volumes = <<f.volumes, Sorted(f.claims)>>
        /\ q.mounted = Digests(AssetMount \in Range(f.volumes), g)
    BY <1>6 DEF RunOf
  <2>3. <<e.volumes, Sorted(e.claims)>> = <<f.volumes, Sorted(f.claims)>> BY <1>10, <2>1, <2>2
  <2>. QED BY <1>10, <2>1, <2>2, <2>3
<1>12. e.mode = f.mode
  <2>1. e.mode = "" <=> f.mode = ""
    <3>1. Range(<<>>) = {} BY DEF Range
    <3>. QED BY <1>2, <1>3, <1>4, <3>1
  <2>2. CASE e.mode # ""
    <3>1. {e.mode} = {f.mode} BY <1>8, <1>9, <2>1, <2>2
    <3>. QED BY <3>1
  <2>. QED BY <2>1, <2>2
<1>13. Common(e) = Common(f)
  BY <1>4, <1>5, <1>11, <1>12 DEF Common, Sorted
<1>14. CASE k = "deployment"
  BY <1>4, <1>11, <1>14, <1>13 DEF Digests, DeploymentRefs, DeploymentHash, SpecHash, e, f
<1>15. CASE k = "statefulset"
  BY <1>4, <1>11, <1>15, <1>13 DEF Digests, StatefulsetRefs, StatefulsetHash, SpecHash, e, f
<1>. QED BY <1>14, <1>15

-----------------------------------------------------------------------------
(* The reconciles.                                                            *)

\* Every variable has its type; the digest a manifest carries is of the content.
DriftType ==
  /\ kind \in {"deployment", "statefulset"} /\ ManifestOf(kind, man) /\ ManifestOf(kind, done.man)
  /\ content \in Nat /\ stamp = content /\ behind \in BOOLEAN /\ edits \in 0 .. MaxEdits
  /\ DOMAIN pods = Replicated /\ pods = [p \in Replicated |-> pods[p]]
  /\ done = [man |-> done.man, stamp |-> done.stamp, idle |-> done.idle] /\ done.idle \in BOOLEAN

\* The hash that is kept and the pods there are come from the manifest last taken.
KeptOfDone ==
  /\ kept # NoHash =>
       ~Refused(kind, done.man) /\ kept = SpecHash(kind, Effective(kind, done.man), done.stamp)
  /\ \A p \in Replicated : pods[p] # NoPod =>
       /\ kept # NoHash
       /\ Hashed(kind, pods[p]) = Hashed(kind, PodOf(Effective(kind, done.man), done.stamp))

\* What the reconciler has taken stands until the next change.
IdleDone ==
  done.idle /\ ~behind =>
    man = done.man /\ stamp = done.stamp /\ \A p \in Replicated : pods[p] # NoPod

DriftIInv == DriftType /\ KeptOfDone /\ IdleDone

LEMMA DriftStarts == DriftInit => DriftIInv
<1> SUFFICES ASSUME DriftInit PROVE DriftIInv OBVIOUS
<1>1. ManifestTyped(Base) BY DriftAssumption DEF ManifestTyped, Words
<1>2. ManifestOf("deployment", [Base EXCEPT !.claims = <<>>])
  <2> DEFINE m == [Base EXCEPT !.claims = <<>>]
  <2>1. DOMAIN m = ManifestFields /\ m = [f \in ManifestFields |-> m[f]] BY <1>1 DEF ManifestTyped
  <2>2. m.network = Base.network /\ m.networks = Base.networks /\ m.claims = <<>>
    BY <1>1 DEF ManifestTyped, ManifestFields
  <2> HIDE DEF m
  <2>. QED BY <1>1, <2>1, <2>2 DEF ManifestTyped, ManifestOf, m
<1>3. ManifestOf("statefulset", Base) BY <1>1 DEF ManifestOf
<1>4. ManifestOf(kind, man) BY <1>2, <1>3 DEF DriftInit
<1>5. done.man = man /\ done = [man |-> done.man, stamp |-> done.stamp, idle |-> done.idle] /\ done.idle = FALSE
  BY DEF DriftInit
<1>6. DriftType BY <1>4, <1>5, DriftAssumption DEF DriftInit, DriftType
<1>7. KeptOfDone /\ IdleDone BY <1>5 DEF DriftInit, KeptOfDone, IdleDone
<1>. QED BY <1>6, <1>7 DEF DriftIInv

LEMMA EditFieldTrue == ASSUME DriftIInv, NEW f \in DOMAIN Settings, EditField(f) PROVE DriftIInv'
<1>1. PICK v \in Settings[f] : man' = [man EXCEPT ![f] = v] BY DEF EditField
<1>2. ManifestOf(kind, man) /\ ManifestTyped(man) BY DEF DriftIInv, DriftType, ManifestOf
<1>3. f \in ManifestFields BY DriftAssumption
<1>4. DOMAIN man' = ManifestFields /\ man' = [x \in ManifestFields |-> man'[x]]
  BY <1>1, <1>2 DEF ManifestTyped
<1>5. man'.network \in Words /\ man'.networks \in Seq(Words)
  <2>1. f = "network" => v \in Words BY DriftAssumption DEF Words
  <2>2. f = "networks" => v \in Seq(Words)
    BY DriftAssumption DEF Words
  <2>3. /\ f = "network" => man'.network = v
        /\ f # "network" => man'.network = man.network
        /\ f = "networks" => man'.networks = v
        /\ f # "networks" => man'.networks = man.networks
    BY <1>1, <1>2 DEF ManifestTyped, ManifestFields
  <2>. QED BY <1>2, <2>1, <2>2, <2>3 DEF ManifestTyped
<1>6. kind = "deployment" => man'.claims = <<>>
  BY <1>1, <1>2 DEF EditField, Lacks, ManifestTyped, ManifestFields, ManifestOf
<1>7. ManifestOf(kind, man)'
  BY <1>4, <1>5, <1>6 DEF EditField, ManifestOf, ManifestTyped
<1>8. DriftType'
  BY <1>7, DriftAssumption DEF EditField, MayEdit, DriftIInv, DriftType
<1>9. KeptOfDone' BY DEF EditField, DriftIInv, KeptOfDone
<1>10. IdleDone' BY DEF EditField, IdleDone
<1>. QED BY <1>8, <1>9, <1>10 DEF DriftIInv

LEMMA EditAssetTrue == ASSUME DriftIInv, EditAsset PROVE DriftIInv'
BY DriftAssumption DEF EditAsset, MayEdit, DriftIInv, DriftType, KeptOfDone, IdleDone

LEMMA RemovePodTrue == ASSUME DriftIInv, NEW q \in Replicated, RemovePod(q) PROVE DriftIInv'
BY DriftAssumption DEF RemovePod, MayEdit, DriftIInv, DriftType, KeptOfDone, IdleDone

\* A reconcile that leaves the manifest to be taken again.
LEMMA LeftUndone ==
  ASSUME DriftIInv, behind' = FALSE, done' = [done EXCEPT !.idle = FALSE],
         UNCHANGED <<kind, man, content, stamp, kept, edits>>,
         pods' = pods \/ \E q \in Replicated : pods' = [pods EXCEPT ![q] = NoPod]
  PROVE  DriftIInv'
BY DEF DriftIInv, DriftType, KeptOfDone, IdleDone

LEMMA ReconcileTrue == ASSUME DriftIInv, Reconcile PROVE DriftIInv'
<1> DEFINE s == Effective(kind, man)
           h == SpecHash(kind, s, stamp)
           rolls == kept # NoHash /\ kept # h
<1>1. /\ ~Refused(kind, man) /\ kept' = h /\ behind' = FALSE
      /\ pods' = [p \in Replicated |-> IF rolls \/ pods[p] = NoPod THEN PodOf(s, content) ELSE pods[p]]
      /\ done' = [man |-> man, stamp |-> stamp, idle |-> TRUE]
      /\ UNCHANGED <<kind, man, content, stamp, edits>>
  BY DEF Reconcile
<1>2. done'.man = man /\ done'.stamp = stamp /\ done'.idle = TRUE
      /\ done' = [man |-> done'.man, stamp |-> done'.stamp, idle |-> done'.idle]
  BY <1>1
<1>3. stamp = content /\ kind \in {"deployment", "statefulset"}
      /\ ManifestOf(kind, man) /\ ManifestOf(kind, done.man)
  BY DEF DriftIInv, DriftType
<1>4. h # NoHash
  BY <1>3 DEF SpecHash, DeploymentHash, StatefulsetHash, NoHash
<1>5. PodOf(s, content) # NoPod BY HashedPod
<1> HIDE DEF h, s
<1>6. ASSUME NEW p \in Replicated
      PROVE  pods'[p] # NoPod /\ Hashed(kind, pods'[p]) = Hashed(kind, PodOf(s, stamp))
  <2>1. CASE rolls \/ pods[p] = NoPod BY <1>1, <1>3, <1>5, <2>1
  <2>2. CASE ~rolls /\ pods[p] # NoPod
    BY <1>1, <2>2, <1>3, HashDeterminesPod DEF DriftIInv, KeptOfDone, h, s
  <2>. QED BY <2>1, <2>2
<1>7. KeptOfDone'
  BY <1>1, <1>2, <1>4, <1>6 DEF KeptOfDone, h, s
<1>8. DriftType' BY <1>1, <1>2, <1>3 DEF DriftIInv, DriftType
<1>9. IdleDone' BY <1>1, <1>2, <1>6 DEF IdleDone
<1>. QED BY <1>7, <1>8, <1>9 DEF DriftIInv

LEMMA DriftStep == DriftIInv /\ [DriftNext]_driftVars => DriftIInv'
BY EditFieldTrue, EditAssetTrue, RemovePodTrue, LeftUndone, ReconcileTrue DEF Fail, FailLimits, driftVars,
   DriftIInv, DriftType, KeptOfDone, IdleDone, DriftNext

LEMMA DriftInvariant == DriftSpec => []DriftIInv
BY DriftStarts, DriftStep, PTL DEF DriftSpec

\* Whatever the manifest says and however often it has been edited, refused or half
\* applied: once the handler has taken it, every pod is the one it asks for, and a
\* manifest that asks for the same pods has the hash of the one they were made from.
THEOREM DriftCorrect == DriftSpec => []DriftTrue
<1>1. DriftIInv => NoMissedDrift
  BY DEF NoMissedDrift, DriftIInv, IdleDone, DriftType, KeptOfDone
<1>2. DriftIInv => NoChurn
  BY WishDeterminesHash DEF NoChurn, DriftIInv, KeptOfDone, DriftType
<1>3. DriftIInv => DriftTrue BY <1>1, <1>2 DEF DriftTrue
<1>. QED BY <1>3, DriftInvariant, PTL

-----------------------------------------------------------------------------
(* Metrics. The argument: a row is only forgotten with a day that is over, so  *)
(* what is appended on its own day is in that day's file, or in the copy that  *)
(* takes the file's place; what the pod's counter shows beyond the baseline    *)
(* has been moved and not been charged; and what the ingress sampler reads     *)
(* next begins where it ended, or where the log did.                           *)

Row == {"none", "system", "pod", "ingress"} \X Nat
SamplerRecord ==
  [pc : {"tick", "system", "pods", "clean", "files", "copied", "renamed"}, n : Nat, day : 0 .. LastDay,
   todo : SUBSET Dates, copy : SUBSET Row]
IngressRecord ==
  [pc : {"tick", "emit", "row"}, n : Nat, day : 0 .. LastDay, file : Nat, off : Nat, first : BOOLEAN,
   table : BOOLEAN, bucket : Nat]
SumRecord ==
  [rows : SUBSET (Row \X Dates), moved : Nat, charged : Nat, from : Nat, even : BOOLEAN,
   served : Nat, counted : Nat, missed : Nat, mark : Nat]

\* Types of the files and their writer, of the samplers, of the world and the history.
FilesType ==
  /\ date \in Dates
  /\ rows \in [Dates -> SUBSET Row] /\ packed \in [Dates -> SUBSET Row]
  /\ opened \in [day : 0 .. LastDay, linked : BOOLEAN]
SamplersType ==
  /\ smp \in SamplerRecord /\ ing \in IngressRecord
  /\ base \in [v : Nat, reset : BOOLEAN, seen : Nat]
WorldType ==
  /\ pod \in [up : BOOLEAN, ctr : Nat, again : BOOLEAN]
  /\ log \in [inode : Nat \ {0}, lines : Seq({"page", "asset"}), half : BOOLEAN]
  /\ bound \in BOOLEAN
  /\ left \in [{"ticks", "rows", "pod", "log", "days", "faults"} -> Nat]
MetricsType == FilesType /\ SamplersType /\ WorldType /\ sum \in SumRecord

\* No day to come has a file, and the open one is unlinked only when its day is over.
DaysInOrder ==
  /\ opened.day <= date /\ (opened.linked \/ opened.day < date)
  /\ smp.day <= date /\ ing.day <= date
  /\ smp.pc # "tick" => smp.day # 0 /\ smp.n # 0
  /\ ing.pc = "row" => ing.day # 0

\* What was noted of a day is among these rows, unless the day is no longer kept.
Holds(rs, d, noted, now) == d < now - KeepDays \/ \A k \in noted : k[2] = d => k[1] \in rs
FilesKept ==
  /\ \A k \in sum.rows : k[1][1] # "none"
  /\ \A d \in Dates : Holds(rows[d] \cup packed[d], d, sum.rows, date)
  /\ \A d \in Dates : packed[d] # NoRows => d < date /\ Holds(packed[d], d, sum.rows, date)

\* The copy has what the file has, and so has what the copy became.
SwapTrue ==
  /\ smp.pc \in {"copied", "renamed"} => smp.todo # {} /\ NextFile < smp.day
  /\ smp.pc = "copied" => smp.copy # NoRows /\ Holds(smp.copy, NextFile, sum.rows, date)
  /\ smp.pc = "renamed" => packed[NextFile] # NoRows

\* The counter against its baseline.
ChargesTrue ==
  /\ base # NoBase => base.seen # 0 /\ sum.charged + pod.ctr - base.v <= sum.moved
  /\ sum.charged <= sum.moved
  /\ sum.even =>
       /\ ~base.reset
       /\ base = NoBase => sum.charged = 0
       /\ base # NoBase => sum.charged = base.v - sum.from /\ (~pod.again => base.v <= pod.ctr)

\* Where the reading stands.
ReadingTrue ==
  /\ ing.file <= log.inode /\ sum.mark <= Len(log.lines)
  /\ ing.first => ing.file = 0
  /\ ~ing.first => IF ing.file = log.inode THEN ing.off = sum.mark ELSE sum.mark = 0
  /\ sum.served = sum.counted + ing.bucket + sum.missed + Unread

MetricsIInv == MetricsType /\ DaysInOrder /\ FilesKept /\ SwapTrue /\ ChargesTrue /\ ReadingTrue

\* A set of natural numbers that is not empty has a least one.
LEMMA LeastNumber ==
  ASSUME NEW S \in SUBSET Nat, S # {}
  PROVE  \E n \in S : \A k \in S : n <= k
<1>1. IsWellFoundedOn(OpToRel(<, Nat), Nat)
  BY NatLessThanWellFounded
<1>2. PICK n \in S : \A k \in S : <<k, n>> \notin OpToRel(<, Nat)
  BY <1>1, WFMin
<1>3. \A k \in S : ~(k < n)
  BY <1>2 DEF OpToRel
<1>. QED  BY <1>3

-----------------------------------------------------------------------------
LEMMA NextFileIs == smp.todo \in SUBSET Dates /\ smp.todo # {} => NextFile \in smp.todo /\ NextFile \in Dates
BY MetricsAssumption, LeastNumber DEF Dates, NextFile

LEMMA PagesCounted ==
  ASSUME WorldType, NEW k \in Nat, NEW n \in Int, n <= Len(log.lines)
  PROVE  Counted(k, n) \in Nat /\ Counted(k, n) <= Counted(k, Len(log.lines))
         /\ Counted(Len(log.lines), n) = 0
<1>1. Len(log.lines) \in Nat
  BY DEF WorldType
<1>. DEFINE All == {i \in k + 1 .. Len(log.lines) : log.lines[i] = "page"}
            Some == {i \in k + 1 .. n : log.lines[i] = "page"}
<1>2. IsFiniteSet(k + 1 .. Len(log.lines))
  BY <1>1, FS_Interval
<1>3. IsFiniteSet(All)
  BY <1>2, FS_Subset
<1>4. Some \subseteq All
  BY <1>1
<1>5. IsFiniteSet(Some) /\ Cardinality(Some) <= Cardinality(All)
  <2>. HIDE DEF All, Some
  <2>. QED  BY <1>3, <1>4, FS_Subset
<1>6. Cardinality(Some) \in Nat
  <2>. HIDE DEF Some
  <2>. QED  BY <1>5, FS_CardinalityType
<1>7. {i \in Len(log.lines) + 1 .. n : log.lines[i] = "page"} = {}
  BY <1>1
<1>. QED  BY <1>5, <1>6, <1>7, FS_EmptySet DEF Counted

\* A line more is a page more, or is not.
LEMMA LineMore ==
  ASSUME WorldType, NEW k \in Nat, k <= Len(log.lines), NEW x \in {"page", "asset"},
         log'.lines = Append(log.lines, x)
  PROVE  Cardinality({i \in k + 1 .. Len(log'.lines) : log'.lines[i] = "page"})
           = Counted(k, Len(log.lines)) + (IF x = "page" THEN 1 ELSE 0)
<1>. DEFINE L == Len(log.lines)
            All == {i \in k + 1 .. L : log.lines[i] = "page"}
            Now == {i \in k + 1 .. L + 1 : log'.lines[i] = "page"}
<1>1. log.lines \in Seq({"page", "asset"}) /\ L \in Nat
  BY DEF WorldType
<1>2. Len(log'.lines) = L + 1 /\ log'.lines[L + 1] = x /\ \A i \in 1 .. L : log'.lines[i] = log.lines[i]
  BY <1>1
<1>3. IsFiniteSet(All)
  <2>1. IsFiniteSet(k + 1 .. L)
    BY <1>1, FS_Interval
  <2>2. All \subseteq k + 1 .. L
    OBVIOUS
  <2>. QED  BY <2>1, <2>2, FS_Subset
<1>4. L + 1 \notin All
  BY <1>1
<1>5. Now = IF x = "page" THEN All \cup {L + 1} ELSE All
  BY <1>1, <1>2
<1>6. Cardinality(All) \in Nat /\ Cardinality(All \cup {L + 1}) = Cardinality(All) + 1
  <2>. HIDE DEF All, L
  <2>. QED  BY <1>3, <1>4, FS_CardinalityType, FS_AddElement
<1>7. Cardinality(Now) = Cardinality(All) + (IF x = "page" THEN 1 ELSE 0)
  <2>. HIDE DEF All, Now
  <2>. QED  BY <1>5, <1>6
<1>. QED  BY <1>2, <1>7 DEF Counted

\* What of a day that is over is held stays held, whatever is noted of today.
LEMMA HoldsOn ==
  ASSUME NEW rs, NEW d, NEW noted, NEW now, Holds(rs, d, noted, now), NEW more, d # now
  PROVE  Holds(rs, d, noted \cup {<<more, now>>}, now)
BY DEF Holds

\* The writer appends.
LEMMA AppendKeeps ==
  ASSUME MetricsType, DaysInOrder, FilesKept, SwapTrue,
         NEW r \in Row, r[1] # "none", NEW d \in Dates, d <= date, AppendRow(r, d),
         date' = date, packed' = packed, sum'.rows = Noted(r, d).rows
  PROVE  /\ opened' \in [day : 0 .. LastDay, linked : BOOLEAN] /\ rows' \in [Dates -> SUBSET Row]
         /\ sum'.rows \subseteq Row \X Dates
         /\ opened'.day <= date /\ (opened'.linked \/ opened'.day < date)
         /\ FilesKept'
         /\ \A rs, e : e < date /\ Holds(rs, e, sum.rows, date) => Holds(rs, e, sum'.rows, date)
<1>. DEFINE h == OpenForRow(d)
<1>1. /\ h \in [day : 0 .. LastDay, linked : BOOLEAN] /\ h.day = d /\ (h.linked \/ d < date)
  BY DEF OpenForRow, MetricsType, FilesType, DaysInOrder, Dates
<1>2. sum'.rows = IF d = date THEN sum.rows \cup {<<r, d>>} ELSE sum.rows
  BY DEF Noted, MetricsType, SumRecord
<1>3. opened' = h /\ rows' = IF h.linked THEN [rows EXCEPT ![d] = Put(@, r)] ELSE rows
  BY DEF AppendRow
<1>. HIDE DEF h
<1>4. rows' \in [Dates -> SUBSET Row]
  BY <1>3 DEF MetricsType, FilesType, Put
<1>5. \A e \in Dates : rows[e] \ NoRows \subseteq rows'[e] /\ (e = d /\ h.linked => r \in rows'[e])
  BY <1>3 DEF MetricsType, FilesType, Put, NoRows
<1>6. \A rs, e : e < date /\ Holds(rs, e, sum.rows, date) => Holds(rs, e, sum'.rows, date)
  BY HoldsOn, <1>2 DEF MetricsType, FilesType, Dates, Holds
<1>7. \A k \in sum'.rows : k[1][1] # "none"
  BY <1>2 DEF FilesKept
<1>8. ASSUME NEW e \in Dates
      PROVE  Holds(rows'[e] \cup packed[e], e, sum'.rows, date)
  <2>1. SUFFICES ASSUME ~(e < date - KeepDays), NEW k \in sum'.rows, k[2] = e
                 PROVE  k[1] \in rows'[e] \cup packed[e]
    BY DEF Holds
  <2>2. CASE k \in sum.rows
    BY <2>1, <2>2, <1>5 DEF FilesKept, Holds, NoRows
  <2>3. CASE k \notin sum.rows
    BY <1>2, <2>1, <2>3, <1>1, <1>5 DEF MetricsType, FilesType, Dates
  <2>. QED  BY <2>2, <2>3
<1>9. \A e \in Dates : packed[e] # NoRows => e < date /\ Holds(packed[e], e, sum'.rows, date)
  BY <1>6 DEF FilesKept
<1>10. sum'.rows \subseteq Row \X Dates
  BY <1>2 DEF MetricsType, SumRecord
<1>. QED  BY <1>1, <1>3, <1>4, <1>6, <1>7, <1>8, <1>9, <1>10 DEF FilesKept, MetricsType, FilesType

-----------------------------------------------------------------------------
(* What a step leaves alone stays true.                                       *)

LEMMA FilesStill ==
  ASSUME FilesKept, UNCHANGED <<date, rows, packed>>, sum'.rows = sum.rows
  PROVE  FilesKept'
BY DEF FilesKept, Holds

LEMMA SwapStill ==
  ASSUME SwapTrue, UNCHANGED <<date, packed, smp>>, sum'.rows = sum.rows
  PROVE  SwapTrue'
BY DEF SwapTrue, Holds, NextFile

\* The sampler is not in the middle of a swap.
LEMMA NoSwap == smp'.pc \notin {"copied", "renamed"} => SwapTrue'
BY DEF SwapTrue

LEMMA ChargesStill ==
  ASSUME ChargesTrue, UNCHANGED <<base, pod>>, sum'.charged = sum.charged, sum'.moved = sum.moved,
         sum'.even = sum.even, sum'.from = sum.from
  PROVE  ChargesTrue'
BY DEF ChargesTrue

LEMMA ReadingStill ==
  ASSUME ReadingTrue, UNCHANGED <<ing, log>>, sum'.served = sum.served, sum'.counted = sum.counted,
         sum'.missed = sum.missed, sum'.mark = sum.mark
  PROVE  ReadingTrue'
BY DEF ReadingTrue, Unread, Counted

\* What is noted of a row touches only the rows of the history.
LEMMA NotedOnly ==
  ASSUME sum \in SumRecord, NEW r \in Row, NEW d \in Dates
  PROVE  /\ Noted(r, d) \in SumRecord
         /\ \A f \in {"moved", "charged", "from", "even", "served", "counted", "missed", "mark"} :
              Noted(r, d)[f] = sum[f]
BY DEF Noted, SumRecord

LEMMA SpendsTyped == ASSUME WorldType, NEW what \in DOMAIN left, Spends(what)
                     PROVE  left' \in [{"ticks", "rows", "pod", "log", "days", "faults"} -> Nat]
BY DEF WorldType, Spends
-----------------------------------------------------------------------------
(* The sampler's steps.                                                       *)

LEMMA StampTickOK == MetricsIInv /\ StampTick => MetricsIInv'
<1>. SUFFICES ASSUME MetricsIInv, StampTick PROVE MetricsIInv'
  OBVIOUS
<1>. USE DEF MetricsIInv
<1>1. /\ smp.pc = "tick" /\ Spends("ticks")
      /\ smp' = [smp EXCEPT !.pc = "system", !.n = @ + 1, !.day = date]
      /\ UNCHANGED <<date, rows, packed, opened, base, ing, pod, log, bound, sum>>
  BY DEF StampTick
<1>2. left' \in [{"ticks", "rows", "pod", "log", "days", "faults"} -> Nat]
  BY <1>1, SpendsTyped DEF MetricsType, WorldType
<1>3. smp' \in SamplerRecord /\ smp'.pc = "system" /\ smp'.n = smp.n + 1 /\ smp'.day = date
  <2>1. date \in 0 .. LastDay /\ smp \in SamplerRecord
    BY MetricsAssumption DEF MetricsType, SamplersType, FilesType, Dates
  <2>2. smp.n + 1 \in Nat
    BY <2>1 DEF SamplerRecord
  <2>. QED  BY <1>1, <2>1, <2>2 DEF SamplerRecord
<1>4. MetricsType'
  BY <1>1, <1>2, <1>3 DEF MetricsType, FilesType, SamplersType, WorldType
<1>5. DaysInOrder'
  BY <1>1, <1>3, MetricsAssumption DEF DaysInOrder, MetricsType, FilesType, SamplersType, SamplerRecord, Dates
<1>. QED  BY <1>1, <1>3, <1>4, <1>5, FilesStill, NoSwap, ChargesStill, ReadingStill

LEMMA SampleSystemOK == MetricsIInv /\ SampleSystem => MetricsIInv'
<1>. SUFFICES ASSUME MetricsIInv, SampleSystem PROVE MetricsIInv'
  OBVIOUS
<1>. USE DEF MetricsIInv
<1>. DEFINE r == <<"system", smp.n>>
<1>1. /\ smp.pc = "system" /\ smp' = [smp EXCEPT !.pc = "pods"]
      /\ \/ AppendRow(r, smp.day) /\ sum' = Noted(r, smp.day) /\ UNCHANGED left
         \/ Spends("faults") /\ UNCHANGED <<rows, opened, sum>>
      /\ UNCHANGED <<date, packed, base, ing, pod, log, bound>>
  BY DEF SampleSystem
<1>2. r \in Row /\ r[1] # "none" /\ smp.day \in Dates /\ smp.day <= date
  BY <1>1, MetricsAssumption DEF MetricsType, SamplersType, SamplerRecord, DaysInOrder, Dates, Row
<1>. HIDE DEF r
<1>3. smp' \in SamplerRecord /\ smp'.pc = "pods" /\ smp'.n = smp.n /\ smp'.day = smp.day
  BY <1>1 DEF MetricsType, SamplersType, SamplerRecord
<1>4. CASE AppendRow(r, smp.day) /\ sum' = Noted(r, smp.day) /\ UNCHANGED left
  <2>1. /\ opened' \in [day : 0 .. LastDay, linked : BOOLEAN] /\ rows' \in [Dates -> SUBSET Row]
        /\ opened'.day <= date /\ (opened'.linked \/ opened'.day < date)
        /\ FilesKept'
    BY <1>1, <1>2, <1>4, AppendKeeps
  <2>2. /\ sum' \in SumRecord
        /\ \A f \in {"moved", "charged", "from", "even", "served", "counted", "missed", "mark"} : sum'[f] = sum[f]
    BY <1>2, <1>4, NotedOnly DEF MetricsType
  <2>3. MetricsType'
    BY <1>1, <1>3, <1>4, <2>1, <2>2 DEF MetricsType, FilesType, SamplersType, WorldType
  <2>4. DaysInOrder'
    BY <1>1, <1>3, <2>1 DEF DaysInOrder
  <2>. QED  BY <1>1, <1>3, <2>1, <2>2, <2>3, <2>4, NoSwap, ChargesStill, ReadingStill
<1>5. CASE Spends("faults") /\ UNCHANGED <<rows, opened, sum>>
  BY <1>5, SpendsTyped, <1>1, <1>3, FilesStill, NoSwap, ChargesStill, ReadingStill DEF MetricsType,
     WorldType, FilesType, SamplersType, DaysInOrder
<1>. QED  BY <1>1, <1>4, <1>5

LEMMA SkipPodsOK == MetricsIInv /\ SkipPods => MetricsIInv'
<1>. SUFFICES ASSUME MetricsIInv, SkipPods PROVE MetricsIInv'
  OBVIOUS
<1>. USE DEF MetricsIInv
<1>1. /\ smp.pc = "pods" /\ Spends("faults") /\ smp' = [smp EXCEPT !.pc = "clean"]
      /\ UNCHANGED <<date, rows, packed, opened, base, ing, pod, log, bound, sum>>
  BY DEF SkipPods
<1>2. left' \in [{"ticks", "rows", "pod", "log", "days", "faults"} -> Nat]
  BY <1>1, SpendsTyped DEF MetricsType, WorldType
<1>3. smp' \in SamplerRecord /\ smp'.pc = "clean" /\ smp'.n = smp.n /\ smp'.day = smp.day
  BY <1>1 DEF MetricsType, SamplersType, SamplerRecord
<1>4. MetricsType'
  BY <1>1, <1>2, <1>3 DEF MetricsType, FilesType, SamplersType, WorldType
<1>5. DaysInOrder'
  BY <1>1, <1>3 DEF DaysInOrder
<1>. QED  BY <1>1, <1>3, <1>4, <1>5, FilesStill, NoSwap, ChargesStill, ReadingStill

\* The pod's row: what is charged is what the counter shows beyond the baseline.
LEMMA ChargedTrue ==
  ASSUME MetricsIInv, smp.n # 0, base' = [v |-> pod.ctr, seen |-> smp.n, reset |-> Resets],
         pod' = [pod EXCEPT !.again = FALSE], sum'.moved = sum.moved, sum' \in SumRecord,
         \/ /\ sum'.charged = sum.charged + Delta /\ sum'.even = (sum.even /\ ~pod.again)
            /\ sum'.from = IF base = NoBase THEN pod.ctr ELSE sum.from
         \/ sum'.even = FALSE /\ sum'.charged = sum.charged
  PROVE  ChargesTrue' /\ Delta \in Nat
<1>. USE DEF MetricsIInv
<1>1. /\ base' # NoBase /\ base'.v = pod.ctr /\ base'.seen = smp.n /\ base'.reset = Resets
      /\ pod'.ctr = pod.ctr /\ pod'.again = FALSE
  BY DEF MetricsType, WorldType, NoBase
<1>2. /\ pod.ctr \in Nat /\ base.v \in Nat /\ sum.charged \in Nat /\ sum.moved \in Nat /\ sum.from \in Nat
      /\ sum.even \in BOOLEAN /\ pod.again \in BOOLEAN /\ base.reset \in BOOLEAN
  BY DEF MetricsType, WorldType, SamplersType, SumRecord
<1>3. Delta \in Nat
  BY <1>2 DEF Delta, Resets
<1>4. sum.charged + Delta <= sum.moved
  BY <1>2 DEF Delta, Resets, ChargesTrue
<1>5. CASE /\ sum'.charged = sum.charged + Delta /\ sum'.even = (sum.even /\ ~pod.again)
           /\ sum'.from = IF base = NoBase THEN pod.ctr ELSE sum.from
  <2>1. sum'.even => ~Resets /\ sum'.charged = pod.ctr - sum'.from
    BY <1>5, <1>2 DEF ChargesTrue, Delta, Resets
  <2>. QED  BY <1>1, <1>2, <1>3, <1>4, <1>5, <2>1 DEF ChargesTrue
<1>6. CASE sum'.even = FALSE /\ sum'.charged = sum.charged
  BY <1>1, <1>2, <1>3, <1>4, <1>6 DEF ChargesTrue
<1>. QED  BY <1>3, <1>5, <1>6

LEMMA SamplePodsOK == MetricsIInv /\ SamplePods => MetricsIInv'
<1>. SUFFICES ASSUME MetricsIInv, SamplePods PROVE MetricsIInv'
  OBVIOUS
<1>. USE DEF MetricsIInv
<1>. DEFINE r == <<"pod", smp.n>>
<1>1. /\ smp.pc = "pods" /\ smp' = [smp EXCEPT !.pc = "clean"]
      /\ UNCHANGED <<date, packed, ing, log, bound>>
  BY DEF SamplePods
<1>2. r \in Row /\ r[1] # "none" /\ smp.day \in Dates /\ smp.day <= date /\ smp.n # 0 /\ smp.n \in Nat
  BY <1>1, MetricsAssumption DEF MetricsType, SamplersType, SamplerRecord, DaysInOrder, Dates, Row
<1>3. smp' \in SamplerRecord /\ smp'.pc = "clean" /\ smp'.n = smp.n /\ smp'.day = smp.day
  BY <1>1 DEF MetricsType, SamplersType, SamplerRecord
<1>4. CASE pod.up
  <2>1. /\ base' = [v |-> pod.ctr, seen |-> smp.n, reset |-> Resets]
        /\ pod' = [pod EXCEPT !.again = FALSE]
        /\ \/ /\ AppendRow(r, smp.day) /\ UNCHANGED left
              /\ sum' = [Noted(r, smp.day) EXCEPT
                   !.charged = @ + Delta, !.even = @ /\ ~pod.again,
                   !.from = IF base = NoBase THEN pod.ctr ELSE @]
           \/ Spends("faults") /\ sum' = [sum EXCEPT !.even = FALSE] /\ UNCHANGED <<rows, opened>>
    BY <1>4 DEF SamplePods
  <2>. HIDE DEF r
  <2>2. base' \in [v : Nat, reset : BOOLEAN, seen : Nat] /\ pod' \in [up : BOOLEAN, ctr : Nat, again : BOOLEAN]
    BY <2>1, <1>2 DEF MetricsType, WorldType, Resets
  <2>3. CASE /\ AppendRow(r, smp.day) /\ UNCHANGED left
             /\ sum' = [Noted(r, smp.day) EXCEPT
                  !.charged = @ + Delta, !.even = @ /\ ~pod.again,
                  !.from = IF base = NoBase THEN pod.ctr ELSE @]
    <3>0. /\ Noted(r, smp.day) \in SumRecord
          /\ \A f \in {"moved", "charged", "from", "even", "served", "counted", "missed", "mark"} :
               Noted(r, smp.day)[f] = sum[f]
      BY <1>2, NotedOnly DEF MetricsType
    <3>1. /\ sum'.rows = Noted(r, smp.day).rows /\ sum'.moved = sum.moved
          /\ sum'.charged = sum.charged + Delta /\ sum'.even = (sum.even /\ ~pod.again)
          /\ sum'.from = (IF base = NoBase THEN pod.ctr ELSE sum.from)
          /\ \A f \in {"served", "counted", "missed", "mark"} : sum'[f] = sum[f]
      BY <2>3, <3>0 DEF SumRecord
    <3>2. Delta \in Nat
      BY DEF Delta, Resets, MetricsType, WorldType, SamplersType
    <3>3. sum' \in SumRecord
      <4>1. sum.charged + Delta \in Nat /\ (IF base = NoBase THEN pod.ctr ELSE sum.from) \in Nat
        <5>1. sum.charged \in Nat /\ sum.from \in Nat /\ pod.ctr \in Nat
          BY DEF MetricsType, WorldType, SumRecord
        <5>. QED  BY <3>2, <5>1
      <4>2. (sum.even /\ ~pod.again) \in BOOLEAN
        OBVIOUS
      <4>3. sum' = [Noted(r, smp.day) EXCEPT !.charged = sum.charged + Delta, !.even = sum.even /\ ~pod.again,
                      !.from = IF base = NoBase THEN pod.ctr ELSE sum.from]
        BY <2>3, <3>0
      <4>. QED  BY <3>0, <4>1, <4>2, <4>3 DEF SumRecord
    <3>4. /\ opened' \in [day : 0 .. LastDay, linked : BOOLEAN] /\ rows' \in [Dates -> SUBSET Row]
          /\ opened'.day <= date /\ (opened'.linked \/ opened'.day < date)
          /\ FilesKept'
      BY <1>1, <1>2, <2>3, <3>1, AppendKeeps
    <3>5. MetricsType'
      BY <1>1, <1>3, <2>2, <2>3, <3>3, <3>4 DEF MetricsType, FilesType, SamplersType, WorldType
    <3>6. DaysInOrder'
      BY <1>1, <1>3, <3>4 DEF DaysInOrder
    <3>7. ChargesTrue'
      BY <1>2, <2>1, <3>1, <3>3, ChargedTrue
    <3>. QED  BY <1>1, <1>3, <3>1, <3>4, <3>5, <3>6, <3>7, NoSwap, ReadingStill
  <2>4. CASE Spends("faults") /\ sum' = [sum EXCEPT !.even = FALSE] /\ UNCHANGED <<rows, opened>>
    BY <2>4, SpendsTyped, <1>1, <1>3, <2>2, <1>2, <2>1, ChargedTrue, FilesStill, NoSwap, ReadingStill DEF
       MetricsType, WorldType, SumRecord, FilesType, SamplersType, DaysInOrder
  <2>. QED  BY <2>1, <2>3, <2>4
<1>5. CASE ~pod.up
  <2>1. /\ base' = Aged /\ sum' = [sum EXCEPT !.even = @ /\ Aged = base]
        /\ UNCHANGED <<rows, opened, pod, left>>
    BY <1>5 DEF SamplePods
  <2>2. /\ sum' \in SumRecord /\ sum'.even = (sum.even /\ Aged = base)
        /\ \A f \in {"rows", "moved", "charged", "from", "served", "counted", "missed", "mark"} : sum'[f] = sum[f]
    BY <2>1 DEF MetricsType, SumRecord
  <2>3. base' \in [v : Nat, reset : BOOLEAN, seen : Nat] /\ base' \in {base, NoBase}
    BY <2>1 DEF Aged, MetricsType, SamplersType, NoBase
  <2>4. MetricsType'
    BY <1>1, <1>3, <2>1, <2>2, <2>3 DEF MetricsType, FilesType, SamplersType, WorldType
  <2>5. DaysInOrder'
    BY <1>1, <1>3, <2>1 DEF DaysInOrder
  <2>6. ChargesTrue'
    BY <2>1, <2>2, <2>3 DEF ChargesTrue, MetricsType, SumRecord
  <2>. QED  BY <1>1, <1>3, <2>1, <2>2, <2>4, <2>5, <2>6, FilesStill, NoSwap, ReadingStill
<1>. QED  BY <1>4, <1>5

-----------------------------------------------------------------------------
(* Cleanup.                                                                   *)

LEMMA NoRowsTyped == NoRows \in SUBSET Row
<1>1. <<"none", 0>> \in Row
  BY DEF Row
<1>. QED  BY <1>1 DEF NoRows

LEMMA ListFilesOK == MetricsIInv /\ ListFiles => MetricsIInv'
<1>. SUFFICES ASSUME MetricsIInv, ListFiles PROVE MetricsIInv'
  OBVIOUS
<1>. USE DEF MetricsIInv
<1>1. /\ smp.pc = "clean"
      /\ smp' = [smp EXCEPT !.pc = "files", !.todo = {d \in Dates : rows[d] # NoRows \/ packed[d] # NoRows}]
      /\ UNCHANGED <<date, rows, packed, opened, base, ing, pod, log, bound, sum, left>>
  BY DEF ListFiles
<1>2. smp' \in SamplerRecord /\ smp'.pc = "files" /\ smp'.n = smp.n /\ smp'.day = smp.day
  BY <1>1 DEF MetricsType, SamplersType, SamplerRecord
<1>3. MetricsType'
  BY <1>1, <1>2 DEF MetricsType, FilesType, SamplersType, WorldType
<1>4. DaysInOrder'
  BY <1>1, <1>2 DEF DaysInOrder
<1>. QED  BY <1>1, <1>2, <1>3, <1>4, FilesStill, NoSwap, ChargesStill, ReadingStill

\* A file of a day that is over goes, with its twin or to its twin.
LEMMA UnlinkOK ==
  ASSUME MetricsIInv, NEW d \in Dates, d < date, Unlink(d), date' = date
  PROVE  /\ opened' \in [day : 0 .. LastDay, linked : BOOLEAN]
         /\ opened'.day <= date /\ (opened'.linked \/ opened'.day < date)
BY DEF MetricsIInv, MetricsType, FilesType, DaysInOrder, Unlink

LEMMA CleanFileOK == MetricsIInv /\ CleanFile => MetricsIInv'
<1>. SUFFICES ASSUME MetricsIInv, CleanFile PROVE MetricsIInv'
  OBVIOUS
<1>. USE DEF MetricsIInv
<1>1. smp.pc = "files" /\ UNCHANGED <<date, base, ing, pod, log, bound, sum, left>>
  BY DEF CleanFile
<1>2. ASSUME opened' \in [day : 0 .. LastDay, linked : BOOLEAN],
             opened'.day <= date /\ (opened'.linked \/ opened'.day < date),
             rows' \in [Dates -> SUBSET Row], packed' = packed \/ packed' \in [Dates -> SUBSET Row],
             smp' \in SamplerRecord, smp'.day <= date, smp'.pc # "tick" => smp'.day # 0 /\ smp'.n # 0
      PROVE  MetricsType' /\ DaysInOrder'
  BY <1>1, <1>2 DEF MetricsType, FilesType, SamplersType, WorldType, DaysInOrder
<1>3. /\ opened \in [day : 0 .. LastDay, linked : BOOLEAN] /\ opened.day <= date /\ (opened.linked \/ opened.day < date)
      /\ rows \in [Dates -> SUBSET Row] /\ packed \in [Dates -> SUBSET Row] /\ date \in Dates
      /\ smp \in SamplerRecord /\ smp.day <= date /\ smp.day # 0 /\ smp.n # 0
  BY <1>1 DEF MetricsType, FilesType, SamplersType, DaysInOrder
<1>4. CASE smp.todo = {}
  BY <1>4, <1>3, MetricsAssumption, <1>2, <1>1, FilesStill, NoSwap, ChargesStill, ReadingStill DEF
     CleanFile, Ready, SamplerRecord, Dates
<1>5. CASE smp.todo # {}
  <2>. DEFINE d == NextFile
              rest == [smp EXCEPT !.todo = @ \ {d}]
  <2>1. d \in smp.todo /\ d \in Dates
    BY <1>3, <1>5, NextFileIs DEF SamplerRecord
  <2>2. rest \in SamplerRecord /\ rest.pc = "files" /\ rest.n = smp.n /\ rest.day = smp.day
    BY <1>1, <1>3 DEF SamplerRecord
  <2>3. CASE Old(d)
    <3>1. /\ rows' = [rows EXCEPT ![d] = NoRows] /\ packed' = [packed EXCEPT ![d] = NoRows]
          /\ Unlink(d) /\ smp' = rest
      BY <1>5, <2>3 DEF CleanFile, Over
    <3>2. d < date - KeepDays /\ d < date
      BY <1>3, <2>1, <2>3, MetricsAssumption DEF Old, SamplerRecord, Dates
    <3>. HIDE DEF d, rest
    <3>3. rows' \in [Dates -> SUBSET Row] /\ packed' \in [Dates -> SUBSET Row]
      BY <1>3, <3>1, NoRowsTyped
    <3>4. MetricsType' /\ DaysInOrder'
      BY <1>1, <1>2, <1>3, <2>1, <2>2, <3>1, <3>2, <3>3, UnlinkOK
    <3>5. FilesKept'
      BY <1>1, <1>3, <3>1, <3>2 DEF FilesKept, Holds
    <3>. QED  BY <1>1, <2>2, <3>1, <3>4, <3>5, NoSwap, ChargesStill, ReadingStill
  <2>4. CASE Over(d) /\ packed[d] # NoRows
    <3>1. rows' = [rows EXCEPT ![d] = NoRows] /\ Unlink(d) /\ smp' = rest /\ UNCHANGED packed
      <4>1. ~Old(d)
        BY <2>4 DEF Over
      <4>. QED  BY <1>5, <2>4, <4>1 DEF CleanFile
    <3>2. d < date
      BY <1>3, <2>1, <2>4, MetricsAssumption DEF Over, SamplerRecord, Dates
    <3>. HIDE DEF d, rest
    <3>3. rows' \in [Dates -> SUBSET Row]
      BY <1>3, <3>1, NoRowsTyped
    <3>4. MetricsType' /\ DaysInOrder'
      BY <1>1, <1>2, <1>3, <2>1, <2>2, <3>1, <3>2, <3>3, UnlinkOK
    <3>5. FilesKept'
      BY <1>1, <1>3, <2>4, <3>1 DEF FilesKept, Holds
    <3>. QED  BY <1>1, <2>2, <3>1, <3>4, <3>5, NoSwap, ChargesStill, ReadingStill
  <2>5. CASE Over(d) /\ packed[d] = NoRows
    <3>0. ~Old(d) /\ d < smp.day /\ rows[d] # NoRows
      BY <2>5 DEF Over
    <3>1. smp' = [smp EXCEPT !.pc = "copied", !.copy = rows[d]] /\ UNCHANGED <<rows, packed, opened>>
      BY <1>5, <2>5, <3>0 DEF CleanFile
    <3>2. /\ smp' \in SamplerRecord /\ smp'.pc = "copied" /\ smp'.n = smp.n /\ smp'.day = smp.day
          /\ smp'.todo = smp.todo /\ smp'.copy = rows[d]
      BY <1>3, <2>1, <3>1 DEF SamplerRecord
    <3>3. MetricsType' /\ DaysInOrder'
      BY <1>2, <1>3, <3>1, <3>2
    <3>4. Holds(rows[d], d, sum.rows, date)
      BY <2>1, <2>5 DEF FilesKept, Holds, NoRows
    <3>5. NextFile' = d
      BY <3>2 DEF NextFile
    <3>. HIDE DEF d, rest
    <3>6. SwapTrue'
      BY <1>1, <1>5, <3>0, <3>2, <3>4, <3>5 DEF SwapTrue
    <3>. QED  BY <1>1, <3>1, <3>3, <3>6, FilesStill, ChargesStill, ReadingStill
  <2>6. CASE ~Old(d) /\ ~Over(d)
    <3>1. smp' = rest /\ UNCHANGED <<rows, packed, opened>>
      BY <1>5, <2>6 DEF CleanFile
    <3>. HIDE DEF d, rest
    <3>2. MetricsType' /\ DaysInOrder'
      BY <1>2, <1>3, <2>2, <3>1
    <3>. QED  BY <1>1, <2>2, <3>1, <3>2, FilesStill, NoSwap, ChargesStill, ReadingStill
  <2>. QED  BY <2>3, <2>4, <2>5, <2>6
<1>. QED  BY <1>4, <1>5

LEMMA SwapFileOK == MetricsIInv /\ SwapFile => MetricsIInv'
<1>. SUFFICES ASSUME MetricsIInv, SwapFile PROVE MetricsIInv'
  OBVIOUS
<1>. USE DEF MetricsIInv
<1>. DEFINE d == NextFile
<1>1. UNCHANGED <<date, base, ing, pod, log, bound, sum, left>>
  BY DEF SwapFile
<1>2. /\ smp.pc \in {"copied", "renamed"}
      /\ \/ /\ smp.pc = "copied" /\ packed' = [packed EXCEPT ![d] = smp.copy]
            /\ smp' = [smp EXCEPT !.pc = "renamed", !.copy = {}] /\ UNCHANGED <<rows, opened>>
         \/ /\ smp.pc = "renamed" /\ rows' = [rows EXCEPT ![d] = NoRows] /\ Unlink(d)
            /\ smp' = [smp EXCEPT !.pc = "files", !.todo = @ \ {d}] /\ UNCHANGED packed
  BY DEF SwapFile
<1>3. /\ opened \in [day : 0 .. LastDay, linked : BOOLEAN] /\ opened.day <= date /\ (opened.linked \/ opened.day < date)
      /\ rows \in [Dates -> SUBSET Row] /\ packed \in [Dates -> SUBSET Row] /\ date \in Dates
      /\ smp \in SamplerRecord /\ smp.day <= date /\ smp.day # 0 /\ smp.n # 0
  BY <1>2 DEF MetricsType, FilesType, SamplersType, DaysInOrder
<1>4. smp.todo # {} /\ d < smp.day
  BY <1>2 DEF SwapTrue
<1>5. d \in smp.todo /\ d \in Dates /\ d < date
  BY <1>3, <1>4, NextFileIs, MetricsAssumption DEF SamplerRecord, Dates
<1>6. CASE /\ smp.pc = "copied" /\ packed' = [packed EXCEPT ![d] = smp.copy]
           /\ smp' = [smp EXCEPT !.pc = "renamed", !.copy = {}] /\ UNCHANGED <<rows, opened>>
  <2>1. /\ smp' \in SamplerRecord /\ smp'.pc = "renamed" /\ smp'.n = smp.n /\ smp'.day = smp.day
        /\ smp'.todo = smp.todo
    BY <1>3, <1>6 DEF SamplerRecord
  <2>2. NextFile' = d
    BY <2>1 DEF NextFile
  <2>3. smp.copy # NoRows /\ Holds(smp.copy, d, sum.rows, date)
    BY <1>6 DEF SwapTrue
  <2>. HIDE DEF d
  <2>4. packed' \in [Dates -> SUBSET Row]
    BY <1>3, <1>6 DEF SamplerRecord
  <2>5. MetricsType'
    BY <1>1, <1>6, <2>1, <2>4 DEF MetricsType, FilesType, SamplersType, WorldType
  <2>6. DaysInOrder'
    BY <1>1, <1>3, <1>6, <2>1 DEF DaysInOrder
  <2>7. FilesKept'
    BY <1>3, <1>6, <2>3, <1>5, <1>1 DEF FilesKept, Holds
  <2>8. SwapTrue'
    BY <1>3, <1>4, <1>5, <1>6, <2>1, <2>2, <2>3 DEF SwapTrue
  <2>. QED  BY <1>1, <2>5, <2>6, <2>7, <2>8, ChargesStill, ReadingStill
<1>7. CASE /\ smp.pc = "renamed" /\ rows' = [rows EXCEPT ![d] = NoRows] /\ Unlink(d)
           /\ smp' = [smp EXCEPT !.pc = "files", !.todo = @ \ {d}] /\ UNCHANGED packed
  <2>1. packed[d] # NoRows
    BY <1>7 DEF SwapTrue
  <2>2. smp' \in SamplerRecord /\ smp'.pc = "files" /\ smp'.n = smp.n /\ smp'.day = smp.day
    BY <1>3, <1>7 DEF SamplerRecord
  <2>. HIDE DEF d
  <2>3. rows' \in [Dates -> SUBSET Row]
    BY <1>3, <1>7, NoRowsTyped
  <2>4. /\ opened' \in [day : 0 .. LastDay, linked : BOOLEAN]
        /\ opened'.day <= date /\ (opened'.linked \/ opened'.day < date)
    BY <1>1, <1>5, <1>7, UnlinkOK
  <2>5. MetricsType'
    BY <1>1, <1>7, <2>2, <2>3, <2>4 DEF MetricsType, FilesType, SamplersType, WorldType
  <2>6. DaysInOrder'
    BY <1>1, <1>3, <2>2, <2>4 DEF DaysInOrder
  <2>7. FilesKept'
    BY <1>1, <1>3, <1>7, <2>1 DEF FilesKept, Holds
  <2>. QED  BY <1>1, <2>2, <2>5, <2>6, <2>7, NoSwap, ChargesStill, ReadingStill
<1>. QED  BY <1>2, <1>6, <1>7

-----------------------------------------------------------------------------
(* The ingress sampler.                                                       *)

LEMMA IngestOK == MetricsIInv /\ Ingest => MetricsIInv'
<1>. SUFFICES ASSUME MetricsIInv, Ingest PROVE MetricsIInv'
  OBVIOUS
<1>. USE DEF MetricsIInv
<1>. DEFINE L == Len(log.lines)
            N == IF log.half THEN L - 1 ELSE L
<1>1. PICK table \in Refreshed :
        /\ left' = [left EXCEPT !.rows = @ - 1, !.faults = IF table = bound THEN @ ELSE @ - 1]
        /\ ing' = [ing EXCEPT !.pc = "emit", !.n = @ + 1, !.table = table, !.first = FALSE,
                              !.file = Reopened.file, !.off = Len(log.lines),
                              !.bucket = @ + (IF table THEN Pages(Reopened.off) ELSE 0)]
        /\ sum' = [sum EXCEPT !.mark = Len(log.lines), !.missed = @ + Unread - Owed(table)]
  BY DEF Ingest
<1>2. ing.pc = "tick" /\ left.rows > 0 /\ UNCHANGED <<date, rows, packed, opened, smp, base, pod, log, bound>>
  BY DEF Ingest
<1>3. /\ ing \in IngressRecord /\ sum \in SumRecord /\ L \in Nat /\ bound \in BOOLEAN
      /\ log.inode \in Nat \ {0} /\ log.half \in BOOLEAN /\ WorldType
      /\ left \in [{"ticks", "rows", "pod", "log", "days", "faults"} -> Nat]
  BY DEF MetricsType, SamplersType, WorldType
<1>4. table \in BOOLEAN /\ (table # bound => left.faults > 0)
  BY <1>1, <1>3 DEF Refreshed, IngressRecord
<1>5. left' \in [{"ticks", "rows", "pod", "log", "days", "faults"} -> Nat]
  <2>1. left.rows - 1 \in Nat /\ (IF table = bound THEN left.faults ELSE left.faults - 1) \in Nat
    BY <1>2, <1>3, <1>4
  <2>. QED  BY <1>1, <1>3, <2>1
<1>6. sum.mark \in Nat /\ sum.mark <= L /\ N \in Int /\ N <= L
  BY <1>3 DEF ReadingTrue, SumRecord
<1>. HIDE DEF L, N
<1>7. \A k \in Nat : Counted(k, N) \in Nat /\ Counted(k, N) <= Counted(k, L) /\ Counted(k, L) \in Nat
                     /\ Counted(L, N) = 0
  <2>. SUFFICES ASSUME NEW k \in Nat
                PROVE  Counted(k, N) \in Nat /\ Counted(k, N) <= Counted(k, L) /\ Counted(k, L) \in Nat
                       /\ Counted(L, N) = 0
    OBVIOUS
  <2>1. Counted(k, N) \in Nat /\ Counted(k, N) <= Counted(k, L) /\ Counted(L, N) = 0
    BY <1>3, <1>6, PagesCounted DEF L
  <2>2. L \in Int /\ L <= Len(log.lines)
    BY <1>3 DEF L
  <2>3. Counted(k, L) \in Nat
    BY <1>3, <2>2, PagesCounted
  <2>. QED  BY <2>1, <2>3
<1>8. Unread = Counted(sum.mark, L) /\ \A k : Pages(k) = Counted(k, N)
  BY DEF Unread, Pages, L, N
<1>9. Reopened.file = log.inode /\ Reopened.off \in Nat
  BY <1>3 DEF Reopened, IngressRecord, L
<1>10. (IF table THEN Pages(Reopened.off) ELSE 0) = Owed(table)
  <2>1. CASE ~table
    BY <2>1 DEF Owed
  <2>2. CASE table /\ ing.first
    BY <1>3, <2>2, <1>7, <1>8 DEF Reopened, ReadingTrue, L, Owed
  <2>3. CASE table /\ ~ing.first
    BY <1>3, <2>3 DEF Reopened, ReadingTrue, Owed
  <2>. QED  BY <1>4, <2>1, <2>2, <2>3
<1>11. Owed(table) \in Nat /\ Owed(table) <= Unread /\ Unread \in Nat
  BY <1>6, <1>7, <1>8 DEF Owed
<1>12. /\ ing' \in IngressRecord /\ ing'.pc = "emit" /\ ing'.day = ing.day /\ ing'.first = FALSE
       /\ ing'.file = log.inode /\ ing'.off = L /\ ing'.bucket = ing.bucket + Owed(table)
  <2>1. ing.bucket + Owed(table) \in Nat /\ ing.n + 1 \in Nat
    BY <1>3, <1>11 DEF IngressRecord
  <2>2. ing' = [ing EXCEPT !.pc = "emit", !.n = ing.n + 1, !.table = table, !.first = FALSE,
                           !.file = log.inode, !.off = L, !.bucket = ing.bucket + Owed(table)]
    BY <1>1, <1>9, <1>10 DEF L
  <2>. HIDE DEF Owed
  <2>. QED  BY <1>3, <1>4, <2>1, <2>2 DEF IngressRecord
<1>13. /\ sum' \in SumRecord /\ sum'.mark = L /\ sum'.missed = sum.missed + Unread - Owed(table)
       /\ \A f \in {"rows", "moved", "charged", "from", "even", "served", "counted"} : sum'[f] = sum[f]
  <2>1. sum.missed + Unread - Owed(table) \in Nat
    BY <1>3, <1>11 DEF SumRecord
  <2>2. sum' = [sum EXCEPT !.mark = L, !.missed = sum.missed + Unread - Owed(table)]
    BY <1>1 DEF L
  <2>. QED  BY <1>3, <2>1, <2>2 DEF SumRecord
<1>14. MetricsType'
  BY <1>2, <1>5, <1>12, <1>13 DEF MetricsType, FilesType, SamplersType, WorldType
<1>15. DaysInOrder'
  BY <1>2, <1>12 DEF DaysInOrder
<1>16. ReadingTrue'
  <2>1. Unread' = 0
    <3>1. Unread' = Counted(L, L)
      BY <1>2, <1>13 DEF Unread, Counted, L
    <3>2. Counted(L, L) = 0
      <4>1. {i \in L + 1 .. L : log.lines[i] = "page"} = {}
        BY <1>3
      <4>. QED  BY <4>1, FS_EmptySet DEF Counted
    <3>. QED  BY <3>1, <3>2
  <2>2. sum.served = sum.counted + ing.bucket + sum.missed + Unread
    BY DEF ReadingTrue
  <2>3. sum'.served = sum'.counted + ing'.bucket + sum'.missed + Unread'
    BY <1>3, <1>11, <1>12, <1>13, <2>1, <2>2 DEF SumRecord, IngressRecord
  <2>. QED  BY <1>2, <1>3, <1>12, <1>13, <2>3 DEF ReadingTrue, L
<1>. QED  BY <1>2, <1>13, <1>14, <1>15, <1>16, FilesStill, SwapStill, ChargesStill

LEMMA StampRowOK == MetricsIInv /\ StampRow => MetricsIInv'
<1>. SUFFICES ASSUME MetricsIInv, StampRow PROVE MetricsIInv'
  OBVIOUS
<1>. USE DEF MetricsIInv
<1>1. /\ ing' = [ing EXCEPT !.pc = IF ing.table \/ ing.bucket > 0 THEN "row" ELSE "tick", !.day = date]
      /\ UNCHANGED <<date, rows, packed, opened, smp, base, pod, log, bound, sum, left>>
  BY DEF StampRow
<1>2. date \in 0 .. LastDay /\ date # 0 /\ ing \in IngressRecord
  BY MetricsAssumption DEF MetricsType, FilesType, SamplersType, Dates
<1>3. /\ ing' \in IngressRecord /\ ing'.day = date
      /\ ing'.file = ing.file /\ ing'.off = ing.off /\ ing'.first = ing.first /\ ing'.bucket = ing.bucket
  BY <1>1, <1>2 DEF IngressRecord
<1>4. MetricsType'
  BY <1>1, <1>3 DEF MetricsType, FilesType, SamplersType, WorldType
<1>5. DaysInOrder'
  BY <1>1, <1>2, <1>3 DEF DaysInOrder
<1>6. ReadingTrue'
  BY <1>1, <1>3 DEF ReadingTrue, Unread, Counted
<1>. QED  BY <1>1, <1>4, <1>5, <1>6, FilesStill, SwapStill, ChargesStill

LEMMA WriteRowOK == MetricsIInv /\ WriteRow => MetricsIInv'
<1>. SUFFICES ASSUME MetricsIInv, WriteRow PROVE MetricsIInv'
  OBVIOUS
<1>. USE DEF MetricsIInv
<1>. DEFINE r == <<"ingress", ing.n>>
<1>1. /\ ing.pc = "row" /\ ing' = [ing EXCEPT !.pc = "tick", !.bucket = 0, !.day = 0]
      /\ \/ /\ AppendRow(r, ing.day) /\ UNCHANGED left
            /\ sum' = [Noted(r, ing.day) EXCEPT !.counted = @ + ing.bucket]
         \/ Spends("faults") /\ sum' = [sum EXCEPT !.missed = @ + ing.bucket] /\ UNCHANGED <<rows, opened>>
      /\ UNCHANGED <<date, packed, smp, base, pod, log, bound>>
  BY DEF WriteRow
<1>2. r \in Row /\ r[1] # "none" /\ ing.day \in Dates /\ ing.day <= date
  BY <1>1, MetricsAssumption DEF MetricsType, SamplersType, IngressRecord, DaysInOrder, Dates, Row
<1>. HIDE DEF r
<1>3. /\ ing' \in IngressRecord /\ ing'.pc = "tick" /\ ing'.day = 0 /\ ing'.bucket = 0
      /\ ing'.file = ing.file /\ ing'.off = ing.off /\ ing'.first = ing.first /\ ing.bucket \in Nat
  <2>1. ing \in IngressRecord /\ 0 \in 0 .. LastDay
    BY MetricsAssumption DEF MetricsType, SamplersType
  <2>. QED  BY <1>1, <2>1 DEF IngressRecord
<1>4. 0 <= date /\ sum \in SumRecord
  BY MetricsAssumption DEF MetricsType, FilesType, Dates
<1>5. ASSUME \A f \in {"served", "mark"} : sum'[f] = sum[f], sum' \in SumRecord,
             sum'.counted + sum'.missed = sum.counted + sum.missed + ing.bucket
      PROVE  ReadingTrue'
  <2>1. Unread' = Unread
    BY <1>1, <1>5 DEF Unread, Counted
  <2>2. Unread \in Nat
    BY <1>4, PagesCounted DEF MetricsType, WorldType, SumRecord, Unread
  <2>3. sum.served = sum.counted + ing.bucket + sum.missed + Unread
    BY DEF ReadingTrue
  <2>4. sum'.served = sum'.counted + ing'.bucket + sum'.missed + Unread'
    BY <1>3, <1>4, <1>5, <2>1, <2>2, <2>3 DEF SumRecord
  <2>. QED  BY <1>1, <1>3, <1>5, <2>4 DEF ReadingTrue
<1>6. CASE /\ AppendRow(r, ing.day) /\ UNCHANGED left
           /\ sum' = [Noted(r, ing.day) EXCEPT !.counted = @ + ing.bucket]
  <2>0. /\ Noted(r, ing.day) \in SumRecord
        /\ \A f \in {"moved", "charged", "from", "even", "served", "counted", "missed", "mark"} :
             Noted(r, ing.day)[f] = sum[f]
    BY <1>2, <1>4, NotedOnly
  <2>1. sum.counted + ing.bucket \in Nat
    BY <1>3, <1>4 DEF SumRecord
  <2>2. /\ sum' \in SumRecord /\ sum'.rows = Noted(r, ing.day).rows /\ sum'.counted = sum.counted + ing.bucket
        /\ \A f \in {"moved", "charged", "from", "even", "served", "missed", "mark"} : sum'[f] = sum[f]
    BY <1>6, <2>0, <2>1 DEF SumRecord
  <2>3. /\ opened' \in [day : 0 .. LastDay, linked : BOOLEAN] /\ rows' \in [Dates -> SUBSET Row]
        /\ opened'.day <= date /\ (opened'.linked \/ opened'.day < date)
        /\ FilesKept'
        /\ \A rs, e : e < date /\ Holds(rs, e, sum.rows, date) => Holds(rs, e, sum'.rows, date)
    BY <1>1, <1>2, <1>6, <2>2, AppendKeeps
  <2>4. MetricsType'
    BY <1>1, <1>3, <1>6, <2>2, <2>3 DEF MetricsType, FilesType, SamplersType, WorldType
  <2>5. DaysInOrder'
    BY <1>1, <1>3, <1>4, <2>3 DEF DaysInOrder
  <2>6. SwapTrue'
    <3>1. NextFile' = NextFile
      BY <1>1 DEF NextFile
    <3>2. smp.pc = "copied" => NextFile < date
      BY NextFileIs, MetricsAssumption DEF SwapTrue, MetricsType, SamplersType, FilesType, SamplerRecord,
         DaysInOrder, Dates
    <3>. QED  BY <1>1, <2>3, <3>1, <3>2 DEF SwapTrue
  <2>. QED  BY <1>1, <1>3, <1>5, <2>2, <2>3, <2>4, <2>5, <2>6, <1>4, ChargesStill DEF SumRecord
<1>7. CASE Spends("faults") /\ sum' = [sum EXCEPT !.missed = @ + ing.bucket] /\ UNCHANGED <<rows, opened>>
  <2>1. left' \in [{"ticks", "rows", "pod", "log", "days", "faults"} -> Nat]
    BY <1>7, SpendsTyped DEF MetricsType, WorldType
  <2>2. /\ sum' \in SumRecord /\ sum'.missed = sum.missed + ing.bucket
        /\ \A f \in {"rows", "moved", "charged", "from", "even", "served", "counted", "mark"} : sum'[f] = sum[f]
    BY <1>3, <1>4, <1>7 DEF SumRecord
  <2>3. MetricsType'
    BY <1>1, <1>3, <1>7, <2>1, <2>2 DEF MetricsType, FilesType, SamplersType, WorldType
  <2>4. DaysInOrder'
    BY <1>1, <1>3, <1>4, <1>7 DEF DaysInOrder
  <2>5. ReadingTrue'
    BY <1>3, <1>4, <1>5, <2>2 DEF SumRecord
  <2>. QED  BY <1>1, <1>7, <2>2, <2>3, <2>4, <2>5, FilesStill, SwapStill, ChargesStill
<1>. QED  BY <1>1, <1>6, <1>7

-----------------------------------------------------------------------------
(* The world around.                                                          *)

LEMMA MidnightOK == MetricsIInv /\ Midnight => MetricsIInv'
<1>. SUFFICES ASSUME MetricsIInv, Midnight PROVE MetricsIInv'
  OBVIOUS
<1>. USE DEF MetricsIInv
<1>1. /\ date < LastDay /\ Spends("days") /\ date' = date + 1
      /\ UNCHANGED <<rows, packed, opened, smp, base, ing, pod, log, bound, sum>>
  BY DEF Midnight
<1>2. left' \in [{"ticks", "rows", "pod", "log", "days", "faults"} -> Nat]
  BY <1>1, SpendsTyped DEF MetricsType, WorldType
<1>3. date \in Nat /\ date' \in Dates /\ Dates \subseteq Nat /\ KeepDays \in Nat
  BY <1>1, MetricsAssumption DEF MetricsType, FilesType, Dates
<1>4. MetricsType'
  BY <1>1, <1>2, <1>3 DEF MetricsType, FilesType, SamplersType, WorldType
<1>5. DaysInOrder'
  BY <1>1, <1>3 DEF DaysInOrder, MetricsType, FilesType, SamplersType, SamplerRecord, IngressRecord
<1>6. \A rs : \A d \in Dates : Holds(rs, d, sum.rows, date) => Holds(rs, d, sum.rows, date')
  BY <1>1, <1>3 DEF Holds
<1>7. FilesKept'
  BY <1>6, <1>1, <1>3 DEF FilesKept
<1>8. SwapTrue'
  BY <1>1, NextFileIs, <1>6 DEF NextFile, MetricsType, SamplersType, SamplerRecord, SwapTrue
<1>. QED  BY <1>1, <1>4, <1>5, <1>7, <1>8, ChargesStill, ReadingStill

LEMMA PodActsOK == MetricsIInv /\ PodActs => MetricsIInv'
<1>. SUFFICES ASSUME MetricsIInv, PodActs PROVE MetricsIInv'
  OBVIOUS
<1>. USE DEF MetricsIInv
<1>1. /\ Spends("pod") /\ UNCHANGED <<date, rows, packed, opened, smp, base, ing, log, bound>>
      /\ \/ /\ pod.up /\ pod' = [pod EXCEPT !.ctr = @ + 1]
            /\ sum' = [sum EXCEPT !.moved = @ + 1]
         \/ pod.up /\ pod' = [pod EXCEPT !.up = FALSE] /\ UNCHANGED sum
         \/ pod' = [up |-> TRUE, ctr |-> 0, again |-> TRUE] /\ UNCHANGED sum
  BY DEF PodActs
<1>2. left' \in [{"ticks", "rows", "pod", "log", "days", "faults"} -> Nat]
  BY <1>1, SpendsTyped DEF MetricsType, WorldType
<1>3. pod \in [up : BOOLEAN, ctr : Nat, again : BOOLEAN] /\ sum \in SumRecord /\ base \in [v : Nat, reset : BOOLEAN, seen : Nat]
  BY DEF MetricsType, WorldType, SamplersType
<1>4. /\ pod' \in [up : BOOLEAN, ctr : Nat, again : BOOLEAN] /\ sum' \in SumRecord
      /\ \A f \in {"rows", "charged", "from", "even", "served", "counted", "missed", "mark"} : sum'[f] = sum[f]
      /\ \/ pod'.ctr = pod.ctr + 1 /\ pod'.again = pod.again /\ sum'.moved = sum.moved + 1
         \/ pod'.ctr = pod.ctr /\ pod'.again = pod.again /\ sum'.moved = sum.moved
         \/ pod'.ctr = 0 /\ pod'.again = TRUE /\ sum'.moved = sum.moved
  <2>1. CASE pod.up /\ pod' = [pod EXCEPT !.ctr = @ + 1] /\ sum' = [sum EXCEPT !.moved = @ + 1]
    BY <1>3, <2>1 DEF SumRecord
  <2>2. CASE pod.up /\ pod' = [pod EXCEPT !.up = FALSE] /\ UNCHANGED sum
    BY <1>3, <2>2
  <2>3. CASE pod' = [up |-> TRUE, ctr |-> 0, again |-> TRUE] /\ UNCHANGED sum
    BY <1>3, <2>3
  <2>. QED  BY <1>1, <2>1, <2>2, <2>3
<1>5. MetricsType'
  BY <1>1, <1>2, <1>4 DEF MetricsType, FilesType, SamplersType, WorldType
<1>6. DaysInOrder'
  BY <1>1 DEF DaysInOrder
<1>7. ChargesTrue'
  BY <1>1, <1>3, <1>4 DEF ChargesTrue, SumRecord
<1>. QED  BY <1>1, <1>4, <1>5, <1>6, <1>7, FilesStill, SwapStill, ReadingStill

LEMMA ServeOK ==
  ASSUME NEW sort \in {"page", "asset"}, NEW half \in BOOLEAN, MetricsIInv, Serve(sort, half)
  PROVE  MetricsIInv'
<1>. USE DEF MetricsIInv
<1>1. /\ Spends("log") /\ ~log.half
      /\ log' = [log EXCEPT !.lines = Append(@, sort), !.half = half]
      /\ sum' = (IF sort = "page" THEN [sum EXCEPT !.served = @ + 1] ELSE sum)
      /\ UNCHANGED <<date, rows, packed, opened, smp, base, ing, pod, bound>>
  BY DEF Serve
<1>2. left' \in [{"ticks", "rows", "pod", "log", "days", "faults"} -> Nat]
  BY <1>1, SpendsTyped DEF MetricsType, WorldType
<1>3. /\ log \in [inode : Nat \ {0}, lines : Seq({"page", "asset"}), half : BOOLEAN] /\ sum \in SumRecord
      /\ ing \in IngressRecord /\ WorldType
  BY DEF MetricsType, WorldType, SamplersType
<1>4. /\ log'.lines = Append(log.lines, sort) /\ log'.inode = log.inode
      /\ log' \in [inode : Nat \ {0}, lines : Seq({"page", "asset"}), half : BOOLEAN]
      /\ Len(log'.lines) = Len(log.lines) + 1
  <2>1. Append(log.lines, sort) \in Seq({"page", "asset"}) /\ Len(Append(log.lines, sort)) = Len(log.lines) + 1
    BY <1>3
  <2>2. log' = [log EXCEPT !.lines = Append(log.lines, sort), !.half = half]
    BY <1>1, <1>3
  <2>. QED  BY <1>3, <2>1, <2>2
<1>5. /\ sum' \in SumRecord /\ sum'.served = sum.served + (IF sort = "page" THEN 1 ELSE 0)
      /\ \A f \in {"rows", "moved", "charged", "from", "even", "counted", "missed", "mark"} : sum'[f] = sum[f]
  <2>1. sum.served \in Nat /\ sum.served + 1 \in Nat
    BY <1>3 DEF SumRecord
  <2>2. CASE sort = "page"
    BY <1>1, <2>2, <1>3, <2>1 DEF SumRecord
  <2>3. CASE sort # "page"
    BY <1>1, <1>3, <2>1, <2>3 DEF SumRecord
  <2>. QED  BY <2>2, <2>3
<1>6. MetricsType'
  BY <1>1, <1>2, <1>4, <1>5 DEF MetricsType, FilesType, SamplersType, WorldType
<1>7. DaysInOrder'
  BY <1>1 DEF DaysInOrder
<1>8. ReadingTrue'
  <2>0. sum.mark \in Nat /\ sum.mark <= Len(log.lines) /\ Len(log.lines) \in Nat
    BY <1>3 DEF SumRecord, ReadingTrue
  <2>1. Cardinality({i \in sum.mark + 1 .. Len(log'.lines) : log'.lines[i] = "page"})
          = Counted(sum.mark, Len(log.lines)) + (IF sort = "page" THEN 1 ELSE 0)
    BY <1>3, <1>4, <2>0, LineMore
  <2>2. Unread' = Unread + (IF sort = "page" THEN 1 ELSE 0)
    BY <1>5, <2>1 DEF Unread, Counted
  <2>3. Unread \in Nat
    <3>1. Len(log.lines) \in Int /\ Len(log.lines) <= Len(log.lines)
      BY <2>0
    <3>. QED  BY <1>3, <2>0, <3>1, PagesCounted DEF Unread
  <2>4. sum.served = sum.counted + ing.bucket + sum.missed + Unread
    BY DEF ReadingTrue
  <2>5. sum'.served = sum'.counted + ing'.bucket + sum'.missed + Unread'
    BY <1>1, <1>3, <1>5, <2>2, <2>3, <2>4 DEF SumRecord, IngressRecord
  <2>. QED  BY <1>1, <1>4, <1>5, <2>0, <2>5 DEF ReadingTrue
<1>. QED  BY <1>1, <1>5, <1>6, <1>7, <1>8, FilesStill, SwapStill, ChargesStill

LEMMA FinishLineOK == MetricsIInv /\ FinishLine => MetricsIInv'
<1>. SUFFICES ASSUME MetricsIInv, FinishLine PROVE MetricsIInv'
  OBVIOUS
<1>. USE DEF MetricsIInv
<1>1. /\ log' = [log EXCEPT !.half = FALSE]
      /\ UNCHANGED <<date, rows, packed, opened, smp, base, ing, pod, bound, sum, left>>
  BY DEF FinishLine
<1>2. log'.lines = log.lines /\ log'.inode = log.inode /\ log' \in [inode : Nat \ {0}, lines : Seq({"page", "asset"}), half : BOOLEAN]
  BY <1>1 DEF MetricsType, WorldType
<1>3. MetricsType'
  BY <1>1, <1>2 DEF MetricsType, FilesType, SamplersType, WorldType
<1>4. DaysInOrder'
  BY <1>1 DEF DaysInOrder
<1>5. ReadingTrue'
  BY <1>1, <1>2 DEF ReadingTrue, Unread, Counted
<1>. QED  BY <1>1, <1>3, <1>4, <1>5, FilesStill, SwapStill, ChargesStill

LEMMA RotateLogOK == MetricsIInv /\ RotateLog => MetricsIInv'
<1>. SUFFICES ASSUME MetricsIInv, RotateLog PROVE MetricsIInv'
  OBVIOUS
<1>. USE DEF MetricsIInv
<1>1. /\ Spends("log")
      /\ log' = [inode |-> log.inode + 1, lines |-> <<>>, half |-> FALSE]
      /\ sum' = [sum EXCEPT !.missed = @ + Unread, !.mark = 0]
      /\ UNCHANGED <<date, rows, packed, opened, smp, base, ing, pod, bound>>
  BY DEF RotateLog
<1>2. left' \in [{"ticks", "rows", "pod", "log", "days", "faults"} -> Nat]
  BY <1>1, SpendsTyped DEF MetricsType, WorldType
<1>3. WorldType /\ sum \in SumRecord /\ ing \in IngressRecord /\ log.inode \in Nat /\ Len(log.lines) \in Nat
  BY DEF MetricsType, WorldType, SamplersType
<1>4. Unread \in Nat
  <2>1. sum.mark \in Nat /\ Len(log.lines) \in Int /\ Len(log.lines) <= Len(log.lines)
    BY <1>3 DEF SumRecord
  <2>. QED  BY <1>3, <2>1, PagesCounted DEF Unread
<1>5. /\ log' \in [inode : Nat \ {0}, lines : Seq({"page", "asset"}), half : BOOLEAN]
      /\ log'.inode = log.inode + 1 /\ log'.lines = <<>> /\ Len(log'.lines) = 0
  BY <1>1, <1>3
<1>6. /\ sum' \in SumRecord /\ sum'.missed = sum.missed + Unread /\ sum'.mark = 0
      /\ \A f \in {"rows", "moved", "charged", "from", "even", "served", "counted"} : sum'[f] = sum[f]
  <2>1. sum.missed + Unread \in Nat
    BY <1>3, <1>4 DEF SumRecord
  <2>. QED  BY <1>1, <1>3, <2>1 DEF SumRecord
<1>7. MetricsType'
  BY <1>1, <1>2, <1>5, <1>6 DEF MetricsType, FilesType, SamplersType, WorldType
<1>8. DaysInOrder'
  BY <1>1 DEF DaysInOrder
<1>9. Unread' = 0
  BY <1>5, <1>6, FS_EmptySet DEF Unread, Counted
<1>10. ReadingTrue'
  <2>1. sum.served = sum.counted + ing.bucket + sum.missed + Unread
    BY DEF ReadingTrue
  <2>2. sum'.served = sum'.counted + ing'.bucket + sum'.missed + Unread'
    <3>1. /\ sum.missed \in Nat /\ sum.counted \in Nat /\ ing.bucket \in Nat
          /\ sum'.served = sum.served /\ sum'.counted = sum.counted /\ ing'.bucket = ing.bucket
      BY <1>1, <1>3, <1>6 DEF SumRecord, IngressRecord
    <3>. QED  BY <1>4, <1>6, <1>9, <2>1, <3>1
  <2>. QED  BY <1>1, <1>3, <1>5, <1>6, <2>2 DEF ReadingTrue, IngressRecord
<1>. QED  BY <1>1, <1>6, <1>7, <1>8, <1>10, FilesStill, SwapStill, ChargesStill

LEMMA RebindOK == MetricsIInv /\ Rebind => MetricsIInv'
<1>. SUFFICES ASSUME MetricsIInv, Rebind PROVE MetricsIInv'
  OBVIOUS
<1>. USE DEF MetricsIInv
<1>1. /\ Spends("log") /\ bound' = ~bound
      /\ UNCHANGED <<date, rows, packed, opened, smp, base, ing, pod, log, sum>>
  BY DEF Rebind
<1>2. left' \in [{"ticks", "rows", "pod", "log", "days", "faults"} -> Nat]
  BY <1>1, SpendsTyped DEF MetricsType, WorldType
<1>3. bound' \in BOOLEAN
  BY <1>1
<1>4. MetricsType'
  BY <1>1, <1>2, <1>3 DEF MetricsType, FilesType, SamplersType, WorldType
<1>5. DaysInOrder'
  BY <1>1 DEF DaysInOrder
<1>. QED  BY <1>1, <1>4, <1>5, FilesStill, SwapStill, ChargesStill, ReadingStill

LEMMA RestartSamplersOK == MetricsIInv /\ RestartSamplers => MetricsIInv'
<1>. SUFFICES ASSUME MetricsIInv, RestartSamplers PROVE MetricsIInv'
  OBVIOUS
<1>. USE DEF MetricsIInv
<1>1. /\ Spends("faults") /\ opened' = [day |-> 0, linked |-> FALSE]
      /\ smp' = Ready(smp.n) /\ ing' = Closed(ing.n) /\ base' = NoBase
      /\ sum' = [sum EXCEPT !.missed = @ + ing.bucket, !.even = FALSE]
      /\ UNCHANGED <<date, rows, packed, pod, log, bound>>
  BY DEF RestartSamplers
<1>2. left' \in [{"ticks", "rows", "pod", "log", "days", "faults"} -> Nat]
  BY <1>1, SpendsTyped DEF MetricsType, WorldType
<1>3. /\ smp \in SamplerRecord /\ ing \in IngressRecord /\ sum \in SumRecord /\ WorldType
      /\ 0 \in 0 .. LastDay /\ 0 < date
  BY MetricsAssumption DEF MetricsType, SamplersType, FilesType, Dates
<1>4. smp' \in SamplerRecord /\ smp'.pc = "tick" /\ smp'.day = 0
  BY <1>1, <1>3 DEF Ready, SamplerRecord
<1>5. /\ ing' \in IngressRecord /\ ing'.pc = "tick" /\ ing'.day = 0 /\ ing'.first = TRUE /\ ing'.file = 0
      /\ ing'.bucket = 0
  BY <1>1, <1>3 DEF Closed, IngressRecord
<1>6. base' \in [v : Nat, reset : BOOLEAN, seen : Nat]
  BY <1>1 DEF NoBase
<1>7. /\ sum' \in SumRecord /\ sum'.missed = sum.missed + ing.bucket /\ sum'.even = FALSE
      /\ \A f \in {"rows", "moved", "charged", "from", "served", "counted", "mark"} : sum'[f] = sum[f]
  <2>1. sum.missed + ing.bucket \in Nat
    BY <1>3 DEF SumRecord, IngressRecord
  <2>. QED  BY <1>1, <1>3, <2>1 DEF SumRecord
<1>8. opened' \in [day : 0 .. LastDay, linked : BOOLEAN] /\ opened'.day = 0
  BY <1>1, <1>3
<1>9. MetricsType'
  BY <1>1, <1>2, <1>4, <1>5, <1>6, <1>7, <1>8 DEF MetricsType, FilesType, SamplersType, WorldType
<1>10. DaysInOrder'
  BY <1>1, <1>3, <1>4, <1>5, <1>8 DEF DaysInOrder, MetricsType, FilesType, Dates
<1>11. ChargesTrue'
  BY <1>1, <1>7 DEF ChargesTrue
<1>12. ReadingTrue'
  <2>1. Unread' = Unread
    BY <1>1, <1>7 DEF Unread, Counted
  <2>2. Unread \in Nat
    BY <1>3, PagesCounted DEF SumRecord, WorldType, Unread
  <2>3. sum.served = sum.counted + ing.bucket + sum.missed + Unread
    BY DEF ReadingTrue
  <2>4. sum'.served = sum'.counted + ing'.bucket + sum'.missed + Unread'
    BY <1>3, <1>5, <1>7, <2>1, <2>2, <2>3 DEF SumRecord, IngressRecord
  <2>5. ing'.file <= log.inode
    BY <1>3, <1>5 DEF WorldType
  <2>. QED  BY <1>1, <1>5, <1>7, <2>4, <2>5 DEF ReadingTrue
<1>. QED  BY <1>1, <1>4, <1>7, <1>9, <1>10, <1>11, <1>12, FilesStill, NoSwap
-----------------------------------------------------------------------------
LEMMA MetricsStarts == MetricsInit => MetricsIInv
<1>. SUFFICES ASSUME MetricsInit PROVE MetricsIInv
  OBVIOUS
<1>1. 1 \in Dates /\ 0 \in 0 .. LastDay /\ NoRows \in SUBSET Row
  BY MetricsAssumption, NoRowsTyped DEF Dates
<1>2. FilesType
  BY <1>1 DEF MetricsInit, FilesType
<1>3. SamplersType
  BY <1>1 DEF MetricsInit, SamplersType, Ready, Closed, NoBase, SamplerRecord, IngressRecord
<1>4. WorldType
  BY MetricsAssumption DEF MetricsInit, WorldType
<1>5. sum \in SumRecord
  BY DEF MetricsInit, SumRecord
<1>6. DaysInOrder
  BY DEF MetricsInit, DaysInOrder, Ready, Closed
<1>7. FilesKept
  BY DEF MetricsInit, FilesKept, Holds
<1>8. SwapTrue
  BY DEF MetricsInit, SwapTrue, Ready
<1>9. ChargesTrue
  BY DEF MetricsInit, ChargesTrue, NoBase
<1>10. ReadingTrue
  <2>1. Unread = 0
    BY FS_EmptySet DEF MetricsInit, Unread, Counted
  <2>. QED  BY <2>1 DEF MetricsInit, ReadingTrue, Closed
<1>. QED  BY <1>2, <1>3, <1>4, <1>5, <1>6, <1>7, <1>8, <1>9, <1>10 DEF MetricsIInv, MetricsType

LEMMA MetricsStep == MetricsIInv /\ [MetricsNext]_metricsVars => MetricsIInv'
<1>. SUFFICES ASSUME MetricsIInv, [MetricsNext]_metricsVars PROVE MetricsIInv'
  OBVIOUS
<1>1. CASE UNCHANGED metricsVars
  BY <1>1, FilesStill, SwapStill, ChargesStill, ReadingStill DEF metricsVars, MetricsIInv, MetricsType,
     FilesType, SamplersType, WorldType, DaysInOrder
<1>2. CASE MetricsNext
  BY <1>2, StampTickOK, SampleSystemOK, SamplePodsOK, SkipPodsOK, ListFilesOK, CleanFileOK, SwapFileOK,
     IngestOK, StampRowOK, WriteRowOK, MidnightOK, PodActsOK, FinishLineOK, RotateLogOK, RebindOK,
     RestartSamplersOK, ServeOK
     DEF MetricsNext
<1>. QED  BY <1>1, <1>2

LEMMA MetricsShows == MetricsIInv => MetricsTrue
<1>. SUFFICES ASSUME MetricsIInv PROVE MetricsTrue
  OBVIOUS
<1>1. ASSUME NEW k \in sum.rows, ~(k[2] < date - KeepDays)
      PROVE  k[1] \in RowsOf(k[2])
  BY <1>1 DEF MetricsIInv, MetricsType, SumRecord, FilesKept, Holds, RowsOf, NoRows
<1>. QED  BY <1>1 DEF MetricsTrue, MetricsIInv, ChargesTrue, ReadingTrue

\* What the samplers measured is neither lost nor counted twice.
THEOREM MetricsCorrect == MetricsSpec => []MetricsTrue
<1>1. MetricsSpec => []MetricsIInv
  BY MetricsStarts, MetricsStep, PTL DEF MetricsSpec
<1>. QED  BY <1>1, MetricsShows, PTL

-----------------------------------------------------------------------------
(* Streams. The argument: what the server has said and the client has still   *)
(* to read fits the step the client shows as open, each end behind its start   *)
(* and nothing but output between, so no step is taken as passed that was not; *)
(* a block is painted only while the spinner runs and a step is open.          *)

Kinds ==
  {"hello", "start", "ok", "fail", "info", "warn", "noise", "built", "deployed", "pruned", "note", "result",
   "complete"}
Texts ==
  Pushes \cup {"none", "receive", "skipping", "create", "languages", "build", "hook", "$", "gc", "releases", "pull",
              "image", "r", "apply", "release", "error", "credentials"}
Lines == [k : Kinds, x : Texts]
Shown == Texts \cup Nat
Marks == {"ok", "fail", "warn", "result", "flow", "raw", "final", "stderr", "complete"}
Entries == [mark : Marks, line : [k : Kinds, x : Shown]]
Points ==
  {"start", "receive", "look", "build", "swap", "hook", "deployed", "pull", "answer", "release", "finished", "failed"}
UiRecord ==
  [active : BOOLEAN, label : Texts, tail : Seq(Lines), built : BOOLEAN, spin : {"off", "on", "stopping"},
   then : {"none", "built", "deployed", "close"}, painted : BOOLEAN, smeared : BOOLEAN, count : Nat,
   screen : Seq(Entries)]
StreamsType ==
  /\ job \in [prog : {"push", "apply"}, speaks : {"ndjson", "text"}, force : BOOLEAN]
  /\ at \in Points /\ said \in Seq(Lines) /\ erred \in Seq(Lines) /\ passed \in SUBSET Texts /\ told \in Nat
  /\ chosen \in {"none", "ndjson", "legacy"} /\ ui \in UiRecord /\ seen \in Seq(Lines)
  /\ torn \in {<<>>} \cup {<<l>> : l \in Lines} /\ ends \in {"open", "closing", "closed"}

\* The terminal: a spinner runs or it does not, and only then and over an open step
\* is anything painted.
UiTrue(u) ==
  /\ u.active = (u.spin # "off") /\ ~u.smeared
  /\ u.painted => u.active /\ u.label # "none"
  /\ u.spin = "stopping" => u.then # "none" /\ (u.then # "close" => u.label = "none")

\* What the server says, of frames. An end has its start before it, or the label
\* the client shows; and where a step starts or a summary comes, none is open.
Ends == {"ok", "fail"}
Between == {"start", "built", "deployed", "pruned", "note"}
StartBefore(label, ls, i) ==
  \/ label = ls[i].x /\ \A m \in 1 .. i - 1 : ls[m].k = "info"
  \/ \E j \in 1 .. i - 1 : ls[j] = Line("start", ls[i].x) /\ \A m \in j + 1 .. i - 1 : ls[m].k = "info"
NoneOpen(label, ls, i) ==
  /\ label # "none" => \E m \in 1 .. i - 1 : ls[m].k \in Ends
  /\ \A j \in 1 .. i - 1 : ls[j].k = "start" => \E m \in j + 1 .. i - 1 : ls[m].k \in Ends
Fits(label, ls) ==
  \A i \in DOMAIN ls :
    /\ ls[i].k \in Ends => ls[i].x # "none" /\ StartBefore(label, ls, i)
    /\ ls[i].k \in Between => NoneOpen(label, ls, i)
    /\ ls[i].k = "start" => ls[i].x # "none"
FramesTrue ==
  job.speaks = "ndjson" =>
    /\ \A i \in DOMAIN said : said[i].k = "ok" => said[i].x \in passed
    /\ chosen # "legacy" => Fits(ui.label, said) /\ (at # "failed" => NoneOpen(ui.label, said, Len(said) + 1))

\* What it says as text: where a banner or the end comes, what was open has passed.
Earned(label, ls, i, went) ==
  /\ label # "none" => label \in went
  /\ \A j \in 1 .. i - 1 : ls[j].k = "start" /\ ls[j].x \in Banners => ls[j].x \in went
TextFits(label, ls, went) ==
  \A i \in DOMAIN ls : ls[i].k \in {"start", "built", "deployed"} => Earned(label, ls, i, went)
TextTrue ==
  job.speaks = "text" =>
    /\ \A i \in DOMAIN said : said[i].k \notin Unspoken
    /\ TextFits(ui.label, said, passed) /\ (at # "failed" => Earned(ui.label, said, Len(said) + 1, passed))

\* What is marked on the screen: the steps done, and the one conclusion there may be.
ScreenTrue(sc, went, C) ==
  \A i \in DOMAIN sc : /\ sc[i].mark = "ok" => sc[i].line.x \in went
                       /\ sc[i].mark = "complete" => sc[i].line.x \in C

Final == IF at = "finished" THEN {told} ELSE {}

\* Which renderer, and what it can have shown.
VerdictMarks == {"fail", "warn", "result", "flow"}
Shows(screen, lines) ==
  LET shown == {i \in DOMAIN screen : screen[i].mark \in VerdictMarks}
      meant == {i \in DOMAIN lines : lines[i].k \in Verdict}
  IN  /\ Cardinality(shown) = Cardinality(meant)
      /\ \A i \in shown, j \in meant : Rank(shown, i) = Rank(meant, j) => screen[i].line = lines[j]
RendererTrue ==
  /\ chosen = "ndjson" => job.speaks = "ndjson"
  /\ chosen = "none" => seen = <<>>
  /\ chosen # "legacy" => Shows(ui.screen, seen)
  /\ (chosen = "none" \/ (chosen = "legacy" /\ (job.speaks = "ndjson" \/ job.prog = "apply"))) =>
       ui.label = "none" /\ ~ui.active
  /\ \A i \in DOMAIN erred : erred[i].k = "noise"

\* The end of the stream.
EndTrue ==
  /\ ends = "open" => ui.then # "close"
  /\ ends = "closing" => ui.spin = "stopping" /\ ui.then = "close"
  /\ ends = "closed" => ui.spin = "off"
  /\ ends # "open" => at \in {"finished", "failed"} /\ said = <<>> /\ erred = <<>>

\* The results.
Results(ls) == Cardinality({i \in 1 .. Len(ls) : ls[i].k = "result"})
CountTrue ==
  /\ job.prog = "apply" /\ ends # "closed" /\ at # "failed" => told = ui.count + Results(said)
  /\ job.prog = "apply" /\ ends = "closed" /\ at = "finished" => ui.count \in {0, told}

StreamsIInv ==
  /\ StreamsType /\ UiTrue(ui) /\ ScreenTrue(ui.screen, passed, Final) /\ FramesTrue /\ TextTrue /\ RendererTrue /\ EndTrue /\ CountTrue
-----------------------------------------------------------------------------
(* Places in a list.                                                          *)

\* The members of a set of numbers are ranked from 1 without a gap.
LEMMA RankFacts ==
  ASSUME NEW n \in Nat, NEW S \in SUBSET (1 .. n)
  PROVE  /\ IsFiniteSet(S) /\ Cardinality(S) \in Nat
         /\ \A i \in S : Rank(S, i) \in 1 .. Cardinality(S)
         /\ \A i, k \in S : i < k => Rank(S, i) < Rank(S, k)
         /\ \A i, k \in S : Rank(S, i) = Rank(S, k) => i = k
         /\ \A m \in 1 .. Cardinality(S) : \E i \in S : Rank(S, i) = m
<1>. DEFINE low(i) == {j \in S : j <= i}
            f == [i \in S |-> Rank(S, i)]
<1>1. IsFiniteSet(S) /\ Cardinality(S) \in Nat
  <2>1. IsFiniteSet(1 .. n)  BY FS_Interval
  <2>. QED  BY <2>1, FS_Subset, FS_CardinalityType
<1>0. \A x \in S : x \in Nat  OBVIOUS
<1>2. ASSUME NEW i \in S
      PROVE  IsFiniteSet(low(i)) /\ Rank(S, i) \in 1 .. Cardinality(S)
  BY <1>0, <1>1, FS_Subset, FS_CardinalityType, FS_EmptySet DEF Rank
<1>3. ASSUME NEW i \in S, NEW k \in S, i < k PROVE Rank(S, i) < Rank(S, k)
  <2>0. i \in Nat /\ k \in Nat  BY <1>0
  <2>1. low(i) \in SUBSET low(k) /\ k \in low(k) /\ k \notin low(i)
    <3>1. \A j \in S : j <= i => j <= k  BY <1>0, <1>3, <2>0
    <3>2. k <= k /\ ~(k <= i)  BY <1>3, <2>0
    <3>. QED  BY <3>1, <3>2
  <2>2. IsFiniteSet(low(k)) /\ IsFiniteSet(low(i))
    BY <1>2
  <2>3. Cardinality(low(i)) < Cardinality(low(k))
    <3>1. Cardinality(low(i)) \in Nat /\ Cardinality(low(k)) \in Nat
      BY <2>2, FS_CardinalityType
    <3>2. Cardinality(low(i)) <= Cardinality(low(k)) /\ (Cardinality(low(i)) = Cardinality(low(k)) => low(i) = low(k))
      <4>. HIDE DEF low
      <4>. QED  BY <2>1, <2>2, FS_Subset
    <3>3. low(i) # low(k)
      BY <2>1
    <3>. HIDE DEF low
    <3>. QED  BY <3>1, <3>2, <3>3
  <2>. QED  BY <2>3 DEF Rank
<1>4. \A i, k \in S : Rank(S, i) = Rank(S, k) => i = k
  <2>. SUFFICES ASSUME NEW i \in S, NEW k \in S, Rank(S, i) = Rank(S, k), i # k PROVE FALSE
    OBVIOUS
  <2>1. i < k \/ k < i
    BY <1>0
  <2>2. \A x \in 1 .. Cardinality(S) : x \in Nat
    BY <1>1
  <2>3. Rank(S, i) \in Nat /\ Rank(S, k) \in Nat
    BY <1>2, <2>2
  <2>. QED  BY <1>3, <2>1, <2>3
<1>5. f \in Injection(S, 1 .. Cardinality(S))
  BY <1>2, <1>4 DEF Injection, IsInjective
<1>6. IsFiniteSet(1 .. Cardinality(S)) /\ Cardinality(1 .. Cardinality(S)) = Cardinality(S)
  BY <1>1, FS_Interval
<1>7. f \in Surjection(S, 1 .. Cardinality(S))
  BY <1>5, <1>6, FS_Injection
<1>8. \A m \in 1 .. Cardinality(S) : \E i \in S : Rank(S, i) = m
  BY <1>7 DEF Surjection
<1>. QED  BY <1>1, <1>2, <1>3, <1>4, <1>8

\* A place behind all others is the last, and leaves the others where they are.
LEMMA RankMore ==
  ASSUME NEW n \in Nat, NEW S \in SUBSET (1 .. n)
  PROVE  /\ Cardinality(S \cup {n + 1}) = Cardinality(S) + 1
         /\ Rank(S \cup {n + 1}, n + 1) = Cardinality(S) + 1
         /\ \A i \in S : Rank(S \cup {n + 1}, i) = Rank(S, i)
<1>1. IsFiniteSet(S) /\ \A x \in S : x \in Nat /\ x <= n
  BY RankFacts
<1>2. n + 1 \notin S
  BY <1>1
<1>3. Cardinality(S \cup {n + 1}) = Cardinality(S) + 1
  BY <1>1, <1>2, FS_AddElement
<1>4. {j \in S \cup {n + 1} : j <= n + 1} = S \cup {n + 1}
  <2>1. \A j \in S \cup {n + 1} : j <= n + 1
    BY <1>1
  <2>. QED  BY <2>1
<1>5. \A i \in S : {j \in S \cup {n + 1} : j <= i} = {j \in S : j <= i}
  BY <1>1
<1>. QED  BY <1>3, <1>4, <1>5 DEF Rank

\* What is picked from a list are its entries at those places, in their order.
LEMMA OnlyIs ==
  ASSUME NEW E, NEW ls \in Seq(E), NEW S \in SUBSET (DOMAIN ls)
  PROVE  /\ Only(ls, S) \in Seq(E) /\ Len(Only(ls, S)) = Cardinality(S)
         /\ \A m \in DOMAIN Only(ls, S) : \E i \in S : Rank(S, i) = m /\ Only(ls, S)[m] = ls[i]
         /\ \A i \in S : Rank(S, i) \in DOMAIN Only(ls, S) /\ Only(ls, S)[Rank(S, i)] = ls[i]
<1>. DEFINE spot(m) == CHOOSE i \in S : Rank(S, i) = m
<1>1. Len(ls) \in Nat /\ DOMAIN ls = 1 .. Len(ls) /\ S \in SUBSET (1 .. Len(ls))
  OBVIOUS
<1>2. /\ Cardinality(S) \in Nat
      /\ \A i \in S : Rank(S, i) \in 1 .. Cardinality(S)
      /\ \A i, k \in S : Rank(S, i) = Rank(S, k) => i = k
      /\ \A m \in 1 .. Cardinality(S) : \E i \in S : Rank(S, i) = m
  BY <1>1, RankFacts
<1>3. \A m \in 1 .. Cardinality(S) : spot(m) \in S /\ Rank(S, spot(m)) = m
  BY <1>2
<1>4. \A i \in S : spot(Rank(S, i)) = i
  BY <1>2, <1>3
<1>5. Only(ls, S) = [m \in 1 .. Cardinality(S) |-> ls[spot(m)]]
  BY DEF Only
<1>6. \A m \in 1 .. Cardinality(S) : ls[spot(m)] \in E
  BY <1>1, <1>3
<1>. HIDE DEF spot
<1>7. Only(ls, S) \in Seq(E)
  BY <1>2, <1>5, <1>6, SeqDef
<1>8. DOMAIN Only(ls, S) = 1 .. Cardinality(S)
  BY <1>5
<1>9. Len(Only(ls, S)) = Cardinality(S)
  BY <1>2, <1>7, <1>8
<1>. QED  BY <1>2, <1>3, <1>4, <1>5, <1>7, <1>8, <1>9

LEMMA OnlyAll ==
  ASSUME NEW E, NEW ls \in Seq(E)
  PROVE  Only(ls, DOMAIN ls) = ls
<1>. DEFINE S == DOMAIN ls
<1>1. Len(ls) \in Nat /\ S = 1 .. Len(ls)
  OBVIOUS
<1>2. \A i \in S : Rank(S, i) = i
  <2>. SUFFICES ASSUME NEW i \in S PROVE Rank(S, i) = i
    OBVIOUS
  <2>1. i \in Nat /\ {j \in S : j <= i} = 1 .. i
    BY <1>1
  <2>2. Cardinality(1 .. i) = i
    BY <2>1, FS_Interval
  <2>. QED  BY <2>1, <2>2 DEF Rank
<1>3. Cardinality(S) = Len(ls)
  BY <1>1, FS_Interval
<1>4. Only(ls, S) \in Seq(E) /\ Len(Only(ls, S)) = Len(ls)
  BY <1>3, OnlyIs
<1>5. \A i \in 1 .. Len(ls) : Only(ls, S)[i] = ls[i]
  BY OnlyIs, <1>1, <1>2
<1>. HIDE DEF S
<1>6. Only(ls, S) = ls
  BY <1>4, <1>5, SeqEqual
<1>. QED  BY <1>6 DEF S

-----------------------------------------------------------------------------
(* What a list of lines keeps when its first is read, when more is said, and  *)
(* when its end is lost.                                                      *)

LEMMA TailIs ==
  ASSUME NEW E, NEW ls \in Seq(E), ls # <<>>
  PROVE  /\ Tail(ls) \in Seq(E) /\ Len(Tail(ls)) = Len(ls) - 1 /\ Len(ls) \in Nat \ {0}
         /\ \A i \in 1 .. Len(ls) - 1 : Tail(ls)[i] = ls[i + 1]
         /\ Head(ls) = ls[1] /\ ls[1] \in E
BY HeadTailProperties

LEMMA MoreIs ==
  ASSUME NEW E, NEW a \in Seq(E), NEW b \in Seq(E)
  PROVE  /\ a \o b \in Seq(E) /\ Len(a \o b) = Len(a) + Len(b) /\ Len(a) \in Nat /\ Len(b) \in Nat
         /\ \A i \in 1 .. Len(a) : (a \o b)[i] = a[i]
         /\ \A i \in 1 .. Len(b) : (a \o b)[Len(a) + i] = b[i]
OBVIOUS

LEMMA PrefixIs ==
  ASSUME NEW E, NEW ls \in Seq(E), NEW n \in 0 .. Len(ls)
  PROVE  /\ SubSeq(ls, 1, n) \in Seq(E) /\ Len(SubSeq(ls, 1, n)) = n
         /\ \A i \in 1 .. n : SubSeq(ls, 1, n)[i] = ls[i]
OBVIOUS

LEMMA ResultsTyped == ASSUME NEW ls \in Seq(Lines) PROVE IsFiniteSet({i \in 1 .. Len(ls) : ls[i].k = "result"}) /\ Results(ls) \in Nat
<1>1. IsFiniteSet(1 .. Len(ls))
  BY FS_Interval
<1>2. IsFiniteSet({i \in 1 .. Len(ls) : ls[i].k = "result"})
  BY <1>1, FS_Subset
<1>. QED  BY <1>2, FS_CardinalityType DEF Results

\* Places may be renamed.
LEMMA Shifted ==
  ASSUME NEW S \in SUBSET Int, NEW d \in Int, IsFiniteSet(S)
  PROVE  IsFiniteSet({i + d : i \in S}) /\ Cardinality({i + d : i \in S}) = Cardinality(S)
<1>. DEFINE f == [i \in S |-> i + d]
            T == {i + d : i \in S}
<1>1. f \in Bijection(S, T)
  BY DEF Bijection, Injection, Surjection, IsInjective
<1>. HIDE DEF f, T
<1>2. ExistsBijection(S, T)
  BY <1>1 DEF ExistsBijection
<1>3. IsFiniteSet(T) /\ Cardinality(T) = Cardinality(S)
  BY <1>2, FS_Bijection
<1>. QED  BY <1>3 DEF T

LEMMA ResultsMore ==
  ASSUME NEW a \in Seq(Lines), NEW b \in Seq(Lines)
  PROVE  Results(a \o b) = Results(a) + Results(b)
<1>. DEFINE A == {i \in 1 .. Len(a) : a[i].k = "result"}
            B == {i \in 1 .. Len(b) : b[i].k = "result"}
            C == {i + Len(a) : i \in B}
            D == {i \in 1 .. Len(a \o b) : (a \o b)[i].k = "result"}
<1>1. /\ Len(a \o b) = Len(a) + Len(b) /\ Len(a) \in Nat /\ Len(b) \in Nat
      /\ \A i \in 1 .. Len(a) : (a \o b)[i] = a[i]
      /\ \A i \in 1 .. Len(b) : (a \o b)[Len(a) + i] = b[i]
  BY MoreIs
<1>2. D = A \cup C
  <2>1. \A i \in D : i \in A \cup C
    BY <1>1
  <2>2. \A i \in A : i \in D
    BY <1>1
  <2>3. \A i \in B : i + Len(a) \in D
    BY <1>1
  <2>. QED  BY <2>1, <2>2, <2>3
<1>3. IsFiniteSet(A) /\ IsFiniteSet(B)
  BY ResultsTyped
<1>4. IsFiniteSet(C) /\ Cardinality(C) = Cardinality(B)
  <2>1. B \in SUBSET Int /\ Len(a) \in Int
    BY <1>1
  <2>2. ASSUME NEW S \in SUBSET Int, IsFiniteSet(S)
        PROVE  IsFiniteSet({i + Len(a) : i \in S}) /\ Cardinality({i + Len(a) : i \in S}) = Cardinality(S)
    BY <2>1, <2>2, Shifted
  <2>. HIDE DEF B
  <2>. QED  BY <1>3, <2>1, <2>2
<1>5. A \cap C = {}
  BY <1>1
<1>6. Cardinality(A \cup C) = Cardinality(A) + Cardinality(C)
  <2>. HIDE DEF A, C
  <2>1. Cardinality(A \cap C) = 0
    BY <1>5, FS_EmptySet
  <2>2. Cardinality(A) \in Nat /\ Cardinality(C) \in Nat
    BY <1>3, <1>4, FS_CardinalityType
  <2>3. Cardinality(A \cup C) = Cardinality(A) + Cardinality(C) - Cardinality(A \cap C)
    BY <1>3, <1>4, FS_Union
  <2>. QED  BY <2>1, <2>2, <2>3
<1>. QED  BY <1>2, <1>4, <1>6 DEF Results

LEMMA ResultsOf ==
  ASSUME NEW l \in Lines
  PROVE  Results(<<l>>) = IF l.k = "result" THEN 1 ELSE 0
<1>1. {i \in 1 .. Len(<<l>>) : <<l>>[i].k = "result"} = IF l.k = "result" THEN {1} ELSE {}
  OBVIOUS
<1>. QED  BY <1>1, FS_EmptySet, FS_Singleton DEF Results

LEMMA ResultsTail ==
  ASSUME NEW ls \in Seq(Lines), ls # <<>>
  PROVE  Results(ls) = Results(Tail(ls)) + (IF ls[1].k = "result" THEN 1 ELSE 0)
<1>1. ls = <<ls[1]>> \o Tail(ls) /\ Tail(ls) \in Seq(Lines) /\ ls[1] \in Lines /\ <<ls[1]>> \in Seq(Lines)
  OBVIOUS
<1>2. Results(ls) = Results(<<ls[1]>>) + Results(Tail(ls))
  BY <1>1, ResultsMore
<1>3. Results(<<ls[1]>>) = (IF ls[1].k = "result" THEN 1 ELSE 0) /\ Results(Tail(ls)) \in Nat
  BY <1>1, ResultsOf, ResultsTyped
<1>. QED  BY <1>2, <1>3

\* The step shown as open after a frame.
After(label, l) == IF l.k = "start" THEN l.x ELSE IF l.k \in Ends THEN "none" ELSE label

LEMMA NoneOpenTail ==
  ASSUME NEW ls \in Seq(Lines), ls # <<>>, NEW label, NEW i \in 1 .. Len(ls), NoneOpen(label, ls, i + 1)
  PROVE  NoneOpen(After(label, ls[1]), Tail(ls), i)
<1>. DEFINE t == Tail(ls)
<1>1. Len(ls) \in Nat /\ \A k \in 1 .. Len(ls) - 1 : t[k] = ls[k + 1]
  BY TailIs
<1>. HIDE DEF t
<1>2. \A m \in 2 .. i : m - 1 \in 1 .. i - 1 /\ t[m - 1] = ls[m]
  BY <1>1
<1>3. ASSUME After(label, ls[1]) # "none" PROVE \E m \in 1 .. i - 1 : t[m].k \in Ends
  <2>1. \E m \in 2 .. i : ls[m].k \in Ends
    <3>1. CASE ls[1].k = "start"
      BY <3>1 DEF NoneOpen
    <3>2. CASE ls[1].k # "start"
      BY <1>3, <3>2 DEF After, NoneOpen
    <3>. QED  BY <3>1, <3>2
  <2>. QED  BY <1>2, <2>1
<1>4. ASSUME NEW j \in 1 .. i - 1, t[j].k = "start" PROVE \E m \in j + 1 .. i - 1 : t[m].k \in Ends
  <2>1. j + 1 \in 1 .. (i + 1) - 1 /\ ls[j + 1].k = "start" /\ j \in Nat
    BY <1>1, <1>4
  <2>2. PICK m \in (j + 1) + 1 .. (i + 1) - 1 : ls[m].k \in Ends
    BY <2>1 DEF NoneOpen
  <2>3. m \in 2 .. i /\ m - 1 \in j + 1 .. i - 1
    BY <2>1, <2>2
  <2>. QED  BY <1>2, <2>2, <2>3
<1>. QED  BY <1>3, <1>4 DEF NoneOpen, t

LEMMA StartBeforeTail ==
  ASSUME NEW ls \in Seq(Lines), ls # <<>>, NEW label, NEW i \in 1 .. Len(ls) - 1, StartBefore(label, ls, i + 1)
  PROVE  StartBefore(After(label, ls[1]), Tail(ls), i)
<1>. DEFINE t == Tail(ls)
            x == ls[i + 1].x
<1>1. Len(ls) \in Nat /\ \A k \in 1 .. Len(ls) - 1 : t[k] = ls[k + 1]
  BY TailIs
<1>. HIDE DEF t
<1>2. t[i].x = x
  BY <1>1
<1>3. CASE label = x /\ \A m \in 1 .. i : ls[m].k = "info"
  <2>1. ls[1].k = "info"
    BY <1>3
  <2>2. \A m \in 1 .. i - 1 : t[m].k = "info"
    BY <1>1, <1>3
  <2>. QED  BY <1>2, <1>3, <2>1, <2>2 DEF StartBefore, After, Ends, t
<1>4. ASSUME NEW j \in 1 .. i, ls[j] = Line("start", x), \A m \in j + 1 .. i : ls[m].k = "info"
      PROVE  StartBefore(After(label, ls[1]), t, i)
  <2>1. CASE j = 1
    <3>1. After(label, ls[1]) = x
      <4>1. ls[1].k = "start" /\ ls[1].x = x
        BY <1>4, <2>1 DEF Line
      <4>. QED  BY <4>1 DEF After
    <3>2. \A m \in 1 .. i - 1 : t[m].k = "info"
      <4>. SUFFICES ASSUME NEW m \in 1 .. i - 1 PROVE t[m].k = "info"
        OBVIOUS
      <4>1. m \in 1 .. Len(ls) - 1 /\ m + 1 \in j + 1 .. i
        BY <1>1, <2>1
      <4>. QED  BY <1>1, <1>4, <4>1
    <3>. QED  BY <1>2, <3>1, <3>2 DEF StartBefore
  <2>2. CASE j # 1
    <3>1. j - 1 \in 1 .. i - 1 /\ t[j - 1] = Line("start", t[i].x)
      BY <1>1, <1>2, <1>4, <2>2
    <3>2. \A m \in (j - 1) + 1 .. i - 1 : t[m].k = "info"
      <4>. SUFFICES ASSUME NEW m \in (j - 1) + 1 .. i - 1 PROVE t[m].k = "info"
        OBVIOUS
      <4>1. m \in 1 .. Len(ls) - 1 /\ m + 1 \in j + 1 .. i
        BY <1>1, <2>2
      <4>. QED  BY <1>1, <1>4, <4>1
    <3>. QED  BY <3>1, <3>2 DEF StartBefore
  <2>. QED  BY <2>1, <2>2
<1>5. (i + 1) - 1 = i
  OBVIOUS
<1>. QED  BY <1>3, <1>4, <1>5 DEF StartBefore, t

LEMMA FitsTail ==
  ASSUME NEW ls \in Seq(Lines), ls # <<>>, NEW label, Fits(label, ls)
  PROVE  /\ Fits(After(label, ls[1]), Tail(ls))
         /\ ls[1].k \in Ends => label = ls[1].x /\ label # "none"
         /\ ls[1].k \in Between => label = "none"
         /\ ls[1].k = "start" => ls[1].x # "none"
<1>1. /\ Len(ls) \in Nat \ {0} /\ DOMAIN ls = 1 .. Len(ls) /\ DOMAIN Tail(ls) = 1 .. Len(ls) - 1
      /\ \A k \in 1 .. Len(ls) - 1 : Tail(ls)[k] = ls[k + 1]
  BY TailIs
<1>2. ASSUME NEW i \in DOMAIN Tail(ls)
      PROVE  /\ Tail(ls)[i].k \in Ends => Tail(ls)[i].x # "none" /\ StartBefore(After(label, ls[1]), Tail(ls), i)
             /\ Tail(ls)[i].k \in Between => NoneOpen(After(label, ls[1]), Tail(ls), i)
             /\ Tail(ls)[i].k = "start" => Tail(ls)[i].x # "none"
  BY <1>1, StartBeforeTail, NoneOpenTail DEF Fits
<1>3. 1 \in DOMAIN ls
  BY <1>1
<1>4. 1 .. 1 - 1 = {}
  OBVIOUS
<1>. QED  BY <1>2, <1>3, <1>4 DEF Fits, StartBefore, NoneOpen

LEMMA FitsMore ==
  ASSUME NEW a \in Seq(Lines), NEW b \in Seq(Lines), NEW label,
         Fits(label, a), NoneOpen(label, a, Len(a) + 1), Fits("none", b)
  PROVE  /\ Fits(label, a \o b)
         /\ NoneOpen("none", b, Len(b) + 1) => NoneOpen(label, a \o b, Len(a \o b) + 1)
<1>. DEFINE c == a \o b
            n == Len(a)
<1>1. /\ c \in Seq(Lines) /\ Len(c) = n + Len(b) /\ n \in Nat /\ Len(b) \in Nat
      /\ \A i \in 1 .. n : c[i] = a[i]
      /\ \A i \in 1 .. Len(b) : c[n + i] = b[i]
  BY MoreIs
<1>2. DOMAIN c = 1 .. n + Len(b) /\ DOMAIN a = 1 .. n /\ DOMAIN b = 1 .. Len(b)
  BY <1>1
<1>. HIDE DEF c, n
<1>3. ASSUME NEW i \in 1 .. n + 1, NoneOpen(label, a, i)
      PROVE  NoneOpen(label, c, i)
  <2>1. \A m \in 1 .. i - 1 : m \in 1 .. n /\ c[m] = a[m]
    BY <1>1
  <2>2. ASSUME NEW j \in 1 .. i - 1, c[j].k = "start" PROVE \E m \in j + 1 .. i - 1 : c[m].k \in Ends
    <3>1. PICK m \in j + 1 .. i - 1 : a[m].k \in Ends
      BY <1>3, <2>1, <2>2 DEF NoneOpen
    <3>2. m \in 1 .. i - 1
      BY <1>1
    <3>. QED  BY <2>1, <3>1, <3>2
  <2>. QED  BY <1>3, <2>1, <2>2 DEF NoneOpen
<1>4. ASSUME NEW i \in 1 .. Len(b) + 1, NoneOpen("none", b, i)
      PROVE  NoneOpen(label, c, n + i)
  <2>1. \A m \in 1 .. i - 1 : m \in 1 .. Len(b) /\ n + m \in 1 .. (n + i) - 1 /\ c[n + m] = b[m]
    BY <1>1
  <2>2. \A m \in 1 .. n : m \in 1 .. (n + i) - 1
    BY <1>1
  <2>3. label # "none" => \E m \in 1 .. (n + i) - 1 : c[m].k \in Ends
    BY <1>1, <2>2 DEF NoneOpen, n
  <2>4. ASSUME NEW j \in 1 .. (n + i) - 1, c[j].k = "start"
        PROVE  \E m \in j + 1 .. (n + i) - 1 : c[m].k \in Ends
    <3>1. CASE j \in 1 .. n
      <4>0. c[j] = a[j] /\ j \in Nat /\ n \in Nat /\ (n + 1) - 1 = n
        BY <1>1, <3>1
      <4>1. a[j].k = "start" /\ j \in 1 .. (n + 1) - 1
        BY <2>4, <3>1, <4>0
      <4>2. PICK m \in j + 1 .. (n + 1) - 1 : a[m].k \in Ends
        BY <4>1 DEF NoneOpen, n
      <4>3. m \in 1 .. n /\ m \in j + 1 .. (n + i) - 1
        BY <1>1, <3>1
      <4>. QED  BY <1>1, <4>2, <4>3
    <3>2. CASE j \notin 1 .. n
      <4>1. j - n \in 1 .. i - 1 /\ n + (j - n) = j
        BY <1>1, <3>2
      <4>2. b[j - n].k = "start"
        BY <2>1, <2>4, <4>1
      <4>3. PICK m \in (j - n) + 1 .. i - 1 : b[m].k \in Ends
        BY <1>4, <4>1, <4>2 DEF NoneOpen
      <4>4. n \in Int /\ j \in Int /\ i \in Int /\ m \in Int /\ 1 <= j - n /\ (j - n) + 1 <= m /\ m <= i - 1
        BY <1>1, <4>1
      <4>5. m \in 1 .. i - 1 /\ n + m \in j + 1 .. (n + i) - 1
        BY <4>4
      <4>. QED  BY <2>1, <4>3, <4>5
    <3>. QED  BY <3>1, <3>2
  <2>. QED  BY <2>3, <2>4 DEF NoneOpen
<1>5. ASSUME NEW i \in 1 .. n, StartBefore(label, a, i) PROVE StartBefore(label, c, i)
  <2>1. \A m \in 1 .. i : m \in 1 .. n /\ c[m] = a[m]
    BY <1>1
  <2>2. c[i] = a[i] /\ \A m \in 1 .. i - 1 : m \in 1 .. i
    BY <1>1
  <2>3. CASE label = a[i].x /\ \A m \in 1 .. i - 1 : a[m].k = "info"
    BY <2>1, <2>2, <2>3 DEF StartBefore
  <2>4. ASSUME NEW j \in 1 .. i - 1, a[j] = Line("start", a[i].x), \A m \in j + 1 .. i - 1 : a[m].k = "info"
        PROVE  StartBefore(label, c, i)
    <3>1. \A m \in j + 1 .. i - 1 : m \in 1 .. i
      BY <1>1
    <3>. QED  BY <2>1, <2>2, <2>4, <3>1 DEF StartBefore
  <2>. QED  BY <1>5, <2>3, <2>4 DEF StartBefore
<1>6. ASSUME NEW i \in 1 .. Len(b), StartBefore("none", b, i), b[i].x # "none" PROVE StartBefore(label, c, n + i)
  <2>1. PICK j \in 1 .. i - 1 : b[j] = Line("start", b[i].x) /\ \A m \in j + 1 .. i - 1 : b[m].k = "info"
    BY <1>6 DEF StartBefore
  <2>2. n + j \in 1 .. (n + i) - 1 /\ c[n + j] = Line("start", c[n + i].x)
    BY <1>1, <2>1
  <2>3. ASSUME NEW m \in (n + j) + 1 .. (n + i) - 1 PROVE c[m].k = "info"
    <3>1. m - n \in j + 1 .. i - 1 /\ m - n \in 1 .. Len(b) /\ n + (m - n) = m
      BY <1>1
    <3>. QED  BY <1>1, <2>1, <3>1
  <2>. QED  BY <2>2, <2>3 DEF StartBefore
<1>7. Fits(label, c)
  <2>. SUFFICES ASSUME NEW i \in 1 .. n + Len(b)
                PROVE  /\ c[i].k \in Ends => c[i].x # "none" /\ StartBefore(label, c, i)
                       /\ c[i].k \in Between => NoneOpen(label, c, i)
                       /\ c[i].k = "start" => c[i].x # "none"
    BY <1>2 DEF Fits
  <2>1. CASE i \in 1 .. n
    BY <1>1, <2>1, <1>2, <1>3, <1>5 DEF Fits
  <2>2. CASE i \notin 1 .. n
    <3>1. i - n \in 1 .. Len(b) /\ i - n \in 1 .. Len(b) + 1 /\ n + (i - n) = i
      BY <1>1, <2>2
    <3>2. c[i] = b[i - n]
      BY <1>1, <3>1
    <3>3. /\ b[i - n].k \in Ends => b[i - n].x # "none" /\ StartBefore("none", b, i - n)
          /\ b[i - n].k \in Between => NoneOpen("none", b, i - n)
          /\ b[i - n].k = "start" => b[i - n].x # "none"
      BY <1>2, <3>1 DEF Fits
    <3>4. b[i - n].k \in Ends => StartBefore(label, c, n + (i - n))
      BY <1>6, <3>1, <3>3
    <3>5. b[i - n].k \in Between => NoneOpen(label, c, n + (i - n))
      BY <1>4, <3>1, <3>3
    <3>. QED  BY <3>1, <3>2, <3>3, <3>4, <3>5
  <2>. QED  BY <2>1, <2>2
<1>8. NoneOpen("none", b, Len(b) + 1) => NoneOpen(label, c, Len(c) + 1)
  BY <1>1, <1>4
<1>. QED  BY <1>7, <1>8 DEF c

LEMMA FitsPrefix ==
  ASSUME NEW ls \in Seq(Lines), NEW n \in 0 .. Len(ls), NEW label, Fits(label, ls)
  PROVE  Fits(label, SubSeq(ls, 1, n))
<1>. DEFINE p == SubSeq(ls, 1, n)
<1>1. DOMAIN p = 1 .. n /\ DOMAIN ls = 1 .. Len(ls) /\ n \in Nat /\ \A i \in 1 .. n : i \in 1 .. Len(ls) /\ p[i] = ls[i]
  BY PrefixIs
<1>. HIDE DEF p
<1>2. ASSUME NEW i \in 1 .. n, NoneOpen(label, ls, i) PROVE NoneOpen(label, p, i)
  BY <1>1, <1>2 DEF NoneOpen
<1>3. ASSUME NEW i \in 1 .. n, StartBefore(label, ls, i) PROVE StartBefore(label, p, i)
  BY <1>1, <1>3 DEF StartBefore
<1>. QED  BY <1>1, <1>2, <1>3 DEF Fits, p

\* Of the text.
LEMMA EarnedTail ==
  ASSUME NEW ls \in Seq(Lines), ls # <<>>, NEW label, NEW next, NEW went, NEW i \in 1 .. Len(ls),
         next \in {label, "none"} \/ (ls[1].k = "start" /\ ls[1].x \in Banners /\ next = ls[1].x),
         Earned(label, ls, i + 1, went)
  PROVE  Earned(next, Tail(ls), i, went)
<1>1. Len(ls) \in Nat /\ \A k \in 1 .. Len(ls) - 1 : Tail(ls)[k] = ls[k + 1]
  BY TailIs
<1>2. 1 \in 1 .. (i + 1) - 1
  OBVIOUS
<1>3. next # "none" => next \in went
  BY <1>2 DEF Earned
<1>4. ASSUME NEW j \in 1 .. i - 1, Tail(ls)[j].k = "start", Tail(ls)[j].x \in Banners PROVE Tail(ls)[j].x \in went
  BY <1>1, <1>4 DEF Earned
<1>. QED  BY <1>3, <1>4 DEF Earned

LEMMA TextFitsTail ==
  ASSUME NEW ls \in Seq(Lines), ls # <<>>, NEW label, NEW next, NEW went,
         next \in {label, "none"} \/ (ls[1].k = "start" /\ ls[1].x \in Banners /\ next = ls[1].x),
         TextFits(label, ls, went)
  PROVE  /\ TextFits(next, Tail(ls), went)
         /\ ls[1].k \in {"start", "built", "deployed"} /\ label # "none" => label \in went
<1>1. /\ Len(ls) \in Nat \ {0} /\ DOMAIN ls = 1 .. Len(ls) /\ DOMAIN Tail(ls) = 1 .. Len(ls) - 1
      /\ \A k \in 1 .. Len(ls) - 1 : Tail(ls)[k] = ls[k + 1]
  BY TailIs
<1>2. ASSUME NEW i \in DOMAIN Tail(ls), Tail(ls)[i].k \in {"start", "built", "deployed"}
      PROVE  Earned(next, Tail(ls), i, went)
  BY <1>1, <1>2, EarnedTail DEF TextFits
<1>3. 1 \in DOMAIN ls
  BY <1>1
<1>. QED  BY <1>2, <1>3 DEF TextFits, Earned

LEMMA TextFitsMore ==
  ASSUME NEW a \in Seq(Lines), NEW b \in Seq(Lines), NEW label, NEW went, NEW more, went \subseteq more,
         TextFits(label, a, went), Earned(label, a, Len(a) + 1, went), TextFits("none", b, more)
  PROVE  /\ TextFits(label, a \o b, more)
         /\ Earned("none", b, Len(b) + 1, more) => Earned(label, a \o b, Len(a \o b) + 1, more)
<1>. DEFINE c == a \o b
            n == Len(a)
<1>1. /\ c \in Seq(Lines) /\ Len(c) = n + Len(b) /\ n \in Nat /\ Len(b) \in Nat
      /\ \A i \in 1 .. n : c[i] = a[i]
      /\ \A i \in 1 .. Len(b) : c[n + i] = b[i]
  BY MoreIs
<1>2. DOMAIN c = 1 .. n + Len(b) /\ DOMAIN a = 1 .. n /\ DOMAIN b = 1 .. Len(b)
  BY <1>1
<1>3. Earned(label, a, n + 1, went)
  BY DEF n
<1>. HIDE DEF c, n
<1>4. ASSUME NEW i \in 1 .. Len(b) + 1, Earned("none", b, i, more) PROVE Earned(label, c, n + i, more)
  <2>. SUFFICES ASSUME NEW j \in 1 .. (n + i) - 1, c[j].k = "start", c[j].x \in Banners PROVE c[j].x \in more
    BY <1>3 DEF Earned
  <2>1. CASE j \in 1 .. n
    BY <1>1, <2>1, <1>3 DEF Earned
  <2>2. CASE j \notin 1 .. n
    <3>1. j - n \in 1 .. i - 1 /\ j - n \in 1 .. Len(b) /\ n + (j - n) = j
      BY <1>1, <2>2
    <3>2. c[j] = b[j - n]
      BY <1>1, <3>1
    <3>. QED  BY <1>4, <3>1, <3>2 DEF Earned
  <2>. QED  BY <2>1, <2>2
<1>5. TextFits(label, c, more)
  <2>. SUFFICES ASSUME NEW i \in 1 .. n + Len(b), c[i].k \in {"start", "built", "deployed"}
                PROVE  Earned(label, c, i, more)
    BY <1>2 DEF TextFits
  <2>1. CASE i \in 1 .. n
    BY <1>1, <2>1, <1>2 DEF TextFits, Earned
  <2>2. CASE i \notin 1 .. n
    <3>1. i - n \in 1 .. Len(b) /\ i - n \in 1 .. Len(b) + 1 /\ n + (i - n) = i
      BY <1>1, <2>2
    <3>2. Earned("none", b, i - n, more)
      BY <1>1, <1>2, <3>1 DEF TextFits
    <3>3. Earned(label, c, n + (i - n), more)
      BY <1>4, <3>1, <3>2
    <3>. QED  BY <3>1, <3>3
  <2>. QED  BY <2>1, <2>2
<1>6. Earned("none", b, Len(b) + 1, more) => Earned(label, c, Len(c) + 1, more)
  BY <1>1, <1>4
<1>. QED  BY <1>5, <1>6 DEF c

LEMMA TextFitsPrefix ==
  ASSUME NEW ls \in Seq(Lines), NEW n \in 0 .. Len(ls), NEW label, NEW went, TextFits(label, ls, went)
  PROVE  TextFits(label, SubSeq(ls, 1, n), went)
<1>. DEFINE p == SubSeq(ls, 1, n)
<1>1. DOMAIN p = 1 .. n /\ DOMAIN ls = 1 .. Len(ls) /\ n \in Nat /\ \A i \in 1 .. n : i \in 1 .. Len(ls) /\ p[i] = ls[i]
  BY PrefixIs
<1>. HIDE DEF p
<1>2. ASSUME NEW i \in 1 .. n, Earned(label, ls, i, went) PROVE Earned(label, p, i, went)
  BY <1>1, <1>2 DEF Earned
<1>. QED  BY <1>1, <1>2 DEF TextFits, p

\* What a reporter of text leaves of a report fits where all of it does.
LEMMA TextFitsOnly ==
  ASSUME NEW ls \in Seq(Lines), NEW S \in SUBSET (DOMAIN ls), NEW went, TextFits("none", ls, went)
  PROVE  /\ TextFits("none", Only(ls, S), went)
         /\ Earned("none", ls, Len(ls) + 1, went) => Earned("none", Only(ls, S), Len(Only(ls, S)) + 1, went)
<1>. DEFINE o == Only(ls, S)
<1>1. /\ o \in Seq(Lines) /\ DOMAIN o = 1 .. Len(o) /\ Len(o) \in Nat
      /\ \A m \in DOMAIN o : \E i \in S : Rank(S, i) = m /\ o[m] = ls[i]
  BY OnlyIs
<1>2. Len(ls) \in Nat /\ DOMAIN ls = 1 .. Len(ls) /\ S \in SUBSET (1 .. Len(ls)) /\ \A i \in S : i \in Nat
  OBVIOUS
<1>3. \A i, k \in S : Rank(S, i) < Rank(S, k) => i < k
  <2>1. /\ \A i, k \in S : i < k => Rank(S, i) < Rank(S, k)
        /\ \A i \in S : Rank(S, i) \in 1 .. Cardinality(S)
        /\ Cardinality(S) \in Nat
    BY <1>2, RankFacts
  <2>2. \A x \in 1 .. Cardinality(S) : x \in Nat
    BY <2>1
  <2>. SUFFICES ASSUME NEW i \in S, NEW k \in S, Rank(S, i) < Rank(S, k), ~(i < k) PROVE FALSE
    OBVIOUS
  <2>3. Rank(S, i) \in Nat /\ Rank(S, k) \in Nat
    BY <2>1, <2>2
  <2>4. k < i \/ k = i
    BY <1>2
  <2>5. Rank(S, k) < Rank(S, i) \/ Rank(S, k) = Rank(S, i)
    BY <2>1, <2>4
  <2>. QED  BY <2>3, <2>5
<1>. HIDE DEF o
<1>4. ASSUME NEW m \in DOMAIN o, o[m].k \in {"start", "built", "deployed"} PROVE Earned("none", o, m, went)
  <2>1. PICK i \in S : Rank(S, i) = m /\ o[m] = ls[i]
    BY <1>1
  <2>2. Earned("none", ls, i, went)
    BY <1>2, <1>4, <2>1 DEF TextFits
  <2>3. ASSUME NEW j \in 1 .. m - 1, o[j].k = "start", o[j].x \in Banners PROVE o[j].x \in went
    <3>1. j \in DOMAIN o /\ j < m
      BY <1>1
    <3>2. PICK h \in S : Rank(S, h) = j /\ o[j] = ls[h]
      BY <1>1, <3>1
    <3>3. h \in 1 .. i - 1
      BY <1>2, <1>3, <2>1, <3>1, <3>2
    <3>. QED  BY <2>2, <2>3, <3>2, <3>3 DEF Earned
  <2>. QED  BY <2>3 DEF Earned
<1>5. ASSUME Earned("none", ls, Len(ls) + 1, went) PROVE Earned("none", o, Len(o) + 1, went)
  BY <1>1, <1>2, <1>5 DEF Earned
<1>. QED  BY <1>4, <1>5 DEF TextFits, o

-----------------------------------------------------------------------------
(* The terminal, part by part.                                                *)

\* All but what a helper says it changes is as it was.
Same(u, v, F) == \A f \in {"active", "label", "tail", "built", "spin", "then", "painted", "smeared", "count", "screen"} \ F : v[f] = u[f]

LEMMA ShowIs ==
  ASSUME NEW u \in UiRecord, NEW mark \in Marks, NEW l \in [k : Kinds, x : Shown]
  PROVE  /\ Show(u, mark, l) \in UiRecord
         /\ Same(u, Show(u, mark, l), {"screen", "smeared"})
         /\ Show(u, mark, l).screen = Append(u.screen, [mark |-> mark, line |-> l])
         /\ Show(u, mark, l).smeared = (u.smeared \/ u.painted)
<1>. DEFINE e == [mark |-> mark, line |-> l]
            s == Append(u.screen, e)
<1>1. u.screen \in Seq(Entries) /\ u.smeared \in BOOLEAN /\ u.painted \in BOOLEAN
  BY DEF UiRecord
<1>2. e \in Entries
  BY DEF Entries
<1>. HIDE DEF e
<1>3. s \in Seq(Entries)
  BY <1>1, <1>2
<1>4. Show(u, mark, l) = [u EXCEPT !.screen = s, !.smeared = (u.smeared \/ u.painted)]
  BY DEF Show, e
<1>. HIDE DEF s
<1>5. [u EXCEPT !.screen = s, !.smeared = (u.smeared \/ u.painted)] \in UiRecord
  BY <1>1, <1>3 DEF UiRecord
<1>. QED  BY <1>1, <1>4, <1>5 DEF Same, UiRecord, s, e

LEMMA PaintedIs ==
  ASSUME NEW u \in UiRecord
  PROVE  /\ Painted(u) \in UiRecord /\ Same(u, Painted(u), {"painted"})
         /\ Painted(u).painted = (u.painted \/ (u.active /\ u.label # "none"))
BY DEF Painted, UiRecord, Same

LEMMA ClearedIs ==
  ASSUME NEW u \in UiRecord
  PROVE  Cleared(u) \in UiRecord /\ Same(u, Cleared(u), {"painted"}) /\ Cleared(u).painted = FALSE
BY DEF Cleared, UiRecord, Same

LEMMA NoStepIs ==
  ASSUME NEW u \in UiRecord
  PROVE  NoStep(u) \in UiRecord /\ Same(u, NoStep(u), {"label", "tail"}) /\ NoStep(u).label = "none"
<1>. DEFINE t == <<>>
<1>1. t \in Seq(Lines)
  OBVIOUS
<1>2. NoStep(u) = [u EXCEPT !.label = "none", !.tail = t]
  BY DEF NoStep
<1>. HIDE DEF t
<1>3. [u EXCEPT !.label = "none", !.tail = t] \in UiRecord
  BY <1>1 DEF UiRecord, Texts
<1>. QED  BY <1>2, <1>3 DEF UiRecord, Same

LEMMA StartSpinnerIs ==
  ASSUME NEW u \in UiRecord
  PROVE  /\ StartSpinner(u) \in UiRecord /\ Same(u, StartSpinner(u), {"active", "spin"})
         /\ StartSpinner(u).active /\ StartSpinner(u).spin = (IF u.active THEN u.spin ELSE "on")
BY DEF StartSpinner, UiRecord, Same

LEMMA StopSpinnerIs ==
  ASSUME NEW u \in UiRecord, NEW what \in {"built", "deployed", "close"}
  PROVE  /\ StopSpinner(u, what) \in UiRecord /\ Same(u, StopSpinner(u, what), {"spin", "then"})
         /\ StopSpinner(u, what).spin = "stopping" /\ StopSpinner(u, what).then = what
BY DEF StopSpinner, UiRecord, Same

LEMMA PushTailIs ==
  ASSUME NEW u \in UiRecord, NEW l \in Lines
  PROVE  /\ PushTail(u, l) \in UiRecord /\ Same(u, PushTail(u, l), {"painted", "tail"})
         /\ PushTail(u, l).painted = (u.painted \/ (u.active /\ u.label # "none"))
<1>. DEFINE t == Append(u.tail, l)
            w == [u EXCEPT !.tail = t]
<1>0. t \in Seq(Lines)
  BY DEF UiRecord
<1>2. PushTail(u, l) = Painted(w)
  BY DEF PushTail
<1>. HIDE DEF t
<1>1. w \in UiRecord /\ Same(u, w, {"tail"})
  BY <1>0 DEF UiRecord, Same
<1>. HIDE DEF w
<1>3. /\ Painted(w) \in UiRecord /\ Same(w, Painted(w), {"painted"})
      /\ Painted(w).painted = (w.painted \/ (w.active /\ w.label # "none"))
  BY <1>1, PaintedIs
<1>. QED  BY <1>1, <1>2, <1>3 DEF Same

LEMMA CommitOpenIs ==
  ASSUME NEW u \in UiRecord, UiTrue(u)
  PROVE  /\ CommitOpen(u) \in UiRecord /\ Same(u, CommitOpen(u), {"label", "tail", "painted", "screen"})
         /\ CommitOpen(u).label = "none" /\ CommitOpen(u).painted = FALSE
         /\ u.label = "none" => CommitOpen(u) = u
         /\ u.label # "none" =>
              CommitOpen(u).screen = Append(u.screen, [mark |-> "ok", line |-> Line("ok", u.label)])
<1>1. CASE u.label = "none"
  BY <1>1 DEF CommitOpen, UiTrue, UiRecord, Same
<1>2. CASE u.label # "none"
  <2>. DEFINE c == Cleared(u)
              w == Show(c, "ok", Line("ok", u.label))
  <2>1. c \in UiRecord /\ Same(u, c, {"painted"}) /\ c.painted = FALSE
    BY ClearedIs
  <2>2. Line("ok", u.label) \in [k : Kinds, x : Shown]
    <3>1. u.label \in Shown
      BY DEF UiRecord, Shown
    <3>. QED  BY <3>1 DEF Line, Kinds
  <2>. HIDE DEF c
  <2>3. /\ w \in UiRecord /\ Same(c, w, {"screen", "smeared"})
        /\ w.screen = Append(c.screen, [mark |-> "ok", line |-> Line("ok", u.label)])
        /\ w.smeared = (c.smeared \/ c.painted)
    BY <2>1, <2>2, ShowIs DEF Marks
  <2>4. CommitOpen(u) = NoStep(w)
    BY <1>2 DEF CommitOpen, c
  <2>. HIDE DEF w
  <2>5. NoStep(w) \in UiRecord /\ Same(w, NoStep(w), {"label", "tail"}) /\ NoStep(w).label = "none"
    BY <2>3, NoStepIs
  <2>6. ~u.smeared /\ c.smeared = u.smeared /\ c.screen = u.screen
    BY <2>1 DEF UiTrue, Same
  <2>7. Same(u, NoStep(w), {"label", "tail", "painted", "screen"})
    <3>1. \A f \in {"active", "built", "spin", "then", "count"} : NoStep(w)[f] = u[f]
      BY <2>1, <2>3, <2>5 DEF Same
    <3>2. NoStep(w).smeared = u.smeared
      BY <2>5, <2>1, <2>3, <2>6 DEF Same, UiRecord
    <3>. QED  BY <3>1, <3>2 DEF Same
  <2>8. NoStep(w).painted = FALSE /\ NoStep(w).screen = w.screen
    BY <2>1, <2>3, <2>5 DEF Same
  <2>. QED  BY <1>2, <2>3, <2>4, <2>5, <2>6, <2>7, <2>8
<1>. QED  BY <1>1, <1>2

-----------------------------------------------------------------------------
(* What a line does to the terminal.                                          *)

\* It is shown below the rest, as what it is, or nothing is.
Adds(u, v, l) ==
  \/ v.screen = u.screen /\ l.k \notin Verdict
  \/ \E e \in Entries :
       /\ v.screen = Append(u.screen, e) /\ e.mark # "complete"
       /\ e.mark = "ok" => l.k = "ok" /\ e.line = l
       /\ l.k \in Verdict => e.mark \in VerdictMarks /\ e.line = l
       /\ l.k \notin Verdict => e.mark \notin VerdictMarks
\* The terminal is in order, and the renderer reads on.
Orderly(v) == v \in UiRecord /\ UiTrue(v) /\ v.then # "close"

LEMMA LinesShown == \A l \in Lines : l \in [k : Kinds, x : Shown]
BY DEF Lines, Shown

\* A line shown on a terminal with nothing painted on it.
LEMMA ShowSteps ==
  ASSUME NEW u \in UiRecord, Orderly(u), ~u.painted, NEW mark \in Marks \ {"complete"}, NEW l \in Lines,
         mark = "ok" => l.k = "ok", mark \in VerdictMarks <=> l.k \in Verdict
  PROVE  /\ Orderly(Show(u, mark, l)) /\ Same(u, Show(u, mark, l), {"screen"}) /\ Adds(u, Show(u, mark, l), l)
<1>. DEFINE v == Show(u, mark, l)
            e == [mark |-> mark, line |-> l]
<1>1. /\ v \in UiRecord /\ Same(u, v, {"screen", "smeared"}) /\ v.screen = Append(u.screen, e)
      /\ v.smeared = (u.smeared \/ u.painted)
  BY LinesShown, ShowIs
<1>2. e \in Entries /\ e.mark = mark /\ e.line = l
  BY LinesShown DEF Entries
<1>. HIDE DEF v, e
<1>3. ~v.smeared /\ ~u.smeared
  BY <1>1 DEF Orderly, UiTrue
<1>4. /\ v.active = u.active /\ v.label = u.label /\ v.spin = u.spin /\ v.then = u.then /\ v.painted = u.painted
  BY <1>1 DEF Same
<1>5. Orderly(v)
  BY <1>1, <1>3, <1>4 DEF Orderly, UiTrue
<1>6. Adds(u, v, l)
  BY <1>1, <1>2 DEF Adds
<1>7. v.smeared = u.smeared
  BY <1>1, <1>3 DEF UiRecord
<1>8. Same(u, v, {"screen"})
  BY <1>1, <1>7 DEF Same
<1>. QED  BY <1>5, <1>6, <1>8 DEF v

\* ... and on any terminal that is cleared first when its spinner runs.
LEMMA ShowCleared ==
  ASSUME NEW u \in UiRecord, Orderly(u), NEW mark \in Marks \ {"complete"}, NEW l \in Lines,
         mark = "ok" => l.k = "ok", mark \in VerdictMarks <=> l.k \in Verdict,
         NEW c, c = IF u.active THEN Cleared(u) ELSE u
  PROVE  /\ Orderly(Show(c, mark, l)) /\ Same(u, Show(c, mark, l), {"screen", "painted"}) /\ Adds(u, Show(c, mark, l), l)
<1>1. Cleared(u) \in UiRecord /\ Same(u, Cleared(u), {"painted"}) /\ Cleared(u).painted = FALSE
  BY ClearedIs
<1>2. c \in UiRecord /\ Same(u, c, {"painted"}) /\ ~c.painted
  BY <1>1 DEF Same, Orderly, UiTrue
<1>3. c.active = u.active /\ c.label = u.label /\ c.spin = u.spin /\ c.then = u.then /\ c.smeared = u.smeared
  BY <1>2 DEF Same
<1>4. Orderly(c)
  BY <1>2, <1>3 DEF Orderly, UiTrue
<1>5. Orderly(Show(c, mark, l)) /\ Same(c, Show(c, mark, l), {"screen"}) /\ Adds(c, Show(c, mark, l), l)
  BY <1>2, <1>4, ShowSteps
<1>6. Same(u, Show(c, mark, l), {"screen", "painted"})
  BY <1>2, <1>5 DEF Same
<1>7. c.screen = u.screen
  BY <1>2 DEF Same
<1>. QED  BY <1>5, <1>6, <1>7 DEF Adds

LEMMA PushTailSteps ==
  ASSUME NEW u \in UiRecord, Orderly(u), NEW l \in Lines, l.k \notin Verdict
  PROVE  /\ Orderly(PushTail(u, l)) /\ Same(u, PushTail(u, l), {"painted", "tail"}) /\ Adds(u, PushTail(u, l), l)
<1>. DEFINE v == PushTail(u, l)
<1>1. v \in UiRecord /\ Same(u, v, {"painted", "tail"}) /\ v.painted = (u.painted \/ (u.active /\ u.label # "none"))
  BY PushTailIs
<1>. HIDE DEF v
<1>2. /\ v.active = u.active /\ v.label = u.label /\ v.spin = u.spin /\ v.then = u.then /\ v.smeared = u.smeared
      /\ v.screen = u.screen
  BY <1>1 DEF Same
<1>3. Orderly(v)
  BY <1>1, <1>2 DEF Orderly, UiTrue
<1>. QED  BY <1>1, <1>2, <1>3 DEF Adds, v

\* The spinner starts on a step.
LEMMA StartSteps ==
  ASSUME NEW u \in UiRecord, Orderly(u), ~u.painted, u.spin # "stopping", NEW x \in Texts, x # "none",
         NEW v, v \in {Painted([StartSpinner(u) EXCEPT !.label = x, !.tail = <<>>]), Painted([StartSpinner(u) EXCEPT !.label = x])}
  PROVE  Orderly(v) /\ v.label = x /\ v.screen = u.screen /\ v.count = u.count /\ v.spin # "stopping"
<1>. DEFINE s == StartSpinner(u)
            t == <<>>
            w == [s EXCEPT !.label = x, !.tail = t]
            z == [s EXCEPT !.label = x]
<1>1. /\ s \in UiRecord /\ Same(u, s, {"active", "spin"})
      /\ s.active /\ s.spin = (IF u.active THEN u.spin ELSE "on")
  BY StartSpinnerIs
<1>2. t \in Seq(Lines)
  OBVIOUS
<1>3. v \in {Painted(w), Painted(z)}
  OBVIOUS
<1>. HIDE DEF s, t
<1>4. w \in UiRecord /\ Same(s, w, {"label", "tail"}) /\ w.label = x
  BY <1>1, <1>2 DEF UiRecord, Same
<1>5. z \in UiRecord /\ Same(s, z, {"label", "tail"}) /\ z.label = x
  BY <1>1, <1>2 DEF UiRecord, Same
<1>. HIDE DEF w, z
<1>6. PICK y \in UiRecord : v = Painted(y) /\ Same(s, y, {"label", "tail"}) /\ y.label = x
  BY <1>3, <1>4, <1>5
<1>7. v \in UiRecord /\ Same(y, v, {"painted"}) /\ v.painted = (y.painted \/ (y.active /\ y.label # "none"))
  BY <1>6, PaintedIs
<1>8. /\ v.active = s.active /\ v.label = x /\ v.spin = s.spin /\ v.then = u.then /\ v.smeared = u.smeared
      /\ v.screen = u.screen /\ v.count = u.count
  BY <1>1, <1>6, <1>7 DEF Same
<1>9. v.spin # "stopping" /\ (v.active = (v.spin # "off"))
  BY <1>1, <1>8 DEF Orderly, UiTrue
<1>. QED  BY <1>1, <1>7, <1>8, <1>9 DEF Orderly, UiTrue

\* What a renderer leaves behind a line l: the terminal in order, the step l leaves
\* open, the result counted.
Counts(u, v, l) == v.count = IF l.k = "result" THEN u.count + 1 ELSE u.count

LEMMA StopSteps ==
  ASSUME NEW u \in UiRecord, Orderly(u), u.active, u.label = "none", NEW what \in {"built", "deployed"}
  PROVE  Orderly(StopSpinner(u, what)) /\ Same(u, StopSpinner(u, what), {"spin", "then"})
<1>. DEFINE v == StopSpinner(u, what)
<1>1. v \in UiRecord /\ Same(u, v, {"spin", "then"}) /\ v.spin = "stopping" /\ v.then = what
  BY StopSpinnerIs
<1>. HIDE DEF v
<1>2. v.active = u.active /\ v.label = u.label /\ v.painted = u.painted /\ v.smeared = u.smeared
  BY <1>1 DEF Same
<1>. QED  BY <1>1, <1>2 DEF Orderly, UiTrue, v

LEMMA BuiltSteps ==
  ASSUME NEW u \in UiRecord, Orderly(u)
  PROVE  LET v == [u EXCEPT !.built = TRUE] IN Orderly(v) /\ Same(u, v, {"built"})
<1>. DEFINE v == [u EXCEPT !.built = TRUE]
<1>1. v \in UiRecord /\ Same(u, v, {"built"})
  BY DEF UiRecord, Same
<1>. HIDE DEF v
<1>2. v.active = u.active /\ v.label = u.label /\ v.painted = u.painted /\ v.smeared = u.smeared /\ v.spin = u.spin
      /\ v.then = u.then
  BY <1>1 DEF Same
<1>. QED  BY <1>1, <1>2 DEF Orderly, UiTrue, v

\* A frame that fits the step shown as open leaves open what it says.
LEMMA FrameSteps ==
  ASSUME NEW u \in UiRecord, Orderly(u), u.spin # "stopping", NEW l \in Lines,
         l.k \in Ends => u.label = l.x /\ u.label # "none",
         l.k \in Between => u.label = "none",
         l.k = "start" => l.x # "none"
  PROVE  LET v == RenderFrame(u, l)
         IN  Orderly(v) /\ v.label = After(u.label, l) /\ Counts(u, v, l) /\ Adds(u, v, l)
<1>. DEFINE v == RenderFrame(u, l)
<1>. SUFFICES Orderly(v) /\ v.label = After(u.label, l) /\ Counts(u, v, l) /\ Adds(u, v, l)
  OBVIOUS
<1>. HIDE DEF v
<1>0. l.k \in Kinds /\ l.x \in Texts
  BY DEF Lines
<1>1. CASE l.k = "hello"
  <2>1. v = u
    BY <1>1 DEF v, RenderFrame
  <2>. QED  BY <1>1, <2>1 DEF After, Ends, Counts, Adds, Verdict
<1>2. CASE l.k = "start"
  <2>1. u.label = "none" /\ ~u.painted
    BY <1>2 DEF Between, Orderly, UiTrue
  <2>2. CommitOpen(u) = u
    BY <2>1 DEF CommitOpen
  <2>3. v = Painted([StartSpinner(u) EXCEPT !.label = l.x, !.tail = <<>>])
    BY <1>2, <2>2 DEF v, RenderFrame, StepStart
  <2>4. Orderly(v) /\ v.label = l.x /\ v.screen = u.screen /\ v.count = u.count
    BY <1>0, <1>2, <2>1, <2>3, StartSteps
  <2>. QED  BY <1>2, <2>4 DEF After, Ends, Counts, Adds, Verdict
<1>3. CASE l.k \in {"ok", "fail"}
  <2>. DEFINE c == Cleared(u)
              w == Show(c, l.k, l)
  <2>1. u.label = l.x /\ u.label # "none"
    BY <1>3 DEF Ends
  <2>2. v = NoStep(w)
    BY <1>3, <2>1 DEF v, RenderFrame, StepEnd
  <2>3. c \in UiRecord /\ Same(u, c, {"painted"}) /\ ~c.painted
    BY ClearedIs
  <2>4. Orderly(c) /\ c.screen = u.screen /\ c.count = u.count
    BY <2>3 DEF Same, Orderly, UiTrue
  <2>5. l.k \in Marks \ {"complete"} /\ (l.k = "ok" => l.k = "ok") /\ (l.k \in VerdictMarks <=> l.k \in Verdict)
    BY <1>3 DEF Marks, VerdictMarks, Verdict
  <2>. HIDE DEF c
  <2>6. Orderly(w) /\ Same(c, w, {"screen"}) /\ Adds(c, w, l)
    BY <2>3, <2>4, <2>5, ShowSteps
  <2>. HIDE DEF w
  <2>7. w \in UiRecord /\ NoStep(w) \in UiRecord /\ Same(w, NoStep(w), {"label", "tail"}) /\ NoStep(w).label = "none"
    BY <2>6, NoStepIs DEF Orderly
  <2>8. /\ v.active = w.active /\ v.label = "none" /\ v.spin = w.spin /\ v.then = w.then /\ v.painted = w.painted
        /\ v.smeared = w.smeared /\ v.screen = w.screen /\ v.count = u.count /\ w.painted = c.painted
    BY <2>2, <2>4, <2>6, <2>7 DEF Same
  <2>9. Orderly(v)
    BY <2>2, <2>3, <2>6, <2>7, <2>8 DEF Orderly, UiTrue
  <2>10. Adds(u, v, l)
    BY <2>4, <2>6, <2>8 DEF Adds
  <2>. QED  BY <1>3, <2>8, <2>9, <2>10 DEF After, Ends, Counts
<1>4. CASE l.k \in {"info", "warn"}
  <2>1. v = Log(u, l) /\ After(u.label, l) = u.label /\ l.k # "result"
    BY <1>4 DEF v, RenderFrame, After, Ends
  <2>2. CASE l.k = "warn"
    <3>. DEFINE c == IF u.active THEN Cleared(u) ELSE u
    <3>1. v = Show(c, "warn", l)
      BY <2>1, <2>2 DEF Log
    <3>2. "warn" \in Marks \ {"complete"} /\ ("warn" \in VerdictMarks <=> l.k \in Verdict)
      BY <2>2 DEF Marks, VerdictMarks, Verdict
    <3>3. Orderly(v) /\ Same(u, v, {"screen", "painted"}) /\ Adds(u, v, l)
      BY <3>1, <3>2, ShowCleared
    <3>. QED  BY <2>1, <3>3 DEF Same, Counts
  <2>3. CASE l.k = "info" /\ u.active
    BY <2>1, <2>3, PushTailSteps DEF Log, Verdict, Same, Counts
  <2>4. CASE l.k = "info" /\ ~u.active
    BY <2>1, <2>4, ShowSteps DEF Log, Orderly, UiTrue, Marks, VerdictMarks, Verdict, Same, Counts
  <2>5. l.k = "warn" \/ (l.k = "info" /\ u.active) \/ (l.k = "info" /\ ~u.active)
    BY <1>4
  <2>. QED  BY <2>2, <2>3, <2>4, <2>5
<1>5. CASE l.k = "result"
  <2>. DEFINE c == IF u.active THEN Cleared(u) ELSE u
              w == Show(c, "result", l)
              n == w.count + 1
  <2>1. v = [w EXCEPT !.count = n]
    BY <1>5 DEF v, RenderFrame, Result
  <2>2. "result" \in Marks \ {"complete"} /\ ("result" \in VerdictMarks <=> l.k \in Verdict)
    BY <1>5 DEF Marks, VerdictMarks, Verdict
  <2>3. Orderly(w) /\ Same(u, w, {"screen", "painted"}) /\ Adds(u, w, l)
    BY <2>2, ShowCleared
  <2>. HIDE DEF w
  <2>4. w \in UiRecord /\ n \in Nat
    BY <2>3 DEF Orderly, UiRecord
  <2>5. w.label = u.label /\ w.count = u.count
    BY <2>3 DEF Same
  <2>. HIDE DEF n
  <2>6. v \in UiRecord /\ Same(w, v, {"count"}) /\ v.count = n
    BY <2>1, <2>4 DEF UiRecord, Same
  <2>7. /\ v.active = w.active /\ v.label = w.label /\ v.spin = w.spin /\ v.then = w.then /\ v.painted = w.painted
        /\ v.smeared = w.smeared /\ v.screen = w.screen
    BY <2>6 DEF Same
  <2>8. Orderly(v) /\ Adds(u, v, l)
    BY <2>3, <2>6, <2>7 DEF Orderly, UiTrue, Adds
  <2>. QED  BY <1>5, <2>5, <2>6, <2>7, <2>8 DEF Counts, After, Ends, n
<1>6. CASE l.k \in {"built", "deployed", "pruned", "note"}
  <2>1. u.label = "none" /\ ~u.painted
    BY <1>6 DEF Between, Orderly, UiTrue
  <2>2. CommitOpen(u) = u
    BY <2>1 DEF CommitOpen
  <2>3. v = Summary(u, l) /\ After(u.label, l) = u.label /\ l.k # "result"
    BY <1>6 DEF v, RenderFrame, After, Ends
  <2>4. CASE l.k \in {"built", "deployed"} /\ u.active /\ (l.k = "deployed" => ~u.built)
    BY <2>2, <2>3, <2>4, <2>1, StopSteps DEF Summary, Same, Counts, Adds, Verdict
  <2>5. CASE l.k = "built" /\ ~u.active
    BY <2>2, <2>3, <2>5, BuiltSteps DEF Summary, Same, Counts, Adds, Verdict
  <2>6. CASE l.k = "deployed" /\ u.built
    <3>1. v = u
      BY <2>2, <2>3, <2>6 DEF Summary
    <3>. QED  BY <2>3, <2>6, <3>1 DEF Counts, Adds, Verdict
  <2>7. CASE l.k = "deployed" /\ ~u.built /\ ~u.active
    BY <2>2, <2>3, <2>7, <2>1, ShowSteps DEF Summary, Marks, VerdictMarks, Verdict, Same, Counts
  <2>8. CASE l.k \in {"pruned", "note"}
    <3>. DEFINE c == IF u.active THEN Cleared(u) ELSE u
    <3>1. v = Show(c, "flow", l)
      BY <2>2, <2>3, <2>8 DEF Summary
    <3>2. "flow" \in Marks \ {"complete"} /\ ("flow" \in VerdictMarks <=> l.k \in Verdict)
      BY <2>8 DEF Marks, VerdictMarks, Verdict
    <3>3. Orderly(v) /\ Same(u, v, {"screen", "painted"}) /\ Adds(u, v, l)
      BY <3>1, <3>2, ShowCleared
    <3>. QED  BY <2>3, <3>3 DEF Same, Counts
  <2>9. \/ l.k \in {"built", "deployed"} /\ u.active /\ (l.k = "deployed" => ~u.built)
        \/ l.k = "built" /\ ~u.active
        \/ l.k = "deployed" /\ u.built
        \/ l.k = "deployed" /\ ~u.built /\ ~u.active
        \/ l.k \in {"pruned", "note"}
    BY <1>6
  <2>. QED  BY <2>4, <2>5, <2>6, <2>7, <2>8, <2>9
<1>7. CASE l.k \in {"noise", "complete"}
  <2>1. v = NoFrame(u, l) /\ After(u.label, l) = u.label /\ l.k # "result" /\ l.k \notin Verdict
    BY <1>7 DEF v, RenderFrame, After, Ends, Verdict
  <2>2. CASE u.active /\ u.label # "none"
    BY <2>1, <2>2, PushTailSteps DEF NoFrame, Same, Counts
  <2>3. CASE u.label = "none" /\ (u.active \/ u.built)
    <3>1. v = u
      BY <2>1, <2>3 DEF NoFrame
    <3>. QED  BY <2>1, <3>1 DEF Counts, Adds
  <2>4. CASE ~(u.active /\ u.label # "none") /\ ~(u.label = "none" /\ (u.active \/ u.built))
    BY <2>1, <2>4, ShowSteps DEF NoFrame, Orderly, UiTrue, Marks, VerdictMarks, Same, Counts
  <2>. QED  BY <2>2, <2>3, <2>4
<1>. QED  BY <1>0, <1>1, <1>2, <1>3, <1>4, <1>5, <1>6, <1>7 DEF Kinds

LEMMA AppendTrue ==
  ASSUME NEW sc \in Seq(Entries), NEW e \in Entries, NEW went, NEW C, ScreenTrue(sc, went, C),
         e.mark = "ok" => e.line.x \in went, e.mark = "complete" => e.line.x \in C
  PROVE  ScreenTrue(Append(sc, e), went, C)
BY DEF ScreenTrue

LEMMA ShowPlain ==
  ASSUME NEW u \in UiRecord, Orderly(u), ~u.painted, NEW mark \in Marks \ {"complete", "ok"}, NEW l \in Lines,
         NEW went, NEW C, ScreenTrue(u.screen, went, C)
  PROVE  /\ Orderly(Show(u, mark, l)) /\ Same(u, Show(u, mark, l), {"screen"})
         /\ ScreenTrue(Show(u, mark, l).screen, went, C)
<1>. DEFINE v == Show(u, mark, l)
            e == [mark |-> mark, line |-> l]
<1>1. /\ v \in UiRecord /\ Same(u, v, {"screen", "smeared"}) /\ v.screen = Append(u.screen, e)
      /\ v.smeared = (u.smeared \/ u.painted)
  BY LinesShown, ShowIs
<1>2. e \in Entries /\ e.mark = mark
  BY LinesShown DEF Entries
<1>. HIDE DEF v, e
<1>3. ~v.smeared /\ ~u.smeared
  BY <1>1 DEF Orderly, UiTrue
<1>4. /\ v.active = u.active /\ v.label = u.label /\ v.spin = u.spin /\ v.then = u.then /\ v.painted = u.painted
  BY <1>1 DEF Same
<1>5. Orderly(v)
  BY <1>1, <1>3, <1>4 DEF Orderly, UiTrue
<1>6. u.screen \in Seq(Entries)
  BY DEF UiRecord
<1>7. ScreenTrue(v.screen, went, C)
  BY <1>1, <1>2, <1>6, AppendTrue
<1>8. v.smeared = u.smeared
  BY <1>1, <1>3 DEF UiRecord
<1>9. Same(u, v, {"screen"})
  BY <1>1, <1>8 DEF Same
<1>. QED  BY <1>5, <1>7, <1>9 DEF v

\* The open step is shown as passed: rightly, when it has.
LEMMA CommitSteps ==
  ASSUME NEW u \in UiRecord, Orderly(u), u.spin # "stopping",
         NEW went, NEW C, ScreenTrue(u.screen, went, C), u.label # "none" => u.label \in went
  PROVE  LET c == CommitOpen(u)
         IN  /\ Orderly(c) /\ Same(u, c, {"label", "tail", "painted", "screen"})
             /\ c.label = "none" /\ ~c.painted /\ ScreenTrue(c.screen, went, C)
<1>. DEFINE c == CommitOpen(u)
            e == [mark |-> "ok", line |-> Line("ok", u.label)]
<1>1. /\ c \in UiRecord /\ Same(u, c, {"label", "tail", "painted", "screen"})
      /\ c.label = "none" /\ c.painted = FALSE
      /\ u.label = "none" => c = u
      /\ u.label # "none" => c.screen = Append(u.screen, e)
  BY CommitOpenIs DEF Orderly
<1>2. u.label \in Shown /\ u.screen \in Seq(Entries)
  BY DEF UiRecord, Shown
<1>3. Line("ok", u.label) \in [k : Kinds, x : Shown] /\ Line("ok", u.label).x = u.label
  BY <1>2 DEF Line, Kinds
<1>4. e \in Entries /\ e.mark = "ok" /\ e.line.x = u.label
  BY <1>3 DEF Entries, Marks
<1>. HIDE DEF c, e
<1>5. ScreenTrue(c.screen, went, C)
  BY <1>1, <1>2, <1>4, AppendTrue
<1>6. c.active = u.active /\ c.spin = u.spin /\ c.then = u.then /\ c.smeared = u.smeared
  BY <1>1 DEF Same
<1>7. Orderly(c)
  BY <1>1, <1>6 DEF Orderly, UiTrue
<1>. QED  BY <1>1, <1>5, <1>7 DEF c

LEMMA PaintSteps ==
  ASSUME NEW u \in UiRecord, Orderly(u)
  PROVE  Orderly(Painted(u)) /\ Same(u, Painted(u), {"painted"})
<1>. DEFINE v == Painted(u)
<1>1. v \in UiRecord /\ Same(u, v, {"painted"}) /\ v.painted = (u.painted \/ (u.active /\ u.label # "none"))
  BY PaintedIs
<1>. HIDE DEF v
<1>2. v.active = u.active /\ v.label = u.label /\ v.spin = u.spin /\ v.then = u.then /\ v.smeared = u.smeared
  BY <1>1 DEF Same
<1>. QED  BY <1>1, <1>2 DEF Orderly, UiTrue, v

\* The same of the text renderer of a push: where it takes a step as passed, it has.
LEMMA TextSteps ==
  ASSUME NEW u \in UiRecord, Orderly(u), u.spin # "stopping", NEW l \in Lines,
         NEW went, NEW C, ScreenTrue(u.screen, went, C),
         job.speaks = "text" /\ l.k \in {"start", "built", "deployed"} /\ u.label # "none" => u.label \in went
  PROVE  LET v == RenderText(u, l)
         IN  /\ Orderly(v) /\ ScreenTrue(v.screen, went, C)
             /\ v.label \in {u.label, "none"} \/ (job.speaks = "text" /\ l.k = "start" /\ l.x \in Banners /\ v.label = l.x)
             /\ job.speaks # "text" /\ ~u.active => ~v.active /\ v.label = u.label
<1>. DEFINE v == RenderText(u, l)
            c == CommitOpen(u)
<1>. SUFFICES /\ Orderly(v) /\ ScreenTrue(v.screen, went, C)
              /\ v.label \in {u.label, "none"} \/ (job.speaks = "text" /\ l.k = "start" /\ l.x \in Banners /\ v.label = l.x)
              /\ job.speaks # "text" /\ ~u.active => ~v.active /\ v.label = u.label
  OBVIOUS
<1>. HIDE DEF v
<1>1. u.active => Orderly(Painted(u)) /\ Same(u, Painted(u), {"painted"})
  BY PaintSteps
<1>2. ~u.active => Orderly(Show(u, "raw", l)) /\ Same(u, Show(u, "raw", l), {"screen"}) /\ ScreenTrue(Show(u, "raw", l).screen, went, C)
  BY ShowPlain DEF Marks, Orderly, UiTrue
<1>3. CASE job.speaks = "text" /\ l.k \in {"built", "deployed"}
  <2>1. v = EndsText(u, l)
    BY <1>3 DEF v, RenderText
  <2>2. /\ Orderly(c) /\ Same(u, c, {"label", "tail", "painted", "screen"})
        /\ c.label = "none" /\ ~c.painted /\ ScreenTrue(c.screen, went, C) /\ c \in UiRecord
    BY <1>3, CommitSteps DEF Orderly
  <2>. HIDE DEF c
  <2>3. CASE l.k = "deployed" /\ u.built
    <3>1. v = u
      BY <2>1, <2>3 DEF EndsText
    <3>. QED  BY <1>3, <3>1
  <2>4. CASE ~(l.k = "deployed" /\ u.built) /\ c.active
    BY <2>1, <2>4, <1>3, <2>2, StopSteps DEF EndsText, c, Same
  <2>5. CASE l.k = "built" /\ ~c.active
    BY <2>1, <2>5, <2>2, BuiltSteps, <1>3 DEF EndsText, c, Same
  <2>6. CASE l.k = "deployed" /\ ~u.built /\ ~c.active
    BY <2>1, <2>6, <2>2, ShowPlain, <1>3 DEF EndsText, c, Marks, Same
  <2>7. \/ l.k = "deployed" /\ u.built
        \/ ~(l.k = "deployed" /\ u.built) /\ c.active
        \/ l.k = "built" /\ ~c.active
        \/ l.k = "deployed" /\ ~u.built /\ ~c.active
    BY <1>3
  <2>. QED  BY <2>3, <2>4, <2>5, <2>6, <2>7
<1>4. CASE job.speaks = "text" /\ l.k = "start" /\ l.x \in Banners
  <2>1. v = Painted([StartSpinner(c) EXCEPT !.label = l.x])
    BY <1>4 DEF v, RenderText
  <2>2. /\ Orderly(c) /\ Same(u, c, {"label", "tail", "painted", "screen"})
        /\ c.label = "none" /\ ~c.painted /\ ScreenTrue(c.screen, went, C) /\ c \in UiRecord
    BY <1>4, CommitSteps DEF Orderly
  <2>3. c.spin # "stopping"
    BY <2>2 DEF Same
  <2>4. l.x \in Texts /\ l.x # "none"
    BY <1>4 DEF Texts, Banners
  <2>. HIDE DEF c
  <2>5. Orderly(v) /\ v.label = l.x /\ v.screen = c.screen
    BY <2>1, <2>2, <2>3, <2>4, StartSteps
  <2>. QED  BY <1>4, <2>2, <2>5
<1>5. CASE job.speaks = "text" /\ l.k = "pruned"
  <2>. DEFINE d == IF u.active THEN Cleared(u) ELSE u
  <2>1. v = Show(d, "flow", l)
    BY <1>5 DEF v, RenderText
  <2>2. Cleared(u) \in UiRecord /\ Same(u, Cleared(u), {"painted"}) /\ Cleared(u).painted = FALSE
    BY ClearedIs
  <2>3. d \in UiRecord /\ Same(u, d, {"painted"}) /\ ~d.painted
    BY <2>2 DEF Same, Orderly, UiTrue
  <2>. HIDE DEF d
  <2>4. d.active = u.active /\ d.label = u.label /\ d.spin = u.spin /\ d.then = u.then /\ d.smeared = u.smeared /\ d.screen = u.screen
    BY <2>3 DEF Same
  <2>5. Orderly(d)
    BY <2>3, <2>4 DEF Orderly, UiTrue
  <2>6. "flow" \in Marks \ {"complete", "ok"}
    BY DEF Marks
  <2>7. Orderly(v) /\ Same(d, v, {"screen"}) /\ ScreenTrue(v.screen, went, C)
    BY <2>1, <2>3, <2>4, <2>5, <2>6, ShowPlain
  <2>8. v.label = u.label
    BY <2>4, <2>7 DEF Same
  <2>. QED  BY <1>5, <2>7, <2>8
<1>6. CASE /\ ~(job.speaks = "text" /\ l.k \in {"built", "deployed"})
           /\ ~(job.speaks = "text" /\ l.k = "start" /\ l.x \in Banners)
           /\ ~(job.speaks = "text" /\ l.k = "pruned")
  <2>1. v = IF u.active THEN Painted(u) ELSE Show(u, "raw", l)
    BY <1>6 DEF v, RenderText
  <2>2. CASE u.active
    BY <1>1, <2>1, <2>2 DEF Same
  <2>3. CASE ~u.active
    BY <1>2, <2>1, <2>3 DEF Same
  <2>. QED  BY <2>2, <2>3
<1>. QED  BY <1>3, <1>4, <1>5, <1>6

\* ... and of that of an apply, which opens no step.
LEMMA ResultSteps ==
  ASSUME NEW u \in UiRecord, Orderly(u), ~u.active, NEW l \in Lines, NEW went, NEW C, ScreenTrue(u.screen, went, C)
  PROVE  LET v == RenderResults(u, l)
         IN  Orderly(v) /\ ScreenTrue(v.screen, went, C) /\ v.label = u.label /\ ~v.active /\ Counts(u, v, l)
<1>. DEFINE v == RenderResults(u, l)
            m == IF l.k = "result" THEN "result" ELSE "raw"
            w == Show(u, m, l)
            n == w.count + 1
<1>. SUFFICES Orderly(v) /\ ScreenTrue(v.screen, went, C) /\ v.label = u.label /\ ~v.active /\ Counts(u, v, l)
  OBVIOUS
<1>1. m \in Marks \ {"complete", "ok"} /\ ~u.painted
  BY DEF Marks, Orderly, UiTrue
<1>2. v = IF l.k = "result" THEN [w EXCEPT !.count = n] ELSE w
  BY DEF RenderResults, Result
<1>. HIDE DEF m, v
<1>3. Orderly(w) /\ Same(u, w, {"screen"}) /\ ScreenTrue(w.screen, went, C)
  BY <1>1, ShowPlain
<1>. HIDE DEF w
<1>4. w.label = u.label /\ ~w.active /\ w.count = u.count
  BY <1>3 DEF Same
<1>5. w \in UiRecord /\ n \in Nat
  BY <1>3 DEF Orderly, UiRecord
<1>6. CASE l.k # "result"
  BY <1>2, <1>3, <1>4, <1>6 DEF Counts
<1>7. CASE l.k = "result"
  <2>. HIDE DEF n
  <2>1. v \in UiRecord /\ Same(w, v, {"count"}) /\ v.count = n
    BY <1>2, <1>5, <1>7 DEF UiRecord, Same
  <2>2. /\ v.active = w.active /\ v.label = w.label /\ v.spin = w.spin /\ v.then = w.then /\ v.painted = w.painted
        /\ v.smeared = w.smeared /\ v.screen = w.screen
    BY <2>1 DEF Same
  <2>3. Orderly(v)
    BY <1>3, <2>1, <2>2 DEF Orderly, UiTrue
  <2>. QED  BY <1>3, <1>4, <1>7, <2>1, <2>2, <2>3 DEF Counts, n
<1>. QED  BY <1>6, <1>7

ShownAt(sc) == {i \in DOMAIN sc : sc[i].mark \in VerdictMarks}
MeantAt(ls) == {i \in DOMAIN ls : ls[i].k \in Verdict}

LEMMA ShowsIs ==
  ASSUME NEW sc, NEW ls
  PROVE  Shows(sc, ls) <=>
           /\ Cardinality(ShownAt(sc)) = Cardinality(MeantAt(ls))
           /\ \A i \in ShownAt(sc), j \in MeantAt(ls) : Rank(ShownAt(sc), i) = Rank(MeantAt(ls), j) => sc[i].line = ls[j]
BY DEF Shows, ShownAt, MeantAt, VerdictMarks

LEMMA AppendIs ==
  ASSUME NEW E, NEW xs \in Seq(E), NEW x \in E
  PROVE  /\ Append(xs, x) \in Seq(E) /\ Len(xs) \in Nat /\ DOMAIN xs = 1 .. Len(xs)
         /\ DOMAIN Append(xs, x) = 1 .. Len(xs) + 1
         /\ \A i \in 1 .. Len(xs) : Append(xs, x)[i] = xs[i]
         /\ Append(xs, x)[Len(xs) + 1] = x
OBVIOUS

LEMMA ShownMore ==
  ASSUME NEW sc \in Seq(Entries), NEW e \in Entries
  PROVE  ShownAt(Append(sc, e)) = IF e.mark \in VerdictMarks THEN ShownAt(sc) \cup {Len(sc) + 1} ELSE ShownAt(sc)
<1>. DEFINE n == Len(sc)
            c == Append(sc, e)
<1>1. /\ n \in Nat /\ DOMAIN sc = 1 .. n /\ DOMAIN c = 1 .. n + 1 /\ \A i \in 1 .. n : c[i] = sc[i]
      /\ c[n + 1] = e
  BY AppendIs
<1>. HIDE DEF n, c
<1>2. 1 .. n + 1 = (1 .. n) \cup {n + 1}
  BY <1>1
<1>. QED  BY <1>1, <1>2 DEF ShownAt, n, c

LEMMA MeantMore ==
  ASSUME NEW ls \in Seq(Lines), NEW l \in Lines
  PROVE  MeantAt(Append(ls, l)) = IF l.k \in Verdict THEN MeantAt(ls) \cup {Len(ls) + 1} ELSE MeantAt(ls)
<1>. DEFINE n == Len(ls)
            c == Append(ls, l)
<1>1. /\ n \in Nat /\ DOMAIN ls = 1 .. n /\ DOMAIN c = 1 .. n + 1 /\ \A i \in 1 .. n : c[i] = ls[i]
      /\ c[n + 1] = l
  BY AppendIs
<1>. HIDE DEF n, c
<1>2. 1 .. n + 1 = (1 .. n) \cup {n + 1}
  BY <1>1
<1>. QED  BY <1>1, <1>2 DEF MeantAt, n, c

LEMMA ShowsEntry ==
  ASSUME NEW sc \in Seq(Entries), NEW ls, Shows(sc, ls), NEW e \in Entries, e.mark \notin VerdictMarks
  PROVE  Shows(Append(sc, e), ls)
<1>1. ShownAt(Append(sc, e)) = ShownAt(sc)
  BY ShownMore
<1>2. \A i \in ShownAt(sc) : Append(sc, e)[i] = sc[i]
  BY AppendIs DEF ShownAt
<1>. QED  BY <1>1, <1>2, ShowsIs

LEMMA ShowsLine ==
  ASSUME NEW sc, NEW ls \in Seq(Lines), Shows(sc, ls), NEW l \in Lines, l.k \notin Verdict
  PROVE  Shows(sc, Append(ls, l))
<1>1. MeantAt(Append(ls, l)) = MeantAt(ls)
  BY MeantMore
<1>2. \A i \in MeantAt(ls) : Append(ls, l)[i] = ls[i]
  BY AppendIs DEF MeantAt
<1>. QED  BY <1>1, <1>2, ShowsIs

LEMMA ShowsBoth ==
  ASSUME NEW sc \in Seq(Entries), NEW ls \in Seq(Lines), Shows(sc, ls), NEW l \in Lines, l.k \in Verdict,
         NEW e \in Entries, e.mark \in VerdictMarks, e.line = l
  PROVE  Shows(Append(sc, e), Append(ls, l))
<1>. DEFINE s == Append(sc, e)
            t == Append(ls, l)
            A == ShownAt(sc)
            B == MeantAt(ls)
            n == Len(sc)
            m == Len(ls)
<1>1. ShownAt(s) = A \cup {n + 1} /\ MeantAt(t) = B \cup {m + 1}
  BY ShownMore, MeantMore
<1>2. n \in Nat /\ m \in Nat /\ A \in SUBSET (1 .. n) /\ B \in SUBSET (1 .. m)
      /\ (\A i \in A : s[i] = sc[i]) /\ (\A i \in B : t[i] = ls[i]) /\ s[n + 1] = e /\ t[m + 1] = l
  BY AppendIs DEF ShownAt, MeantAt
<1>3. /\ Cardinality(A) = Cardinality(B)
      /\ \A i \in A, j \in B : Rank(A, i) = Rank(B, j) => sc[i].line = ls[j]
  BY ShowsIs
<1>. HIDE DEF A, B, n, m, s, t
<1>4. /\ Cardinality(A) \in Nat /\ (\A i \in A : Rank(A, i) \in 1 .. Cardinality(A)) /\ (\A j \in B : Rank(B, j) \in 1 .. Cardinality(B))
  BY <1>2, RankFacts
<1>5. /\ Cardinality(A \cup {n + 1}) = Cardinality(A) + 1
      /\ Rank(A \cup {n + 1}, n + 1) = Cardinality(A) + 1
      /\ \A i \in A : Rank(A \cup {n + 1}, i) = Rank(A, i)
  BY <1>2, RankMore
<1>6. /\ Cardinality(B \cup {m + 1}) = Cardinality(B) + 1
      /\ Rank(B \cup {m + 1}, m + 1) = Cardinality(B) + 1
      /\ \A j \in B : Rank(B \cup {m + 1}, j) = Rank(B, j)
  BY <1>2, RankMore
<1>7. ASSUME NEW i \in A \cup {n + 1}, NEW j \in B \cup {m + 1}, Rank(A \cup {n + 1}, i) = Rank(B \cup {m + 1}, j)
      PROVE  s[i].line = t[j]
  <2>1. CASE i \in A /\ j \in B
    <3>1. Rank(A, i) = Rank(B, j)
      BY <1>5, <1>6, <1>7, <2>1
    <3>2. s[i] = sc[i] /\ t[j] = ls[j]
      BY <1>2, <2>1
    <3>. QED  BY <1>3, <2>1, <3>1, <3>2
  <2>2. CASE i = n + 1 /\ j = m + 1
    BY <1>2, <2>2
  <2>3. CASE i \in A /\ j = m + 1
    <3>1. Rank(A, i) = Cardinality(A) + 1 /\ Rank(A, i) \in 1 .. Cardinality(A)
      BY <1>3, <1>4, <1>5, <1>6, <1>7, <2>3
    <3>. QED  BY <1>4, <3>1
  <2>4. CASE i = n + 1 /\ j \in B
    <3>1. Rank(B, j) = Cardinality(A) + 1 /\ Rank(B, j) \in 1 .. Cardinality(A)
      BY <1>3, <1>4, <1>5, <1>6, <1>7, <2>4
    <3>. QED  BY <1>4, <3>1
  <2>. QED  BY <2>1, <2>2, <2>3, <2>4
<1>8. Cardinality(ShownAt(s)) = Cardinality(MeantAt(t))
  BY <1>1, <1>3, <1>5, <1>6
<1>9. \A i \in ShownAt(s), j \in MeantAt(t) : Rank(ShownAt(s), i) = Rank(MeantAt(t), j) => s[i].line = t[j]
  BY <1>1, <1>7
<1>10. Shows(s, t)
  BY <1>8, <1>9, ShowsIs
<1>. QED  BY <1>10 DEF s, t

\* What a line adds to the screen keeps both accounts of it.
LEMMA AddsTrue ==
  ASSUME NEW u \in UiRecord, NEW v \in UiRecord, NEW l \in Lines, Adds(u, v, l), NEW ls \in Seq(Lines),
         NEW went, NEW C, ScreenTrue(u.screen, went, C), l.k = "ok" => l.x \in went
  PROVE  /\ ScreenTrue(v.screen, went, C)
         /\ Shows(u.screen, ls) => Shows(v.screen, Append(ls, l))
<1>0. u.screen \in Seq(Entries)
  BY DEF UiRecord
<1>1. CASE v.screen = u.screen /\ l.k \notin Verdict
  BY <1>1, ShowsLine
<1>2. ASSUME NEW e \in Entries, v.screen = Append(u.screen, e), e.mark # "complete",
             e.mark = "ok" => l.k = "ok" /\ e.line = l,
             l.k \in Verdict => e.mark \in VerdictMarks /\ e.line = l,
             l.k \notin Verdict => e.mark \notin VerdictMarks
      PROVE  /\ ScreenTrue(v.screen, went, C)
             /\ Shows(u.screen, ls) => Shows(v.screen, Append(ls, l))
  <2>1. ScreenTrue(v.screen, went, C)
    BY <1>0, <1>2, AppendTrue
  <2>2. CASE l.k \in Verdict
    BY <1>0, <1>2, <2>1, <2>2, ShowsBoth
  <2>3. CASE l.k \notin Verdict
    BY <2>3, ShowsLine, <1>0, <1>2, ShowsEntry, <2>1
  <2>. QED  BY <2>2, <2>3
<1>. QED  BY <1>1, <1>2 DEF Adds

-----------------------------------------------------------------------------
(* The client's steps.                                                        *)

\* A line is taken: the terminal and what is shown on it stay true, when the line
\* fits the open step.
LEMMA TakeKeeps ==
  ASSUME StreamsIInv, Reads, NEW l \in Lines, Take(l),
         chosen' = "ndjson" => /\ job.speaks = "ndjson"
                               /\ l.k \in Ends => ui.label = l.x /\ ui.label # "none"
                               /\ l.k \in Between => ui.label = "none"
                               /\ l.k = "start" => l.x # "none"
                               /\ l.k = "ok" => l.x \in passed,
         job.speaks = "text" /\ l.k \in {"start", "built", "deployed"} /\ ui.label # "none" => ui.label \in passed,
         NEW C, ScreenTrue(ui.screen, passed, C)
  PROVE  /\ Orderly(ui') /\ ScreenTrue(ui'.screen, passed, C) /\ seen' \in Seq(Lines) /\ seen' # <<>>
         /\ chosen' \in {"ndjson", "legacy"} /\ (chosen # "none" => chosen' = chosen)
         /\ chosen' = "ndjson" => Shows(ui'.screen, seen') /\ ui'.label = After(ui.label, l)
         /\ chosen' = "legacy" =>
              \/ ui'.label \in {ui.label, "none"}
              \/ job.speaks = "text" /\ l.k = "start" /\ l.x \in Banners /\ ui'.label = l.x
         /\ chosen' = "legacy" /\ (job.speaks = "ndjson" \/ job.prog = "apply") => ui'.label = "none" /\ ~ui'.active
         /\ job.prog = "apply" \/ chosen' = "ndjson" => Counts(ui, ui', l)
<1>1. /\ ui \in UiRecord /\ Orderly(ui) /\ ui.spin # "stopping" /\ seen \in Seq(Lines)
      /\ chosen \in {"none", "ndjson", "legacy"}
  BY DEF StreamsIInv, StreamsType, EndTrue, Reads, Orderly
<1>2. /\ chosen' \in {"ndjson", "legacy"} /\ (chosen # "none" => chosen' = chosen)
      /\ ui' = Render(chosen', ui, l) /\ seen' = Append(seen, l)
  BY <1>1 DEF Take, Decide
<1>3. seen' \in Seq(Lines) /\ seen' # <<>>
  BY <1>1, <1>2
<1>4. job \in [prog : {"push", "apply"}, speaks : {"ndjson", "text"}, force : BOOLEAN]
  BY DEF StreamsIInv, StreamsType
<1>5. CASE chosen' = "ndjson"
  BY <1>2, <1>5, <1>1, FrameSteps, AddsTrue, <1>3 DEF Render, StreamsIInv, RendererTrue, Orderly
<1>6. CASE chosen' = "legacy" /\ job.prog = "push"
  BY <1>2, <1>6, <1>1, TextSteps, <1>3 DEF Render, StreamsIInv, RendererTrue
<1>7. CASE chosen' = "legacy" /\ job.prog = "apply"
  BY <1>2, <1>7, <1>1, ResultSteps, <1>3 DEF Render, StreamsIInv, RendererTrue
<1>. QED  BY <1>2, <1>4, <1>5, <1>6, <1>7

LEMMA ReadOutKeeps ==
  ASSUME StreamsIInv, ReadOut
  PROVE  StreamsIInv'
<1>. DEFINE l == said[1]
<1>1. /\ said \in Seq(Lines) /\ said # <<>> /\ l \in Lines /\ said' = Tail(said) /\ Take(l) /\ Reads
      /\ job' = job /\ at' = at /\ erred' = erred /\ passed' = passed /\ told' = told /\ torn' = torn /\ ends' = ends
  BY TailIs DEF ReadOut, StreamsIInv, StreamsType
<1>2. /\ said' \in Seq(Lines) /\ Len(said') = Len(said) - 1 /\ Len(said) \in Nat \ {0}
      /\ DOMAIN said = 1 .. Len(said) /\ DOMAIN said' = 1 .. Len(said')
      /\ \A i \in 1 .. Len(said) - 1 : said'[i] = said[i + 1]
  BY <1>1, TailIs
<1>3. /\ chosen \in {"none", "ndjson", "legacy"} /\ job.speaks \in {"ndjson", "text"} /\ ends = "open"
      /\ chosen' = Decide(l)
  BY <1>1 DEF StreamsIInv, StreamsType, Reads, Take
<1>. HIDE DEF l
<1>4. 1 \in DOMAIN said
  BY <1>2
<1>5. ASSUME chosen' = "ndjson"
      PROVE  job.speaks = "ndjson" /\ Fits(ui.label, said) /\ (l.k = "ok" => l.x \in passed) /\ chosen # "legacy"
  <2>1. job.speaks = "ndjson"
    BY <1>4, <1>3, <1>5 DEF StreamsIInv, TextTrue, l, Decide, RendererTrue, Unspoken
  <2>2. chosen # "legacy"
    BY <1>3, <1>5 DEF Decide
  <2>. QED  BY <1>4, <2>1, <2>2 DEF StreamsIInv, FramesTrue, l
<1>6. ASSUME chosen' = "ndjson"
      PROVE  /\ Fits(After(ui.label, l), said')
             /\ l.k \in Ends => ui.label = l.x /\ ui.label # "none"
             /\ l.k \in Between => ui.label = "none"
             /\ l.k = "start" => l.x # "none"
  BY <1>1, <1>5, <1>6, FitsTail DEF l
<1>7. job.speaks = "text" => TextFits(ui.label, said, passed)
  BY DEF StreamsIInv, TextTrue
<1>8. job.speaks = "text" /\ l.k \in {"start", "built", "deployed"} /\ ui.label # "none" => ui.label \in passed
  BY <1>1, <1>7, TextFitsTail DEF l
<1>9. ScreenTrue(ui.screen, passed, Final)
  BY DEF StreamsIInv
<1>10. /\ Orderly(ui') /\ ScreenTrue(ui'.screen, passed, Final) /\ seen' \in Seq(Lines) /\ seen' # <<>>
       /\ chosen' \in {"ndjson", "legacy"} /\ (chosen # "none" => chosen' = chosen)
       /\ chosen' = "ndjson" => Shows(ui'.screen, seen') /\ ui'.label = After(ui.label, l)
       /\ chosen' = "legacy" =>
            \/ ui'.label \in {ui.label, "none"}
            \/ job.speaks = "text" /\ l.k = "start" /\ l.x \in Banners /\ ui'.label = l.x
       /\ chosen' = "legacy" /\ (job.speaks = "ndjson" \/ job.prog = "apply") => ui'.label = "none" /\ ~ui'.active
       /\ job.prog = "apply" \/ chosen' = "ndjson" => Counts(ui, ui', l)
  <2>. HIDE DEF Final
  <2>. QED  BY <1>1, <1>5, <1>6, <1>8, <1>9, TakeKeeps DEF l
<1>11. StreamsType' /\ UiTrue(ui')
  BY <1>1, <1>2, <1>10 DEF StreamsIInv, StreamsType, Orderly
<1>12. ScreenTrue(ui'.screen, passed', Final')
  BY <1>1, <1>10 DEF Final
<1>13. FramesTrue'
  <2>. SUFFICES ASSUME job.speaks = "ndjson"
                PROVE  /\ \A i \in DOMAIN said' : said'[i].k = "ok" => said'[i].x \in passed
                       /\ chosen' # "legacy" =>
                            Fits(ui'.label, said') /\ (at # "failed" => NoneOpen(ui'.label, said', Len(said') + 1))
    BY <1>1 DEF FramesTrue
  <2>1. \A i \in DOMAIN said' : said'[i].k = "ok" => said'[i].x \in passed
    BY <1>2 DEF StreamsIInv, FramesTrue
  <2>2. ASSUME chosen' # "legacy", at # "failed" PROVE NoneOpen(ui'.label, said', Len(said') + 1)
    BY <1>5, <1>10, <2>2, <1>2, <1>1, NoneOpenTail DEF StreamsIInv, FramesTrue, l
  <2>. QED  BY <1>6, <1>10, <2>1, <2>2
<1>14. TextTrue'
  <2>. SUFFICES ASSUME job.speaks = "text"
                PROVE  /\ \A i \in DOMAIN said' : said'[i].k \notin Unspoken
                       /\ TextFits(ui'.label, said', passed)
                       /\ at # "failed" => Earned(ui'.label, said', Len(said') + 1, passed)
    BY <1>1 DEF TextTrue
  <2>1. \A i \in DOMAIN said' : said'[i].k \notin Unspoken
    BY <1>2 DEF StreamsIInv, TextTrue
  <2>2. chosen' = "legacy"
    BY <1>5, <1>10
  <2>3. ui'.label \in {ui.label, "none"} \/ (said[1].k = "start" /\ said[1].x \in Banners /\ ui'.label = said[1].x)
    BY <1>10, <2>2 DEF l
  <2>4. TextFits(ui'.label, Tail(said), passed)
    BY <1>1, <1>7, <2>3, TextFitsTail
  <2>5. ASSUME at # "failed" PROVE Earned(ui'.label, said', Len(said') + 1, passed)
    BY <2>5, <1>2, <1>1, <2>3, EarnedTail DEF StreamsIInv, TextTrue
  <2>. QED  BY <1>1, <2>1, <2>4, <2>5
<1>15. RendererTrue'
  BY <1>5, <1>1, <1>10 DEF StreamsIInv, RendererTrue
<1>16. EndTrue'
  BY <1>1, <1>3, <1>10 DEF EndTrue, Orderly
<1>17. CountTrue'
  <2>1. ASSUME job.prog = "apply", at # "failed" PROVE told = ui'.count + Results(said')
    <3>1. told = ui.count + Results(said)
      BY <1>3, <2>1 DEF StreamsIInv, CountTrue
    <3>2. Results(said) = Results(said') + (IF l.k = "result" THEN 1 ELSE 0) /\ Results(said') \in Nat
      BY <1>1, <1>2, ResultsTail, ResultsTyped DEF l
    <3>3. ui'.count = IF l.k = "result" THEN ui.count + 1 ELSE ui.count
      BY <1>10, <2>1 DEF Counts
    <3>4. ui.count \in Nat
      BY DEF StreamsIInv, StreamsType, UiRecord
    <3>. QED  BY <3>1, <3>2, <3>3, <3>4
  <2>. QED  BY <1>1, <1>3, <2>1 DEF CountTrue
<1>. QED  BY <1>11, <1>12, <1>13, <1>14, <1>15, <1>16, <1>17 DEF StreamsIInv

LEMMA ReadErrKeeps ==
  ASSUME StreamsIInv, ReadErr
  PROVE  StreamsIInv'
<1>. DEFINE l == erred[1]
<1>1. /\ erred \in Seq(Lines) /\ erred # <<>> /\ l \in Lines /\ l = Head(erred) /\ erred' = Tail(erred) /\ erred' \in Seq(Lines)
      /\ Reads /\ job' = job /\ at' = at /\ said' = said /\ passed' = passed /\ told' = told /\ torn' = torn /\ ends' = ends
  BY TailIs DEF ReadErr, StreamsIInv, StreamsType
<1>2. /\ chosen \in {"none", "ndjson", "legacy"} /\ job.speaks \in {"ndjson", "text"} /\ ends = "open" /\ seen \in Seq(Lines)
      /\ job.prog \in {"push", "apply"} /\ ui \in UiRecord /\ Orderly(ui)
  BY <1>1 DEF StreamsIInv, StreamsType, Reads, EndTrue, Orderly
<1>3. l.k = "noise" /\ \A i \in DOMAIN erred' : erred'[i].k = "noise"
  BY <1>1, TailIs DEF StreamsIInv, RendererTrue
<1>4. ScreenTrue(ui.screen, passed, Final)
  BY DEF StreamsIInv
<1>5. /\ Orderly(ui') /\ ScreenTrue(ui'.screen, passed, Final) /\ seen' \in Seq(Lines)
      /\ chosen' \in {"none", "ndjson", "legacy"} /\ (chosen' = "none" => seen' = <<>>)
      /\ chosen' = "ndjson" => job.speaks = "ndjson"
      /\ chosen' # "legacy" => chosen' = chosen /\ Shows(ui'.screen, seen') /\ ui'.label = ui.label
      /\ ui'.label \in {ui.label, "none"}
      /\ chosen' = "none" \/ (chosen' = "legacy" /\ (job.speaks = "ndjson" \/ job.prog = "apply")) =>
           ui'.label = "none" /\ ~ui'.active
      /\ job.prog = "apply" => ui'.count = ui.count
  <2>1. CASE job.prog = "push"
    <3>1. Take(l)
      BY <1>1, <2>1 DEF ReadErr
    <3>2. chosen' = "ndjson" => chosen = "ndjson"
      BY <1>3, <3>1 DEF Take, Decide
    <3>3. chosen = "ndjson" => job.speaks = "ndjson"
      BY DEF StreamsIInv, RendererTrue
    <3>4. /\ l.k \notin Ends /\ l.k \notin Between /\ l.k # "start" /\ l.k # "ok" /\ l.k # "result"
          /\ l.k \notin {"start", "built", "deployed"} /\ After(ui.label, l) = ui.label
      BY <1>3 DEF Ends, Between, After
    <3>. HIDE DEF l, Final
    <3>5. /\ Orderly(ui') /\ ScreenTrue(ui'.screen, passed, Final) /\ seen' \in Seq(Lines) /\ seen' # <<>>
          /\ chosen' \in {"ndjson", "legacy"} /\ (chosen # "none" => chosen' = chosen)
          /\ chosen' = "ndjson" => Shows(ui'.screen, seen') /\ ui'.label = After(ui.label, l)
          /\ chosen' = "legacy" =>
               \/ ui'.label \in {ui.label, "none"}
               \/ job.speaks = "text" /\ l.k = "start" /\ l.x \in Banners /\ ui'.label = l.x
          /\ chosen' = "legacy" /\ (job.speaks = "ndjson" \/ job.prog = "apply") => ui'.label = "none" /\ ~ui'.active
      BY <1>1, <1>4, <3>1, <3>2, <3>3, <3>4, TakeKeeps
    <3>. QED  BY <2>1, <3>2, <3>3, <3>4, <3>5
  <2>2. CASE job.prog = "apply"
    <3>. DEFINE e == [mark |-> "stderr", line |-> l]
                s == Append(ui.screen, e)
    <3>1. chosen' = chosen /\ seen' = seen /\ ui' = [ui EXCEPT !.screen = s]
      BY <1>1, <2>2 DEF ReadErr
    <3>2. e \in Entries /\ e.mark = "stderr"
      BY <1>1, LinesShown DEF Entries, Marks
    <3>. HIDE DEF e
    <3>3. ui.screen \in Seq(Entries) /\ s \in Seq(Entries)
      BY <1>2, <3>2 DEF UiRecord
    <3>. HIDE DEF s
    <3>4. ui' \in UiRecord /\ Same(ui, ui', {"screen"}) /\ ui'.screen = s
      BY <1>2, <3>1, <3>3 DEF UiRecord, Same
    <3>5. /\ ui'.active = ui.active /\ ui'.label = ui.label /\ ui'.spin = ui.spin /\ ui'.then = ui.then
          /\ ui'.painted = ui.painted /\ ui'.smeared = ui.smeared /\ ui'.count = ui.count
      BY <3>4 DEF Same
    <3>6. Orderly(ui')
      BY <1>2, <3>4, <3>5 DEF Orderly, UiTrue
    <3>7. ScreenTrue(ui'.screen, passed, Final)
      BY <1>4, <3>2, <3>3, <3>4, AppendTrue DEF s
    <3>8. Shows(ui.screen, seen) => Shows(ui'.screen, seen)
      BY <3>2, <3>3, <3>4, ShowsEntry DEF s, VerdictMarks
    <3>. QED  BY <1>2, <3>1, <3>5, <3>6, <3>7, <3>8 DEF StreamsIInv, RendererTrue
  <2>. QED  BY <1>2, <2>1, <2>2
<1>6. StreamsType' /\ UiTrue(ui')
  BY <1>1, <1>5 DEF StreamsIInv, StreamsType, Orderly
<1>7. ScreenTrue(ui'.screen, passed', Final')
  BY <1>1, <1>5 DEF Final
<1>8. FramesTrue'
  BY <1>1, <1>5 DEF StreamsIInv, FramesTrue
<1>9. TextTrue'
  BY <1>5, <1>1 DEF Earned, StreamsIInv, TextTrue, TextFits
<1>10. RendererTrue'
  BY <1>1, <1>3, <1>5 DEF RendererTrue
<1>11. EndTrue'
  BY <1>1, <1>2, <1>5 DEF EndTrue, Orderly
<1>12. CountTrue'
  BY <1>1, <1>2, <1>5 DEF StreamsIInv, CountTrue
<1>. QED  BY <1>6, <1>7, <1>8, <1>9, <1>10, <1>11, <1>12 DEF StreamsIInv

LEMMA TickKeeps ==
  ASSUME StreamsIInv, Tick
  PROVE  StreamsIInv'
<1>1. /\ ui \in UiRecord /\ UiTrue(ui) /\ ui' = Painted(ui) /\ job' = job /\ at' = at /\ said' = said /\ erred' = erred
      /\ passed' = passed /\ told' = told /\ chosen' = chosen /\ seen' = seen /\ torn' = torn /\ ends' = ends
  BY DEF Tick, serverVars, StreamsIInv, StreamsType
<1>2. ui' \in UiRecord /\ Same(ui, ui', {"painted"}) /\ ui'.painted = (ui.painted \/ (ui.active /\ ui.label # "none"))
  BY <1>1, PaintedIs
<1>3. /\ ui'.active = ui.active /\ ui'.label = ui.label /\ ui'.spin = ui.spin /\ ui'.then = ui.then
      /\ ui'.smeared = ui.smeared /\ ui'.count = ui.count /\ ui'.screen = ui.screen
  BY <1>2 DEF Same
<1>4. StreamsType' /\ UiTrue(ui')
  BY <1>1, <1>2, <1>3 DEF StreamsIInv, StreamsType, UiTrue
<1>. QED  BY <1>1, <1>3, <1>4 DEF StreamsIInv, FramesTrue, TextTrue, RendererTrue, EndTrue, CountTrue, Final

\* The line the server died in is shown as it is, on a terminal with nothing painted.
LEMMA FlushedIs ==
  ASSUME NEW u \in UiRecord, Orderly(u), ~u.painted, torn \in {<<>>} \cup {<<l>> : l \in Lines},
         NEW went, NEW C, ScreenTrue(u.screen, went, C), NEW ls \in Seq(Lines)
  PROVE  /\ Orderly(Flushed(u)) /\ Same(u, Flushed(u), {"screen"}) /\ ScreenTrue(Flushed(u).screen, went, C)
         /\ Shows(u.screen, ls) => Shows(Flushed(u).screen, ls)
<1>1. CASE torn = <<>>
  <2>1. Flushed(u) = u
    BY <1>1 DEF Flushed
  <2>. QED  BY <2>1 DEF Same
<1>2. ASSUME NEW l \in Lines, torn = <<l>>
      PROVE  /\ Orderly(Flushed(u)) /\ Same(u, Flushed(u), {"screen"}) /\ ScreenTrue(Flushed(u).screen, went, C)
             /\ Shows(u.screen, ls) => Shows(Flushed(u).screen, ls)
  <2>. DEFINE e == [mark |-> "raw", line |-> l]
  <2>1. Flushed(u) = Show(u, "raw", l)
    BY <1>2 DEF Flushed
  <2>2. "raw" \in Marks \ {"complete", "ok"}
    BY DEF Marks
  <2>3. Orderly(Flushed(u)) /\ Same(u, Flushed(u), {"screen"}) /\ ScreenTrue(Flushed(u).screen, went, C)
    BY <2>1, <2>2, ShowPlain
  <2>4. Flushed(u).screen = Append(u.screen, e)
    BY <2>1, <2>2, LinesShown, ShowIs
  <2>5. e \in Entries /\ e.mark = "raw" /\ u.screen \in Seq(Entries)
    BY <2>2, LinesShown DEF Entries, UiRecord
  <2>. HIDE DEF e
  <2>6. Shows(u.screen, ls) => Shows(Flushed(u).screen, ls)
    BY <2>4, <2>5, ShowsEntry DEF VerdictMarks
  <2>. QED  BY <2>3, <2>6
<1>. QED  BY <1>1, <1>2

LEMMA JoinSpinnerKeeps ==
  ASSUME StreamsIInv, JoinSpinner
  PROVE  StreamsIInv'
<1>. DEFINE u == [ui EXCEPT !.spin = "off", !.then = "none", !.active = FALSE]
<1>1. /\ ui \in UiRecord /\ UiTrue(ui) /\ ui.spin = "stopping" /\ ui.then \in {"built", "deployed", "close"}
      /\ seen \in Seq(Lines) /\ torn \in {<<>>} \cup {<<l>> : l \in Lines}
      /\ job' = job /\ at' = at /\ said' = said /\ erred' = erred
      /\ passed' = passed /\ told' = told /\ chosen' = chosen /\ seen' = seen /\ torn' = torn
      /\ ends' = (IF ui.then = "close" THEN "closed" ELSE ends)
  BY DEF JoinSpinner, serverVars, StreamsIInv, StreamsType, UiRecord, UiTrue
<1>2. u \in UiRecord /\ Same(ui, u, {"spin", "then", "active"}) /\ u.spin = "off" /\ u.then = "none" /\ u.active = FALSE
  BY <1>1 DEF UiRecord, Same
<1>3. ui' = CASE ui.then = "built" -> [u EXCEPT !.built = TRUE]
              [] ui.then = "deployed" -> Show(u, "final", Line("deployed", "none"))
              [] ui.then = "close" -> ClosedUi(u)
  BY DEF JoinSpinner
<1>. HIDE DEF u
<1>4. /\ u.label = ui.label /\ u.painted = ui.painted /\ ~u.smeared /\ u.screen = ui.screen /\ u.count = ui.count
  BY <1>1, <1>2 DEF Same, UiTrue
<1>5. ScreenTrue(u.screen, passed, Final)
  BY <1>4 DEF StreamsIInv
<1>6. /\ Orderly(ui') /\ ui'.spin = "off" /\ ~ui'.active /\ ScreenTrue(ui'.screen, passed, Final)
      /\ Shows(ui.screen, seen) => Shows(ui'.screen, seen)
      /\ ui'.count = ui.count /\ ui'.label = IF ui.then = "close" THEN "none" ELSE ui.label
  <2>1. CASE ui.then = "close"
    <3>. DEFINE c == Cleared(u)
                n == NoStep(c)
                d == [n EXCEPT !.active = FALSE]
    <3>1. c \in UiRecord /\ Same(u, c, {"painted"}) /\ c.painted = FALSE
      BY <1>2, ClearedIs
    <3>. HIDE DEF c
    <3>2. n \in UiRecord /\ Same(c, n, {"label", "tail"}) /\ n.label = "none"
      BY <3>1, NoStepIs
    <3>. HIDE DEF n
    <3>3. d \in UiRecord /\ Same(n, d, {"active"}) /\ d.active = FALSE
      BY <3>2 DEF UiRecord, Same
    <3>4. ui' = Flushed(d)
      BY <1>3, <2>1 DEF ClosedUi, c, n
    <3>. HIDE DEF d
    <3>5. /\ d.label = "none" /\ d.painted = FALSE /\ ~d.smeared /\ d.screen = ui.screen /\ d.count = ui.count
          /\ d.spin = "off" /\ d.then = "none"
      BY <1>2, <1>4, <3>1, <3>2, <3>3 DEF Same
    <3>6. Orderly(d)
      BY <3>3, <3>5 DEF Orderly, UiTrue
    <3>7. ScreenTrue(d.screen, passed, Final)
      BY <1>4, <1>5, <3>5
    <3>8. /\ Orderly(ui') /\ Same(d, ui', {"screen"}) /\ ScreenTrue(ui'.screen, passed, Final)
          /\ Shows(d.screen, seen) => Shows(ui'.screen, seen)
      <4>. HIDE DEF Final
      <4>. QED  BY <1>1, <3>3, <3>4, <3>5, <3>6, <3>7, FlushedIs
    <3>9. ui'.spin = "off" /\ ~ui'.active /\ ui'.count = ui.count /\ ui'.label = "none"
      BY <3>3, <3>5, <3>8 DEF Same
    <3>. QED  BY <2>1, <3>5, <3>8, <3>9
  <2>2. CASE ui.then \in {"built", "deployed"}
    <3>1. ui.label = "none" /\ ~ui.painted
      BY <1>1, <2>2 DEF UiTrue
    <3>2. Orderly(u) /\ ~u.painted
      BY <1>2, <1>4, <3>1 DEF Orderly, UiTrue
    <3>3. CASE ui.then = "built"
      BY <1>3, <3>3, <1>2, <3>2, BuiltSteps, <1>4, <1>5 DEF Same
    <3>4. CASE ui.then = "deployed"
      <4>. DEFINE l == Line("deployed", "none")
                  e == [mark |-> "final", line |-> l]
      <4>1. l \in Lines /\ "final" \in Marks \ {"complete", "ok"}
        BY DEF Line, Lines, Kinds, Texts, Marks
      <4>2. ui' = Show(u, "final", l)
        BY <1>3, <3>4
      <4>. HIDE DEF l
      <4>3. Orderly(ui') /\ Same(u, ui', {"screen"}) /\ ScreenTrue(ui'.screen, passed, Final)
        <5>. HIDE DEF Final
        <5>. QED  BY <1>2, <1>5, <3>2, <4>1, <4>2, ShowPlain
      <4>4. ui'.screen = Append(ui.screen, e) /\ e \in Entries /\ e.mark = "final" /\ ui.screen \in Seq(Entries)
        <5>1. ui'.screen = Append(u.screen, e)
          BY <1>2, <4>1, <4>2, LinesShown, ShowIs
        <5>2. e \in Entries /\ e.mark = "final"
          BY <4>1, LinesShown DEF Entries
        <5>. QED  BY <1>1, <1>4, <5>1, <5>2 DEF UiRecord
      <4>. HIDE DEF e
      <4>5. Shows(ui.screen, seen) => Shows(ui'.screen, seen)
        BY <4>4, ShowsEntry DEF VerdictMarks
      <4>6. ui'.spin = "off" /\ ~ui'.active /\ ui'.count = ui.count /\ ui'.label = ui.label
        BY <1>2, <1>4, <4>3 DEF Same
      <4>. QED  BY <3>4, <4>3, <4>5, <4>6
    <3>. QED  BY <2>2, <3>3, <3>4
  <2>. QED  BY <1>1, <2>1, <2>2
<1>7. StreamsType' /\ UiTrue(ui')
  BY <1>1, <1>6 DEF StreamsIInv, StreamsType, Orderly
<1>8. ScreenTrue(ui'.screen, passed', Final')
  BY <1>1, <1>6 DEF Final
<1>9. /\ ui.then = "close" => said = <<>> /\ erred = <<>> /\ at \in {"finished", "failed"}
      /\ ends = "closing" => ui.then = "close"
      /\ ends # "closed"
  BY <1>1 DEF StreamsIInv, EndTrue, StreamsType
<1>10. FramesTrue'
  <2>1. CASE ui.then = "close"
    BY <1>1, <1>6, <1>9, <2>1 DEF FramesTrue, Fits, NoneOpen
  <2>2. CASE ui.then # "close"
    BY <1>1, <1>6, <2>2 DEF StreamsIInv, FramesTrue
  <2>. QED  BY <2>1, <2>2
<1>11. TextTrue'
  <2>1. CASE ui.then = "close"
    BY <1>1, <1>6, <1>9, <2>1 DEF TextTrue, TextFits, Earned
  <2>2. CASE ui.then # "close"
    BY <1>1, <1>6, <2>2 DEF StreamsIInv, TextTrue
  <2>. QED  BY <2>1, <2>2
<1>12. RendererTrue'
  BY <1>1, <1>6 DEF StreamsIInv, RendererTrue
<1>13. EndTrue'
  BY <1>1, <1>6, <1>9 DEF StreamsIInv, EndTrue, Orderly
<1>14. CountTrue'
  <2>1. CASE ui.then = "close"
    <3>1. Results(said) = 0
      BY <1>9, <2>1, FS_EmptySet DEF Results
    <3>2. ui.count \in Nat
      BY <1>1 DEF UiRecord
    <3>3. job.prog = "apply" /\ at # "failed" => told = ui.count
      BY <1>9, <3>1, <3>2 DEF StreamsIInv, CountTrue
    <3>. QED  BY <1>1, <1>6, <2>1, <3>3 DEF CountTrue
  <2>2. CASE ui.then # "close"
    BY <1>1, <1>6, <2>2 DEF StreamsIInv, CountTrue
  <2>. QED  BY <2>1, <2>2
<1>. QED  BY <1>7, <1>8, <1>10, <1>11, <1>12, <1>13, <1>14 DEF StreamsIInv

LEMMA NoResults == Results(<<>>) = 0
BY FS_EmptySet DEF Results

LEMMA CloseKeeps ==
  ASSUME StreamsIInv, Close
  PROVE  StreamsIInv'
<1>1. /\ ui \in UiRecord /\ Orderly(ui) /\ ui.spin # "stopping" /\ ends = "open"
      /\ seen \in Seq(Lines) /\ torn \in {<<>>} \cup {<<l>> : l \in Lines}
      /\ at \in {"finished", "failed"} /\ said = <<>> /\ erred = <<>>
      /\ job' = job /\ at' = at /\ said' = said /\ erred' = erred
      /\ passed' = passed /\ told' = told /\ chosen' = chosen /\ seen' = seen /\ torn' = torn
  BY DEF Close, Reads, serverVars, StreamsIInv, StreamsType, EndTrue, Orderly
<1>2. job.prog = "apply" /\ at # "failed" => told = ui.count
  <2>1. ui.count \in Nat
    BY <1>1 DEF UiRecord
  <2>. QED  BY <1>1, <2>1, NoResults DEF StreamsIInv, CountTrue
<1>3. CASE ui.active
  <2>1. ui' = StopSpinner(ui, "close") /\ ends' = "closing"
    BY <1>3 DEF Close
  <2>2. ui' \in UiRecord /\ Same(ui, ui', {"spin", "then"}) /\ ui'.spin = "stopping" /\ ui'.then = "close"
    BY <1>1, <2>1, StopSpinnerIs
  <2>3. /\ ui'.active = ui.active /\ ui'.label = ui.label /\ ui'.painted = ui.painted /\ ui'.smeared = ui.smeared
        /\ ui'.count = ui.count /\ ui'.screen = ui.screen
    BY <2>2 DEF Same
  <2>4. StreamsType' /\ UiTrue(ui')
    BY <1>1, <1>3, <2>1, <2>2, <2>3 DEF StreamsIInv, StreamsType, UiTrue, Orderly
  <2>. QED  BY <1>1, <2>1, <2>2, <2>3, <2>4 DEF StreamsIInv, FramesTrue, TextTrue, RendererTrue, EndTrue, CountTrue, Final
<1>4. CASE ~ui.active
  <2>1. ui' = Flushed(ui) /\ ends' = "closed" /\ ~ui.painted /\ ui.spin = "off"
    BY <1>1, <1>4 DEF Close, Orderly, UiTrue
  <2>2. ScreenTrue(ui.screen, passed, Final)
    BY DEF StreamsIInv
  <2>3. /\ Orderly(ui') /\ Same(ui, ui', {"screen"}) /\ ScreenTrue(ui'.screen, passed, Final)
        /\ Shows(ui.screen, seen) => Shows(ui'.screen, seen)
    <3>. HIDE DEF Final
    <3>. QED  BY <1>1, <2>1, <2>2, FlushedIs
  <2>4. ui'.active = ui.active /\ ui'.label = ui.label /\ ui'.spin = "off" /\ ui'.then = ui.then /\ ui'.count = ui.count
    BY <2>1, <2>3 DEF Same
  <2>5. StreamsType' /\ UiTrue(ui')
    BY <1>1, <2>1, <2>3 DEF StreamsIInv, StreamsType, Orderly
  <2>6. ScreenTrue(ui'.screen, passed', Final')
    BY <1>1, <2>3 DEF Final
  <2>7. FramesTrue' /\ TextTrue' /\ RendererTrue'
    BY <1>1, <2>3, <2>4 DEF StreamsIInv, FramesTrue, TextTrue, RendererTrue
  <2>8. EndTrue' /\ CountTrue'
    BY <1>1, <1>2, <2>1, <2>3, <2>4 DEF EndTrue, CountTrue, Orderly
  <2>. QED  BY <2>5, <2>6, <2>7, <2>8 DEF StreamsIInv
<1>. QED  BY <1>3, <1>4

LEMMA ConcludeKeeps ==
  ASSUME StreamsIInv, Conclude
  PROVE  StreamsIInv'
<1>. DEFINE z == [ui EXCEPT !.count = 0]
            l == Line("complete", ui.count)
            e == [mark |-> "complete", line |-> l]
<1>1. /\ ui \in UiRecord /\ UiTrue(ui) /\ ui.spin = "off" /\ ends = "closed" /\ at = "finished" /\ job.prog = "apply"
      /\ ui.count > 0 /\ ui.count \in Nat
      /\ job' = job /\ at' = at /\ said' = said /\ erred' = erred
      /\ passed' = passed /\ told' = told /\ chosen' = chosen /\ seen' = seen /\ torn' = torn /\ ends' = ends
      /\ ui' = Show(z, "complete", l)
  BY DEF Conclude, serverVars, StreamsIInv, StreamsType, UiRecord
<1>2. z \in UiRecord /\ Same(ui, z, {"count"}) /\ z.count = 0
  BY <1>1 DEF UiRecord, Same
<1>3. l \in [k : Kinds, x : Shown] /\ l.x = ui.count /\ "complete" \in Marks
  <2>1. ui.count \in Shown
    BY <1>1 DEF Shown
  <2>. QED  BY <2>1 DEF Line, Kinds, Marks
<1>. HIDE DEF z, l
<1>4. e \in Entries /\ e.mark = "complete" /\ e.line.x = ui.count
  BY <1>3 DEF Entries
<1>5. /\ ui' \in UiRecord /\ Same(z, ui', {"screen", "smeared"}) /\ ui'.screen = Append(z.screen, e)
      /\ ui'.smeared = (z.smeared \/ z.painted)
  BY <1>1, <1>2, <1>3, ShowIs
<1>. HIDE DEF e
<1>6. /\ ui'.active = ui.active /\ ui'.label = ui.label /\ ui'.spin = ui.spin /\ ui'.then = ui.then
      /\ ui'.painted = ui.painted /\ ui'.count = 0 /\ ui'.screen = Append(ui.screen, e)
      /\ ui'.smeared = (ui.smeared \/ ui.painted)
  BY <1>2, <1>5 DEF Same
<1>7. UiTrue(ui')
  BY <1>1, <1>6 DEF UiTrue
<1>8. StreamsType'
  BY <1>1, <1>5 DEF StreamsIInv, StreamsType
<1>9. ui.screen \in Seq(Entries)
  BY <1>1 DEF UiRecord
<1>10. ui.count = told
  BY <1>1 DEF StreamsIInv, CountTrue
<1>11. ScreenTrue(ui'.screen, passed', Final')
  <2>1. ScreenTrue(ui.screen, passed, Final) /\ e.line.x \in Final
    BY <1>1, <1>4, <1>10 DEF StreamsIInv, Final
  <2>2. ScreenTrue(Append(ui.screen, e), passed, Final)
    <3>. HIDE DEF Final
    <3>. QED  BY <1>4, <1>9, <2>1, AppendTrue
  <2>. QED  BY <1>1, <1>6, <2>2 DEF Final
<1>12. Shows(ui.screen, seen) => Shows(ui'.screen, seen)
  BY <1>4, <1>6, <1>9, ShowsEntry DEF VerdictMarks
<1>13. FramesTrue' /\ TextTrue' /\ RendererTrue'
  BY <1>1, <1>6, <1>12 DEF StreamsIInv, FramesTrue, TextTrue, RendererTrue
<1>14. EndTrue' /\ CountTrue'
  BY <1>1, <1>6 DEF StreamsIInv, EndTrue, CountTrue
<1>. QED  BY <1>7, <1>8, <1>11, <1>13, <1>14 DEF StreamsIInv

LEMMA CutKeeps ==
  ASSUME StreamsIInv, Cut
  PROVE  StreamsIInv'
<1>1. /\ said \in Seq(Lines) /\ at \notin {"finished", "failed"} /\ at' = "failed" /\ ends = "open"
      /\ job' = job /\ erred' = erred /\ passed' = passed /\ told' = told /\ chosen' = chosen /\ ui' = ui
      /\ seen' = seen /\ ends' = ends
  BY DEF Cut, StreamsIInv, StreamsType
<1>2. PICK n \in 0 .. Len(said) :
        said' = SubSeq(said, 1, n) /\ torn' \in IF n < Len(said) THEN {<<>>, <<said[n + 1]>>} ELSE {<<>>}
  BY DEF Cut
<1>3. /\ said' \in Seq(Lines) /\ Len(said') = n /\ DOMAIN said' = 1 .. n /\ n \in Nat /\ Len(said) \in Nat
      /\ \A i \in 1 .. n : i \in DOMAIN said /\ said'[i] = said[i]
  BY <1>1, <1>2, PrefixIs
<1>4. torn' \in {<<>>} \cup {<<l>> : l \in Lines}
  BY <1>1, <1>3, <1>2
<1>5. StreamsType'
  BY <1>1, <1>3, <1>4 DEF StreamsIInv, StreamsType, Points
<1>6. ScreenTrue(ui'.screen, passed', Final')
  BY <1>1 DEF StreamsIInv, ScreenTrue, Final
<1>7. FramesTrue'
  BY <1>1, <1>2, FitsPrefix, <1>3 DEF StreamsIInv, FramesTrue
<1>8. TextTrue'
  BY <1>1, <1>2, TextFitsPrefix, <1>3 DEF StreamsIInv, TextTrue
<1>9. UiTrue(ui') /\ RendererTrue' /\ EndTrue' /\ CountTrue'
  BY <1>1 DEF StreamsIInv, RendererTrue, EndTrue, CountTrue
<1>. QED  BY <1>5, <1>6, <1>7, <1>8, <1>9 DEF StreamsIInv

-----------------------------------------------------------------------------
(* The server's steps. What one of them says closes the step it opens, unless *)
(* the program fails there.                                                   *)

Block(b, went, whole) ==
  /\ b \in Seq(Lines) /\ Fits("none", b) /\ TextFits("none", b, went)
  /\ \A i \in DOMAIN b : b[i].k = "ok" => b[i].x \in went
  /\ whole => NoneOpen("none", b, Len(b) + 1) /\ Earned("none", b, Len(b) + 1, went)

LEMMA SpeaksIs ==
  ASSUME job.speaks \in {"ndjson", "text"}, NEW b \in Seq(Lines), NEW went, NEW whole, Block(b, went, whole)
  PROVE  /\ Speaks(b) \in Seq(Lines)
         /\ job.speaks = "ndjson" => Speaks(b) = b
         /\ job.speaks = "text" =>
              /\ \A i \in DOMAIN Speaks(b) : Speaks(b)[i].k \notin Unspoken
              /\ TextFits("none", Speaks(b), went)
              /\ whole => Earned("none", Speaks(b), Len(Speaks(b)) + 1, went)
<1>1. CASE job.speaks = "ndjson"
  BY <1>1 DEF Speaks
<1>2. CASE job.speaks = "text"
  <2>. DEFINE S == {i \in DOMAIN b : b[i].k \notin Unspoken}
  <2>1. Speaks(b) = Only(b, S) /\ S \in SUBSET (DOMAIN b)
    BY <1>2 DEF Speaks
  <2>2. /\ Only(b, S) \in Seq(Lines)
        /\ \A m \in DOMAIN Only(b, S) : \E i \in S : Rank(S, i) = m /\ Only(b, S)[m] = b[i]
    <3>. HIDE DEF S
    <3>. QED  BY <2>1, OnlyIs
  <2>3. \A m \in DOMAIN Only(b, S) : Only(b, S)[m].k \notin Unspoken
    BY <2>2
  <2>. HIDE DEF S
  <2>4. /\ TextFits("none", Only(b, S), went)
        /\ whole => Earned("none", Only(b, S), Len(Only(b, S)) + 1, went)
    BY <2>1, TextFitsOnly DEF Block
  <2>. QED  BY <1>2, <2>1, <2>2, <2>3, <2>4
<1>. QED  BY <1>1, <1>2

LEMMA NoneResult ==
  ASSUME NEW b \in Seq(Lines), \A i \in DOMAIN b : b[i].k # "result"
  PROVE  Results(b) = 0
<1>1. {i \in 1 .. Len(b) : b[i].k = "result"} = {}
  <2>1. DOMAIN b = 1 .. Len(b)
    OBVIOUS
  <2>. QED  BY <2>1
<1>. QED  BY <1>1, FS_EmptySet DEF Results

LEMMA SpeaksNone ==
  ASSUME job.speaks \in {"ndjson", "text"}, NEW b \in Seq(Lines), \A i \in DOMAIN b : b[i].k # "result"
  PROVE  Results(Speaks(b)) = 0
<1>1. CASE job.speaks = "ndjson"
  BY <1>1, NoneResult DEF Speaks
<1>2. CASE job.speaks = "text"
  <2>. DEFINE S == {i \in DOMAIN b : b[i].k \notin Unspoken}
  <2>1. Speaks(b) = Only(b, S) /\ S \in SUBSET (DOMAIN b)
    BY <1>2 DEF Speaks
  <2>2. /\ Only(b, S) \in Seq(Lines)
        /\ \A m \in DOMAIN Only(b, S) : \E i \in S : Rank(S, i) = m /\ Only(b, S)[m] = b[i]
    <3>. HIDE DEF S
    <3>. QED  BY <2>1, OnlyIs
  <2>3. \A m \in DOMAIN Only(b, S) : Only(b, S)[m].k # "result"
    BY <2>2
  <2>. HIDE DEF S
  <2>. QED  BY <2>1, <2>2, <2>3, NoneResult
<1>. QED  BY <1>1, <1>2

\* More is said: it fits what is still to be read.
LEMMA SayKeeps ==
  ASSUME StreamsIInv, at \notin {"finished", "failed"}, at' \in Points, NEW b \in Seq(Lines), Say(b),
         passed \subseteq passed', passed' \in SUBSET Texts, Block(b, passed', at' # "failed"),
         erred' = erred \/ \E x \in Texts : erred' = Append(erred, Line("noise", x)),
         told' \in Nat, at' # "failed" => told' = told + Results(Speaks(b)), Serves
  PROVE  StreamsIInv'
<1>. DEFINE c == Speaks(b)
            D == passed'
<1>1. /\ said \in Seq(Lines) /\ said' = said \o c /\ ends = "open" /\ told \in Nat /\ erred \in Seq(Lines)
      /\ job.speaks \in {"ndjson", "text"}
      /\ job' = job /\ chosen' = chosen /\ ui' = ui /\ seen' = seen /\ torn' = torn /\ ends' = ends
      /\ ends \in {"open", "closing", "closed"}
  BY DEF StreamsIInv, StreamsType, EndTrue, Say, Serves
<1>2. /\ c \in Seq(Lines)
      /\ job.speaks = "ndjson" => c = b
      /\ job.speaks = "text" =>
           /\ \A i \in DOMAIN c : c[i].k \notin Unspoken
           /\ TextFits("none", c, D)
           /\ at' # "failed" => Earned("none", c, Len(c) + 1, D)
  BY <1>1, SpeaksIs
<1>3. /\ Fits("none", b) /\ \A i \in DOMAIN b : b[i].k = "ok" => b[i].x \in D
      /\ at' # "failed" => NoneOpen("none", b, Len(b) + 1)
  BY DEF Block
<1>. HIDE DEF c, D
<1>4. /\ said' \in Seq(Lines) /\ DOMAIN said = 1 .. Len(said) /\ DOMAIN c = 1 .. Len(c)
      /\ DOMAIN said' = 1 .. Len(said) + Len(c) /\ Len(said) \in Nat /\ Len(c) \in Nat
      /\ \A i \in 1 .. Len(said) : said'[i] = said[i]
      /\ \A i \in 1 .. Len(c) : said'[Len(said) + i] = c[i]
  BY <1>1, <1>2, MoreIs
<1>5. \A i \in DOMAIN said' : \/ i \in DOMAIN said /\ said'[i] = said[i]
                              \/ i - Len(said) \in DOMAIN c /\ said'[i] = c[i - Len(said)]
  BY <1>4
<1>6. erred' \in Seq(Lines) /\ \A i \in DOMAIN erred' : erred'[i].k = "noise"
  <2>1. CASE erred' = erred
    BY <1>1, <2>1 DEF StreamsIInv, RendererTrue
  <2>2. ASSUME NEW x \in Texts, erred' = Append(erred, Line("noise", x))
        PROVE  erred' \in Seq(Lines) /\ \A i \in DOMAIN erred' : erred'[i].k = "noise"
    <3>. DEFINE l == Line("noise", x)
    <3>1. l \in Lines /\ l.k = "noise"
      BY DEF Line, Lines, Kinds
    <3>. HIDE DEF l
    <3>2. /\ Append(erred, l) \in Seq(Lines) /\ Len(erred) \in Nat /\ DOMAIN erred = 1 .. Len(erred)
          /\ DOMAIN Append(erred, l) = 1 .. Len(erred) + 1
          /\ \A i \in 1 .. Len(erred) : Append(erred, l)[i] = erred[i]
          /\ Append(erred, l)[Len(erred) + 1] = l
      BY <1>1, <3>1, AppendIs
    <3>3. \A i \in 1 .. Len(erred) + 1 : i \in 1 .. Len(erred) \/ i = Len(erred) + 1
      BY <3>2
    <3>4. \A i \in 1 .. Len(erred) : erred[i].k = "noise"
      BY <3>2 DEF StreamsIInv, RendererTrue
    <3>5. erred' = Append(erred, l)
      BY <2>2 DEF l
    <3>. QED  BY <3>1, <3>2, <3>3, <3>4, <3>5
  <2>. QED  BY <2>1, <2>2
<1>7. StreamsType' /\ UiTrue(ui')
  BY <1>1, <1>4, <1>6 DEF StreamsIInv, StreamsType
<1>8. ScreenTrue(ui'.screen, passed', Final')
  BY <1>1 DEF StreamsIInv, ScreenTrue, Final
<1>9. FramesTrue'
  <2>. SUFFICES ASSUME job.speaks = "ndjson"
                PROVE  /\ \A i \in DOMAIN said' : said'[i].k = "ok" => said'[i].x \in D
                       /\ chosen # "legacy" =>
                            Fits(ui.label, said') /\ (at' # "failed" => NoneOpen(ui.label, said', Len(said') + 1))
    BY <1>1 DEF FramesTrue, D
  <2>1. \A i \in DOMAIN said' : said'[i].k = "ok" => said'[i].x \in D
    BY <1>2, <1>3, <1>5 DEF StreamsIInv, FramesTrue, D
  <2>2. ASSUME chosen # "legacy"
        PROVE  Fits(ui.label, said') /\ (at' # "failed" => NoneOpen(ui.label, said', Len(said') + 1))
    BY <2>2, <1>1, <1>3, FitsMore, <1>2 DEF StreamsIInv, FramesTrue
  <2>. QED  BY <2>1, <2>2
<1>10. TextTrue'
  <2>. SUFFICES ASSUME job.speaks = "text"
                PROVE  /\ \A i \in DOMAIN said' : said'[i].k \notin Unspoken
                       /\ TextFits(ui.label, said', D)
                       /\ at' # "failed" => Earned(ui.label, said', Len(said') + 1, D)
    BY <1>1 DEF TextTrue, D
  <2>1. \A i \in DOMAIN said' : said'[i].k \notin Unspoken
    BY <1>2, <1>5 DEF StreamsIInv, TextTrue
  <2>2. TextFits(ui.label, said, passed) /\ Earned(ui.label, said, Len(said) + 1, passed)
    BY DEF StreamsIInv, TextTrue
  <2>3. /\ TextFits(ui.label, said \o c, D)
        /\ Earned("none", c, Len(c) + 1, D) => Earned(ui.label, said \o c, Len(said \o c) + 1, D)
    <3>1. passed \subseteq D
      BY DEF D
    <3>. QED  BY <1>1, <1>2, <2>2, <3>1, TextFitsMore
  <2>. QED  BY <1>1, <1>2, <2>1, <2>3
<1>11. RendererTrue'
  BY <1>1, <1>6 DEF StreamsIInv, RendererTrue
<1>12. EndTrue'
  BY <1>1 DEF StreamsIInv, EndTrue
<1>13. CountTrue'
  <2>1. ASSUME job.prog = "apply", at' # "failed" PROVE told' = ui.count + Results(said')
    <3>1. told = ui.count + Results(said)
      BY <1>1, <2>1 DEF StreamsIInv, CountTrue
    <3>2. Results(said') = Results(said) + Results(c) /\ Results(said) \in Nat /\ Results(c) \in Nat
      BY <1>1, <1>2, ResultsMore, ResultsTyped
    <3>3. ui.count \in Nat
      BY DEF StreamsIInv, StreamsType, UiRecord
    <3>4. told' = told + Results(c)
      BY <2>1 DEF c
    <3>. QED  BY <3>1, <3>2, <3>3, <3>4
  <2>. QED  BY <1>1, <2>1 DEF CountTrue
<1>. QED  BY <1>7, <1>8, <1>9, <1>10, <1>11, <1>12, <1>13 DEF StreamsIInv

\* Lines that neither open nor end a step.
LEMMA PlainBlock ==
  ASSUME NEW b \in Seq(Lines), \A i \in DOMAIN b : b[i].k \notin {"start", "ok", "fail"}, NEW went, NEW whole
  PROVE  Block(b, went, whole)
<1>1. Len(b) \in Nat /\ DOMAIN b = 1 .. Len(b)
  OBVIOUS
<1>2. ASSUME NEW i \in 1 .. Len(b) + 1 PROVE NoneOpen("none", b, i) /\ Earned("none", b, i, went)
  BY <1>1 DEF NoneOpen, Earned
<1>3. Len(b) + 1 \in 1 .. Len(b) + 1 /\ \A i \in DOMAIN b : i \in 1 .. Len(b) + 1
  BY <1>1
<1>4. Fits("none", b)
  BY <1>2, <1>3 DEF Fits, Ends
<1>5. TextFits("none", b, went)
  BY <1>2, <1>3 DEF TextFits
<1>. QED  BY <1>2, <1>3, <1>4, <1>5 DEF Block

\* One step, from its start to its end, and lines that neither open nor end one.
LEMMA StepBlock ==
  ASSUME NEW b \in Seq(Lines), NEW x, x # "none", NEW k \in {"ok", "fail"}, NEW e \in 2 .. Len(b),
         b[1] = Line("start", x), b[e] = Line(k, x),
         \A i \in 2 .. e - 1 : b[i].k = "info",
         \A i \in e + 1 .. Len(b) : b[i].k \notin {"start", "ok", "fail"},
         NEW went, k = "ok" => x \in went, NEW whole,
         whole => x \in went \/ x \notin Banners,
         \A i \in e + 1 .. Len(b) : b[i].k \in {"built", "deployed"} => x \in went
  PROVE  Block(b, went, whole)
<1>1. Len(b) \in Nat /\ DOMAIN b = 1 .. Len(b) /\ e \in Nat
  OBVIOUS
<1>2. b[1].k = "start" /\ b[1].x = x /\ b[e].k = k /\ b[e].x = x
  BY DEF Line
<1>3. ASSUME NEW i \in DOMAIN b PROVE i = 1 \/ i = e \/ i \in 2 .. e - 1 \/ i \in e + 1 .. Len(b)
  BY <1>1
<1>4. \A i \in DOMAIN b : b[i].k = "start" => i = 1
  BY <1>2, <1>3
<1>5. \A i \in DOMAIN b : b[i].k \in Ends => i = e
  BY <1>2, <1>3 DEF Ends
<1>6. StartBefore("none", b, e)
  BY <1>1, <1>2 DEF StartBefore
<1>7. ASSUME NEW i \in e + 1 .. Len(b) + 1 PROVE NoneOpen("none", b, i)
  BY <1>1, <1>2, <1>4 DEF Ends, NoneOpen
<1>8. NoneOpen("none", b, 1)
  <2>1. 1 .. 1 - 1 = {}
    OBVIOUS
  <2>. QED  BY <2>1 DEF NoneOpen
<1>9. \A i \in DOMAIN b : b[i].k \in Between => i = 1 \/ i \in e + 1 .. Len(b)
  BY <1>2, <1>3 DEF Between
<1>10. \A i \in e + 1 .. Len(b) : i \in e + 1 .. Len(b) + 1
  BY <1>1
<1>11. Fits("none", b)
  BY <1>2, <1>4, <1>5, <1>6, <1>7, <1>8, <1>9, <1>10 DEF Fits
<1>12. ASSUME NEW i \in 1 .. Len(b) + 1, i = 1 \/ x \in went \/ x \notin Banners PROVE Earned("none", b, i, went)
  BY <1>1, <1>2, <1>4, <1>12 DEF Earned
<1>13. TextFits("none", b, went)
  <2>1. ASSUME NEW i \in DOMAIN b, b[i].k \in {"start", "built", "deployed"} PROVE Earned("none", b, i, went)
    <3>1. i = 1 \/ x \in went
      BY <1>2, <1>3, <1>4, <2>1
    <3>. QED  BY <1>1, <1>12, <3>1
  <2>. QED  BY <2>1 DEF TextFits
<1>14. \A i \in DOMAIN b : b[i].k = "ok" => b[i].x \in went
  BY <1>2, <1>3
<1>15. whole => NoneOpen("none", b, Len(b) + 1) /\ Earned("none", b, Len(b) + 1, went)
  BY <1>1, <1>7, <1>12
<1>. QED  BY <1>11, <1>13, <1>14, <1>15 DEF Block

\* Lists of few.
LEMMA NoneIs == \A E : <<>> \in Seq(E) /\ Len(<<>>) = 0 /\ DOMAIN <<>> = {}
OBVIOUS
LEMMA OneIs ==
  ASSUME NEW E, NEW p \in E
  PROVE  <<p>> \in Seq(E) /\ Len(<<p>>) = 1 /\ DOMAIN <<p>> = {1} /\ <<p>>[1] = p
OBVIOUS
LEMMA TwoIs ==
  ASSUME NEW E, NEW p \in E, NEW q \in E
  PROVE  <<p, q>> \in Seq(E) /\ Len(<<p, q>>) = 2 /\ DOMAIN <<p, q>> = {1, 2} /\ <<p, q>>[1] = p /\ <<p, q>>[2] = q
OBVIOUS
LEMMA ThreeIs ==
  ASSUME NEW E, NEW p \in E, NEW q \in E, NEW r \in E
  PROVE  /\ <<p, q, r>> \in Seq(E) /\ Len(<<p, q, r>>) = 3 /\ DOMAIN <<p, q, r>> = {1, 2, 3}
         /\ <<p, q, r>>[1] = p /\ <<p, q, r>>[2] = q /\ <<p, q, r>>[3] = r
OBVIOUS
LEMMA FourIs ==
  ASSUME NEW E, NEW p \in E, NEW q \in E, NEW r \in E, NEW s \in E
  PROVE  /\ <<p, q, r, s>> \in Seq(E) /\ Len(<<p, q, r, s>>) = 4 /\ DOMAIN <<p, q, r, s>> = {1, 2, 3, 4}
         /\ <<p, q, r, s>>[1] = p /\ <<p, q, r, s>>[2] = q /\ <<p, q, r, s>>[3] = r /\ <<p, q, r, s>>[4] = s
OBVIOUS

LEMMA LineIs ==
  ASSUME NEW k \in Kinds, NEW x \in Texts
  PROVE  Line(k, x) \in Lines /\ Line(k, x).k = k /\ Line(k, x).x = x
BY DEF Line, Lines

\* No line of a block reports a result.
Silent(b) == \A i \in DOMAIN b : b[i].k # "result"

LEMMA StepTwo ==
  ASSUME NEW x \in Texts, x # "none", NEW k \in {"ok", "fail"}, NEW went, k = "ok" => x \in went,
         NEW whole, whole => x \in went \/ x \notin Banners
  PROVE  LET b == <<Line("start", x), Line(k, x)>> IN b \in Seq(Lines) /\ Block(b, went, whole) /\ Silent(b)
<1>. DEFINE p == Line("start", x)
            q == Line(k, x)
            b == <<p, q>>
<1>1. p \in Lines /\ q \in Lines /\ p.k = "start" /\ q.k = k
  BY LineIs DEF Kinds
<1>2. p = Line("start", x) /\ q = Line(k, x)
  OBVIOUS
<1>. SUFFICES b \in Seq(Lines) /\ Block(b, went, whole) /\ Silent(b)
  OBVIOUS
<1>. HIDE DEF p, q
<1>3. b \in Seq(Lines) /\ Len(b) = 2 /\ DOMAIN b = {1, 2} /\ b[1] = p /\ b[2] = q
  BY <1>1, TwoIs
<1>. HIDE DEF b
<1>4. 2 \in 2 .. Len(b) /\ 2 .. 2 - 1 = {} /\ 2 + 1 .. Len(b) = {}
  BY <1>3
<1>5. Block(b, went, whole)
  BY <1>2, <1>3, <1>4, StepBlock
<1>. QED  BY <1>1, <1>3, <1>5 DEF Silent

LEMMA StepThree ==
  ASSUME NEW x \in Texts, x # "none", NEW o \in Texts, NEW k \in {"ok", "fail"}, NEW went, k = "ok" => x \in went,
         NEW whole, whole => x \in went \/ x \notin Banners
  PROVE  LET b == <<Line("start", x), Line("info", o), Line(k, x)>>
         IN  b \in Seq(Lines) /\ Block(b, went, whole) /\ Silent(b)
<1>. DEFINE p == Line("start", x)
            q == Line("info", o)
            r == Line(k, x)
            b == <<p, q, r>>
<1>1. p \in Lines /\ q \in Lines /\ r \in Lines /\ p.k = "start" /\ q.k = "info" /\ r.k = k
  BY LineIs DEF Kinds
<1>2. p = Line("start", x) /\ r = Line(k, x)
  OBVIOUS
<1>. SUFFICES b \in Seq(Lines) /\ Block(b, went, whole) /\ Silent(b)
  OBVIOUS
<1>. HIDE DEF p, q, r
<1>3. b \in Seq(Lines) /\ Len(b) = 3 /\ DOMAIN b = {1, 2, 3} /\ b[1] = p /\ b[2] = q /\ b[3] = r
  BY <1>1, ThreeIs
<1>. HIDE DEF b
<1>4. 3 \in 2 .. Len(b) /\ (\A i \in 2 .. 3 - 1 : i = 2) /\ 3 + 1 .. Len(b) = {}
  BY <1>3
<1>5. Block(b, went, whole)
  BY <1>1, <1>2, <1>3, <1>4, StepBlock
<1>. QED  BY <1>1, <1>3, <1>5 DEF Silent

LEMMA StepFour ==
  ASSUME NEW x \in Texts, x # "none", NEW o \in Texts, NEW k \in {"ok", "fail"},
         NEW j \in {"built", "info", "warn"}, NEW y \in Texts,
         NEW went, k = "ok" => x \in went, j = "built" => x \in went,
         NEW whole, whole => x \in went \/ x \notin Banners
  PROVE  LET b == <<Line("start", x), Line("info", o), Line(k, x), Line(j, y)>>
         IN  b \in Seq(Lines) /\ Block(b, went, whole) /\ Silent(b)
<1>. DEFINE p == Line("start", x)
            q == Line("info", o)
            r == Line(k, x)
            s == Line(j, y)
            b == <<p, q, r, s>>
<1>1. p \in Lines /\ q \in Lines /\ r \in Lines /\ s \in Lines /\ p.k = "start" /\ q.k = "info" /\ r.k = k /\ s.k = j
  BY LineIs DEF Kinds
<1>2. p = Line("start", x) /\ r = Line(k, x)
  OBVIOUS
<1>. SUFFICES b \in Seq(Lines) /\ Block(b, went, whole) /\ Silent(b)
  OBVIOUS
<1>. HIDE DEF p, q, r, s
<1>3. b \in Seq(Lines) /\ Len(b) = 4 /\ DOMAIN b = {1, 2, 3, 4} /\ b[1] = p /\ b[2] = q /\ b[3] = r /\ b[4] = s
  BY <1>1, FourIs
<1>. HIDE DEF b
<1>4. 3 \in 2 .. Len(b) /\ (\A i \in 2 .. 3 - 1 : i = 2) /\ (\A i \in 3 + 1 .. Len(b) : i = 4)
  BY <1>3
<1>5. Block(b, went, whole)
  BY <1>1, <1>2, <1>3, <1>4, StepBlock
<1>. QED  BY <1>1, <1>3, <1>5 DEF Silent

LEMMA StepLate ==
  ASSUME NEW x \in Texts, x # "none", NEW o \in Texts, NEW went, x \in went, NEW whole
  PROVE  LET b == <<Line("start", x), Line("ok", x), Line("built", "none"), Line("info", o)>>
         IN  b \in Seq(Lines) /\ Block(b, went, whole) /\ Silent(b)
<1>. DEFINE p == Line("start", x)
            q == Line("ok", x)
            r == Line("built", "none")
            s == Line("info", o)
            b == <<p, q, r, s>>
<1>1. p \in Lines /\ q \in Lines /\ r \in Lines /\ s \in Lines /\ p.k = "start" /\ q.k = "ok" /\ r.k = "built" /\ s.k = "info"
  BY LineIs DEF Kinds, Texts
<1>2. p = Line("start", x) /\ q = Line("ok", x)
  OBVIOUS
<1>. SUFFICES b \in Seq(Lines) /\ Block(b, went, whole) /\ Silent(b)
  OBVIOUS
<1>. HIDE DEF p, q, r, s
<1>3. b \in Seq(Lines) /\ Len(b) = 4 /\ DOMAIN b = {1, 2, 3, 4} /\ b[1] = p /\ b[2] = q /\ b[3] = r /\ b[4] = s
  BY <1>1, FourIs
<1>. HIDE DEF b
<1>4. 2 \in 2 .. Len(b) /\ 2 .. 2 - 1 = {} /\ (\A i \in 2 + 1 .. Len(b) : i = 3 \/ i = 4)
  BY <1>3
<1>5. "ok" \in {"ok", "fail"} /\ \A i \in 2 + 1 .. Len(b) : b[i].k \notin {"start", "ok", "fail"}
  BY <1>1, <1>3, <1>4
<1>6. Block(b, went, whole)
  BY <1>2, <1>3, <1>4, <1>5, StepBlock
<1>. QED  BY <1>1, <1>3, <1>6 DEF Silent

LEMMA PlainOne ==
  ASSUME NEW k \in Kinds \ {"start", "ok", "fail", "result"}, NEW x \in Texts, NEW went, NEW whole
  PROVE  LET b == <<Line(k, x)>> IN b \in Seq(Lines) /\ Block(b, went, whole) /\ Silent(b)
<1>. DEFINE p == Line(k, x)
            b == <<p>>
<1>1. p \in Lines /\ p.k = k
  BY LineIs
<1>. SUFFICES b \in Seq(Lines) /\ Block(b, went, whole) /\ Silent(b)
  OBVIOUS
<1>. HIDE DEF p
<1>2. b \in Seq(Lines) /\ DOMAIN b = {1} /\ b[1] = p
  BY <1>1, OneIs
<1>. HIDE DEF b
<1>3. Block(b, went, whole)
  BY <1>1, <1>2, PlainBlock
<1>. QED  BY <1>1, <1>2, <1>3 DEF Silent

LEMMA PlainNone ==
  ASSUME NEW went, NEW whole
  PROVE  <<>> \in Seq(Lines) /\ Block(<<>>, went, whole) /\ Silent(<<>>)
BY NoneIs, PlainBlock DEF Silent

\* More lines that neither open nor end a step, behind a block.
LEMMA BlockMore ==
  ASSUME NEW a \in Seq(Lines), NEW b \in Seq(Lines), NEW went, Block(a, went, TRUE), Block(b, went, TRUE), NEW whole
  PROVE  a \o b \in Seq(Lines) /\ Block(a \o b, went, whole)
<1>1. /\ Fits("none", a) /\ NoneOpen("none", a, Len(a) + 1) /\ TextFits("none", a, went) /\ Earned("none", a, Len(a) + 1, went)
      /\ Fits("none", b) /\ NoneOpen("none", b, Len(b) + 1) /\ TextFits("none", b, went) /\ Earned("none", b, Len(b) + 1, went)
  BY DEF Block
<1>2. Fits("none", a \o b) /\ NoneOpen("none", a \o b, Len(a \o b) + 1)
  BY <1>1, FitsMore
<1>3. went \subseteq went
  OBVIOUS
<1>4. TextFits("none", a \o b, went) /\ Earned("none", a \o b, Len(a \o b) + 1, went)
  BY <1>1, <1>3, TextFitsMore
<1>5. /\ a \o b \in Seq(Lines) /\ DOMAIN (a \o b) = 1 .. Len(a) + Len(b) /\ Len(a) \in Nat /\ Len(b) \in Nat
      /\ DOMAIN a = 1 .. Len(a) /\ DOMAIN b = 1 .. Len(b)
      /\ \A i \in 1 .. Len(a) : (a \o b)[i] = a[i]
      /\ \A i \in 1 .. Len(b) : (a \o b)[Len(a) + i] = b[i]
  BY MoreIs
<1>6. ASSUME NEW i \in DOMAIN (a \o b), (a \o b)[i].k = "ok" PROVE (a \o b)[i].x \in went
  <2>1. CASE i \in 1 .. Len(a)
    BY <1>5, <1>6, <2>1 DEF Block
  <2>2. CASE i \notin 1 .. Len(a)
    BY <1>5, <2>2, <1>6 DEF Block
  <2>. QED  BY <2>1, <2>2
<1>. QED  BY <1>2, <1>4, <1>5, <1>6 DEF Block

LEMMA SilentMore ==
  ASSUME NEW a \in Seq(Lines), NEW b \in Seq(Lines), Silent(a), Silent(b)
  PROVE  Silent(a \o b)
<1>5. /\ a \o b \in Seq(Lines) /\ DOMAIN (a \o b) = 1 .. Len(a) + Len(b) /\ Len(a) \in Nat /\ Len(b) \in Nat
      /\ DOMAIN a = 1 .. Len(a) /\ DOMAIN b = 1 .. Len(b)
      /\ \A i \in 1 .. Len(a) : (a \o b)[i] = a[i]
      /\ \A i \in 1 .. Len(b) : (a \o b)[Len(a) + i] = b[i]
  BY MoreIs
<1>6. ASSUME NEW i \in DOMAIN (a \o b) PROVE (a \o b)[i].k # "result"
  <2>1. CASE i \in 1 .. Len(a)
    BY <1>5, <1>6, <2>1 DEF Silent
  <2>2. CASE i \notin 1 .. Len(a)
    BY <1>5, <2>2 DEF Silent
  <2>. QED  BY <2>1, <2>2
<1>. QED  BY <1>6 DEF Silent

LEMMA GoesKeeps ==
  ASSUME StreamsIInv, at \notin {"finished", "failed"}, Serves, NEW p \in Points \ {"failed"}, NEW b \in Seq(Lines),
         NEW s \in SUBSET Texts, Goes(p, b, s), Block(b, passed \cup s, TRUE), Silent(b)
  PROVE  StreamsIInv'
<1>1. /\ Say(b) /\ at' = p /\ passed' = passed \cup s /\ erred' = erred /\ told' = told /\ told \in Nat
      /\ passed \in SUBSET Texts /\ job.speaks \in {"ndjson", "text"}
  BY DEF Goes, StreamsIInv, StreamsType
<1>2. Results(Speaks(b)) = 0
  BY <1>1, SpeaksNone DEF Silent
<1>3. at' # "failed" /\ at' \in Points /\ Block(b, passed', at' # "failed")
  BY <1>1 DEF Block
<1>4. told' = told + Results(Speaks(b)) /\ told' \in Nat
  BY <1>1, <1>2
<1>5. passed \subseteq passed' /\ passed' \in SUBSET Texts
  BY <1>1
<1>. QED  BY <1>1, <1>3, <1>4, <1>5, SayKeeps

LEMMA FailsKeeps ==
  ASSUME StreamsIInv, at \notin {"finished", "failed"}, Serves, NEW b \in Seq(Lines), Fails(b), Block(b, passed, FALSE)
  PROVE  StreamsIInv'
BY SayKeeps DEF Fails, StreamsIInv, StreamsType, Texts, Points, Block

LEMMA HelloKeeps == ASSUME StreamsIInv, Hello PROVE StreamsIInv'
<1>. DEFINE b == <<Line("hello", "none")>>
<1>1. /\ at = "start" /\ Serves /\ Say(b) /\ passed' = passed /\ told' = told /\ told \in Nat /\ passed \in SUBSET Texts
      /\ erred' = erred \/ erred' = Append(erred, Line("noise", "credentials"))
      /\ at' \in {"receive", "pull", "answer"} /\ job.speaks \in {"ndjson", "text"}
  BY DEF Hello, StreamsIInv, StreamsType
<1>2. b \in Seq(Lines) /\ Block(b, passed', at' # "failed") /\ Silent(b)
  BY PlainOne DEF Kinds, Texts
<1>. HIDE DEF b
<1>3. Results(Speaks(b)) = 0
  BY <1>1, <1>2, SpeaksNone DEF Silent
<1>4. told' \in Nat /\ told' = told + Results(Speaks(b)) /\ at' \in Points /\ "credentials" \in Texts
      /\ passed \subseteq passed' /\ passed' \in SUBSET Texts /\ at \notin {"finished", "failed"}
  BY <1>1, <1>3 DEF Points, Texts
<1>5. erred' = erred \/ \E x \in Texts : erred' = Append(erred, Line("noise", x))
  BY <1>1, <1>4
<1>. QED  BY <1>1, <1>2, <1>4, <1>5, SayKeeps

LEMMA TextsIn ==
  /\ {"none", "receive", "skipping", "create", "languages", "build", "hook", "$", "gc", "releases", "pull",
      "image", "r", "apply", "release", "error", "credentials"} \subseteq Texts
  /\ \A o \in Pushes : o \in Texts
BY DEF Texts

LEMMA ReceiveKeeps == ASSUME StreamsIInv, Receive PROVE StreamsIInv'
<1>1. at = "receive" /\ Serves /\ at \notin {"finished", "failed"}
  BY DEF Receive
<1>2. CASE Goes("look", <<Line("start", "receive"), Line("ok", "receive")>>, {"receive"})
  <2>. DEFINE b == <<Line("start", "receive"), Line("ok", "receive")>>
              s == {"receive"}
  <2>1. b \in Seq(Lines) /\ Block(b, passed \cup s, TRUE) /\ Silent(b)
    BY TextsIn, StepTwo
  <2>2. s \in SUBSET Texts /\ "look" \in Points \ {"failed"}
    BY TextsIn DEF Points
  <2>3. Goes("look", b, s)
    BY <1>2
  <2>. HIDE DEF b, s
  <2>. QED  BY <1>1, <2>1, <2>2, <2>3, GoesKeeps
<1>3. CASE Fails(<<Line("start", "receive"), Line("fail", "receive")>>)
  <2>. DEFINE b == <<Line("start", "receive"), Line("fail", "receive")>>
  <2>1. b \in Seq(Lines) /\ Block(b, passed, FALSE)
    BY TextsIn, StepTwo
  <2>2. Fails(b)
    BY <1>3
  <2>. HIDE DEF b
  <2>. QED  BY <1>1, <2>1, <2>2, FailsKeeps
<1>. QED  BY <1>2, <1>3 DEF Receive

LEMMA SkipRebuildKeeps == ASSUME StreamsIInv, SkipRebuild PROVE StreamsIInv'
<1>. DEFINE b == <<Line("info", "skipping")>>
<1>1. at = "look" /\ Serves /\ at \notin {"finished", "failed"} /\ (Goes("finished", b, {}) \/ Fails(b))
  BY DEF SkipRebuild
<1>2. "info" \in Kinds \ {"start", "ok", "fail", "result"}
  BY DEF Kinds
<1>3. b \in Seq(Lines) /\ Block(b, passed \cup {}, TRUE) /\ Block(b, passed, FALSE) /\ Silent(b)
  BY <1>2, TextsIn, PlainOne
<1>. HIDE DEF b
<1>4. {} \in SUBSET Texts /\ "finished" \in Points \ {"failed"}
  BY DEF Points
<1>. QED  BY <1>1, <1>3, <1>4, GoesKeeps, FailsKeeps

LEMMA ExtractKeeps == ASSUME StreamsIInv, Extract PROVE StreamsIInv'
<1>1. at = "look" /\ Serves /\ at \notin {"finished", "failed"}
  BY DEF Extract
<1>2. CASE Goes("build", <<Line("start", "create"), Line("ok", "create"), Line("info", "languages")>>, {"create"})
  <2>. DEFINE a == <<Line("start", "create"), Line("ok", "create")>>
              c == <<Line("info", "languages")>>
              b == <<Line("start", "create"), Line("ok", "create"), Line("info", "languages")>>
              s == {"create"}
  <2>1. a \in Seq(Lines) /\ Block(a, passed \cup s, TRUE) /\ Silent(a)
    BY TextsIn, StepTwo
  <2>2. c \in Seq(Lines) /\ Block(c, passed \cup s, TRUE) /\ Silent(c)
    BY TextsIn, PlainOne DEF Kinds
  <2>3. b = a \o c
    OBVIOUS
  <2>4. s \in SUBSET Texts /\ "build" \in Points \ {"failed"}
    BY TextsIn DEF Points
  <2>5. Goes("build", b, s)
    BY <1>2
  <2>. HIDE DEF a, b, c, s
  <2>6. b \in Seq(Lines) /\ Block(b, passed \cup s, TRUE) /\ Silent(b)
    BY <2>1, <2>2, <2>3, BlockMore, SilentMore
  <2>. QED  BY <1>1, <2>4, <2>5, <2>6, GoesKeeps
<1>3. CASE Fails(<<Line("start", "create"), Line("fail", "create")>>)
  <2>. DEFINE b == <<Line("start", "create"), Line("fail", "create")>>
  <2>1. b \in Seq(Lines) /\ Block(b, passed, FALSE)
    BY TextsIn, StepTwo
  <2>2. Fails(b)
    BY <1>3
  <2>. HIDE DEF b
  <2>. QED  BY <1>1, <2>1, <2>2, FailsKeeps
<1>. QED  BY <1>2, <1>3 DEF Extract

LEMMA BuildReleaseKeeps == ASSUME StreamsIInv, BuildRelease PROVE StreamsIInv'
<1>1. at = "build" /\ Serves /\ at \notin {"finished", "failed"}
  BY DEF BuildRelease
<1>. DEFINE s == {"build"}
            l(o) == <<Line("start", "build"), Line("ok", "build"), Line("built", "none"), Line("info", o)>>
            g(o) == <<Line("start", "build"), Line("info", o), Line("ok", "build"), Line("built", "none")>>
            f(o) == <<Line("start", "build"), Line("info", o), Line("fail", "build")>>
<1>2. PICK o \in Pushes : Goes("swap", l(o), s) \/ Goes("swap", g(o), s) \/ Fails(f(o))
  BY DEF BuildRelease
<1>3. o \in Texts /\ s \in SUBSET Texts /\ "swap" \in Points \ {"failed"} /\ "build" \in passed \cup s
  BY TextsIn DEF Points
<1>4. l(o) \in Seq(Lines) /\ Block(l(o), passed \cup s, TRUE) /\ Silent(l(o))
  BY <1>3, TextsIn, StepLate
<1>5. g(o) \in Seq(Lines) /\ Block(g(o), passed \cup s, TRUE) /\ Silent(g(o))
  BY <1>3, TextsIn, StepFour
<1>6. f(o) \in Seq(Lines) /\ Block(f(o), passed, FALSE)
  BY <1>3, TextsIn, StepThree
<1>. HIDE DEF l, g, f, s
<1>. QED  BY <1>1, <1>2, <1>3, <1>4, <1>5, <1>6, GoesKeeps, FailsKeeps

LEMMA SwapLinkKeeps == ASSUME StreamsIInv, SwapLink PROVE StreamsIInv'
<1>1. at = "swap" /\ Serves /\ at \notin {"finished", "failed"} /\ (Goes("hook", <<>>, {}) \/ Fails(<<>>))
  BY DEF SwapLink
<1>2. <<>> \in Seq(Lines) /\ Block(<<>>, passed \cup {}, TRUE) /\ Block(<<>>, passed, FALSE) /\ Silent(<<>>)
  BY PlainNone
<1>3. {} \in SUBSET Texts /\ "hook" \in Points \ {"failed"}
  BY DEF Points
<1>. QED  BY <1>1, <1>2, <1>3, GoesKeeps, FailsKeeps

LEMMA PostDeployKeeps == ASSUME StreamsIInv, PostDeploy PROVE StreamsIInv'
<1>. DEFINE g == <<Line("start", "hook"), Line("info", "$"), Line("ok", "hook")>>
            f == <<Line("start", "hook"), Line("info", "$"), Line("fail", "hook"), Line("warn", "hook")>>
            s == {"hook"}
            n == {}
            z == <<>>
<1>1. /\ at = "hook" /\ Serves /\ at \notin {"finished", "failed"}
      /\ Goes("deployed", z, n) \/ Goes("deployed", g, s) \/ Goes("deployed", f, n)
  BY DEF PostDeploy
<1>2. n \in SUBSET Texts /\ s \in SUBSET Texts /\ "deployed" \in Points \ {"failed"} /\ "hook" \in passed \cup s /\ "hook" \notin Banners
  BY TextsIn DEF Points, Banners
<1>3. z \in Seq(Lines) /\ Block(z, passed \cup n, TRUE) /\ Silent(z)
  BY PlainNone
<1>4. g \in Seq(Lines) /\ Block(g, passed \cup s, TRUE) /\ Silent(g)
  BY <1>2, TextsIn, StepThree
<1>5. f \in Seq(Lines) /\ Block(f, passed \cup n, TRUE) /\ Silent(f)
  BY <1>2, TextsIn, StepFour
<1>. HIDE DEF g, f, s, n, z
<1>. QED  BY <1>1, <1>2, <1>3, <1>4, <1>5, GoesKeeps

LEMMA CollectReleasesKeeps == ASSUME StreamsIInv, CollectReleases PROVE StreamsIInv'
<1>. DEFINE a == <<Line("deployed", "none")>>
            w == <<Line("warn", "gc")>>
            p == <<Line("pruned", "releases")>>
            z == <<>>
            n == {}
<1>1. at = "deployed" /\ Serves /\ at \notin {"finished", "failed"}
  BY DEF CollectReleases
<1>2. PICK g \in {z, w, p} : Goes("finished", a \o g, n)
  BY DEF CollectReleases
<1>3. /\ {"deployed", "warn", "pruned"} \subseteq Kinds \ {"start", "ok", "fail", "result"}
      /\ n \in SUBSET Texts /\ "finished" \in Points \ {"failed"}
  BY DEF Kinds, Points
<1>4. a \in Seq(Lines) /\ Block(a, passed \cup n, TRUE) /\ Silent(a)
  BY <1>3, TextsIn, PlainOne
<1>5. w \in Seq(Lines) /\ Block(w, passed \cup n, TRUE) /\ Silent(w)
  BY <1>3, TextsIn, PlainOne
<1>6. p \in Seq(Lines) /\ Block(p, passed \cup n, TRUE) /\ Silent(p)
  BY <1>3, TextsIn, PlainOne
<1>7. z \in Seq(Lines) /\ Block(z, passed \cup n, TRUE) /\ Silent(z)
  BY PlainNone
<1>. HIDE DEF a, w, p, z, n
<1>8. g \in Seq(Lines) /\ Block(g, passed \cup n, TRUE) /\ Silent(g)
  BY <1>2, <1>5, <1>6, <1>7
<1>9. a \o g \in Seq(Lines) /\ Block(a \o g, passed \cup n, TRUE) /\ Silent(a \o g)
  BY <1>4, <1>8, BlockMore, SilentMore
<1>. QED  BY <1>1, <1>2, <1>3, <1>9, GoesKeeps

LEMMA ForcePullKeeps == ASSUME StreamsIInv, ForcePull PROVE StreamsIInv'
<1>. DEFINE a == <<Line("start", "pull"), Line("ok", "pull")>>
            w == <<Line("warn", "image")>>
            m == <<Line("note", "image")>>
            f == <<Line("start", "pull"), Line("fail", "pull")>>
            z == <<>>
            s == {"pull"}
<1>1. at = "pull" /\ Serves /\ at \notin {"finished", "failed"}
  BY DEF ForcePull
<1>2. (\E p \in {z, w, m} : Goes("answer", a \o p, s)) \/ Fails(f)
  BY DEF ForcePull
<1>3. /\ {"warn", "note"} \subseteq Kinds \ {"start", "ok", "fail", "result"}
      /\ s \in SUBSET Texts /\ "answer" \in Points \ {"failed"} /\ "pull" \in passed \cup s
  BY TextsIn DEF Kinds, Points
<1>4. a \in Seq(Lines) /\ Block(a, passed \cup s, TRUE) /\ Silent(a)
  BY <1>3, TextsIn, StepTwo
<1>5. w \in Seq(Lines) /\ Block(w, passed \cup s, TRUE) /\ Silent(w)
  BY <1>3, TextsIn, PlainOne
<1>6. m \in Seq(Lines) /\ Block(m, passed \cup s, TRUE) /\ Silent(m)
  BY <1>3, TextsIn, PlainOne
<1>7. z \in Seq(Lines) /\ Block(z, passed \cup s, TRUE) /\ Silent(z)
  BY PlainNone
<1>8. f \in Seq(Lines) /\ Block(f, passed, FALSE)
  BY TextsIn, StepTwo
<1>. HIDE DEF a, w, m, z, s, f
<1>9. ASSUME NEW p \in {z, w, m}, Goes("answer", a \o p, s) PROVE StreamsIInv'
  BY <1>5, <1>6, <1>7, <1>4, BlockMore, SilentMore, <1>1, <1>3, <1>9, GoesKeeps
<1>. QED  BY <1>1, <1>2, <1>8, <1>9, FailsKeeps

LEMMA ReleaseAfterApplyKeeps == ASSUME StreamsIInv, ReleaseAfterApply PROVE StreamsIInv'
<1>. DEFINE b == <<Line("noise", "release")>>
            z == <<>>
            n == {}
<1>1. /\ at = "release" /\ Serves /\ at \notin {"finished", "failed"}
      /\ Goes("finished", z, n) \/ Goes("finished", b, n) \/ Fails(b)
  BY DEF ReleaseAfterApply
<1>2. /\ "noise" \in Kinds \ {"start", "ok", "fail", "result"}
      /\ n \in SUBSET Texts /\ "finished" \in Points \ {"failed"}
  BY DEF Kinds, Points
<1>3. z \in Seq(Lines) /\ Block(z, passed \cup n, TRUE) /\ Silent(z)
  BY PlainNone
<1>4. b \in Seq(Lines) /\ Block(b, passed \cup n, TRUE) /\ Block(b, passed, FALSE) /\ Silent(b)
  BY <1>2, TextsIn, PlainOne
<1>. HIDE DEF b, z, n
<1>. QED  BY <1>1, <1>2, <1>3, <1>4, GoesKeeps, FailsKeeps

\* Every result is counted.
LEMMA ResultsAll ==
  ASSUME NEW n \in Nat
  PROVE  LET r == [i \in 1 .. n |-> Line("result", "r")]
         IN  r \in Seq(Lines) /\ Results(r) = n /\ \A i \in DOMAIN r : r[i].k = "result"
<1>. DEFINE l == Line("result", "r")
            r == [i \in 1 .. n |-> l]
<1>. SUFFICES r \in Seq(Lines) /\ Results(r) = n /\ \A i \in DOMAIN r : r[i].k = "result"
  OBVIOUS
<1>1. l \in Lines /\ l.k = "result"
  BY TextsIn, LineIs DEF Kinds
<1>. HIDE DEF l
<1>2. r \in Seq(Lines)
  BY <1>1, SeqDef
<1>3. Len(r) = n /\ DOMAIN r = 1 .. n /\ \A i \in 1 .. n : r[i].k = "result"
  BY <1>1, <1>2
<1>. HIDE DEF r
<1>4. {i \in 1 .. Len(r) : r[i].k = "result"} = 1 .. n
  BY <1>3
<1>5. Cardinality(1 .. n) = n
  BY FS_Interval
<1>6. Results(r) = n
  BY <1>4, <1>5 DEF Results
<1>. QED  BY <1>2, <1>3, <1>6

LEMMA AnswerApplyKeeps == ASSUME StreamsIInv, AnswerApply PROVE StreamsIInv'
<1>. DEFINE w == <<Line("warn", "apply")>>
            z == <<>>
            r(n) == [i \in 1 .. n |-> Line("result", "r")]
<1>1. /\ at = "answer" /\ Serves /\ at \notin {"finished", "failed"} /\ told \in Nat /\ passed \in SUBSET Texts
      /\ job.speaks \in {"ndjson", "text"}
  BY DEF AnswerApply, StreamsIInv, StreamsType
<1>2. \/ \E n \in 0 .. MaxResults, v \in {z, w} :
           Say(r(n) \o v) /\ told' = told + n /\ at' = "release" /\ erred' = erred /\ passed' = passed
      \/ Fails(z)
  BY DEF AnswerApply
<1>3. "warn" \in Kinds \ {"start", "ok", "fail", "result"}
  BY DEF Kinds
<1>4. z \in Seq(Lines) /\ Block(z, passed, TRUE) /\ Block(z, passed, FALSE) /\ Silent(z) /\ \A i \in DOMAIN z : z[i].k \notin Unspoken
  BY PlainNone, NoneIs
<1>5. w \in Seq(Lines) /\ Block(w, passed, TRUE) /\ Silent(w) /\ \A i \in DOMAIN w : w[i].k \notin Unspoken
  <2>. DEFINE l == Line("warn", "apply")
  <2>1. l \in Lines /\ l.k = "warn"
    BY <1>3, TextsIn, LineIs
  <2>. HIDE DEF l
  <2>2. <<l>> \in Seq(Lines) /\ DOMAIN <<l>> = {1} /\ <<l>>[1] = l
    BY <2>1, OneIs
  <2>3. \A i \in DOMAIN <<l>> : <<l>>[i].k \notin Unspoken
    BY <2>1, <2>2 DEF Unspoken
  <2>4. w = <<l>>
    BY DEF l
  <2>5. w \in Seq(Lines) /\ Block(w, passed, TRUE) /\ Silent(w)
    BY <1>3, TextsIn, PlainOne
  <2>. QED  BY <2>3, <2>4, <2>5
<1>6. \A n \in Nat : r(n) \in Seq(Lines) /\ Results(r(n)) = n /\ \A i \in DOMAIN r(n) : r(n)[i].k = "result"
  BY ResultsAll
<1>. HIDE DEF w, z, r
<1>7. ASSUME NEW n \in 0 .. MaxResults, NEW v \in {z, w},
             Say(r(n) \o v), told' = told + n, at' = "release", erred' = erred, passed' = passed
      PROVE  StreamsIInv'
  <2>. DEFINE a == r(n)
              b == a \o v
  <2>1. n \in Nat
    BY StreamsAssumption
  <2>2. a \in Seq(Lines) /\ Results(a) = n /\ \A i \in DOMAIN a : a[i].k = "result"
    BY <1>6, <2>1
  <2>3. v \in Seq(Lines) /\ Block(v, passed, TRUE) /\ Silent(v) /\ \A i \in DOMAIN v : v[i].k \notin Unspoken
    BY <1>4, <1>5
  <2>. HIDE DEF a
  <2>4. Block(a, passed, TRUE)
    BY <2>2, PlainBlock
  <2>5. b \in Seq(Lines) /\ Block(b, passed, TRUE)
    BY <2>2, <2>3, <2>4, BlockMore
  <2>6. Results(b) = n
    <3>1. Results(v) = 0
      BY <2>3, NoneResult DEF Silent
    <3>. QED  BY <2>1, <2>2, <2>3, <3>1, ResultsMore
  <2>7. \A i \in DOMAIN b : b[i].k \notin Unspoken
    <3>1. /\ DOMAIN b = 1 .. Len(a) + Len(v) /\ Len(a) \in Nat /\ Len(v) \in Nat
          /\ DOMAIN a = 1 .. Len(a) /\ DOMAIN v = 1 .. Len(v)
          /\ \A i \in 1 .. Len(a) : b[i] = a[i]
          /\ \A i \in 1 .. Len(v) : b[Len(a) + i] = v[i]
      BY <2>2, <2>3, MoreIs
    <3>2. ASSUME NEW i \in DOMAIN b PROVE b[i].k \notin Unspoken
      <4>1. CASE i \in 1 .. Len(a)
        BY <2>2, <3>1, <4>1 DEF Unspoken
      <4>2. CASE i \notin 1 .. Len(a)
        BY <3>1, <4>2, <2>3
      <4>. QED  BY <4>1, <4>2
    <3>. QED  BY <3>2
  <2>8. Say(b)
    BY <1>7 DEF a
  <2>. HIDE DEF b
  <2>9. Speaks(b) = b
    BY <2>7, <2>5, OnlyAll, <1>1 DEF Speaks
  <2>10. /\ told' = told + Results(Speaks(b)) /\ told' \in Nat /\ at' \in Points /\ at' # "failed"
         /\ passed \subseteq passed' /\ passed' \in SUBSET Texts /\ Block(b, passed', TRUE)
    <3>1. told' = told + Results(Speaks(b)) /\ told' \in Nat
      BY <1>1, <1>7, <2>1, <2>6, <2>9
    <3>2. at' \in Points /\ at' # "failed"
      BY <1>7 DEF Points
    <3>3. passed \subseteq passed' /\ passed' \in SUBSET Texts
      BY <1>1, <1>7
    <3>4. Block(b, passed', TRUE)
      BY <1>7, <2>5
    <3>. QED  BY <3>1, <3>2, <3>3, <3>4
  <2>11. Block(b, passed', at' # "failed")
    BY <2>10 DEF Block
  <2>. QED  BY <1>1, <1>7, <2>5, <2>8, <2>10, <2>11, SayKeeps
<1>. QED  BY <1>1, <1>2, <1>4, <1>7, FailsKeeps

LEMMA StreamsInitTrue == StreamsInit => StreamsIInv
<1>. SUFFICES ASSUME StreamsInit PROVE StreamsIInv
  OBVIOUS
<1>1. <<>> \in Seq(Lines) /\ <<>> \in Seq(Entries) /\ DOMAIN <<>> = {} /\ Len(<<>>) = 0
  BY NoneIs
<1>2. /\ job \in [prog : {"push", "apply"}, speaks : {"ndjson", "text"}, force : BOOLEAN]
      /\ at = "start" /\ said = <<>> /\ erred = <<>> /\ passed = {} /\ told = 0
      /\ chosen = "none" /\ ui = Fresh /\ seen = <<>> /\ torn = <<>> /\ ends = "open"
  BY DEF StreamsInit
<1>3. /\ ui.active = FALSE /\ ui.label = "none" /\ ui.tail = <<>> /\ ui.built = FALSE /\ ui.spin = "off" /\ ui.then = "none"
      /\ ui.painted = FALSE /\ ui.smeared = FALSE /\ ui.count = 0 /\ ui.screen = <<>>
  BY <1>2 DEF Fresh
<1>4. ui \in UiRecord
  <2>1. "none" \in Texts
    BY TextsIn
  <2>. DEFINE t == <<>>
              sc == <<>>
  <2>2. t \in Seq(Lines) /\ sc \in Seq(Entries)
    BY <1>1
  <2>3. ui = [active |-> FALSE, label |-> "none", tail |-> t, built |-> FALSE, spin |-> "off", then |-> "none",
              painted |-> FALSE, smeared |-> FALSE, count |-> 0, screen |-> sc]
    BY <1>2 DEF Fresh
  <2>. HIDE DEF t, sc
  <2>. QED  BY <2>1, <2>2, <2>3 DEF UiRecord
<1>5. StreamsType
  BY <1>1, <1>2, <1>4 DEF StreamsType, Points
<1>6. UiTrue(ui) /\ ScreenTrue(ui.screen, passed, Final)
  BY <1>1, <1>3 DEF UiTrue, ScreenTrue
<1>7. 1 .. (Len(said) + 1) - 1 = {} /\ DOMAIN said = {} /\ DOMAIN erred = {}
  BY <1>1, <1>2
<1>8. FramesTrue /\ TextTrue
  BY <1>3, <1>7 DEF FramesTrue, TextTrue, Fits, TextFits, NoneOpen, Earned
<1>9. Shows(ui.screen, seen)
  BY <1>1, <1>2, <1>3, ShowsIs DEF ShownAt, MeantAt
<1>10. RendererTrue /\ EndTrue
  BY <1>2, <1>3, <1>7, <1>9 DEF RendererTrue, EndTrue
<1>11. CountTrue
  BY <1>2, <1>3, NoResults DEF CountTrue
<1>. QED  BY <1>5, <1>6, <1>8, <1>10, <1>11 DEF StreamsIInv

LEMMA StreamsStep == StreamsIInv /\ [StreamsNext]_streamsVars => StreamsIInv'
<1>. SUFFICES ASSUME StreamsIInv, [StreamsNext]_streamsVars PROVE StreamsIInv'
  OBVIOUS
<1>1. CASE UNCHANGED streamsVars
  BY <1>1
     DEF streamsVars, StreamsIInv, StreamsType, FramesTrue, TextTrue, RendererTrue, EndTrue, CountTrue, Final
<1>2. CASE StreamsNext
  BY <1>2, HelloKeeps, ReceiveKeeps, SkipRebuildKeeps, ExtractKeeps, BuildReleaseKeeps, SwapLinkKeeps,
     PostDeployKeeps, CollectReleasesKeeps, ForcePullKeeps, AnswerApplyKeeps, ReleaseAfterApplyKeeps, CutKeeps,
     ReadOutKeeps, ReadErrKeeps, TickKeeps, JoinSpinnerKeeps, CloseKeeps, ConcludeKeeps
     DEF StreamsNext
<1>. QED  BY <1>1, <1>2

LEMMA StreamsInvTrue == StreamsIInv => StreamTrue
BY DEF StreamsIInv, ScreenTrue, TicksEarned, RendererTrue, Shows, VerdictsShown, VerdictMarks, UiTrue,
   EndTrue, TerminalClean, Final, Concluded, StreamTrue

\* What the operator is shown of a push or an apply is what the server said of it: a
\* check mark stands only for a step the server finished, every verdict is shown once
\* and in order, nothing is printed onto a painted block, and the number concluded with
\* is that of the results. For any application, any number of results, a server that
\* fails or dies at any line, and any rounds of the spinner's goroutine.
THEOREM StreamsCorrect == StreamsSpec => []StreamTrue
<1>1. StreamsSpec => []StreamsIInv
  BY StreamsInitTrue, StreamsStep, PTL DEF StreamsSpec
<1>. QED  BY <1>1, StreamsInvTrue, PTL

-----------------------------------------------------------------------------
(* Environments. The argument: a file of another resource holds its bucket if *)
(* its last write is known to have gone through; the container runs with what *)
(* its own file says, if the file is a manifest's and not a bucket's, for     *)
(* what a manifest sets is in no bucket; and what the client interpolated is  *)
(* what it would interpolate now, until a bucket moves. A value that is not   *)
(* two lines is the same wherever it is read, so client and container, which  *)
(* look the layers through in one order, agree.                               *)

SentTrue(c) == c.authored \in Authored /\ "copy" \in DOMAIN c.env
\* What there is at all: buckets without what manifests set, one manifest, one container.
EnvironmentsShape ==
  /\ DOMAIN bucket = Buckets /\ \A b \in Buckets : "copy" \notin DOMAIN bucket[b]
  /\ stored = <<>> \/ SentTrue(stored[1])
  /\ client = <<>> \/ SentTrue(client[1])
  /\ woken \/ running # <<>> => stored # <<>>
BucketsOnHost ==
  \A b \in written :
    b \in Buckets /\ b[2] # Empty /\ (b # Me => b \in DOMAIN onhost /\ onhost[b] = bucket[b])
RunsItsFile ==
  running # <<>> /\ ~missed /\ "copy" \in DOMAIN OnDisk(Me) => Load(running[1].own) = OnDisk(Me)
FileInStep == quiet => stored # <<>> /\ OnDisk(Me) = Load(ResolveAppEnv)
Current(c) ==
  c.env["copy"] = Copied(c.authored)["copy"] /\ c.authored.uses \subseteq DOMAIN EnrichEnv(c.authored)
StillCurrent ==
  ~moved => /\ client # <<>> => Current(client[1])
            /\ client = <<>> /\ stored # <<>> => Current(stored[1])

EnvironmentsIInv ==
  EnvironmentsShape /\ BucketsOnHost /\ RunsItsFile /\ FileInStep /\ StillCurrent /\ OwnFollows

\* The empty name is no name.
LEMMA EmptyIsNot ==
  /\ "s" # Empty /\ "t" # Empty /\ "shared" # Empty /\ "web" # Empty /\ "other" # Empty
BY Zenon DEF Empty

LEMMA OverlayIs ==
  ASSUME NEW f, NEW g
  PROVE  /\ DOMAIN Overlay(f, g) = DOMAIN f \cup DOMAIN g
         /\ \A k \in DOMAIN g : Overlay(f, g)[k] = g[k]
         /\ \A k \in DOMAIN f : k \notin DOMAIN g => Overlay(f, g)[k] = f[k]
BY DEF Overlay

\* What is read is never two lines, so read once more it is the same.
LEMMA LoadIs ==
  ASSUME NEW f
  PROVE  /\ DOMAIN Load(f) = DOMAIN f
         /\ \A k \in DOMAIN f : Load(f)[k] # TwoLines /\ (f[k] # TwoLines => Load(f)[k] = f[k])
         /\ Load(Load(f)) = Load(f)
         /\ ~Several(f) => \A k \in DOMAIN f : Load(f)[k] = f[k]
BY DEF Load, TwoLines, Several

LEMMA PatchedIs == ASSUME NEW old, NEW vars PROVE DOMAIN Patched(old, vars) \subseteq DOMAIN old \cup DOMAIN vars
BY DEF Patched, Overlay

LEMMA MeIs == Me \in Buckets /\ Me[1] = "s" /\ Me[2] = "web" /\ Me[2] # Empty /\ ScopeBucket(Me) = <<"s", Empty>>
              /\ ScopeBucket(Me) \in Buckets /\ Me \notin Shared
BY EmptyIsNot DEF Me, Buckets, ScopeBucket, Shared

LEMMA BucketIs == ASSUME NEW b \in Buckets PROVE b[1] # Empty /\ b = <<b[1], b[2]>> /\ (b \in Shared => b # Me)
                                                 /\ ScopeBucket(b) = <<b[1], Empty>>
BY EmptyIsNot DEF Me, Buckets, ScopeBucket, Shared

-----------------------------------------------------------------------------
\* Of the layers that have a key one is the last.
LEMMA LastLayer ==
  ASSUME NEW n \in Nat, NEW layers, DOMAIN layers = 1 .. n, NEW k, NEW i \in 1 .. n, k \in DOMAIN layers[i]
  PROVE  LET m == LastWith(k, layers)
         IN  m \in 1 .. n /\ k \in DOMAIN layers[m] /\ \A j \in 1 .. n : k \in DOMAIN layers[j] => j <= m
<1>. DEFINE back == {n - j : j \in {x \in 1 .. n : k \in DOMAIN layers[x]}}
<1>1. back \in SUBSET Nat /\ n - i \in back
  OBVIOUS
<1>2. PICK d \in back : \A e \in back : d <= e
  BY <1>1, LeastNumber
<1>3. PICK m \in 1 .. n : k \in DOMAIN layers[m] /\ d = n - m
  BY <1>2
<1>4. \A j \in 1 .. n : k \in DOMAIN layers[j] => j <= m
  <2>. SUFFICES ASSUME NEW j \in 1 .. n, k \in DOMAIN layers[j] PROVE j <= m
    OBVIOUS
  <2>1. n - j \in back
    OBVIOUS
  <2>2. d <= n - j
    BY <1>2, <2>1
  <2>. QED  BY <1>3, <2>2
<1>. HIDE DEF back
<1>5. \E m2 : m2 \in DOMAIN layers /\ k \in DOMAIN layers[m2] /\ \A j \in DOMAIN layers : k \in DOMAIN layers[j] => j <= m2
  BY <1>3, <1>4
<1>. QED  BY <1>5 DEF LastWith

\* A key has the value it has in the layer after which none has it.
LEMMA LayeredAt ==
  ASSUME NEW n \in Nat, NEW layers, DOMAIN layers = 1 .. n, NEW k, NEW i \in 1 .. n, k \in DOMAIN layers[i],
         \A j \in 1 .. n : k \in DOMAIN layers[j] => j <= i
  PROVE  k \in DOMAIN Layered(layers) /\ Layered(layers)[k] = layers[i][k]
<1>1. LastWith(k, layers) = i
  BY LastLayer
<1>. QED  BY <1>1 DEF Layered

LEMMA LayeredOf ==
  ASSUME NEW n \in Nat, NEW layers, DOMAIN layers = 1 .. n, NEW k \in DOMAIN Layered(layers)
  PROVE  \E i \in 1 .. n : /\ k \in DOMAIN layers[i] /\ \A j \in 1 .. n : k \in DOMAIN layers[j] => j <= i
                           /\ Layered(layers)[k] = layers[i][k]
<1>1. PICK i \in 1 .. n : k \in DOMAIN layers[i]
  BY DEF Layered
<1>. QED  BY <1>1, LastLayer DEF Layered

\* What the controller writes for the resource has the manifest's variable.
LEMMA OwnHas ==
  ASSUME stored # <<>>, EnvironmentsShape
  PROVE  "copy" \in DOMAIN ResolveAppEnv /\ "copy" \in DOMAIN Load(ResolveAppEnv)
BY DEF EnvironmentsShape, SentTrue, ResolveAppEnv, Overlay, Load

\* The environment of the resource moves with its scope's bucket, its own, and its manifest.
LEMMA OwnMoves ==
  ASSUME stored' = stored, bucket'[Me] = bucket[Me], bucket'[ScopeBucket(Me)] = bucket[ScopeBucket(Me)]
  PROVE  ResolveAppEnv' = ResolveAppEnv
BY DEF ResolveAppEnv, ResolveConfig, Me, ScopeBucket

\* What the client makes of a manifest moves with the buckets.
LEMMA CurrentStays ==
  ASSUME UNCHANGED <<bucket, shell>>, NEW c
  PROVE  (Current(c) <=> Current(c)') /\ EnrichEnv(c.authored)' = EnrichEnv(c.authored)
<1>1. \A b : ConfigGet(b)' = ConfigGet(b)
  BY DEF ConfigGet, ResolveConfig, GetConfig
<1>2. \A refs, i : FetchBucket(refs, i)' = FetchBucket(refs, i)
  BY <1>1 DEF FetchBucket
<1>3. \A a : EnrichEnv(a)' = EnrichEnv(a)
  BY <1>2 DEF EnrichEnv, EnvFromRefs, ResourceRefs, MergeBucketEnv
<1>. QED  BY <1>3 DEF Current, Copied

LEMMA EnvironmentsInitial == EnvironmentsInit => EnvironmentsIInv
BY EmptyIsNot DEF EnvironmentsInit, EnvironmentsIInv, EnvironmentsShape, BucketsOnHost, RunsItsFile, FileInStep,
   StillCurrent, OwnFollows, NoVars

-----------------------------------------------------------------------------
LEMMA ChangesKeep ==
  ASSUME NEW b \in Buckets, NEW vars, "copy" \notin DOMAIN vars, NEW restart \in BOOLEAN,
         EnvironmentsIInv, Changes(b, vars, restart)
  PROVE  EnvironmentsIInv'
<1>1. PICK some : /\ DOMAIN some \subseteq DOMAIN vars
                  /\ bucket' = [bucket EXCEPT ![b] = Patched(@, some)]
                  /\ \/ /\ Materialize(b, Patched(bucket[b], some))
                        /\ held' = TRUE \/ (RestartAffected(b) /\ held' = held)
                     \/ held' = TRUE /\ written' = written \ {b} /\ onhost' = onhost
  <2>1. \A x \in Partial(vars) : DOMAIN x \subseteq DOMAIN vars
    BY DEF Partial
  <2>. QED  BY <2>1 DEF Changes
<1>2. /\ UNCHANGED <<stored, running, missed, client, restarts>> /\ moved' = TRUE /\ quiet' = FALSE
  BY DEF Changes
<1>3. /\ DOMAIN bucket' = Buckets /\ \A c \in Buckets : c # b => bucket'[c] = bucket[c]
      /\ bucket'[b] = Patched(bucket[b], some) /\ "copy" \notin DOMAIN bucket'[b]
  BY <1>1, PatchedIs DEF EnvironmentsIInv, EnvironmentsShape
<1>4. EnvironmentsShape'
  <2>1. woken' => woken \/ stored # <<>>
    BY DEF Changes, RestartAffected
  <2>. QED  BY <2>1, <1>2, <1>3 DEF EnvironmentsIInv, EnvironmentsShape, SentTrue
<1>5. \/ onhost' = onhost /\ written' = written /\ b[2] = Empty
      \/ onhost' = onhost /\ written' = written \ {b}
      \/ Replace(b, bucket'[b]) /\ written' = written \cup {b} /\ b[2] # Empty
  BY <1>1, <1>3 DEF Materialize
<1>6. BucketsOnHost'
  <2>. SUFFICES ASSUME NEW c \in written'
                PROVE  c \in Buckets /\ c[2] # Empty /\ (c # Me => c \in DOMAIN onhost' /\ onhost'[c] = bucket'[c])
    BY DEF BucketsOnHost
  <2>1. CASE c # b
    BY <2>1, <1>3, <1>5 DEF EnvironmentsIInv, BucketsOnHost, Replace
  <2>2. CASE c = b
    BY <2>2, <1>3, <1>5 DEF EnvironmentsIInv, BucketsOnHost, Replace
  <2>. QED  BY <2>1, <2>2
<1>7. RunsItsFile'
  <2>1. OnDisk(Me)' = OnDisk(Me) \/ "copy" \notin DOMAIN OnDisk(Me)'
    <3>1. CASE b = Me /\ Replace(b, bucket'[b])
      BY <3>1, <1>3 DEF Replace, OnDisk, Load
    <3>2. CASE b # Me \/ onhost' = onhost
      BY <3>2, <1>5 DEF Replace, OnDisk
    <3>. QED  BY <3>1, <3>2, <1>5
  <2>. QED  BY <2>1, <1>2 DEF EnvironmentsIInv, RunsItsFile
<1>8. OwnFollows'
  <2>1. CASE held' = TRUE
    BY <2>1, <1>2 DEF EnvironmentsIInv, OwnFollows
  <2>2. CASE RestartAffected(b) /\ held' = held /\ b \in {Me, ScopeBucket(Me)}
    BY <2>2, <1>2, MeIs DEF EnvironmentsIInv, OwnFollows, RestartAffected
  <2>3. CASE RestartAffected(b) /\ held' = held /\ b \notin {Me, ScopeBucket(Me)}
    <3>1. ResolveAppEnv' = ResolveAppEnv
      BY <2>3, <1>2, <1>3, MeIs, OwnMoves
    <3>2. woken' = FALSE => ~woken
      BY <2>3 DEF RestartAffected
    <3>3. restarts' = 0 /\ (running' # <<>> => Load(running'[1].own) = Load(running[1].own))
      BY <1>2 DEF EnvironmentsIInv, OwnFollows
    <3>4. ~woken' => ~woken
      BY <2>3 DEF RestartAffected
    <3>. QED  BY <3>1, <3>3, <3>4, <2>3, <1>2 DEF EnvironmentsIInv, OwnFollows
  <2>4. held' = TRUE \/ (RestartAffected(b) /\ held' = held)
    BY <1>1
  <2>. QED  BY <2>1, <2>2, <2>3, <2>4
<1>9. FileInStep' /\ StillCurrent'
  BY <1>2 DEF FileInStep, StillCurrent
<1>. QED  BY <1>4, <1>6, <1>7, <1>8, <1>9 DEF EnvironmentsIInv

LEMMA ConfigKeeps == EnvironmentsIInv /\ (ConfigPost \/ ConfigDelete) => EnvironmentsIInv'
<1>1. ASSUME EnvironmentsIInv, ConfigPost PROVE EnvironmentsIInv'
  BY <1>1, ChangesKeep, EnvironmentsAssumption DEF ConfigPost
<1>2. ASSUME EnvironmentsIInv, ConfigDelete PROVE EnvironmentsIInv'
  <2>1. PICK b \in Buckets, r \in BOOLEAN : Changes(b, Unset(DOMAIN bucket[b]), r)
    BY <1>2 DEF ConfigDelete
  <2>2. "copy" \notin DOMAIN Unset(DOMAIN bucket[b])
    BY <1>2 DEF EnvironmentsIInv, EnvironmentsShape, Unset
  <2>. QED  BY <1>2, <2>1, <2>2, ChangesKeep
<1>. QED  BY <1>1, <1>2

LEMMA ReadKeeps == EnvironmentsIInv /\ ReadBuckets => EnvironmentsIInv'
<1>. SUFFICES ASSUME EnvironmentsIInv, ReadBuckets PROVE EnvironmentsIInv'
  OBVIOUS
<1>1. PICK a \in Authored : /\ a.uses \subseteq DOMAIN EnrichEnv(a)
                            /\ client' = <<[authored |-> a, env |-> MergeEnvFile(a, Overlay(a.env, Copied(a)))]>>
  BY DEF ReadBuckets
<1>2. UNCHANGED <<bucket, onhost, written, stored, woken, running, held, missed, quiet, restarts, shell>> /\ moved' = FALSE
  BY DEF ReadBuckets
<1>3. client'[1].authored = a /\ "copy" \in DOMAIN client'[1].env /\ client'[1].env["copy"] = Copied(a)["copy"]
      /\ client' # <<>>
  BY <1>1 DEF MergeEnvFile, Overlay, Copied
<1>4. client'[1].authored \in Authored /\ "copy" \in DOMAIN client'[1].env
  BY <1>3
<1>6. EnvironmentsShape'
  BY <1>2, <1>4 DEF EnvironmentsIInv, EnvironmentsShape, SentTrue
<1>5. OnDisk(Me)' = OnDisk(Me) /\ ResolveAppEnv' = ResolveAppEnv
  BY <1>2 DEF OnDisk, ResolveAppEnv, ResolveConfig
<1>7. BucketsOnHost' /\ RunsItsFile' /\ FileInStep' /\ OwnFollows'
  BY <1>2, <1>5 DEF EnvironmentsIInv, BucketsOnHost, RunsItsFile, FileInStep, OwnFollows
<1>9. EnrichEnv(a)' = EnrichEnv(a)
  BY <1>2 DEF EnrichEnv, MergeBucketEnv, EnvFromRefs, ResourceRefs, FetchBucket, ConfigGet, ResolveConfig, GetConfig
<1>10. Copied(a)' = Copied(a)
  BY <1>9 DEF Copied
<1>8. StillCurrent'
  BY <1>1, <1>3, <1>9, <1>10 DEF StillCurrent, Current
<1>. QED  BY <1>6, <1>7, <1>8 DEF EnvironmentsIInv

LEMMA SendKeeps == EnvironmentsIInv /\ SendApply => EnvironmentsIInv'
<1>. SUFFICES ASSUME EnvironmentsIInv, SendApply PROVE EnvironmentsIInv'
  OBVIOUS
<1>1. /\ UNCHANGED <<bucket, onhost, written, running, held, missed, moved, restarts, shell>>
      /\ stored' = client /\ client # <<>> /\ client' = <<>> /\ woken' = TRUE
      /\ quiet' => quiet /\ stored = client
  BY DEF SendApply
<1>2. EnvironmentsShape'
  BY <1>1 DEF EnvironmentsIInv, EnvironmentsShape, SentTrue
<1>3. BucketsOnHost' /\ RunsItsFile' /\ OwnFollows'
  BY <1>1 DEF EnvironmentsIInv, BucketsOnHost, RunsItsFile, OwnFollows, OnDisk
<1>4. FileInStep'
  <2>1. OnDisk(Me)' = OnDisk(Me) /\ (stored = client => ResolveAppEnv' = ResolveAppEnv)
    BY <1>1 DEF OnDisk, ResolveAppEnv, ResolveConfig
  <2>. QED  BY <1>1, <2>1 DEF EnvironmentsIInv, FileInStep
<1>5. PICK c : c = client[1]
  OBVIOUS
<1>6. EnrichEnv(c.authored)' = EnrichEnv(c.authored)
  BY <1>1, CurrentStays
<1>7. Copied(c.authored)' = Copied(c.authored)
  BY <1>6 DEF Copied
<1>8. moved' = FALSE => Current(c)
  BY <1>1, <1>5 DEF EnvironmentsIInv, StillCurrent
<1>9. stored'[1] = c
  BY <1>1, <1>5
<1>10. StillCurrent'
  BY <1>1, <1>6, <1>7, <1>8, <1>9 DEF StillCurrent, Current
<1>. QED  BY <1>2, <1>3, <1>4, <1>10 DEF EnvironmentsIInv

LEMMA HandleKeeps == EnvironmentsIInv /\ Handle => EnvironmentsIInv'
<1>. SUFFICES ASSUME EnvironmentsIInv, stored # <<>>, Handle PROVE EnvironmentsIInv'
  BY DEF Handle, EnvironmentsIInv, EnvironmentsShape
<1>. DEFINE own == ResolveAppEnv
            changed == OnDisk(Me) # own
            refs == stored[1].authored.from
            rolls == ~NoneResolved(refs) /\ (running = <<>> \/ changed \/ running[1].from # refs)
<1>1. /\ Replace(Me, own) /\ written' = written \cup {Me} /\ held' = FALSE /\ quiet' = TRUE
      /\ rolls => /\ running' = <<[from |-> refs, own |-> own]>> \/ running' = <<>>
                  /\ missed' = FALSE
      /\ ~rolls => running' = running /\ missed' = (missed \/ (changed /\ running # <<>>))
      /\ restarts' = restarts + (IF running # <<>> /\ changed /\ quiet /\ ~Several(own) THEN 1 ELSE 0)
      /\ woken' = (NoneResolved(refs) \/ running' = <<>>)
      /\ UNCHANGED <<bucket, stored, client, moved, shell>>
  BY Zenon DEF Handle
<1>2. onhost' = [f \in DOMAIN onhost \cup {Me} |-> IF f = Me THEN own ELSE onhost[f]]
  BY <1>1 DEF Replace
<1>3. ResolveAppEnv' = own /\ OnDisk(Me)' = Load(own)
  BY <1>1, <1>2 DEF OnDisk, ResolveAppEnv, ResolveConfig
<1>4. EnvironmentsShape'
  BY <1>1 DEF EnvironmentsIInv, EnvironmentsShape, SentTrue
<1>5. BucketsOnHost'
  BY <1>1, <1>2, MeIs DEF EnvironmentsIInv, BucketsOnHost
<1>6. FileInStep'
  BY <1>1, <1>3 DEF FileInStep
<1>7. "copy" \in DOMAIN own
  BY OwnHas DEF EnvironmentsIInv
<1>8. running' # <<>> /\ ~missed' => Load(running'[1].own) = Load(own)
  <2>1. CASE rolls
    BY <2>1, <1>1
  <2>2. CASE ~rolls
    <3>. SUFFICES ASSUME running # <<>>, ~missed, ~changed PROVE Load(running[1].own) = Load(own)
      BY <2>2, <1>1
    <3>1. Load(running[1].own) = OnDisk(Me) /\ OnDisk(Me) = own
      BY <1>7 DEF EnvironmentsIInv, RunsItsFile
    <3>. QED  BY <3>1, LoadIs
  <2>. QED  BY <2>1, <2>2
<1>9. RunsItsFile'
  BY <1>3, <1>8 DEF RunsItsFile
<1>10. restarts' = 0
  <2>1. ~(changed /\ quiet /\ ~Several(own))
    <3>. SUFFICES ASSUME quiet, ~Several(own) PROVE ~changed
      OBVIOUS
    <3>1. OnDisk(Me) = Load(own)
      BY DEF EnvironmentsIInv, FileInStep
    <3>2. own = [k \in DOMAIN own |-> own[k]]
      BY DEF ResolveAppEnv, Overlay
    <3>3. Load(own) = own
      BY <3>2 DEF Load, Several
    <3>. QED  BY <3>1, <3>3
  <2>. QED  BY <2>1, <1>1 DEF EnvironmentsIInv, OwnFollows
<1>11. OwnFollows'
  BY <1>3, <1>8, <1>10 DEF OwnFollows
<1>12. StillCurrent'
  <2>1. PICK c, s : c = client[1] /\ s = stored[1]
    OBVIOUS
  <2>2. EnrichEnv(c.authored)' = EnrichEnv(c.authored) /\ EnrichEnv(s.authored)' = EnrichEnv(s.authored)
    BY <1>1, CurrentStays
  <2>3. Copied(c.authored)' = Copied(c.authored) /\ Copied(s.authored)' = Copied(s.authored)
    BY <2>2 DEF Copied
  <2>. QED  BY <1>1, <2>1, <2>2, <2>3 DEF EnvironmentsIInv, StillCurrent, Current
<1>. QED  BY <1>4, <1>5, <1>6, <1>9, <1>11, <1>12 DEF EnvironmentsIInv

LEMMA EnvironmentsPreserved == EnvironmentsIInv /\ [EnvironmentsNext]_environmentsVars => EnvironmentsIInv'
<1>. SUFFICES ASSUME EnvironmentsIInv, [EnvironmentsNext]_environmentsVars PROVE EnvironmentsIInv'
  OBVIOUS
<1>1. CASE Replay \/ UNCHANGED environmentsVars
  <2>1. /\ UNCHANGED <<bucket, onhost, written, stored, running, held, missed, client, moved, quiet, restarts, shell>>
        /\ woken' = woken \/ (woken' /\ stored # <<>>)
    BY <1>1 DEF Replay, environmentsVars
  <2>2. OnDisk(Me)' = OnDisk(Me) /\ ResolveAppEnv' = ResolveAppEnv
    BY <2>1 DEF OnDisk, ResolveAppEnv, ResolveConfig
  <2>3. PICK c, s : c = client[1] /\ s = stored[1]
    OBVIOUS
  <2>4. EnrichEnv(c.authored)' = EnrichEnv(c.authored) /\ EnrichEnv(s.authored)' = EnrichEnv(s.authored)
    BY <2>1, CurrentStays
  <2>5. Copied(c.authored)' = Copied(c.authored) /\ Copied(s.authored)' = Copied(s.authored)
    BY <2>4 DEF Copied
  <2>6. StillCurrent'
    BY <2>1, <2>3, <2>4, <2>5 DEF EnvironmentsIInv, StillCurrent, Current
  <2>7. EnvironmentsShape' /\ BucketsOnHost'
    BY <2>1 DEF EnvironmentsIInv, EnvironmentsShape, SentTrue, BucketsOnHost
  <2>8. RunsItsFile' /\ FileInStep' /\ OwnFollows'
    BY <2>1, <2>2 DEF EnvironmentsIInv, RunsItsFile, FileInStep, OwnFollows
  <2>. QED  BY <2>6, <2>7, <2>8 DEF EnvironmentsIInv
<1>. QED  BY <1>1, ConfigKeeps, ReadKeeps, SendKeeps, HandleKeeps DEF EnvironmentsNext

\* A layer the client takes has a key if the file that the container takes has it.
LEMMA AlikeLayer ==
  ASSUME EnvironmentsIInv, NEW refs, NEW n \in Nat, NEW i \in 1 .. n, NEW k, refs[i] \in written, refs[i] # Me,
         \A j \in 1 .. n : refs[j] = refs[i] => j = i, k \notin DOMAIN bucket[ScopeBucket(refs[i])]
  PROVE  /\ k \in DOMAIN FetchBucket(refs, i) <=> k \in DOMAIN OnDisk(FileOf(refs[i]))
         /\ k \in DOMAIN FetchBucket(refs, i) /\ FetchBucket(refs, i)[k] # TwoLines =>
              OnDisk(FileOf(refs[i]))[k] = FetchBucket(refs, i)[k]
<1>. DEFINE r == refs[i]
<1>1. r \in Buckets /\ r[2] # Empty /\ r \in DOMAIN onhost /\ onhost[r] = bucket[r]
  BY DEF EnvironmentsIInv, BucketsOnHost
<1>2. BucketOf(r) = r /\ FileOf(r) = r
  BY <1>1, BucketIs DEF BucketOf, FileOf
<1>3. FetchBucket(refs, i) = Overlay(bucket[ScopeBucket(r)], bucket[r])
  BY <1>1, <1>2 DEF FetchBucket, ConfigGet, ResolveConfig
<1>4. OnDisk(FileOf(r)) = Load(bucket[r])
  BY <1>1, <1>2 DEF OnDisk
<1>5. DOMAIN bucket[r] = DOMAIN Load(bucket[r]) /\ k \notin DOMAIN bucket[ScopeBucket(r)]
  BY DEF Load
<1>. QED  BY <1>3, <1>4, <1>5 DEF Overlay, Load

\* The layers of client and container agree on a key that the resource itself has not.
LEMMA LayersAlike ==
  ASSUME NEW n \in Nat, NEW c, NEW d, DOMAIN c = 1 .. n, DOMAIN d = 1 .. n, NEW k \in DOMAIN Layered(c),
         \A i \in 1 .. n : /\ k \in DOMAIN c[i] <=> k \in DOMAIN d[i]
                           /\ k \in DOMAIN c[i] /\ c[i][k] # TwoLines => d[i][k] = c[i][k],
         Layered(c)[k] # TwoLines
  PROVE  k \in DOMAIN Layered(d) /\ Layered(d)[k] = Layered(c)[k]
<1>1. PICK i \in 1 .. n : /\ k \in DOMAIN c[i] /\ \A j \in 1 .. n : k \in DOMAIN c[j] => j <= i
                          /\ Layered(c)[k] = c[i][k]
  BY LayeredOf
<1>2. k \in DOMAIN d[i] /\ d[i][k] = c[i][k] /\ \A j \in 1 .. n : k \in DOMAIN d[j] => j <= i
  BY <1>1
<1>3. k \in DOMAIN Layered(d) /\ Layered(d)[k] = d[i][k]
  BY <1>2, LayeredAt
<1>. QED  BY <1>1, <1>2, <1>3

\* The value under the name of the manifest's own variable.
LEMMA CopyIs ==
  ASSUME NEW a \in Authored, NEW k \in a.uses
  PROVE  Copied(a)["copy"] = EnrichEnv(a)[k]
<1>1. \A u \in a.uses : u = k
  BY EnvironmentsAssumption
<1>2. (CHOOSE u \in a.uses : TRUE) = k
  BY <1>1
<1>. QED  BY <1>2 DEF Copied

LEMMA OneMore ==
  ASSUME NEW n \in Nat, NEW s, s = [i \in 1 .. n |-> s[i]], NEW x, NEW t, t = s \o <<x>>
  PROVE  DOMAIN t = 1 .. n + 1 /\ t[n + 1] = x /\ \A i \in 1 .. n : t[i] = s[i]
<1>. DEFINE S == {s[i] : i \in 1 .. n} \cup {x}
<1>1. s \in [1 .. n -> S]
  OBVIOUS
<1>2. s \in Seq(S) /\ Len(s) = n /\ <<x>> \in Seq(S)
  BY <1>1
<1>. HIDE DEF S
<1>. QED  BY <1>2

LEMMA InterpolatedIs == EnvironmentsIInv => InterpolatedAlike
<1>. SUFFICES ASSUME EnvironmentsIInv, stored # <<>>, ~moved, client = <<>>, NEW k \in stored[1].authored.uses, Alike(k),
                     \A i \in DOMAIN From : From[i][1] # Empty
              PROVE  Agrees(k)
  BY DEF InterpolatedAlike
<1>. DEFINE a == stored[1].authored
            v == stored[1].env["copy"]
            n == Len(a.from)
            m == Len(a.blocks)
            mine == ResolveConfig(Me)
            Ours == [i \in 1 .. n |-> FetchBucket(a.from, i)]
            Theirs == [i \in 1 .. n |-> OnDisk(FileOf(a.from[i]))]
            All == Ours \o <<mine>>
<1>1. a \in Authored /\ v = EnrichEnv(a)[k] /\ k \in DOMAIN EnrichEnv(a)
  BY CopyIs DEF EnvironmentsIInv, EnvironmentsShape, SentTrue, StillCurrent, Current
<1>12. From = a.from /\ v # TwoLines
  BY DEF From, Alike
<1>2. n \in Nat /\ DOMAIN a.from = 1 .. n /\ a.blocks = <<Me>>
  <2>1. a.from \in Seq(STRING \X STRING) /\ a.blocks \in Seq(Buckets) /\ \E i \in DOMAIN a.blocks : a.blocks[i] = Me
    BY <1>1, EnvironmentsAssumption
  <2>2. Len(a.blocks) = 1
    BY DEF Alike
  <2>. QED  BY <2>1, <2>2
<1>3. ResourceRefs(a) = <<mine>>
  <2>1. FetchBucket(a.blocks, 1) = mine
    BY <1>2, MeIs, EmptyIsNot DEF FetchBucket, BucketOf, ConfigGet
  <2>. QED  BY <1>2, <2>1 DEF ResourceRefs
<1>4. EnrichEnv(a) = Overlay(Layered(All), shell)
  BY <1>3 DEF EnrichEnv, MergeBucketEnv, EnvFromRefs
<1>10. DOMAIN Ours = 1 .. n /\ DOMAIN Theirs = 1 .. n /\ Ours = [i \in 1 .. n |-> Ours[i]]
      /\ \A i \in 1 .. n : Ours[i] = FetchBucket(a.from, i) /\ Theirs[i] = OnDisk(FileOf(a.from[i]))
  OBVIOUS
<1>. HIDE DEF Ours
<1>6. DOMAIN All = 1 .. n + 1 /\ All[n + 1] = mine /\ \A i \in 1 .. n : All[i] = Ours[i]
  <2>1. All = Ours \o <<mine>>
    OBVIOUS
  <2>2. n \in Nat /\ Ours = [i \in 1 .. n |-> Ours[i]]
    BY <1>2, <1>10
  <2>. HIDE DEF All, mine, n
  <2>. QED  BY <2>1, <2>2, OneMore
<1>11. Environment(a.from, ResolveAppEnv) = Overlay(Layered(Theirs), Load(ResolveAppEnv))
  BY DEF Environment
<1>. HIDE DEF All, Theirs
<1>5. k \in DOMAIN Layered(All) /\ Layered(All)[k] = v
  BY <1>1, <1>4 DEF Alike, Overlay
<1>7. /\ DOMAIN ResolveAppEnv = DOMAIN mine \cup DOMAIN stored[1].env
      /\ k \in DOMAIN mine => ResolveAppEnv[k] = mine[k]
  BY DEF ResolveAppEnv, Overlay, Alike
<1>8. CASE k \in DOMAIN mine
  <2>0. n + 1 \in Nat /\ n + 1 \in 1 .. n + 1 /\ \A j \in 1 .. n + 1 : j <= n + 1
    BY <1>2
  <2>1. Layered(All)[k] = mine[k]
    <3>. DEFINE last == n + 1
    <3>1. last \in Nat /\ last \in 1 .. last /\ DOMAIN All = 1 .. last /\ All[last] = mine
          /\ \A j \in 1 .. last : j <= last
      BY <2>0, <1>6
    <3>. HIDE DEF last, mine
    <3>. QED  BY <3>1, <1>8, LayeredAt
  <2>2. k \in DOMAIN Load(ResolveAppEnv) /\ Load(ResolveAppEnv)[k] = v
    BY <1>5, <1>7, <1>8, <1>12, <2>1 DEF Load
  <2>. QED  BY <2>2, <1>11, <1>12 DEF Overlay, Agrees
<1>9. CASE k \notin DOMAIN mine
  <2>1. k \notin DOMAIN bucket[<<"s", Empty>>]
    BY <1>9, MeIs DEF ResolveConfig, Overlay
  <2>2. ASSUME NEW i \in 1 .. n
        PROVE  /\ a.from[i] \in written /\ a.from[i] # Me /\ \A j \in 1 .. n : a.from[j] = a.from[i] => j = i
               /\ k \notin DOMAIN bucket[ScopeBucket(a.from[i])]
    <3>1. FileOf(a.from[i]) = a.from[i]
      BY <1>2, <1>12 DEF FileOf
    <3>. QED  BY <1>2, <1>12, <2>1, <3>1 DEF Alike, ScopeBucket
  <2>3. ASSUME NEW i \in 1 .. n
        PROVE  /\ k \in DOMAIN Ours[i] <=> k \in DOMAIN Theirs[i]
               /\ k \in DOMAIN Ours[i] /\ Ours[i][k] # TwoLines => Theirs[i][k] = Ours[i][k]
    <3>. DEFINE refs == a.from
                fetched == FetchBucket(refs, i)
                read == OnDisk(FileOf(refs[i]))
    <3>1. n \in Nat /\ refs[i] \in written /\ refs[i] # Me /\ (\A j \in 1 .. n : refs[j] = refs[i] => j = i)
          /\ k \notin DOMAIN bucket[ScopeBucket(refs[i])]
      BY <1>2, <2>2
    <3>2. Ours[i] = fetched /\ Theirs[i] = read
      BY <1>10
    <3>. HIDE DEF refs, n
    <3>3. /\ k \in DOMAIN fetched <=> k \in DOMAIN read
          /\ k \in DOMAIN fetched /\ fetched[k] # TwoLines => read[k] = fetched[k]
      BY <3>1, AlikeLayer
    <3>. QED  BY <3>2, <3>3
  <2>0. n + 1 \in Nat
    BY <1>2
  <2>4. PICK i \in 1 .. n + 1 : /\ k \in DOMAIN All[i] /\ \A j \in 1 .. n + 1 : k \in DOMAIN All[j] => j <= i
                                /\ Layered(All)[k] = All[i][k]
    BY <2>0, <1>5, <1>6, LayeredOf
  <2>5. i \in 1 .. n /\ k \in DOMAIN Ours[i] /\ v = Ours[i][k] /\ \A j \in 1 .. n : k \in DOMAIN Ours[j] => j <= i
    BY <1>2, <1>5, <1>6, <1>9, <2>4
  <2>6. k \in DOMAIN Layered(Ours) /\ Layered(Ours)[k] = v
    <3>1. n \in Nat
      BY <1>2
    <3>. HIDE DEF n
    <3>. QED  BY <3>1, <1>10, <2>5, LayeredAt
  <2>7. k \in DOMAIN Layered(Theirs) /\ Layered(Theirs)[k] = v
    <3>1. n \in Nat /\ v # TwoLines
      BY <1>2, <1>12
    <3>. HIDE DEF n, v
    <3>. QED  BY <1>10, <2>3, <2>6, <3>1, LayersAlike
  <2>8. k \notin DOMAIN Load(ResolveAppEnv)
    BY <1>7, <1>9 DEF Alike, Load
  <2>. QED  BY <2>7, <2>8, <1>11, <1>12 DEF Overlay, Agrees
<1>. QED  BY <1>8, <1>9

\* The same variable has one value in its bucket, its env file, the container and what
\* the client interpolated (api.go's config set, linkEnv, resolveEnvFromList, enrichEnv),
\* whatever is set, unset, half set, applied and replayed in whichever order, for any
\* manifests, payloads and shells.
THEOREM EnvsCorrect == EnvironmentsSpec => []EnvsTrue
<1>1. EnvironmentsIInv => Materialized
  BY BucketIs DEF EnvironmentsIInv, BucketsOnHost, Materialized, Shared
<1>2. EnvironmentsIInv => EnvsTrue
  BY <1>1, InterpolatedIs DEF EnvsTrue, EnvironmentsIInv
<1>. QED  BY <1>2, EnvironmentsInitial, EnvironmentsPreserved, PTL DEF EnvironmentsSpec

=============================================================================
