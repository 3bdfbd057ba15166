------------------------------ MODULE Metrics ------------------------------
(* The metrics (internal/metrics): one goroutine samples the host and a pod   *)
(* on a ticker and then compresses and removes the files of past days         *)
(* (sampler.go, cleanup.go), another reads the router's access log and writes *)
(* a row for the host (ingress_sampler.go, ingress_aggregator.go,             *)
(* ingress_host_resolver.go); both append through one writer (writer.go) to   *)
(* the file of the row's own day, and the reader opens plain and compressed   *)
(* files alike (reader.go). Time is the day.                                  *)
EXTENDS Integers, FiniteSets, Sequences

CONSTANTS
  LastDay,      \* bound: the last day
  KeepDays,    \* days kept
  StaleAfter,  \* ticks a container may be absent before its baseline goes
  Budgets      \* bounds: what may happen in a behaviour, of each kind

ASSUME MetricsAssumption ==
  /\ LastDay \in Nat \ {0} /\ {KeepDays, StaleAfter} \subseteq Nat
  /\ Budgets \subseteq [{"ticks", "rows", "pod", "log", "days", "faults"} -> Nat]

VARIABLES
  date,
  rows, packed, \* the files of each day: the rows in them, NoRows where there is no file
  opened,    \* the writer's open file: its day, 0 for none, and whether it is still linked
  smp,       \* the sampler: its step, tick, the day it stamped, the days left to clean, the copy
  base,      \* its baseline of the pod's counter
  ing,       \* the ingress sampler: step, tick, stamped day, file, lines read, table, requests in the bucket
  pod,       \* the pod: whether it runs, its counter, and whether it restarted since the last sample
  log,       \* the access log: its inode, its lines, whether the last one is half written
  bound,     \* whether an ingress has the host
  sum,       \* history: rows appended, bytes moved and charged, requests served, counted and missed
  left       \* bound: what is left of the behaviour's budget

metricsVars == <<date, rows, packed, opened, smp, base, ing, pod, log, bound, sum, left>>

Dates == 1 .. LastDay
NoRows == {<<"none", 0>>}
NoBase == [v |-> 0, reset |-> FALSE, seen |-> 0]
Ready(n) == [pc |-> "tick", n |-> n, day |-> 0, todo |-> {}, copy |-> {}]
Closed(n) == [pc |-> "tick", n |-> n, day |-> 0, file |-> 0, off |-> 0, first |-> TRUE, table |-> FALSE, bucket |-> 0]

MetricsInit ==
  /\ date = 1 /\ rows = [d \in Dates |-> NoRows] /\ packed = [d \in Dates |-> NoRows]
  /\ opened = [day |-> 0, linked |-> FALSE]
  /\ smp = Ready(0) /\ base = NoBase /\ ing = Closed(0)
  /\ pod = [up |-> TRUE, ctr |-> 0, again |-> FALSE]
  /\ log = [inode |-> 1, lines |-> <<>>, half |-> FALSE] /\ bound = TRUE
  /\ sum = [rows |-> {}, moved |-> 0, charged |-> 0, from |-> 0, even |-> TRUE,
            served |-> 0, counted |-> 0, missed |-> 0, mark |-> 0]
  /\ left \in Budgets

Spends(what) == left[what] > 0 /\ left' = [left EXCEPT ![what] = @ - 1]
-----------------------------------------------------------------------------
(* The writer, under its mutex.                                             *)

\* ensureOpenForLocked: the file of the row's own day, forward or back.
OpenForRow(d) == IF opened.day = d THEN opened ELSE [day |-> d, linked |-> TRUE]

Put(rs, r) == IF rs = NoRows THEN {r} ELSE rs \cup {r}

\* appendLine: the row is in the day's file, or in one that was unlinked under it;
\* a disk that is full drops it with a log line.
AppendRow(r, d) ==
  LET h == OpenForRow(d) IN
  /\ opened' = h
  /\ rows' = IF h.linked THEN [rows EXCEPT ![d] = Put(@, r)] ELSE rows

\* History: the rows appended on the day they are stamped with.
Noted(r, d) == IF d = date THEN [sum EXCEPT !.rows = @ \cup {<<r, d>>}] ELSE sum
-----------------------------------------------------------------------------
(* The sampler's tick: system row, pod row with its deltas, cleanup, all with *)
(* the time it took at the start.                                             *)

StampTick ==
  /\ smp.pc = "tick" /\ Spends("ticks")
  /\ smp' = [smp EXCEPT !.pc = "system", !.n = @ + 1, !.day = date]
  /\ UNCHANGED <<date, rows, packed, opened, base, ing, pod, log, bound, sum>>

SampleSystem ==
  LET r == <<"system", smp.n>> IN
  /\ smp.pc = "system" /\ smp' = [smp EXCEPT !.pc = "pods"]
  /\ \/ AppendRow(r, smp.day) /\ sum' = Noted(r, smp.day) /\ UNCHANGED left
     \/ Spends("faults") /\ UNCHANGED <<rows, opened, sum>>
  /\ UNCHANGED <<date, packed, base, ing, pod, log, bound>>

\* attachDeltas: none on first sight, on a reset, and on the row after it.
Resets == base # NoBase /\ ~base.reset /\ pod.ctr < base.v
Delta == IF base = NoBase \/ base.reset \/ Resets THEN 0 ELSE pod.ctr - base.v

\* pruneBaselines
Aged == IF base # NoBase /\ smp.n > base.seen + StaleAfter THEN NoBase ELSE base

\* Collect, the row, and the baseline it leaves; where docker or the disk fails the
\* baseline of a pod that was seen has moved on all the same.
SamplePods ==
  LET r == <<"pod", smp.n>> IN
  /\ smp.pc = "pods" /\ smp' = [smp EXCEPT !.pc = "clean"]
  /\ IF pod.up
     THEN /\ base' = [v |-> pod.ctr, seen |-> smp.n, reset |-> Resets]
          /\ pod' = [pod EXCEPT !.again = FALSE]
          /\ \/ /\ AppendRow(r, smp.day) /\ UNCHANGED left
                /\ sum' = [Noted(r, smp.day) EXCEPT
                     !.charged = @ + Delta, !.even = @ /\ ~pod.again,
                     !.from = IF base = NoBase THEN pod.ctr ELSE @]
             \/ Spends("faults") /\ sum' = [sum EXCEPT !.even = FALSE] /\ UNCHANGED <<rows, opened>>
     ELSE /\ base' = Aged /\ sum' = [sum EXCEPT !.even = @ /\ Aged = base]
          /\ UNCHANGED <<rows, opened, pod, left>>
  /\ UNCHANGED <<date, packed, ing, log, bound>>

SkipPods ==
  /\ smp.pc = "pods" /\ Spends("faults") /\ smp' = [smp EXCEPT !.pc = "clean"]
  /\ UNCHANGED <<date, rows, packed, opened, base, ing, pod, log, bound, sum>>
-----------------------------------------------------------------------------
(* Cleanup, which shares the files with the writer and takes no lock.         *)

Unlink(d) == opened' = IF opened.day = d THEN [opened EXCEPT !.linked = FALSE] ELSE opened

ListFiles ==
  /\ smp.pc = "clean"
  /\ smp' = [smp EXCEPT !.pc = "files", !.todo = {d \in Dates : rows[d] # NoRows \/ packed[d] # NoRows}]
  /\ UNCHANGED <<date, rows, packed, opened, base, ing, pod, log, bound, sum, left>>

Old(d) == d < smp.day - KeepDays

\* Variant: the file of the day of the tick is compressed too.
OverAndToday(d) == ~Old(d) /\ d <= smp.day /\ rows[d] # NoRows

\* The day is over and its file is not compressed.
Over(d) == ~Old(d) /\ d < smp.day /\ rows[d] # NoRows

\* The files go by name, which is their day.
NextFile == CHOOSE d \in smp.todo : \A e \in smp.todo : d <= e

\* The next file: an old one is removed, a plain one too that has its compressed twin;
\* of another one gzipFile reads a copy.
CleanFile ==
  /\ smp.pc = "files"
  /\ IF smp.todo = {}
     THEN smp' = Ready(smp.n) /\ UNCHANGED <<rows, packed, opened>>
     ELSE LET d == NextFile
              rest == [smp EXCEPT !.todo = @ \ {d}] IN
       CASE Old(d) ->
              /\ rows' = [rows EXCEPT ![d] = NoRows] /\ packed' = [packed EXCEPT ![d] = NoRows]
              /\ Unlink(d) /\ smp' = rest
         [] Over(d) /\ packed[d] # NoRows ->
              rows' = [rows EXCEPT ![d] = NoRows] /\ Unlink(d) /\ smp' = rest /\ UNCHANGED packed
         [] Over(d) /\ packed[d] = NoRows ->
              smp' = [smp EXCEPT !.pc = "copied", !.copy = rows[d]] /\ UNCHANGED <<rows, packed, opened>>
         [] OTHER -> smp' = rest /\ UNCHANGED <<rows, packed, opened>>
  /\ UNCHANGED <<date, base, ing, pod, log, bound, sum, left>>

\* gzipFile: the rename, then the removal of the original.
SwapFile ==
  LET d == NextFile IN
  /\ \/ /\ smp.pc = "copied" /\ packed' = [packed EXCEPT ![d] = smp.copy]
        /\ smp' = [smp EXCEPT !.pc = "renamed", !.copy = {}] /\ UNCHANGED <<rows, opened>>
     \/ /\ smp.pc = "renamed" /\ rows' = [rows EXCEPT ![d] = NoRows] /\ Unlink(d)
        /\ smp' = [smp EXCEPT !.pc = "files", !.todo = @ \ {d}] /\ UNCHANGED packed
  /\ UNCHANGED <<date, base, ing, pod, log, bound, sum, left>>
-----------------------------------------------------------------------------
(* The ingress sampler's tick: the hosts, the new lines, the row.             *)

\* Variant: every open of the log is taken for the first.
ReopenedAtEnd == IF ing.file = log.inode THEN [file |-> ing.file, off |-> ing.off]
              ELSE [file |-> log.inode, off |-> Len(log.lines)]

\* ensureFileFresh: the same file goes on; the first one is read from its end, a
\* rotated one from its start.
Reopened == IF ing.file = log.inode THEN [file |-> ing.file, off |-> ing.off]
         ELSE [file |-> log.inode, off |-> IF ing.first THEN Len(log.lines) ELSE 0]

\* Push: a request for an asset adds its bytes to the bucket, and is not counted.
Counted(k, n) == Cardinality({i \in k + 1 .. n : log.lines[i] = "page"})

\* The requests in the whole lines behind the k-th.
Pages(k) == Counted(k, IF log.half THEN Len(log.lines) - 1 ELSE Len(log.lines))

\* History: those no reading and no rotation has come by, and how many of them a
\* reading is to count.
Unread == Counted(sum.mark, Len(log.lines))
Owed(table) == IF ing.first \/ ~table THEN 0 ELSE Pages(sum.mark)

\* Refresh: the hosts of the ingresses, or the old table when the listing fails.
Refreshed == IF left.faults > 0 THEN {bound, ing.table} ELSE {bound}

\* ingestNewLines goes to the end
\* of the file, of which the last line may be half there: it does not parse, nor
\* does its other half later. What is not of a host in the table is dropped.
Ingest ==
  /\ ing.pc = "tick" /\ left.rows > 0
  /\ \E table \in Refreshed :
       /\ left' = [left EXCEPT !.rows = @ - 1, !.faults = IF table = bound THEN @ ELSE @ - 1]
       /\ ing' = [ing EXCEPT !.pc = "emit", !.n = @ + 1, !.table = table, !.first = FALSE,
                             !.file = Reopened.file, !.off = Len(log.lines),
                             !.bucket = @ + (IF table THEN Pages(Reopened.off) ELSE 0)]
       /\ sum' = [sum EXCEPT !.mark = Len(log.lines), !.missed = @ + Unread - Owed(table)]
  /\ UNCHANGED <<date, rows, packed, opened, smp, base, pod, log, bound>>

\* evaluate takes the time; emit drains the bucket and writes a row for every host
\* of the table, an empty one too.
StampRow ==
  /\ ing.pc = "emit"
  /\ ing' = [ing EXCEPT !.pc = IF ing.table \/ ing.bucket > 0 THEN "row" ELSE "tick", !.day = date]
  /\ UNCHANGED <<date, rows, packed, opened, smp, base, pod, log, bound, sum, left>>

WriteRow ==
  LET r == <<"ingress", ing.n>> IN
  /\ ing.pc = "row" /\ ing' = [ing EXCEPT !.pc = "tick", !.bucket = 0, !.day = 0]
  /\ \/ /\ AppendRow(r, ing.day) /\ UNCHANGED left
        /\ sum' = [Noted(r, ing.day) EXCEPT !.counted = @ + ing.bucket]
     \/ Spends("faults") /\ sum' = [sum EXCEPT !.missed = @ + ing.bucket] /\ UNCHANGED <<rows, opened>>
  /\ UNCHANGED <<date, packed, smp, base, pod, log, bound>>
-----------------------------------------------------------------------------
(* The world around.                                                        *)

Midnight ==
  /\ date < LastDay /\ Spends("days") /\ date' = date + 1
  /\ UNCHANGED <<rows, packed, opened, smp, base, ing, pod, log, bound, sum>>

\* The pod moves a byte, stops, or is started again with its counter at zero.
PodActs ==
  /\ Spends("pod")
  /\ \/ /\ pod.up /\ pod' = [pod EXCEPT !.ctr = @ + 1]
        /\ sum' = [sum EXCEPT !.moved = @ + 1]
     \/ pod.up /\ pod' = [pod EXCEPT !.up = FALSE] /\ UNCHANGED sum
     \/ pod' = [up |-> TRUE, ctr |-> 0, again |-> TRUE] /\ UNCHANGED sum
  /\ UNCHANGED <<date, rows, packed, opened, smp, base, ing, log, bound>>

\* The router writes a line, or half of one; it rotates its log.
Serve(kind, half) ==
  /\ Spends("log") /\ ~log.half
  /\ log' = [log EXCEPT !.lines = Append(@, kind), !.half = half]
  /\ sum' = IF kind = "page" THEN [sum EXCEPT !.served = @ + 1] ELSE sum
  /\ UNCHANGED <<date, rows, packed, opened, smp, base, ing, pod, bound>>

FinishLine ==
  /\ log.half /\ log' = [log EXCEPT !.half = FALSE]
  /\ UNCHANGED <<date, rows, packed, opened, smp, base, ing, pod, bound, sum, left>>

RotateLog ==
  /\ Spends("log") /\ ~log.half /\ log.lines # <<>>
  /\ log' = [inode |-> log.inode + 1, lines |-> <<>>, half |-> FALSE]
  /\ sum' = [sum EXCEPT !.missed = @ + Unread, !.mark = 0]
  /\ UNCHANGED <<date, rows, packed, opened, smp, base, ing, pod, bound>>

Rebind ==
  /\ Spends("log") /\ bound' = ~bound
  /\ UNCHANGED <<date, rows, packed, opened, smp, base, ing, pod, log, sum>>

\* The controller stops and starts: the samplers begin anew, a swap stays half done.
RestartSamplers ==
  /\ Spends("faults") /\ opened' = [day |-> 0, linked |-> FALSE]
  /\ smp' = Ready(smp.n) /\ ing' = Closed(ing.n) /\ base' = NoBase
  /\ sum' = [sum EXCEPT !.missed = @ + ing.bucket, !.even = FALSE]
  /\ UNCHANGED <<date, rows, packed, pod, log, bound>>

MetricsNext ==
  \/ StampTick \/ SampleSystem \/ SamplePods \/ SkipPods \/ ListFiles \/ CleanFile \/ SwapFile
  \/ Ingest \/ StampRow \/ WriteRow \/ Midnight \/ PodActs \/ FinishLine \/ RotateLog \/ Rebind
  \/ RestartSamplers \/ \E kind \in {"page", "asset"}, half \in BOOLEAN : Serve(kind, half)

MetricsSpec == MetricsInit /\ [][MetricsNext]_metricsVars
-----------------------------------------------------------------------------
\* The rows Query and Dump find for a day: the plain file, the compressed one, or both.
RowsOf(d) == (rows[d] \cup packed[d]) \ NoRows

\* A row appended on the day it is stamped with is found in that day's file for as
\* long as it is kept, through midnight, compression half way, a second writer and
\* restarts; no byte is charged twice, and without a restart, a lost row or an
\* absence that outlasts the baseline every byte since the first sample is; and
\* every request is in a row, in the bucket, still to be read, or was dropped by
\* name: torn at a read, rotated away, of no bound host, before the first open.
MetricsTrue ==
  /\ \A k \in sum.rows : k[2] < date - KeepDays \/ k[1] \in RowsOf(k[2])
  /\ sum.charged <= sum.moved
  /\ sum.even /\ base # NoBase => sum.charged = base.v - sum.from
  /\ sum.served = sum.counted + ing.bucket + sum.missed + Unread
=============================================================================
