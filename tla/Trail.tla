------------------------------- MODULE Trail -------------------------------
(* The activity trail: actions record that they started and how they finished *)
(* (controller/activity.go), the writer appends a line to the file of the     *)
(* record's own day (activity/activity.go), a slow ticker compresses the      *)
(* files of past days and unlinks old ones without the writer's lock          *)
(* (activity/cleanup.go), and readers take raw and compressed files as one    *)
(* history (activity/reader.go). Time is the day.                             *)
EXTENDS Integers, Sequences, FiniteSets

CONSTANTS
  Deeds,       \* actions under way or done
  MaxDay,      \* bound: the last day
  Retention,   \* days kept (30 in the code)
  MaxSpoilt    \* bound: failed writes and crashes

ASSUME TrailAssumption ==
  MaxDay \in Nat \ {0} /\ {Retention, MaxSpoilt} \subseteq Nat /\ "none" \notin Deeds

VARIABLES
  today,
  raw, gz,     \* the files of each day: the lines, and whether there is a file
  handle,      \* the writer's open file: its day, 0 for none, and whether it is still linked
  deed,        \* per action: its step, the record in hand, what the client was told
  cleaner,     \* the cleanup pass: [pc, day, copy]
  logged,      \* history: records whose Write returned no error
  excused,     \* history: those after a torn line, or of a day already being compressed
  spoilt

trailVars == <<today, raw, gz, handle, deed, cleaner, logged, excused, spoilt>>

Days == 1 .. MaxDay
NoFile == [lines |-> <<>>, there |-> FALSE]
Torn == [deed |-> "none", event |-> "torn", day |-> 0, status |-> "none"]
Idle == [pc |-> "idle", day |-> 0, copy |-> <<>>]

TrailInit ==
  /\ today = 1
  /\ raw = [d \in Days |-> NoFile] /\ gz = [d \in Days |-> NoFile]
  /\ handle = [day |-> 0, linked |-> FALSE]
  /\ deed = [a \in Deeds |-> [pc |-> "new", rec |-> Torn, told |-> "none"]]
  /\ cleaner = Idle /\ logged = {} /\ excused = {} /\ spoilt = 0

Spoil == spoilt < MaxSpoilt /\ spoilt' = spoilt + 1
-----------------------------------------------------------------------------
(* One action: begin, the work, Finish. Its record is stamped before it has   *)
(* the writer's lock.                                                         *)

Stamped(a, ev, st) == [deed |-> a, event |-> ev, day |-> today, status |-> st]

BeginActivity(a) ==
  /\ deed[a].pc = "new"
  /\ deed' = [deed EXCEPT ![a] = [pc |-> "start", told |-> "none", rec |-> Stamped(a, "started", "none")]]
  /\ UNCHANGED <<today, raw, gz, handle, cleaner, logged, excused, spoilt>>

\* The status of the record comes from the response's code; Finish fires once.
Finish(a, told) ==
  /\ deed[a].pc = "work"
  /\ deed' = [deed EXCEPT ![a] = [pc |-> "end", told |-> told,
       rec |-> Stamped(a, "finished", IF told = "refusal" THEN "failed" ELSE "succeeded")]]
  /\ UNCHANGED <<today, raw, gz, handle, cleaner, logged, excused, spoilt>>

Onward(a) == deed' = [deed EXCEPT ![a].pc = IF @ = "start" THEN "work" ELSE "done"]
-----------------------------------------------------------------------------
(* The writer, under its lock.                                              *)

\* Variant: a record of an earlier day goes to the file that is open.
OpenForForward(d) ==
  IF handle.day >= d THEN handle ELSE [day |-> d, linked |-> TRUE]

\* ensureOpenForLocked: the file of the record's own day, made if need be.
OpenFor(d) ==
  IF handle.day = d THEN handle ELSE [day |-> d, linked |-> TRUE]

\* A line that follows a torn one is glued to it, and neither can be read.
Glued(ls) == ls # <<>> /\ ls[Len(ls)] = Torn
Appended(ls, r) == IF Glued(ls) THEN [ls EXCEPT ![Len(ls)].event = "glued"] ELSE Append(ls, r)

\* What is written to a file that was unlinked is lost with it.
WriteTo(h, r) ==
  raw' = IF h.linked THEN [raw EXCEPT ![h.day] = [there |-> TRUE, lines |-> Appended(@.lines, r)]]
         ELSE raw

Late(d) == gz[d].there \/ cleaner.day = d \/ (handle.day = d /\ ~handle.linked)

\* appendLine: the write goes well; or it fails, with a part of the line in the file
\* or none, which is logged and nothing else.
AppendLine(a) ==
  LET r == deed[a].rec
      h == OpenFor(r.day) IN
  /\ deed[a].pc \in {"start", "end"} /\ Onward(a) /\ handle' = h
  /\ \/ /\ WriteTo(h, r) /\ logged' = logged \cup {r}
        /\ excused' = IF Late(r.day) \/ Glued(raw[h.day].lines)
                      THEN excused \cup {r} ELSE excused
        /\ UNCHANGED spoilt
     \/ /\ Spoil /\ (WriteTo(h, Torn) \/ UNCHANGED raw) /\ UNCHANGED <<logged, excused>>
  /\ UNCHANGED <<today, gz, cleaner>>
-----------------------------------------------------------------------------
(* Cleanup, with the day it was called on.                                  *)

NextDay == today < MaxDay /\ today' = today + 1
           /\ UNCHANGED <<raw, gz, handle, deed, cleaner, logged, excused, spoilt>>

Unlinked(d) == handle' = IF handle.day = d THEN [handle EXCEPT !.linked = FALSE] ELSE handle

RemoveOld(d) ==
  /\ cleaner = Idle /\ d < today - Retention /\ (raw[d].there \/ gz[d].there)
  /\ raw' = [raw EXCEPT ![d] = NoFile] /\ gz' = [gz EXCEPT ![d] = NoFile]
  /\ Unlinked(d)
  /\ UNCHANGED <<today, deed, cleaner, logged, excused, spoilt>>

\* gzipFile reads the file; one that is compressed already is removed.
GzipCopy(d) ==
  /\ cleaner = Idle /\ today - Retention <= d /\ d < today /\ raw[d].there
  /\ IF gz[d].there
     THEN raw' = [raw EXCEPT ![d] = NoFile] /\ Unlinked(d) /\ UNCHANGED cleaner
     ELSE cleaner' = [pc |-> "copied", day |-> d, copy |-> raw[d].lines] /\ UNCHANGED <<raw, handle>>
  /\ UNCHANGED <<today, gz, deed, logged, excused, spoilt>>

\* The rename, then the removal of the original.
GzipRename ==
  /\ cleaner.pc = "copied"
  /\ gz' = [gz EXCEPT ![cleaner.day] = [there |-> TRUE, lines |-> cleaner.copy]]
  /\ cleaner' = [cleaner EXCEPT !.pc = "renamed"]
  /\ UNCHANGED <<today, raw, handle, deed, logged, excused, spoilt>>

GzipRemove ==
  /\ cleaner.pc = "renamed" /\ raw' = [raw EXCEPT ![cleaner.day] = NoFile]
  /\ Unlinked(cleaner.day) /\ cleaner' = Idle
  /\ UNCHANGED <<today, gz, deed, logged, excused, spoilt>>

\* The controller stops: a pass half way leaves the original, the copy beside it
\* is taken for it after the rename.
CrashTrail ==
  /\ Spoil /\ cleaner' = Idle /\ handle' = [day |-> 0, linked |-> FALSE]
  /\ deed' = [a \in Deeds |-> IF deed[a].pc = "new" THEN deed[a]
                              ELSE [deed[a] EXCEPT !.pc = "done"]]
  /\ UNCHANGED <<today, raw, gz, logged, excused>>

TrailNext ==
  \/ \E a \in Deeds : BeginActivity(a) \/ AppendLine(a)
                      \/ \E told \in {"success", "refusal"} : Finish(a, told)
  \/ \E d \in Days : RemoveOld(d) \/ GzipCopy(d)
  \/ GzipRename \/ GzipRemove \/ NextDay \/ CrashTrail

TrailSpec == TrailInit /\ [][TrailNext]_trailVars
-----------------------------------------------------------------------------
\* queryFile, of one day: a compressed file and its original are both read.
Lines(d) == gz[d].lines \o raw[d].lines
Doubled(d) == gz[d].there /\ raw[d].there
\* Query: malformed lines are skipped; the files are read from the last to the first,
\* each from its end.
Entry(p) == Lines(p[1])[p[2]]
Listed == {p \in UNION {{d} \X DOMAIN Lines(d) : d \in Days} : Entry(p).deed # "none"}
Before(p, q) == p[1] > q[1] \/ (p[1] = q[1] /\ p[2] > q[2])

\* The record of what was done is not lost: through rotation at midnight in either
\* direction, compression half way, crashes and writes that fail, every record
\* written within the retention is read back from the file of its day, once unless
\* the compressed file and its original are both there, and says what the client
\* was told; an action's end comes before its start in a listing, newest first.
\* Excused: what is appended to a day already compressed, or to a line a failed
\* write has torn.
TrailTrue ==
  /\ \A r \in logged \ excused :
       \/ r.day < today - Retention
       \/ LET n == Cardinality({m \in DOMAIN Lines(r.day) : Lines(r.day)[m] = r}) IN
          n = 1 \/ (n = 2 /\ Doubled(r.day))
  /\ \A p, q \in Listed :
       Entry(p).deed = Entry(q).deed /\ Entry(p).event = "started" /\ Entry(q).event = "finished"
       /\ ~Doubled(p[1]) => Before(q, p)
  /\ \A r \in logged : r.event = "finished" =>
       (r.status = "failed") = (deed[r.deed].told = "refusal")
=============================================================================
