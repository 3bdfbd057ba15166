------------------------------- MODULE Streams -------------------------------
(* What the client shows of the server's account of a push or an apply: the   *)
(* server reports steps, logs, results and summaries on one stream, as frames  *)
(* or as text; the client tells which by the first line, keeps a spinner       *)
(* painting beside the lines, and closes when the connection ends, whether the *)
(* server finished or died mid-line.                                          *)
EXTENDS Integers, Sequences, FiniteSets

CONSTANTS Pushes,    \* the applications' names a push may carry: one line of build output each
          MaxResults \* bound: resources of an apply

ASSUME StreamsAssumption == MaxResults \in Nat

VARIABLES job,     \* [prog, speaks, force]: what runs, and how its reporter speaks
          at,      \* where the server's program stands
          said,    \* lines written on the server's stdout, not read yet
          erred,   \* lines written on its stderr, not read yet
          passed,    \* steps that ended well, on the server
          told,    \* results the server reported
          chosen,  \* the renderer the first line decided: "none", "ndjson", "legacy"
          ui,      \* the renderer and the terminal
          seen,    \* the lines the renderer was given
          torn,    \* the line the server died in
          ends     \* "open", "closing", "closed"

streamsVars == <<job, at, said, erred, passed, told, chosen, ui, seen, torn, ends>>
serverVars == <<at, said, erred, passed, told>>
clientVars == <<chosen, ui, seen>>

Line(k, x) == [k |-> k, x |-> x]
Fresh ==
  [active |-> FALSE, label |-> "none", tail |-> <<>>, built |-> FALSE, spin |-> "off", then |-> "none",
   painted |-> FALSE, smeared |-> FALSE, count |-> 0, screen |-> <<>>]
-----------------------------------------------------------------------------
(* Of a list, what is at some of its places; and which of them a place is.   *)

Rank(S, i) == Cardinality({j \in S : j <= i})
Only(ls, S) == [n \in 1 .. Cardinality(S) |-> ls[CHOOSE i \in S : Rank(S, i) = n]]

(* The server. A reporter that speaks text has no hello and ends no step.     *)

Unspoken == {"hello", "ok", "fail"}
Speaks(ls) ==
  IF job.speaks = "ndjson" THEN ls ELSE Only(ls, {i \in DOMAIN ls : ls[i].k \notin Unspoken})
Say(ls) == said' = said \o Speaks(ls)
(* The command failed: the error is printed on stderr and the exit status is 1. *)
Fails(ls) ==
  /\ Say(ls)
  /\ erred' = Append(erred, Line("noise", "error"))
  /\ at' = "failed"
  /\ UNCHANGED <<passed, told>>
Goes(p, ls, s) ==
  /\ Say(ls)
  /\ at' = p /\ passed' = passed \cup s
  /\ UNCHANGED <<erred, told>>
Serves == UNCHANGED <<job, chosen, ui, seen, torn, ends>>

(* The docker credentials are read before the reporter says hello. *)
Hello ==
  /\ at = "start" /\ Serves
  /\ \E w \in BOOLEAN :
       /\ w => job.prog = "push"
       /\ erred' = IF w THEN Append(erred, Line("noise", "credentials")) ELSE erred
  /\ Say(<<Line("hello", "none")>>)
  /\ at' = IF job.prog = "push" THEN "receive" ELSE IF job.force THEN "pull" ELSE "answer"
  /\ UNCHANGED <<passed, told>>

Receive ==
  /\ at = "receive" /\ Serves
  /\ \/ Goes("look", <<Line("start", "receive"), Line("ok", "receive")>>, {"receive"})
     \/ Fails(<<Line("start", "receive"), Line("fail", "receive")>>)

SkipRebuild ==
  /\ at = "look" /\ Serves
  /\ \/ Goes("finished", <<Line("info", "skipping")>>, {})
     \/ Fails(<<Line("info", "skipping")>>)

Extract ==
  /\ at = "look" /\ Serves
  /\ \/ Goes("build", <<Line("start", "create"), Line("ok", "create"), Line("info", "languages")>>, {"create"})
     \/ Fails(<<Line("start", "create"), Line("fail", "create")>>)

(* A build's last line may have no newline: it is flushed behind the summary. *)
BuildRelease ==
  /\ at = "build" /\ Serves
  /\ \E o \in Pushes, late \in BOOLEAN :
       \/ Goes("swap", IF late
                       THEN <<Line("start", "build"), Line("ok", "build"), Line("built", "none"), Line("info", o)>>
                       ELSE <<Line("start", "build"), Line("info", o), Line("ok", "build"), Line("built", "none")>>,
               {"build"})
       \/ Fails(<<Line("start", "build"), Line("info", o), Line("fail", "build")>>)

SwapLink ==
  /\ at = "swap" /\ Serves
  /\ Goes("hook", <<>>, {}) \/ Fails(<<>>)

PostDeploy ==
  /\ at = "hook" /\ Serves
  /\ \/ Goes("deployed", <<>>, {})
     \/ Goes("deployed", <<Line("start", "hook"), Line("info", "$"), Line("ok", "hook")>>, {"hook"})
     \/ Goes("deployed", <<Line("start", "hook"), Line("info", "$"), Line("fail", "hook"), Line("warn", "hook")>>, {})

CollectReleases ==
  /\ at = "deployed" /\ Serves
  /\ \E g \in {<<>>, <<Line("warn", "gc")>>, <<Line("pruned", "releases")>>} :
       Goes("finished", <<Line("deployed", "none")>> \o g, {})

ForcePull ==
  /\ at = "pull" /\ Serves
  /\ \/ \E p \in {<<>>, <<Line("warn", "image")>>, <<Line("note", "image")>>} :
          Goes("answer", <<Line("start", "pull"), Line("ok", "pull")>> \o p, {"pull"})
     \/ Fails(<<Line("start", "pull"), Line("fail", "pull")>>)

(* One result a manifest, and one a pruned resource; then the warnings. *)
AnswerApply ==
  /\ at = "answer" /\ Serves
  /\ \/ \E n \in 0..MaxResults, w \in {<<>>, <<Line("warn", "apply")>>} :
          /\ Say([i \in 1..n |-> Line("result", "r")] \o w)
          /\ told' = told + n /\ at' = "release"
          /\ UNCHANGED <<erred, passed>>
     \/ ~job.force /\ Fails(<<>>)

(* A release block's run prints its own progress on the same stdout. *)
ReleaseAfterApply ==
  /\ at = "release" /\ Serves
  /\ \/ Goes("finished", <<>>, {})
     \/ Goes("finished", <<Line("noise", "release")>>, {})
     \/ Fails(<<Line("noise", "release")>>)

(* The server, or the connection, is gone: what was not sent yet is lost, and *)
(* the last line may be cut in the middle.                                    *)
Cut ==
  /\ at \notin {"finished", "failed"} /\ torn = <<>> /\ ends = "open"
  /\ \E n \in 0..Len(said) :
       /\ said' = SubSeq(said, 1, n)
       /\ torn' \in IF n < Len(said) THEN {<<>>, <<said[n + 1]>>} ELSE {<<>>}
  /\ at' = "failed"
  /\ UNCHANGED <<job, erred, passed, told, chosen, ui, seen, ends>>
-----------------------------------------------------------------------------
(* The terminal: every line goes below what is there; a painted block is      *)
(* overwritten only by what erases it first.                                  *)

Show(u, mark, l) ==
  [u EXCEPT !.screen = Append(@, [mark |-> mark, line |-> l]), !.smeared = @ \/ u.painted]
Painted(u) == IF u.active /\ u.label # "none" THEN [u EXCEPT !.painted = TRUE] ELSE u
Cleared(u) == [u EXCEPT !.painted = FALSE]
NoStep(u) == [u EXCEPT !.label = "none", !.tail = <<>>]
(* A step that is still open when the next line needs the place is taken as passed. *)
CommitOpen(u) ==
  IF u.label = "none" THEN u ELSE NoStep(Show(Cleared(u), "ok", Line("ok", u.label)))
StartSpinner(u) == IF u.active THEN u ELSE [u EXCEPT !.active = TRUE, !.spin = "on"]
(* The lock is let go while the spinner is joined: it may paint once more. *)
StopSpinner(u, what) == [u EXCEPT !.spin = "stopping", !.then = what]
PushTail(u, l) == Painted([u EXCEPT !.tail = Append(@, l)])

StepStart(u, l) == Painted([StartSpinner(CommitOpen(u)) EXCEPT !.label = l.x, !.tail = <<>>])
StepEnd(u, l) == IF u.label # l.x THEN u ELSE NoStep(Show(Cleared(u), l.k, l))
Log(u, l) ==
  CASE l.k = "warn" -> Show(IF u.active THEN Cleared(u) ELSE u, "warn", l)
    [] l.k = "info" /\ u.active -> PushTail(u, l)
    [] OTHER -> Show(u, "raw", l)
Result(u, l) == [Show(IF u.active THEN Cleared(u) ELSE u, "result", l) EXCEPT !.count = @ + 1]
Summary(u, l) ==
  LET c == CommitOpen(u)
  IN  CASE l.k = "built" -> IF c.active THEN StopSpinner(c, "built") ELSE [c EXCEPT !.built = TRUE]
        [] l.k = "deployed" /\ c.built -> c
        [] l.k = "deployed" /\ ~c.built ->
             IF c.active THEN StopSpinner(c, "deployed") ELSE Show(c, "final", l)
        [] OTHER -> Show(IF c.active THEN Cleared(c) ELSE c, "flow", l)
(* What is no frame is kept out of the way of a spinner and of a finished build. *)
NoFrame(u, l) ==
  CASE u.active /\ u.label # "none" -> PushTail(u, l)
    [] u.label = "none" /\ (u.active \/ u.built) -> u
    [] OTHER -> Show(u, "raw", l)

RenderFrame(u, l) ==
  CASE l.k = "hello" -> u
    [] l.k = "start" -> StepStart(u, l)
    [] l.k \in {"ok", "fail"} -> StepEnd(u, l)
    [] l.k \in {"info", "warn"} -> Log(u, l)
    [] l.k = "result" -> Result(u, l)
    [] l.k \in {"built", "deployed", "pruned", "note"} -> Summary(u, l)
    [] OTHER -> NoFrame(u, l)

(* The text renderer of a push goes by the words its lines begin with; frames  *)
(* it is given after all begin with none of them.                             *)
Banners == {"receive", "create", "build"}
EndsText(u, l) ==
  IF l.k = "deployed" /\ u.built THEN u
  ELSE LET c == CommitOpen(u)
       IN  IF c.active THEN StopSpinner(c, l.k)
           ELSE IF l.k = "built" THEN [c EXCEPT !.built = TRUE] ELSE Show(c, "final", l)
RenderText(u, l) ==
  CASE job.speaks = "text" /\ l.k \in {"built", "deployed"} -> EndsText(u, l)
    [] job.speaks = "text" /\ l.k = "start" /\ l.x \in Banners ->
         Painted([StartSpinner(CommitOpen(u)) EXCEPT !.label = l.x])
    [] job.speaks = "text" /\ l.k = "pruned" -> Show(IF u.active THEN Cleared(u) ELSE u, "flow", l)
    [] OTHER -> IF u.active THEN Painted(u) ELSE Show(u, "raw", l)
(* That of an apply tells a result from the rest of the text. *)
RenderResults(u, l) == IF l.k = "result" THEN Result(u, l) ELSE Show(u, "raw", l)

Render(c, u, l) ==
  IF c = "ndjson" THEN RenderFrame(u, l)
  ELSE IF job.prog = "push" THEN RenderText(u, l) ELSE RenderResults(u, l)
-----------------------------------------------------------------------------
(* The client. A push hands both channels to the renderer, an apply only one. *)

Decide(l) == IF chosen # "none" THEN chosen ELSE IF l.k = "hello" THEN "ndjson" ELSE "legacy"
Take(l) ==
  /\ chosen' = Decide(l)
  /\ ui' = Render(Decide(l), ui, l)
  /\ seen' = Append(seen, l)
Reads == ends = "open" /\ ui.spin # "stopping"

ReadOut ==
  /\ Reads /\ said # <<>>
  /\ Take(Head(said)) /\ said' = Tail(said)
  /\ UNCHANGED <<job, at, erred, passed, told, torn, ends>>

ReadErr ==
  /\ Reads /\ erred # <<>>
  /\ IF job.prog = "push" THEN Take(Head(erred))
     ELSE UNCHANGED <<chosen, seen>> /\ ui' = [ui EXCEPT !.screen = Append(@, [mark |-> "stderr", line |-> Head(erred)])]
  /\ erred' = Tail(erred)
  /\ UNCHANGED <<job, at, said, passed, told, torn, ends>>

(* The ticker may fire as long as the spinner's goroutine runs. *)
Tick ==
  /\ ui.spin \in {"on", "stopping"} /\ Painted(ui) # ui
  /\ ui' = Painted(ui)
  /\ UNCHANGED <<job, serverVars, chosen, seen, torn, ends>>

Flushed(u) == IF torn = <<>> THEN u ELSE Show(u, "raw", torn[1])
ClosedUiCommitting(u) == Flushed([CommitOpen(u) EXCEPT !.active = FALSE])
ClosedUi(u) == Flushed([NoStep(Cleared(u)) EXCEPT !.active = FALSE])

(* What stopSpinner's caller does once the goroutine has ended. *)
JoinSpinner ==
  /\ ui.spin = "stopping"
  /\ LET u == [ui EXCEPT !.spin = "off", !.then = "none", !.active = FALSE]
     IN  ui' = CASE ui.then = "built" -> [u EXCEPT !.built = TRUE]
                 [] ui.then = "deployed" -> Show(u, "final", Line("deployed", "none"))
                 [] ui.then = "close" -> ClosedUi(u)
  /\ ends' = IF ui.then = "close" THEN "closed" ELSE ends
  /\ UNCHANGED <<job, serverVars, chosen, seen, torn>>

Close ==
  /\ Reads /\ at \in {"finished", "failed"} /\ said = <<>> /\ erred = <<>>
  /\ IF ui.active
     THEN ui' = StopSpinner(ui, "close") /\ ends' = "closing"
     ELSE ui' = Flushed(ui) /\ ends' = "closed"
  /\ UNCHANGED <<job, serverVars, chosen, seen, torn>>

(* The client's own last line: how many resources the apply reported. *)
Conclude ==
  /\ ends = "closed" /\ ui.spin = "off" /\ at = "finished" /\ job.prog = "apply" /\ ui.count > 0
  /\ ui' = Show([ui EXCEPT !.count = 0], "complete", Line("complete", ui.count))
  /\ UNCHANGED <<job, serverVars, chosen, seen, torn, ends>>
-----------------------------------------------------------------------------
StreamsInit ==
  /\ job \in [prog : {"push", "apply"}, speaks : {"ndjson", "text"}, force : BOOLEAN]
  /\ job.prog = "push" => ~job.force
  /\ at = "start" /\ said = <<>> /\ erred = <<>> /\ passed = {} /\ told = 0
  /\ chosen = "none" /\ ui = Fresh /\ seen = <<>> /\ torn = <<>> /\ ends = "open"

StreamsNext ==
  \/ Hello \/ Receive \/ SkipRebuild \/ Extract \/ BuildRelease \/ SwapLink \/ PostDeploy \/ CollectReleases
  \/ ForcePull \/ AnswerApply \/ ReleaseAfterApply \/ Cut
  \/ ReadOut \/ ReadErr \/ Tick \/ JoinSpinner \/ Close \/ Conclude

StreamsSpec == StreamsInit /\ [][StreamsNext]_streamsVars
-----------------------------------------------------------------------------
(* A check mark stands only for a step the server finished: not for one it was *)
(* in when it failed, or died.                                                *)
TicksEarned == \A i \in DOMAIN ui.screen : ui.screen[i].mark = "ok" => ui.screen[i].line.x \in passed

(* Failures, warnings, results and what was pruned are all shown, once, in the *)
(* order the server reported them, whatever else was painted meanwhile.       *)
Verdict == {"fail", "warn", "result", "pruned", "note"}
VerdictsShown ==
  LET shown == {i \in DOMAIN ui.screen : ui.screen[i].mark \in {"fail", "warn", "result", "flow"}}
      meant == {i \in DOMAIN seen : seen[i].k \in Verdict}
  IN  chosen = "ndjson" =>
        /\ Cardinality(shown) = Cardinality(meant)
        /\ \A i \in shown, j \in meant : Rank(shown, i) = Rank(meant, j) => ui.screen[i].line = seen[j]

(* Nothing is printed onto a painted block, and once the stream is closed the  *)
(* spinner is gone from the terminal and its goroutine with it.               *)
TerminalClean ==
  /\ ~ui.smeared
  /\ ends = "closed" => ui.spin = "off" /\ ~ui.painted /\ ~ui.active

(* The number an apply concludes with is that of the results reported. *)
Concluded == \A i \in DOMAIN ui.screen : ui.screen[i].mark = "complete" => ui.screen[i].line.x = told

(* What the operator is shown of a push or an apply is what the server said of *)
(* it, through failures, a dying server and the spinner's goroutine.          *)
StreamTrue == TicksEarned /\ VerdictsShown /\ TerminalClean /\ Concluded
=============================================================================
