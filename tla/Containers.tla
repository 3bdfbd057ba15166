----------------------------- MODULE Containers -----------------------------
(* What the handlers ask of docker for one container name (container.go,      *)
(* docker.go): ensure, recreate, remove, stop and start are sequences of      *)
(* docker calls, each of which may fail, by callers that hold no lock. The    *)
(* controller and the host may stop between any two of them.                  *)
EXTENDS Integers, FiniteSets

CONSTANTS
  Callers,       \* the reconciler, API requests, probes
  Nets,          \* the spec's networks after the first
  Managed,       \* the spec names a restart policy, which is "unless-stopped"
  CtrOps,        \* operations, of "ensure", "recreate", "remove", "stop", "start", "restart"
  NoCtr,
  MaxCtrOps, MaxHitches   \* bounds: operations; docker failures, crashes, exits and reboots

ASSUME ContainersAssumption ==
  /\ CtrOps \subseteq {"ensure", "recreate", "remove", "stop", "start", "restart"}
  /\ Managed \in BOOLEAN /\ MaxCtrOps \in Nat /\ MaxHitches \in Nat
  /\ NoCtr \notin [up : BOOLEAN, nets : SUBSET Nets, restarts : BOOLEAN, held : BOOLEAN, torn : BOOLEAN]

VARIABLES
  ctr,      \* NoCtr or [up, nets, restarts, held, torn]: held when stopped by hand
  callers,  \* [Callers -> [op, pc, nets, fooled, alone]]
  ctrOps, hitches

containersVars == <<ctr, callers, ctrOps, hitches>>

\* fooled, alone: history. A look failed and was read as "no"; nothing else
\* happened to the container meanwhile.
Free == [op |-> "none", pc |-> "done", nets |-> {}, fooled |-> FALSE, alone |-> TRUE]
ContainersInit ==
  /\ ctr = NoCtr /\ callers = [c \in Callers |-> Free] /\ ctrOps = 0 /\ hitches = 0

InPc(c, pc) == callers[c].pc = pc
Engaged(c) == callers[c].pc \notin {"done", "failed"}
GoOn(c, pc) == callers' = [callers EXCEPT ![c].pc = pc]
Fooled(c, pc) == callers' = [callers EXCEPT ![c].pc = pc, ![c].fooled = TRUE]
Hitch == hitches < MaxHitches /\ hitches' = hitches + 1
Disturbed == [c \in Callers |-> [callers[c] EXCEPT !.alone = FALSE]]

StartOp(c, op) ==
  /\ ~Engaged(c) /\ ctrOps < MaxCtrOps /\ ctrOps' = ctrOps + 1
  /\ callers' = [Disturbed EXCEPT ![c] =
       [Free EXCEPT !.op = op, !.pc = IF op = "restart" THEN "restart" ELSE "exists",
                    !.alone = \A d \in Callers : ~Engaged(d)]]
  /\ UNCHANGED <<ctr, hitches>>
-----------------------------------------------------------------------------
\* ContainerExists: an error is a "no". What follows depends on the operation.
Exists(c) ==
  LET op == callers[c].op
      Yes == CASE op = "ensure" -> "policy" [] op \in {"recreate", "remove"} -> "stop"
               [] OTHER -> "running"
      No == CASE op \in {"ensure", "recreate"} -> "run" [] op = "start" -> "failed"
              [] OTHER -> "done" IN
  /\ InPc(c, "exists")
  /\ \/ GoOn(c, IF ctr = NoCtr THEN No ELSE Yes) /\ UNCHANGED hitches
     \/ ctr # NoCtr /\ Hitch /\ Fooled(c, No)
  /\ UNCHANGED <<ctr, ctrOps>>

\* Ensure mends the restart policy of what is there, when it can.
Policy(c) ==
  /\ InPc(c, "policy") /\ GoOn(c, "running")
  /\ \/ /\ ctr' = IF ctr = NoCtr THEN ctr ELSE [ctr EXCEPT !.restarts = @ \/ Managed]
        /\ UNCHANGED hitches
     \/ Managed /\ Hitch /\ UNCHANGED ctr
  /\ UNCHANGED ctrOps

\* IsRunning: gone, or an error, is "not running".
Running(c) ==
  LET op == callers[c].op
      Yes == IF op = "stop" THEN "stop" ELSE "done"
      No == IF op = "stop" THEN "done" ELSE "start" IN
  /\ InPc(c, "running")
  /\ \/ GoOn(c, IF ctr # NoCtr /\ ctr.up THEN Yes ELSE No) /\ UNCHANGED hitches
     \/ ctr # NoCtr /\ ctr.up /\ Hitch /\ Fooled(c, No)
  /\ UNCHANGED <<ctr, ctrOps>>

\* A docker call that needs the container, with what it makes of it.
Call(c, pc, then, new) ==
  /\ InPc(c, pc)
  /\ \/ ctr # NoCtr /\ ctr' = new /\ GoOn(c, then) /\ UNCHANGED hitches
     \/ ctr = NoCtr /\ UNCHANGED <<ctr, hitches>> /\ GoOn(c, "failed")
     \/ ctr # NoCtr /\ Hitch /\ UNCHANGED ctr /\ GoOn(c, "failed")
  /\ UNCHANGED ctrOps

Stop(c) == Call(c, "stop", IF callers[c].op = "stop" THEN "done" ELSE "remove",
                [ctr EXCEPT !.up = FALSE, !.held = TRUE])
Revive(c) == Call(c, "start", "done", [ctr EXCEPT !.up = TRUE, !.held = FALSE])
RemoveCtr(c) == Call(c, "remove", IF callers[c].op = "recreate" THEN "run" ELSE "done", NoCtr)
\* RestartContainer, what a liveness probe calls.
Bounce(c) == Call(c, "restart", "done", [ctr EXCEPT !.up = TRUE, !.held = FALSE])
-----------------------------------------------------------------------------
\* CreateContainer: docker run joins the first network only. It may fail before
\* it has made the container or after, and then leaves it, not started.
RunNew(up) == [up |-> up, nets |-> {}, restarts |-> Managed, held |-> FALSE, torn |-> ~up]
RunCtr(c) ==
  /\ InPc(c, "run")
  /\ \/ /\ ctr = NoCtr /\ ctr' = RunNew(TRUE) /\ UNCHANGED hitches
        /\ callers' = [callers EXCEPT ![c].pc = "join", ![c].nets = Nets]
     \/ ctr # NoCtr /\ GoOn(c, "failed") /\ UNCHANGED <<ctr, hitches>>
     \/ /\ Hitch /\ GoOn(c, "failed")
        /\ ctr' \in IF ctr = NoCtr THEN {NoCtr, RunNew(FALSE)} ELSE {ctr}
  /\ UNCHANGED ctrOps

\* ConnectNetwork, for the others one by one: refused when there is no such
\* container, or it is joined already.
Join(c) ==
  /\ InPc(c, "join")
  /\ \/ callers[c].nets = {} /\ GoOn(c, "done") /\ UNCHANGED <<ctr, hitches>>
     \/ \E n \in callers[c].nets :
          \/ /\ ctr # NoCtr /\ n \notin ctr.nets /\ ctr' = [ctr EXCEPT !.nets = @ \cup {n}]
             /\ callers' = [callers EXCEPT ![c].nets = @ \ {n}] /\ UNCHANGED hitches
          \/ (ctr = NoCtr \/ (ctr # NoCtr /\ n \in ctr.nets)) /\ UNCHANGED <<ctr, hitches>>
             /\ GoOn(c, "undo")
          \/ Hitch /\ UNCHANGED ctr /\ GoOn(c, "undo")
  /\ UNCHANGED ctrOps

\* Variant: a failed join leaves the container.
UndoNothing(c) ==
  InPc(c, "undo") /\ GoOn(c, "failed") /\ UNCHANGED <<ctr, hitches, ctrOps>>

\* The container that could not be joined is removed, when that works.
Undo(c) ==
  /\ InPc(c, "undo") /\ GoOn(c, "failed")
  /\ \/ ctr' = NoCtr /\ UNCHANGED hitches
     \/ Hitch /\ ctr' = IF ctr = NoCtr THEN ctr ELSE [ctr EXCEPT !.torn = TRUE]
  /\ UNCHANGED ctrOps
-----------------------------------------------------------------------------
\* The process ends by itself: docker starts it again under the restart policy.
ExitCtr ==
  /\ Hitch /\ ctr # NoCtr /\ ctr.up
  /\ ctr' = [ctr EXCEPT !.up = ctr.restarts] /\ callers' = Disturbed /\ UNCHANGED ctrOps

\* The controller stops, or the host with it: a container is left as the last
\* call made it; docker starts those it restarts, unless stopped by hand.
Halt(reboot) ==
  /\ Hitch /\ callers' = [c \in Callers |-> Free] /\ UNCHANGED ctrOps
  /\ ctr' = IF ctr = NoCtr THEN ctr ELSE
       [ctr EXCEPT !.torn = @ \/ \E c \in Callers : callers[c].pc \in {"join", "undo"},
                   !.up = IF reboot THEN ctr.restarts /\ ~ctr.held /\ (ctr.up \/ ~ctr.torn) ELSE @]

ContainersNext ==
  \/ \E c \in Callers :
       \/ \E op \in CtrOps : StartOp(c, op)
       \/ Exists(c) \/ Policy(c) \/ Running(c) \/ Stop(c) \/ Revive(c) \/ RemoveCtr(c)
       \/ Bounce(c) \/ RunCtr(c) \/ Join(c) \/ Undo(c)
  \/ ExitCtr \/ \E reboot \in BOOLEAN : Halt(reboot)

ContainersSpec == ContainersInit /\ [][ContainersNext]_containersVars
-----------------------------------------------------------------------------
\* A container that runs has every network, or somebody is still joining it, or
\* it was torn: by a crash between run and join, a run that failed when it had
\* made the container, or a removal that failed. Nothing mends it after that.
Joined ==
  ctr # NoCtr /\ ctr.up /\ ctr.nets # Nets =>
    ctr.torn \/ \E c \in Callers : callers[c].pc \in {"join", "undo"}

\* What answers without error, alone and with no look that failed, has done it.
AnsweredTrue ==
  \A c \in Callers :
    LET q == callers[c] IN
    q.pc = "done" /\ q.op # "none" /\ q.alone /\ ~q.fooled =>
      CASE q.op \in {"ensure", "recreate", "start", "restart"} -> ctr # NoCtr /\ ctr.up
        [] q.op = "remove" -> ctr = NoCtr
        [] q.op = "stop" -> ctr = NoCtr \/ (ctr # NoCtr /\ ~ctr.up)

ContainersTrue == Joined /\ AnsweredTrue
=============================================================================
