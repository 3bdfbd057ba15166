------------------------------ MODULE Autoscaler ------------------------------
(* The autoscaler (autoscaler.go) of one deployment: a tick decides on the    *)
(* CPU and the number of pods in the stats snapshot, and writes the count     *)
(* into the stored manifest with a Get and a Put, beside operators who apply  *)
(* and delete the same manifest and a reconciler that follows it.             *)
EXTENDS Integers

CONSTANTS
  Bounds,                    \* [min, max]: autoscale blocks operators declare
  CooldownUp, CooldownDown,  \* in ticks
  MaxScaledEdits,                  \* bound: applies and deletes by operators
  MaxSwings,                 \* bound: changes of the load
  MaxFaults,                 \* bound: pods lost, store calls failed, restarts
  Gone

ASSUME AutoscalerAssumption ==
  /\ {CooldownUp, CooldownDown, MaxScaledEdits, MaxSwings, MaxFaults} \subseteq Nat
  /\ \A b \in Bounds : {b.min, b.max} \subseteq Nat /\ 1 <= b.min /\ b.min <= b.max

VARIABLES
  want,      \* the stored manifest: [min, max, count], or Gone
  running,   \* pods docker runs
  sampled,   \* pods in the stats snapshot
  load,      \* mean CPU against the band: "hot", "cold", or "even" within it
  upAge, downAge,  \* ticks since the last scale-up and scale-down, capped at the cooldown
  scaling,   \* SetReplicas under way: [pc, dir, count, m]
  spent      \* edits, swings and faults so far

autoscalerVars == <<want, running, sampled, load, upAge, downAge, scaling, spent>>

Rest == [pc |-> "rest", dir |-> "none", count |-> 0, m |-> Gone]

AutoscalerInit ==
  /\ want = Gone /\ running = 0 /\ sampled = 0 /\ load = "even"
  /\ upAge = CooldownUp /\ downAge = CooldownDown
  /\ scaling = Rest
  /\ spent = [edits |-> 0, swings |-> 0, faults |-> 0]

Spend(what, most) == spent[what] < most /\ spent' = [spent EXCEPT ![what] = @ + 1]
-----------------------------------------------------------------------------
(* What goes on beside the autoscaler.                                      *)

\* The parser seeds replicas with min, so an apply starts from there again.
ApplyScaled(b) ==
  /\ Spend("edits", MaxScaledEdits)
  /\ want' = [min |-> b.min, max |-> b.max, count |-> b.min]
  /\ UNCHANGED <<running, sampled, load, upAge, downAge, scaling>>

DeleteScaled ==
  /\ want # Gone /\ Spend("edits", MaxScaledEdits)
  /\ want' = Gone
  /\ UNCHANGED <<running, sampled, load, upAge, downAge, scaling>>

\* The reconciler (Deployment) brings the pods to the count.
Follow ==
  /\ running # IF want = Gone THEN 0 ELSE want.count
  /\ running' = IF want = Gone THEN 0 ELSE want.count
  /\ UNCHANGED <<want, sampled, load, upAge, downAge, scaling, spent>>

LosePod ==
  /\ running > 0 /\ Spend("faults", MaxFaults)
  /\ running' = running - 1
  /\ UNCHANGED <<want, sampled, load, upAge, downAge, scaling>>

Swing ==
  /\ Spend("swings", MaxSwings)
  /\ load' \in {"hot", "cold", "even"} \ {load}
  /\ UNCHANGED <<want, running, sampled, upAge, downAge, scaling>>

\* RefreshSnapshot
SamplePods ==
  /\ sampled # running /\ sampled' = running
  /\ UNCHANGED <<want, running, load, upAge, downAge, scaling, spent>>

\* The cooldowns are kept in memory only.
RestartScaler ==
  /\ Spend("faults", MaxFaults)
  /\ upAge' = CooldownUp /\ downAge' = CooldownDown /\ scaling' = Rest
  /\ UNCHANGED <<want, running, sampled, load>>
-----------------------------------------------------------------------------
Older(age, cooldown) == IF age < cooldown THEN age + 1 ELSE age

Hot == want # Gone /\ load = "hot" /\ 0 < sampled /\ sampled < want.max
Cold == want # Gone /\ load = "cold" /\ 0 < sampled /\ sampled > want.min
Scale(dir, count) == [Rest EXCEPT !.pc = "get", !.dir = dir, !.count = count]

\* Variant: a tick that the cooldown holds back counts as a scaling.
DecideRestamped ==
  /\ scaling = Rest
  /\ upAge' = IF Hot /\ upAge < CooldownUp THEN 0 ELSE Older(upAge, CooldownUp)
  /\ downAge' = Older(downAge, CooldownDown)
  /\ scaling' = IF Hot /\ upAge = CooldownUp THEN Scale("up", sampled + 1)
                ELSE IF Cold /\ downAge = CooldownDown THEN Scale("down", sampled - 1)
                ELSE Rest
  /\ UNCHANGED <<want, running, sampled, load, spent>>

\* evaluate and evaluateOne: the bounds are those of the manifest just listed,
\* the number of pods that of the snapshot; one step up or down per cooldown.
DecideScale ==
  /\ scaling = Rest
  /\ upAge' = Older(upAge, CooldownUp)
  /\ downAge' = Older(downAge, CooldownDown)
  /\ scaling' = IF Hot /\ upAge = CooldownUp THEN Scale("up", sampled + 1)
                ELSE IF Cold /\ downAge = CooldownDown THEN Scale("down", sampled - 1)
                ELSE Rest
  /\ UNCHANGED <<want, running, sampled, load, spent>>

\* SetReplicas reads the manifest anew; one that is gone is a success.
GetScaled ==
  /\ scaling.pc = "get"
  /\ scaling' = [scaling EXCEPT !.pc = "put", !.m = want]
  /\ UNCHANGED <<want, running, sampled, load, upAge, downAge, spent>>

\* The count goes into the manifest that was read; the cooldown starts.
PutScaled ==
  /\ scaling.pc = "put" /\ scaling' = Rest
  /\ want' = IF scaling.m = Gone THEN want ELSE [scaling.m EXCEPT !.count = scaling.count]
  /\ upAge' = IF scaling.dir = "up" THEN 0 ELSE upAge
  /\ downAge' = IF scaling.dir = "down" THEN 0 ELSE downAge
  /\ UNCHANGED <<running, sampled, load, spent>>

\* The Get or the Put fails: nothing is written, no cooldown starts.
ScaleFails ==
  /\ scaling # Rest /\ Spend("faults", MaxFaults)
  /\ scaling' = Rest
  /\ UNCHANGED <<want, running, sampled, load, upAge, downAge>>
-----------------------------------------------------------------------------
AutoscalerNext ==
  \/ \E b \in Bounds : ApplyScaled(b)
  \/ DeleteScaled \/ Follow \/ LosePod \/ Swing \/ SamplePods \/ RestartScaler
  \/ DecideScale \/ GetScaled \/ PutScaled \/ ScaleFails

\* The ticker and the sampler run on, SetReplicas returns, the reconciler is
\* woken by the put (and docker restarts what died).
AutoscalerFairness ==
  /\ WF_autoscalerVars(DecideScale) /\ WF_autoscalerVars(GetScaled)
  /\ WF_autoscalerVars(PutScaled)
  /\ WF_autoscalerVars(SamplePods) /\ WF_autoscalerVars(Follow)

AutoscalerSpec == AutoscalerInit /\ [][AutoscalerNext]_autoscalerVars /\ AutoscalerFairness
-----------------------------------------------------------------------------
\* A load that stays above the band brings the fleet to max, one that stays
\* below it to min, whatever was lost, refused, restarted or re-applied before:
\* the loop never gets stuck on a cooldown or on a stale snapshot.
LoadFollowed ==
  /\ <>[](want # Gone /\ load = "hot") => <>[](want # Gone => running >= want.max)
  /\ <>[](want # Gone /\ load = "cold") => <>[](want # Gone => running <= want.min)
=============================================================================
