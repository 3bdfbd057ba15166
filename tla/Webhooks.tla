------------------------------ MODULE Webhooks ------------------------------
(* The notices of one workload (webhooks.go): rollouts (on_deploy) and probe  *)
(* transitions (on_probe) fan out to the targets of their slot, one goroutine *)
(* per target, three attempts each. A receiver may take a notice and answer   *)
(* too late; a controller that stops takes its senders and its memory of what *)
(* was fired with it. Time is the second of the wall clock.                   *)
EXTENDS Integers, FiniteSets

CONSTANTS
  HookTargets,   \* [slot |-> set of [to, body]]: body is "payload", "inline" or "file"; to = NoUrl for ""
  NoUrl,
  CacheTTL,      \* seconds a transition is remembered (60 in the code)
  MaxAttempts,   \* webhookMaxAttempts (3 in the code)
  MaxSeconds, MaxNews, MaxBreaks   \* bounds: time, events, crashes and file edits

ASSUME WebhooksAssumption ==
  /\ DOMAIN HookTargets = {"success", "failure", "recovery"}
  /\ CacheTTL \in Nat /\ MaxAttempts \in Nat \ {0}
  /\ {MaxSeconds, MaxNews, MaxBreaks} \subseteq Nat

VARIABLES
  second,    \* the wall clock
  seen,      \* transitionCache: set of [id, at]
  senders,   \* set of [id, target, own, no, pc, tries]: own, with the body the target asks for,
             \* or else the default payload; pc is "trying", "acked", "dropped", "died"
  owed,      \* history: what happened, set of [id, slot, well]: well, with the file readable
  readable,  \* the body file can be read and parsed
  news, breaks

webhooksVars == <<second, seen, senders, owed, readable, news, breaks>>

WebhooksInit ==
  /\ second = 0 /\ seen = {} /\ senders = {} /\ owed = {} /\ readable = TRUE
  /\ news = 0 /\ breaks = 0
-----------------------------------------------------------------------------
\* buildCustomBody: the body a target asks for, inline or read from its file.
Builds(t) == t.body = "inline" \/ (t.body = "file" /\ readable)

\* Variant: a target whose body cannot be built is passed over.
FireToBuilt(slot) == {t \in HookTargets[slot] : t.to # NoUrl /\ (t.body = "payload" \/ Builds(t))}

\* fireWebhooks: one goroutine for each target with a URL. One that asks for no
\* body, or whose body cannot be built, is sent the default payload.
FireTo(slot) == {t \in HookTargets[slot] : t.to # NoUrl}

FireWebhooks(id, slot) ==
  senders' = senders \cup
    {[id |-> id, target |-> t, own |-> Builds(t),
      no |-> Cardinality({s \in senders : s.id = id /\ s.target = t}),
      pc |-> "trying", tries |-> 0] : t \in FireTo(slot)}
Owe(id, slot) == owed' = owed \cup {[id |-> id, slot |-> slot, well |-> readable]}

\* fireDeployWebhook, at the end of an apply, a release or a rollback: churn that
\* went well, or an error after the spec was decoded; anything else says nothing.
Rollout(res) ==
  /\ news < MaxNews /\ news' = news + 1
  /\ IF res \in {"success", "failure"}
     THEN FireWebhooks(<<"rollout", news>>, res) /\ Owe(<<"rollout", news>>, res)
     ELSE UNCHANGED <<senders, owed>>
  /\ UNCHANGED <<second, seen, readable, breaks>>

\* computeTransitionID: what happened and its second.
TransitionID(tr) == <<tr, second>>

\* markFiredOnce, under the lock: drop what is too old, then look, then store.
Recent == {e \in seen : e.at >= second - CacheTTL}
Marked(id) == \E e \in Recent : e.id = id

\* Variant: the transition is not stored.
FireProbeWebhookUnmarked(tr) ==
  LET id == TransitionID(tr) IN
  /\ news < MaxNews /\ news' = news + 1
  /\ seen' = Recent /\ FireWebhooks(id, tr) /\ Owe(id, tr)
  /\ UNCHANGED <<second, readable, breaks>>

\* fireProbeWebhook: a transition may be reported twice, by two runners of one
\* container; a slot without targets is not marked.
FireProbeWebhook(tr) ==
  LET id == TransitionID(tr) IN
  /\ news < MaxNews /\ news' = news + 1
  /\ IF HookTargets[tr] = {} THEN UNCHANGED <<seen, senders, owed>>
     ELSE IF Marked(id) THEN seen' = Recent /\ UNCHANGED <<senders, owed>>
     ELSE seen' = Recent \cup {[id |-> id, at |-> second]} /\ FireWebhooks(id, tr) /\ Owe(id, tr)
  /\ UNCHANGED <<second, readable, breaks>>
-----------------------------------------------------------------------------
Become(s, pc, n) == senders' = (senders \ {s}) \cup {[s EXCEPT !.pc = pc, !.tries = n]}

\* postWithRetry, with the sleep that follows an attempt: any 2xx ends it; an
\* answer that is late or lost is a failure though the receiver has the notice.
Attempt(s) ==
  /\ s.pc = "trying"
  /\ \/ Become(s, "acked", s.tries + 1)
     \/ Become(s, IF s.tries + 1 < MaxAttempts THEN "trying" ELSE "dropped", s.tries + 1)
  /\ UNCHANGED <<second, seen, owed, readable, news, breaks>>

-----------------------------------------------------------------------------
Second ==
  /\ second < MaxSeconds /\ second' = second + 1
  /\ UNCHANGED <<seen, senders, owed, readable, news, breaks>>

\* An asset with the body file is applied, or becomes unreadable.
EditFile ==
  /\ breaks < MaxBreaks /\ breaks' = breaks + 1 /\ readable' = ~readable
  /\ UNCHANGED <<second, seen, senders, owed, news>>

\* The controller stops; it takes more than a second to come back.
StopController ==
  /\ breaks < MaxBreaks /\ breaks' = breaks + 1
  /\ second < MaxSeconds /\ second' = second + 1
  /\ seen' = {}
  /\ senders' = {IF s.pc = "trying" THEN [s EXCEPT !.pc = "died"] ELSE s : s \in senders}
  /\ UNCHANGED <<owed, readable, news>>

WebhooksNext ==
  \/ \E res \in {"success", "failure", "unchanged"} : Rollout(res)
  \/ \E tr \in {"failure", "recovery"} : FireProbeWebhook(tr)
  \/ \E s \in senders : Attempt(s)
  \/ Second \/ EditFile \/ StopController

WebhooksSpec == WebhooksInit /\ [][WebhooksNext]_webhooksVars
-----------------------------------------------------------------------------
\* Of whatever happened, every target with a URL is told by one goroutine and no
\* other, however many report it, with the memory of what was fired emptied by age
\* and by crashes: with its own body if it asks for one that could be built then
\* and else with the default payload, never passed over for its body. A goroutine
\* gives up only after its last attempt, or with the controller.
ToldOnce ==
  /\ \A o \in owed : \A t \in HookTargets[o.slot] :
       t.to # NoUrl => Cardinality({s \in senders : s.id = o.id /\ s.target = t}) = 1
  /\ \A s \in senders :
       /\ s.target.to # NoUrl
       /\ \E o \in owed : /\ s.id = o.id /\ s.target \in HookTargets[o.slot]
                          /\ s.own <=> \/ s.target.body = "inline"
                                       \/ s.target.body = "file" /\ o.well
       /\ s.tries <= MaxAttempts
       /\ s.pc = "dropped" => s.tries = MaxAttempts
=============================================================================
