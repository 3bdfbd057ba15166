------------------------------ MODULE Forwarded ------------------------------
(* `voodu apply` and `voodu delete` sent to a remote (apply_forwarded.go,     *)
(* delete_forwarded.go, forward_remote.go): the client loads its files, asks  *)
(* for a plan, has it approved, pushes sources and sends the manifests, each  *)
(* leg an ssh session of its own, beside other clients. What one request does *)
(* inside the controller is Requests.                                         *)
EXTENDS Integers, FiniteSets

CONSTANTS
  Clients,
  Res,             \* the resources of the scope
  Built, AssetRes, \* those built from source; those that are assets
  Hooked,          \* those with a release block
  Drafts, First,   \* what a client's files may say: functions from some of Res to
                   \* versions; [Clients -> what they say at first]
  Flags,           \* those of the commands: sets of "prune", "yes", "force"
  Absent, Cutoff,  \* no manifest or source; the part of a tree below the size limit
  MaxCalls, MaxEdits, MaxCutoffs   \* bounds: commands, edits of files, failures

ASSUME ForwardedAssumption ==
  /\ Built \cup AssetRes \cup Hooked \subseteq Res
  /\ \A d \in Drafts : DOMAIN d \subseteq Res /\ d # <<>>
  /\ First \in [Clients -> Drafts]
  /\ MaxCalls \in Nat /\ MaxEdits \in Nat /\ MaxCutoffs \in Nat

VARIABLES
  stored,     \* the controller's manifests: [Res -> Absent or a version]
  current,    \* the tree each built resource was last built from, Cutoff if part of one
  draft,      \* [Clients -> the files of the client and the age of its tree]
  cmd,        \* [Clients -> its command]
  calls, edits, cutoffs

forwardedVars == <<stored, current, draft, cmd, calls, edits, cutoffs>>

\* A command: what it loaded, what the plan would delete, what is left to push or
\* to release; and, as history, what it has pushed, put, dropped and released, what
\* others have put since the plan, and what it said at its end.
NoCmd == [op |-> "none", pc |-> "idle", flags |-> {},
          body |-> <<>>, doomed |-> {}, left |-> {}, pushed |-> {}, put |-> <<>>,
          dropped |-> {}, released |-> {}, since |-> {}, said |-> "none"]
ForwardedInit ==
  /\ stored = [r \in Res |-> Absent] /\ current = [r \in Res |-> Absent]
  /\ draft = [c \in Clients |-> [text |-> First[c], tree |-> 0]]
  /\ cmd = [c \in Clients |-> NoCmd] /\ calls = 0 /\ edits = 0 /\ cutoffs = 0

CmdAt(c, pc) == cmd[c].pc = pc
Goes(c, r) == cmd' = [cmd EXCEPT ![c] = r]
Ends(c, r, said) == Goes(c, [r EXCEPT !.pc = "idle", !.said = said])
CutOff == cutoffs < MaxCutoffs /\ cutoffs' = cutoffs + 1

\* Others see what a request of c puts.
Telling(c, r, rs) ==
  [d \in Clients |-> IF d = c THEN r ELSE [cmd[d] EXCEPT !.since = @ \cup rs]]

EditFiles(c, text) ==
  /\ edits < MaxEdits /\ edits' = edits + 1
  /\ draft' = [draft EXCEPT ![c] = [text |-> text, tree |-> edits']]
  /\ UNCHANGED <<stored, current, cmd, calls, cutoffs>>

\* The files are loaded once, what is built is found in them; without -y each
\* later question waits for the operator.
Command(c, op, flags) ==
  /\ CmdAt(c, "idle") /\ calls < MaxCalls /\ calls' = calls + 1
  /\ Goes(c, [NoCmd EXCEPT !.op = op, !.flags = flags, !.body = draft[c].text, !.left = Built \cap DOMAIN draft[c].text,
                         !.pc = IF op = "apply" THEN "probe" ELSE IF "yes" \in flags THEN "send" ELSE "ask"])
  /\ UNCHANGED <<stored, current, draft, edits, cutoffs>>

\* ensureRemoteReady, for a host that has the controller.
Probe(c) ==
  /\ CmdAt(c, "probe")
  /\ \/ Goes(c, [cmd[c] EXCEPT !.pc = "diff"]) /\ UNCHANGED cutoffs
     \/ CutOff /\ Ends(c, cmd[c], "failed")
  /\ UNCHANGED <<stored, current, draft, calls, edits>>

\* What a request with k's flags takes out of the scope, of the siblings there are.
Pruned(k) == IF "prune" \in k.flags THEN {r \in Res : stored[r] # Absent} \ DOMAIN k.body ELSE {}

\* planChangeCount: what would be put anew or changed, and what would be pruned.
Changes(k) == Pruned(k) # {} \/ \E r \in DOMAIN k.body : stored[r] # k.body[r]

\* applyHasWork: sources to push, assets to read again, or --force.
Work(k) == Changes(k) \/ k.left # {} \/ DOMAIN k.body \cap AssetRes # {} \/ "force" \in k.flags

\* The dry run; with nothing to do the apply is over.
Diff(c) ==
  LET k == cmd[c]
      next == [k EXCEPT !.doomed = Pruned(k), !.since = {},
                        !.pc = IF Changes(k) /\ "yes" \notin k.flags THEN "ask" ELSE "push"]
  IN /\ CmdAt(c, "diff")
     /\ \/ IF Work(k) THEN Goes(c, next) /\ UNCHANGED cutoffs
           ELSE Ends(c, k, "no changes") /\ UNCHANGED cutoffs
        \/ CutOff /\ Ends(c, k, "failed")
     /\ UNCHANGED <<stored, current, draft, calls, edits>>

\* The plan, or the list of what will be deleted, is shown: yes, no, or no terminal.
Answered(c, answer) ==
  /\ CmdAt(c, "ask")
  /\ IF answer = "yes" THEN Goes(c, [cmd[c] EXCEPT !.pc = IF cmd[c].op = "apply" THEN "push" ELSE "send"])
     ELSE Ends(c, cmd[c], IF answer = "no" THEN "canceled" ELSE "refused")
  /\ UNCHANGED <<stored, current, draft, calls, edits, cutoffs>>

\* What the host may have built when a push fails: nothing, the part below the
\* limit, whose archive the client closes before it gives up, or all of it.
Received(r, tree) == {current[r], Cutoff, tree}

\* The tree is sent as it is by now, one resource after the other.
PushNext(c) ==
  LET k == cmd[c]
      tree == draft[c].tree IN
  /\ CmdAt(c, "push")
  /\ IF k.left = {} THEN Goes(c, [k EXCEPT !.pc = "send"]) /\ UNCHANGED <<current, cutoffs>>
     ELSE \E r \in k.left :
       \/ /\ current' = [current EXCEPT ![r] = tree] /\ UNCHANGED cutoffs
          /\ Goes(c, [k EXCEPT !.left = @ \ {r}, !.pushed = @ \cup {r}])
       \/ /\ CutOff /\ Ends(c, k, "failed")
          /\ \E t \in Received(r, tree) : current' = [current EXCEPT ![r] = t]
  /\ UNCHANGED <<stored, draft, calls, edits>>

\* The request carried out, with the siblings there are by now. It puts what k's
\* client sends, lists what it pruned, and others see both.
Carry(c, k, body, to) ==
  LET gone == Pruned(k) IN
  /\ stored' = [r \in Res |-> IF r \in gone THEN Absent
                              ELSE IF r \in DOMAIN body THEN body[r] ELSE stored[r]]
  /\ cmd' = Telling(c, [to EXCEPT !.put = body, !.dropped = gone], DOMAIN body)

\* Variant: the files are read again for the request.
SendApplyReread(c) ==
  /\ CmdAt(c, "send") /\ cmd[c].op = "apply"
  /\ LET body == draft[c].text IN
     Carry(c, cmd[c], body, [cmd[c] EXCEPT !.pc = "release", !.left = Hooked \cap DOMAIN body])
  /\ UNCHANGED <<current, draft, calls, edits, cutoffs>>

\* The manifests loaded at first are sent; a session that breaks may have been
\* heard. The host then releases what has a release block.
SendApply(c) ==
  LET k == cmd[c]
      failed == [k EXCEPT !.pc = "idle", !.said = "failed"] IN
  /\ CmdAt(c, "send") /\ k.op = "apply"
  /\ \/ /\ Carry(c, k, k.body, [k EXCEPT !.pc = "release", !.left = Hooked \cap DOMAIN k.body])
        /\ UNCHANGED cutoffs
     \/ CutOff /\ Goes(c, failed) /\ UNCHANGED stored
     \/ CutOff /\ Carry(c, k, k.body, failed)
  /\ UNCHANGED <<current, draft, calls, edits>>

\* One release after the other, of what is in the store by then; one that fails,
\* or has been deleted, ends the apply with an error.
ReleaseNext(c) ==
  LET k == cmd[c] IN
  /\ CmdAt(c, "release")
  /\ IF k.left = {} THEN Ends(c, k, "applied") /\ UNCHANGED cutoffs
     ELSE \E r \in k.left :
       \/ /\ stored[r] # Absent /\ UNCHANGED cutoffs
          /\ Goes(c, [k EXCEPT !.left = @ \ {r}, !.released = @ \cup {r}])
       \/ stored[r] = Absent /\ Ends(c, k, "failed") /\ UNCHANGED cutoffs
       \/ CutOff /\ Ends(c, k, "failed")
  /\ UNCHANGED <<stored, current, draft, calls, edits>>

\* A delete names what was loaded, one request after the other; what is not there
\* any more is passed over, an error ends it.
SendDelete(c) ==
  LET k == cmd[c]
      rest == DOMAIN k.body \ k.dropped IN
  /\ CmdAt(c, "send") /\ k.op = "delete"
  /\ IF rest = {} THEN Ends(c, k, "deleted") /\ UNCHANGED <<stored, cutoffs>>
     ELSE \/ \E r \in rest : /\ stored' = [stored EXCEPT ![r] = Absent] /\ UNCHANGED cutoffs
                             /\ Goes(c, [k EXCEPT !.dropped = @ \cup {r}])
          \/ CutOff /\ Ends(c, k, "failed") /\ UNCHANGED stored
  /\ UNCHANGED <<current, draft, calls, edits>>

ForwardedNext ==
  \/ \E c \in Clients, text \in Drafts : EditFiles(c, text)
  \/ \E c \in Clients, op \in {"apply", "delete"}, flags \in Flags : Command(c, op, flags)
  \/ \E c \in Clients, answer \in {"yes", "no", "no terminal"} : Answered(c, answer)
  \/ \E c \in Clients : \/ Probe(c) \/ Diff(c) \/ PushNext(c)
                         \/ SendApply(c) \/ ReleaseNext(c) \/ SendDelete(c)

ForwardedSpec == ForwardedInit /\ [][ForwardedNext]_forwardedVars
-----------------------------------------------------------------------------
\* A command that ends without a yes, or with nothing to do, has changed nothing.
\* No manifest goes out before every source it needs has been pushed, and what goes
\* out is what was loaded and shown, whatever has become of the files; what an apply
\* deletes was shown too, unless another client put it after the plan. One that says
\* it has applied has put, pushed and released everything, and a command, whatever
\* it says, releases only after it has put.
SaidAndDone ==
  \A c \in Clients :
    LET k == cmd[c] IN
    /\ k.said \in {"no changes", "canceled", "refused"} =>
         k.pushed = {} /\ k.put = <<>> /\ k.dropped = {}
    /\ k.put # <<>> => k.put = k.body /\ Built \cap DOMAIN k.body = k.pushed
    /\ k.op = "apply" => k.dropped \subseteq k.doomed \cup k.since
    /\ k.op = "delete" => k.dropped \subseteq DOMAIN k.body
    /\ k.said = "applied" => k.put = k.body /\ k.released = Hooked \cap DOMAIN k.body
    /\ k.released # {} => k.put # <<>>
=============================================================================
