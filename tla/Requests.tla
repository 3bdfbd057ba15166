------------------------------- MODULE Requests -------------------------------
(* The HTTP handlers that change many resources at once (api.go): the apply   *)
(* of several manifests with prune, the wipe of a scope, the delete of one    *)
(* name, and a config change with its put-backs.                              *)
(*                                                                            *)
(* Every call of the store is a step and may fail. The handlers take no lock; *)
(* the runs have one client at a time unless Clients has more.                *)
EXTENDS Integers, Sequences, FiniteSets

CONSTANTS
  Clients,      \* goroutines serving requests
  Resources,    \* [kind, scope, name], of scoped kinds
  AppKinds,     \* kinds that read a config bucket
  Bodies,       \* [list, prune]: list is a sequence of [res, host, version, macro]
  MaxRequests,  \* bound: requests
  Absent

ASSUME RequestsAssumption ==
  /\ AppKinds \subseteq {r.kind : r \in Resources}
  /\ MaxRequests \in Nat
  /\ \A b \in Bodies : /\ Len(b.list) \in Nat /\ DOMAIN b.list = 1 .. Len(b.list)
                       /\ \A i \in DOMAIN b.list : b.list[i].res \in Resources

VARIABLES
  store,    \* per resource: [host, version], or Absent
  buckets,  \* config buckets, by scope and name; the name Absent is the scope's own
  client,   \* per client: the request it serves
  asked,    \* requests so far
  spoiled   \* history: an apply failed half way, or expanded an ingress

requestsVars == <<store, buckets, client, asked, spoiled>>

Free == [op |-> "none", pc |-> "idle", list |-> <<>>, prune |-> FALSE, todo |-> {},
         kinds |-> {}, scope |-> Absent, name |-> Absent, errors |-> FALSE,
         \* the summary of a delete or a wipe: the resources whose manifests were
         \* deleted, the one being pruned, the buckets that could not be
         gone |-> {}, at |-> Absent, unclean |-> {}]

Stored == {r \in Resources : store[r] # Absent}
In(scope, kind) == {r \in Stored : r.scope = scope /\ r.kind = kind}
BucketOf(r) == <<r.scope, r.name>>
Body(list) == {list[i].res : i \in DOMAIN list}
Kept(e) == [host |-> e.host, version |-> e.version]

RequestsInit ==
  /\ store = [r \in Resources |-> Absent]
  /\ buckets = {}
  /\ client = [c \in Clients |-> Free]
  /\ asked = 0 /\ spoiled = FALSE

Serving(c, pc) == client[c].pc = pc
Hold(c, r) == client' = [client EXCEPT ![c] = r]
Proceed(c, pc) == Hold(c, [client[c] EXCEPT !.pc = pc])

\* The answer is written; it says whether there were errors.
Answer(c, errors) == Hold(c, [client[c] EXCEPT !.pc = "answered", !.errors = errors])
Forget(c) ==
  /\ Serving(c, "answered") /\ Hold(c, Free)
  /\ UNCHANGED <<store, buckets, asked, spoiled>>

NewRequest(c) ==
  /\ Serving(c, "idle") /\ asked < MaxRequests
  /\ asked' = asked + 1
-----------------------------------------------------------------------------
(* Apply.                                                                   *)

\* Variant: hosts of stored ingresses are not looked at.
CollidesInside(list) ==
  \E i, j \in DOMAIN list :
    i # j /\ ~list[i].macro /\ ~list[j].macro
      /\ list[i].host # Absent /\ list[i].host = list[j].host

\* checkIngressHostCollisions: no host twice in the body as it was sent, and
\* none that a stored ingress outside the body has.
Collides(list) ==
  LET sent == {i \in DOMAIN list : ~list[i].macro}
      hosts == {i \in sent : list[i].res.kind = "ingress" /\ list[i].host # Absent}
  IN \/ \E i, j \in hosts : i # j /\ list[i].host = list[j].host
     \/ \E r \in Stored \ {list[i].res : i \in sent} :
          r.kind = "ingress" /\ \E i \in hosts : list[i].host = store[r].host

\* The check comes first, then the macros of the body are expanded.
ApplyBodies(c, b) ==
  /\ NewRequest(c)
  /\ Hold(c, IF Collides(b.list) THEN [Free EXCEPT !.pc = "answered", !.errors = TRUE]
              ELSE [Free EXCEPT !.op = "apply", !.pc = "put", !.list = b.list,
                                !.prune = b.prune, !.todo = DOMAIN b.list])
  /\ spoiled' = (spoiled \/ \E i \in DOMAIN b.list : b.list[i].macro
                                                    /\ b.list[i].res.kind = "ingress")
  /\ UNCHANGED <<store, buckets>>

\* The manifests are put in order; the first error ends the request there.
PutNext(c) ==
  /\ Serving(c, "put") /\ client[c].todo # {}
  /\ LET i == CHOOSE k \in client[c].todo : \A j \in client[c].todo : k <= j
         e == client[c].list[i]
     IN \/ /\ store' = [store EXCEPT ![e.res] = Kept(e)]
           /\ Hold(c, [client[c] EXCEPT !.todo = @ \ {i}])
           /\ UNCHANGED spoiled
        \/ /\ Answer(c, TRUE) /\ spoiled' = TRUE
           /\ UNCHANGED store
  /\ UNCHANGED <<buckets, asked>>

\* Variant: the names of the body are kept, of whatever kind.
PlanByName(c) ==
  /\ Serving(c, "put") /\ client[c].todo = {}
  /\ LET body == Body(client[c].list)
     IN Hold(c, [client[c] EXCEPT
          !.pc = "drop",
          !.todo = IF ~client[c].prune THEN {}
                   ELSE {r \in UNION {In(q.scope, q.kind) : q \in body} :
                           r.name \notin {q.name : q \in body}}])
  /\ UNCHANGED <<store, buckets, asked, spoiled>>

\* computePruneTargets: what the kinds and scopes of the body hold besides it.
PlanPrune(c) ==
  /\ Serving(c, "put") /\ client[c].todo = {}
  /\ LET body == Body(client[c].list)
     IN Hold(c, [client[c] EXCEPT
          !.pc = "drop",
          !.todo = IF ~client[c].prune THEN {}
                   ELSE (UNION {In(q.scope, q.kind) : q \in body}) \ body])
  /\ UNCHANGED <<store, buckets, asked, spoiled>>

\* applyPrune: manifests only, no bucket; an error ends the request.
DropNext(c) ==
  /\ Serving(c, "drop")
  /\ \/ /\ client[c].todo = {} /\ Answer(c, FALSE)
        /\ UNCHANGED <<store, spoiled>>
     \/ \E r \in client[c].todo :
          /\ store' = [store EXCEPT ![r] = Absent]
          /\ Hold(c, [client[c] EXCEPT !.todo = @ \ {r}])
          /\ UNCHANGED spoiled
     \/ /\ client[c].todo # {}
        /\ Answer(c, TRUE) /\ spoiled' = TRUE
        /\ UNCHANGED store
  /\ UNCHANGED <<buckets, asked>>
-----------------------------------------------------------------------------
(* The wipe of a scope: kind by kind list, then delete one after the other,   *)
(* each with its bucket if asked; an error is noted and the next is tried, that *)
(* of a bucket in the summary of its resource alone. The delete of one name    *)
(* does the same over the kinds, with a Get for the list.                      *)

Wipe(c, s, prune) ==
  /\ NewRequest(c)
  /\ Hold(c, [Free EXCEPT !.op = "wipe", !.pc = "list", !.scope = s, !.prune = prune,
                           !.kinds = {r.kind : r \in Resources}])
  /\ UNCHANGED <<store, buckets, spoiled>>

DeleteName(c, r, prune) ==
  /\ NewRequest(c)
  /\ Hold(c, [Free EXCEPT !.op = "delete", !.pc = "list", !.scope = r.scope,
                           !.name = r.name, !.prune = prune,
                           !.kinds = {q.kind : q \in Resources}])
  /\ UNCHANGED <<store, buckets, spoiled>>

\* applyDelete, with the scope left out: resolveScope wants the name in one scope.
DeleteOne(c, kind, name, prune) ==
  /\ NewRequest(c)
  /\ LET found == {r \in Stored : r.kind = kind /\ r.name = name} IN
     Hold(c, IF Cardinality(found) = 1
             THEN [Free EXCEPT !.op = "deleteOne", !.pc = "erase", !.prune = prune, !.todo = found]
             ELSE [Free EXCEPT !.pc = "answered", !.errors = TRUE])
  /\ UNCHANGED <<store, buckets, spoiled>>

\* The scope's own bucket goes last, whatever failed before, and its failure is
\* in the answer. A delete that found nothing, and met no error, answers 404.
ListKind(c) ==
  LET me == client[c]
      own == <<me.scope, Absent>> IN
  /\ Serving(c, "list")
  /\ \/ \E k \in me.kinds :
          /\ \/ Hold(c, [me EXCEPT !.pc = "erase", !.kinds = @ \ {k},
                   !.todo = {r \in In(me.scope, k) : me.op = "delete" => r.name = me.name}])
             \/ Hold(c, [me EXCEPT !.kinds = @ \ {k}, !.errors = TRUE])
          /\ UNCHANGED buckets
     \/ /\ me.kinds = {} /\ me.op # "wipe"
        /\ Answer(c, me.errors \/ (me.op = "delete" /\ me.gone = {}))
        /\ UNCHANGED buckets
     \/ /\ me.kinds = {} /\ me.op = "wipe"
        /\ \/ Answer(c, me.errors) /\ buckets' = buckets \ {own}
           \/ Hold(c, [me EXCEPT !.pc = "answered", !.unclean = @ \cup {own}]) /\ UNCHANGED buckets
  /\ UNCHANGED <<store, asked, spoiled>>

\* A delete by kind asks whether there was something to delete.
Deleted(me, r) ==
  IF me.op = "deleteOne" /\ store[r] = Absent THEN [me EXCEPT !.todo = @ \ {r}, !.errors = TRUE]
  ELSE [me EXCEPT !.todo = @ \ {r}, !.gone = @ \cup {r},
          !.pc = IF me.prune THEN "bucket" ELSE "erase", !.at = IF me.prune THEN r ELSE Absent]

\* Variant: the first error of a kind drops the rest of its list silently.
EraseUntilError(c) ==
  LET me == client[c] IN
  /\ Serving(c, "erase")
  /\ \/ \E r \in me.todo :
          \/ Hold(c, Deleted(me, r)) /\ store' = [store EXCEPT ![r] = Absent]
          \/ Hold(c, [me EXCEPT !.todo = {}]) /\ UNCHANGED store
     \/ me.todo = {} /\ Proceed(c, "list") /\ UNCHANGED store
  /\ UNCHANGED <<buckets, asked, spoiled>>

\* A manifest is deleted, or its error noted.
Erase(c) ==
  LET me == client[c] IN
  /\ Serving(c, "erase")
  /\ \/ \E r \in me.todo :
          \/ Hold(c, Deleted(me, r)) /\ store' = [store EXCEPT ![r] = Absent]
          \/ Hold(c, [me EXCEPT !.todo = @ \ {r}, !.errors = TRUE]) /\ UNCHANGED store
     \/ me.todo = {} /\ Proceed(c, "list") /\ UNCHANGED store
  /\ UNCHANGED <<buckets, asked, spoiled>>

\* Variant: an error of the bucket is dropped.
PruneSilently(c) ==
  LET me == client[c] IN
  /\ Serving(c, "bucket")
  /\ Hold(c, [me EXCEPT !.pc = "erase", !.at = Absent])
  /\ buckets' \in {buckets \ {BucketOf(me.at)}, buckets}
  /\ UNCHANGED <<store, asked, spoiled>>

\* pruneResource: the bucket of the name, which kinds share. Its failure is in the
\* summary, not among the errors, and nothing tries again.
PruneBucket(c) ==
  LET me == client[c]
      b == BucketOf(me.at) IN
  /\ Serving(c, "bucket")
  /\ \/ /\ Hold(c, [me EXCEPT !.pc = "erase", !.at = Absent])
        /\ buckets' = buckets \ {b}
     \/ /\ Hold(c, [me EXCEPT !.pc = "erase", !.at = Absent, !.unclean = @ \cup {b}])
        /\ UNCHANGED buckets
  /\ UNCHANGED <<store, asked, spoiled>>

-----------------------------------------------------------------------------
(* config set, for one name or for the scope: the bucket is written, then    *)
(* the manifests of every app kind are listed and put back as they were read *)
(* (maybeRestartAffected); errors there are dropped.                         *)

ConfigSet(c, s, n) ==
  /\ NewRequest(c)
  /\ buckets' = buckets \cup {<<s, n>>}
  /\ Hold(c, [Free EXCEPT !.op = "config", !.pc = "relist", !.scope = s, !.name = n,
                           !.kinds = AppKinds])
  /\ UNCHANGED <<store, spoiled>>

Relist(c) ==
  LET me == client[c] IN
  /\ Serving(c, "relist")
  /\ \/ \E k \in me.kinds :
          \/ Hold(c, [me EXCEPT !.pc = "putBack", !.kinds = @ \ {k},
               !.todo = {<<r, store[r]>> : r \in {q \in In(me.scope, k) :
                                                    me.name # Absent => q.name = me.name}}])
          \/ Hold(c, [me EXCEPT !.kinds = @ \ {k}])
     \/ me.kinds = {} /\ Answer(c, FALSE)
  /\ UNCHANGED <<store, buckets, asked, spoiled>>

PutBack(c) ==
  LET me == client[c] IN
  /\ Serving(c, "putBack")
  /\ \/ \E e \in me.todo :
          /\ Hold(c, [me EXCEPT !.todo = @ \ {e}])
          /\ \/ store' = [store EXCEPT ![e[1]] = e[2]]
             \/ UNCHANGED store
     \/ me.todo = {} /\ Proceed(c, "relist") /\ UNCHANGED store
  /\ UNCHANGED <<buckets, asked, spoiled>>
-----------------------------------------------------------------------------
Scopes == {r.scope : r \in Resources}

RequestsNext ==
  \E c \in Clients :
    \/ \E b \in Bodies : ApplyBodies(c, b)
    \/ \E s \in Scopes, prune \in BOOLEAN : Wipe(c, s, prune)
    \/ \E r \in Resources, prune \in BOOLEAN :
         DeleteName(c, r, prune) \/ DeleteOne(c, r.kind, r.name, prune)
    \/ \E s \in Scopes : \E n \in {Absent} \cup {r.name : r \in Resources} : ConfigSet(c, s, n)
    \/ PutNext(c) \/ PlanPrune(c) \/ DropNext(c)
    \/ ListKind(c) \/ Erase(c) \/ PruneBucket(c) \/ Relist(c) \/ PutBack(c)
    \/ Forget(c)

RequestsSpec == RequestsInit /\ [][RequestsNext]_requestsVars
-----------------------------------------------------------------------------
\* Between requests no two ingresses have one host (checkIngressHostCollisions
\* "rejects any apply that would leave two ingresses sharing the same Host"):
\* through swaps, renames, prunes, deletes and put-backs, as long as no apply
\* failed half way and no macro brought an ingress the check did not see.
HostsUnique ==
  ~spoiled /\ (\A c \in Clients : Serving(c, "idle")) =>
    \A q, r \in Stored :
      q.kind = "ingress" /\ r.kind = "ingress" /\ store[q].host # Absent
        /\ store[q].host = store[r].host => q = r

LastOf(list, r) == CHOOSE i \in DOMAIN list :
  list[i].res = r /\ \A j \in DOMAIN list : list[j].res = r => j <= i

\* What an answer says holds when it is written. Whatever the errors: what is
\* listed as deleted has no manifest and, pruning, no bucket unless the summary says
\* that it could not be deleted. Without errors: an apply stored the last version of
\* each manifest and, pruning, nothing else is left in the kinds and scopes of its
\* body; a wiped scope is empty, its own bucket gone or the answer says so; a
\* deleted name has no manifest of any kind and had one; a delete by kind deleted.
Told(me, b) == b \in buckets => b \in me.unclean

AnswerTrue(me) ==
  /\ \A r \in me.gone : store[r] = Absent
  /\ me.prune => \A r \in me.gone : Told(me, BucketOf(r))
  /\ me.op = "apply" /\ ~me.errors =>
       /\ \A r \in Body(me.list) : store[r] = Kept(me.list[LastOf(me.list, r)])
       /\ me.prune => \A q \in Body(me.list) : In(q.scope, q.kind) \subseteq Body(me.list)
  /\ me.op = "wipe" /\ ~me.errors =>
       (\A r \in Stored : r.scope # me.scope) /\ Told(me, <<me.scope, Absent>>)
  /\ me.op = "delete" /\ ~me.errors =>
       /\ \A r \in Stored : r.scope # me.scope \/ r.name # me.name
       /\ \E r \in me.gone : BucketOf(r) = <<me.scope, me.name>>
  /\ me.op = "deleteOne" /\ ~me.errors => me.gone # {}

AnswersTrue == \A c \in Clients : Serving(c, "answered") => AnswerTrue(client[c])

\* The store after a request is what its checks and its answer promised.
RequestsTrue == HostsUnique /\ AnswersTrue
=============================================================================
