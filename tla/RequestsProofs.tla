---------------------------- MODULE RequestsProofs ----------------------------
(* Proofs about the HTTP handlers that change many resources at once          *)
(* (Requests), for any resources, bodies and app kinds, one request at a time; *)
(* and about the runs of the deploy plane that apply through them             *)
(* (DeployRuns), for any files, apps, commits and goroutines.                 *)
EXTENDS Requests, DeployRuns, FiniteSetTheorems, SequenceTheorems, WellFoundedInduction, TLAPS

-----------------------------------------------------------------------------
(* The invariant. Its operators take the state they speak of: st the store,   *)
(* me the request served, sp whether an apply failed half way or expanded an  *)
(* ingress.                                                                   *)

Fields == {"op", "pc", "list", "prune", "todo", "kinds", "scope", "name", "errors", "gone", "at",
           "unclean"}
Shape(me) == me = [f \in Fields |-> me[f]]

StoredIn(st) == {r \in Resources : st[r] # Absent}
HostOnce(st, rs) ==
  \A q, r \in rs : q.kind = "ingress" /\ r.kind = "ingress" /\ st[q].host # Absent
                   /\ st[q].host = st[r].host => q = r
Unique(st) == HostOnce(st, StoredIn(st))

IsList(list) ==
  /\ Len(list) \in Nat /\ DOMAIN list = 1 .. Len(list)
  /\ \A i \in DOMAIN list : list[i].res \in Resources

\* Once the list is in, no host is twice in the store: not in the list, not in
\* what it leaves alone, and not in one and the other.
Clashless(st, list) ==
  LET hosts == {i \in DOMAIN list : list[i].res.kind = "ingress" /\ list[i].host # Absent}
      rest  == StoredIn(st) \ Body(list)
  IN /\ \A i, j \in hosts : list[i].host = list[j].host => i = j
     /\ \A r \in rest : r.kind = "ingress" => \A i \in hosts : list[i].host # st[r].host
     /\ HostOnce(st, rest)

\* Of the entries in done, the last one of each resource is what is stored.
PutSoFar(st, list, done) ==
  \A i \in done : (\A j \in done : list[j].res = list[i].res => j <= i) => st[list[i].res] = Kept(list[i])

Putting(st, me, sp) ==
  me.pc = "put" =>
    /\ me.op = "apply" /\ IsList(me.list) /\ me.todo \subseteq DOMAIN me.list
    /\ \A i \in me.todo, j \in DOMAIN me.list \ me.todo : j < i
    /\ PutSoFar(st, me.list, DOMAIN me.list \ me.todo)
    /\ ~sp => Clashless(st, me.list)

ListStored(st, list) == \A r \in Body(list) : st[r] = Kept(list[LastOf(list, r)])
Beside(st, list) == {r \in StoredIn(st) \ Body(list) : \E q \in Body(list) : r.scope = q.scope /\ r.kind = q.kind}
Dropping(st, me) ==
  me.pc = "drop" =>
    /\ me.op = "apply" /\ me.todo \cap Body(me.list) = {}
    /\ ListStored(st, me.list)
    /\ me.prune => Beside(st, me.list) \subseteq me.todo

\* What a wipe or a delete is to leave nothing of.
Meant(me) == {r \in Resources : r.scope = me.scope /\ (me.op = "delete" => r.name = me.name)}
Wiping(st, me) ==
  me.pc \in {"list", "erase", "bucket"} =>
    /\ me.op \in {"wipe", "delete", "deleteOne"}
    /\ me.op \in {"wipe", "delete"} /\ ~me.errors =>
         \A r \in StoredIn(st) \cap Meant(me) : r.kind \in me.kinds \/ (me.pc # "list" /\ r \in me.todo)

PuttingBack(st, me) ==
  /\ me.pc \in {"relist", "putBack"} => me.op = "config"
  /\ me.pc = "putBack" => \A e \in me.todo : e[1] \in Resources /\ st[e[1]] = e[2]

Promised(st, me) ==
  me.pc = "answered" /\ ~me.errors =>
    /\ me.op = "apply" => ListStored(st, me.list) /\ (me.prune => Beside(st, me.list) = {})
    /\ me.op \in {"wipe", "delete"} => StoredIn(st) \cap Meant(me) = {}

Serves(st, me, sp) ==
  /\ Shape(me)
  /\ Putting(st, me, sp) /\ Dropping(st, me) /\ Wiping(st, me) /\ PuttingBack(st, me) /\ Promised(st, me)
  /\ ~sp /\ me.pc # "put" => Unique(st)

\* The summary of a delete or a wipe, so far: what it lists is deleted and its
\* bucket gone, in hand, or among those it could not delete.
Accounts(st, bs, me) ==
  /\ me.gone # {} => me.op \in {"wipe", "delete", "deleteOne"}
  /\ \A r \in me.gone : st[r] = Absent
  /\ me.prune => \A r \in me.gone :
       BucketOf(r) \in bs => BucketOf(r) \in me.unclean \/ (me.pc = "bucket" /\ BucketOf(r) = BucketOf(me.at))
  /\ me.pc \in {"list", "erase", "bucket"} =>
       /\ me.op \in {"wipe", "delete", "deleteOne"}
       /\ me.op = "deleteOne" /\ ~me.errors => me.gone # {} \/ (me.pc = "erase" /\ me.todo # {})
  /\ me.pc \in {"erase", "bucket"} => me.todo \subseteq Resources
  /\ me.op = "delete" => me.gone \subseteq Meant(me) /\ (me.pc \in {"erase", "bucket"} => me.todo \subseteq Meant(me))
  /\ me.pc = "answered" /\ ~me.errors =>
       /\ me.op = "wipe" /\ <<me.scope, Absent>> \in bs => <<me.scope, Absent>> \in me.unclean
       /\ me.op \in {"delete", "deleteOne"} => me.gone # {}

RequestsIInv(c) ==
  /\ store = [r \in Resources |-> store[r]] /\ client = [d \in Clients |-> client[d]]
  /\ Serves(store, client[c], spoiled)
-----------------------------------------------------------------------------
(* Lists: the first of the entries left, the last of those of one resource.   *)

LEMMA FirstLeft ==
  ASSUME NEW S \in SUBSET Nat, S # {}
  PROVE  \E k \in S : \A j \in S : k <= j
<1>1. IsWellFoundedOn(OpToRel(<, Nat), Nat)
  BY NatLessThanWellFounded
<1>2. PICK n \in S : \A k \in S : <<k, n>> \notin OpToRel(<, Nat)
  BY <1>1, WFMin
<1>3. \A k \in S : ~(k < n)
  BY <1>2 DEF OpToRel
<1>. QED  BY <1>3

LEMMA LastOfBound ==
  ASSUME NEW n \in Nat, NEW S \in SUBSET (1 .. n), S # {}
  PROVE  \E i \in S : \A j \in S : j <= i
<1>. DEFINE T == {n - i : i \in S}
<1>0. \A i \in S : i \in Int /\ i <= n
  OBVIOUS
<1>1. T \in SUBSET Nat /\ T # {}
  <2>1. \A i \in S : n - i \in Nat
    BY <1>0
  <2>. QED  BY <2>1
<1>2. PICK k \in T : \A j \in T : k <= j
  <2>. HIDE DEF T
  <2>. QED  BY <1>1, FirstLeft
<1>3. PICK i \in S : k = n - i
  BY <1>2
<1>4. \A j \in S : n - i <= n - j
  BY <1>2, <1>3
<1>. QED  BY <1>0, <1>4

LEMMA LastOfIs ==
  ASSUME NEW list, IsList(list), NEW r \in Body(list)
  PROVE  /\ LastOf(list, r) \in DOMAIN list /\ list[LastOf(list, r)].res = r
         /\ \A j \in DOMAIN list : list[j].res = r => j <= LastOf(list, r)
<1>. DEFINE S == {i \in DOMAIN list : list[i].res = r}
<1>1. S # {} /\ S \subseteq 1 .. Len(list) /\ Len(list) \in Nat
  BY DEF Body, IsList
<1>2. PICK i \in S : \A j \in S : j <= i
  <2>. HIDE DEF S
  <2>. QED  BY <1>1, LastOfBound
<1>3. \E k : k \in DOMAIN list /\ list[k].res = r /\ \A j \in DOMAIN list : list[j].res = r => j <= k
  BY <1>2
<1>. QED  BY <1>2, <1>3 DEF LastOf

\* All entries in: each resource of the list is stored as its last entry says.
LEMMA AllIn ==
  ASSUME NEW st, NEW list, IsList(list), PutSoFar(st, list, DOMAIN list)
  PROVE  ListStored(st, list)
BY LastOfIs DEF ListStored, PutSoFar

LEMMA ThenUnique ==
  ASSUME NEW st, NEW list, IsList(list), ListStored(st, list), Clashless(st, list)
  PROVE  Unique(st)
<1>. SUFFICES ASSUME NEW q \in StoredIn(st), NEW r \in StoredIn(st), q.kind = "ingress", r.kind = "ingress",
                     st[q].host # Absent, st[q].host = st[r].host
              PROVE  q = r
  BY DEF Unique, HostOnce
<1>1. ASSUME NEW p \in Body(list)
      PROVE  /\ LastOf(list, p) \in DOMAIN list /\ list[LastOf(list, p)].res = p
             /\ st[p].host = list[LastOf(list, p)].host
  <2>1. st[p] = Kept(list[LastOf(list, p)])
    BY DEF ListStored
  <2>2. st[p].host = list[LastOf(list, p)].host
    BY <2>1 DEF Kept
  <2>. QED  BY <2>2, LastOfIs
<1>2. CASE q \in Body(list) /\ r \in Body(list)
  BY <1>1, <1>2 DEF Clashless
<1>3. CASE q \in Body(list) /\ r \notin Body(list)
  BY <1>1, <1>3 DEF Clashless
<1>4. CASE q \notin Body(list) /\ r \in Body(list)
  BY <1>1, <1>4 DEF Clashless
<1>5. CASE q \notin Body(list) /\ r \notin Body(list)
  BY <1>5 DEF Clashless, HostOnce
<1>. QED  BY <1>2, <1>3, <1>4, <1>5

\* What a deletion leaves.
LEMMA Fewer ==
  ASSUME NEW st, st = [r \in Resources |-> st[r]], NEW r \in Resources
  PROVE  LET st2 == [st EXCEPT ![r] = Absent]
         IN  /\ st2 = [q \in Resources |-> st2[q]]
             /\ StoredIn(st2) = StoredIn(st) \ {r} /\ (\A q \in Resources \ {r} : st2[q] = st[q])
             /\ (Unique(st) => Unique(st2))
<1>. DEFINE st2 == [st EXCEPT ![r] = Absent]
<1>1. st2 = [q \in Resources |-> st2[q]] /\ st2[r] = Absent /\ \A q \in Resources \ {r} : st2[q] = st[q]
  OBVIOUS
<1>. HIDE DEF st2
<1>2. StoredIn(st2) = StoredIn(st) \ {r}
  BY <1>1 DEF StoredIn
<1>3. Unique(st) => Unique(st2)
  BY <1>1, <1>2 DEF Unique, HostOnce, StoredIn
<1>4. QED  BY <1>1, <1>2, <1>3 DEF st2
-----------------------------------------------------------------------------
(* One lemma per action.                                                      *)

LEMMA HoldIs ==
  ASSUME NEW c \in Clients, client = [d \in Clients |-> client[d]], NEW r, Hold(c, r)
  PROVE  client'[c] = r /\ client' = [d \in Clients |-> client'[d]]
BY DEF Hold

\* A request that is new, or over, claims nothing but its start.
LEMMA FreeServes ==
  ASSUME NEW st, NEW me, NEW sp, Shape(me), me.pc \notin {"put", "drop", "list", "erase", "bucket", "relist", "putBack"},
         me.pc = "answered" => me.errors \/ me.op \notin {"apply", "wipe", "delete"}, ~sp => Unique(st)
  PROVE  Serves(st, me, sp)
BY DEF Serves, Putting, Dropping, Wiping, PuttingBack, Promised

LEMMA ForgetKeeps ==
  ASSUME NEW c \in Clients, RequestsIInv(c), Forget(c) PROVE RequestsIInv(c)'
BY HoldIs, FreeServes DEF Forget, RequestsIInv, Serves, Serving, Free, Shape, Fields

LEMMA ApplyBodiesKeeps ==
  ASSUME NEW c \in Clients, RequestsIInv(c), NEW b \in Bodies, ApplyBodies(c, b) PROVE RequestsIInv(c)'
<1>1. UNCHANGED store /\ spoiled' = (spoiled \/ \E i \in DOMAIN b.list : b.list[i].macro /\ b.list[i].res.kind = "ingress")
  BY DEF ApplyBodies
<1>2. ~spoiled => Unique(store)
  BY DEF RequestsIInv, Serves, ApplyBodies, NewRequest, Serving
<1>3. CASE Collides(b.list)
  <2>. DEFINE r == [Free EXCEPT !.pc = "answered", !.errors = TRUE]
  <2>1. client'[c] = r /\ client' = [d \in Clients |-> client'[d]]
    <3>. HIDE DEF r
    <3>1. Hold(c, r)
      BY <1>3 DEF ApplyBodies, r
    <3>. QED  BY <3>1, HoldIs DEF RequestsIInv
  <2>2. Shape(r) /\ r.pc = "answered" /\ r.errors
    BY DEF Free, Shape, Fields
  <2>. HIDE DEF r
  <2>3. Serves(store, r, spoiled')
    BY <1>1, <1>2, <2>2, FreeServes
  <2>. QED  BY <1>1, <2>1, <2>3 DEF RequestsIInv
<1>4. CASE ~Collides(b.list)
  <2>. DEFINE r == [Free EXCEPT !.op = "apply", !.pc = "put", !.list = b.list, !.prune = b.prune, !.todo = DOMAIN b.list]
  <2>1. client'[c] = r /\ client' = [d \in Clients |-> client'[d]]
    <3>. HIDE DEF r
    <3>1. Hold(c, r)
      BY <1>4 DEF ApplyBodies, r
    <3>. QED  BY <3>1, HoldIs DEF RequestsIInv
  <2>2. Shape(r) /\ r.pc = "put" /\ r.op = "apply" /\ r.list = b.list /\ r.todo = DOMAIN b.list
    BY DEF Free, Shape, Fields
  <2>. HIDE DEF r
  <2>3. IsList(b.list)
    BY RequestsAssumption DEF IsList
  <2>4. ASSUME ~spoiled' PROVE Clashless(store, b.list)
    <3>1. \A i \in DOMAIN b.list : b.list[i].res.kind = "ingress" => ~b.list[i].macro
      BY <1>1, <2>4
    <3>2. HostOnce(store, StoredIn(store) \ Body(b.list))
      BY <1>1, <1>2, <2>4 DEF Unique, HostOnce
    <3>3. \A i, j \in DOMAIN b.list :
            b.list[i].res.kind = "ingress" /\ b.list[j].res.kind = "ingress" /\ b.list[i].host # Absent
            /\ b.list[i].host = b.list[j].host => i = j
      BY <1>4, <3>1 DEF Collides
    <3>4. ASSUME NEW q \in StoredIn(store) \ Body(b.list), q.kind = "ingress", NEW i \in DOMAIN b.list,
                 b.list[i].res.kind = "ingress", b.list[i].host # Absent
          PROVE  b.list[i].host # store[q].host
      BY <3>4, <1>4, <3>1 DEF StoredIn, Stored, Body, Collides
    <3>. QED  BY <3>2, <3>3, <3>4 DEF Clashless
  <2>5. Putting(store, r, spoiled')
    BY <2>2, <2>3, <2>4 DEF Putting, PutSoFar
  <2>6. Serves(store, r, spoiled')
    BY <2>2, <2>5 DEF Serves, Dropping, Wiping, PuttingBack, Promised
  <2>. QED  BY <1>1, <2>1, <2>6 DEF RequestsIInv
<1>. QED  BY <1>3, <1>4

\* What the request in hand claims.
LEMMA Parts ==
  ASSUME NEW c \in Clients, RequestsIInv(c)
  PROVE  /\ Shape(client[c]) /\ Putting(store, client[c], spoiled) /\ Dropping(store, client[c])
         /\ Wiping(store, client[c]) /\ PuttingBack(store, client[c]) /\ Promised(store, client[c])
         /\ (~spoiled /\ client[c].pc # "put" => Unique(store))
         /\ store = [r \in Resources |-> store[r]] /\ client = [d \in Clients |-> client[d]]
BY DEF RequestsIInv, Serves

LEMMA PutNextKeeps ==
  ASSUME NEW c \in Clients, RequestsIInv(c), PutNext(c) PROVE RequestsIInv(c)'
<1>. DEFINE First == CHOOSE k \in client[c].todo : \A j \in client[c].todo : k <= j
<1>1. PICK me : me = client[c]
  OBVIOUS
<1>2. /\ Shape(me) /\ Putting(store, me, spoiled) /\ me.pc = "put" /\ me.todo # {}
      /\ store = [r \in Resources |-> store[r]]
  BY <1>1, Parts DEF PutNext, Serving
<1>3. /\ me.op = "apply" /\ IsList(me.list) /\ me.todo \subseteq DOMAIN me.list
      /\ \A i \in me.todo, j \in DOMAIN me.list \ me.todo : j < i
      /\ PutSoFar(store, me.list, DOMAIN me.list \ me.todo)
      /\ (~spoiled => Clashless(store, me.list))
  BY <1>2 DEF Putting
<1>4. PICK i \in me.todo : i = First /\ \A j \in me.todo : i <= j
  <2>1. me.todo \in SUBSET Nat
    BY <1>3 DEF IsList
  <2>. QED  BY <1>1, <1>2, <2>1, FirstLeft
<1>. HIDE DEF First
<1>5. CASE /\ store' = [store EXCEPT ![me.list[i].res] = Kept(me.list[i])]
           /\ Hold(c, [me EXCEPT !.todo = @ \ {i}]) /\ UNCHANGED spoiled
  <2>1. PICK r : r = [me EXCEPT !.todo = @ \ {i}]
    OBVIOUS
  <2>2. Shape(r) /\ r.op = me.op /\ r.pc = me.pc /\ r.list = me.list /\ r.todo = me.todo \ {i}
    BY <1>2, <2>1 DEF Shape, Fields
  <2>3. client'[c] = r /\ client' = [d \in Clients |-> client'[d]]
    BY <1>5, <2>1, Parts, HoldIs
  <2>4. PICK x \in Resources : x = me.list[i].res
    BY <1>3 DEF IsList
  <2>5. /\ store' = [q \in Resources |-> store'[q]] /\ store'[x] = Kept(me.list[i])
        /\ \A q \in Resources \ {x} : store'[q] = store[q]
    BY <1>2, <1>5, <2>4
  <2>6. x \in Body(me.list)
    BY <1>3, <2>4 DEF Body
  <2>7. \A k \in me.todo \ {i}, j \in DOMAIN me.list \ (me.todo \ {i}) : j < k
    BY <1>3, <1>4 DEF IsList
  <2>8. PutSoFar(store', me.list, DOMAIN me.list \ (me.todo \ {i}))
    <3>. SUFFICES ASSUME NEW k \in DOMAIN me.list \ (me.todo \ {i}),
                         \A j \in DOMAIN me.list \ (me.todo \ {i}) : me.list[j].res = me.list[k].res => j <= k
                  PROVE  store'[me.list[k].res] = Kept(me.list[k])
      BY DEF PutSoFar
    <3>1. CASE k = i
      BY <2>4, <2>5, <3>1
    <3>2. CASE k # i
      BY <1>3, <3>2, <2>4, <2>5 DEF IsList, PutSoFar
    <3>. QED  BY <3>1, <3>2
  <2>9. Clashless(store, me.list) => Clashless(store', me.list)
    BY <2>5, <2>6 DEF StoredIn, Clashless, HostOnce
  <2>10. Putting(store', r, spoiled')
    BY <1>3, <1>5, <2>2, <2>7, <2>8, <2>9 DEF Putting
  <2>11. Serves(store', r, spoiled')
    BY <1>2, <2>2, <2>10 DEF Serves, Dropping, Wiping, PuttingBack, Promised
  <2>. QED  BY <2>3, <2>5, <2>11 DEF RequestsIInv
<1>6. CASE Answer(c, TRUE) /\ spoiled' = TRUE /\ UNCHANGED store
  <2>1. PICK r : r = [me EXCEPT !.pc = "answered", !.errors = TRUE]
    OBVIOUS
  <2>2. Shape(r) /\ r.pc = "answered" /\ r.errors
    BY <1>2, <2>1 DEF Shape, Fields
  <2>3. client'[c] = r /\ client' = [d \in Clients |-> client'[d]]
    BY <1>1, <1>6, <2>1, Parts, HoldIs DEF Answer
  <2>4. Serves(store, r, spoiled')
    BY <1>6, <2>2, FreeServes
  <2>. QED  BY <1>2, <1>6, <2>3, <2>4 DEF RequestsIInv
<1>. QED  BY <1>1, <1>4, <1>5, <1>6 DEF PutNext, First

LEMMA PlanPruneKeeps ==
  ASSUME NEW c \in Clients, RequestsIInv(c), PlanPrune(c) PROVE RequestsIInv(c)'
<1>1. PICK me : me = client[c]
  OBVIOUS
<1>2. /\ Shape(me) /\ Putting(store, me, spoiled) /\ me.pc = "put" /\ me.todo = {}
      /\ store = [r \in Resources |-> store[r]] /\ UNCHANGED <<store, spoiled>>
  BY <1>1, Parts DEF PlanPrune, Serving
<1>. DEFINE kinds == {In(q.scope, q.kind) : q \in Body(me.list)}
            targets == (UNION kinds) \ Body(me.list)
<1>4. PICK r : r = [me EXCEPT !.pc = "drop", !.todo = IF ~me.prune THEN {} ELSE targets]
  OBVIOUS
<1>5. Shape(r) /\ r.op = me.op /\ r.pc = "drop" /\ r.list = me.list /\ r.prune = me.prune
      /\ r.todo = IF ~me.prune THEN {} ELSE targets
  BY <1>2, <1>4 DEF Shape, Fields
<1>6. client'[c] = r /\ client' = [d \in Clients |-> client'[d]]
  BY <1>1, <1>4, Parts, HoldIs DEF PlanPrune
<1>7. me.op = "apply" /\ IsList(me.list) /\ ListStored(store, me.list) /\ (~spoiled => Unique(store))
  BY <1>2, AllIn, ThenUnique DEF Putting
<1>8. targets \cap Body(me.list) = {} /\ Beside(store, me.list) \subseteq targets
  <2>1. ASSUME NEW q \in Beside(store, me.list) PROVE q \in targets
    <3>1. PICK b \in Body(me.list) : q.scope = b.scope /\ q.kind = b.kind
      BY DEF Beside
    <3>2. q \in Resources /\ store[q] # Absent /\ q \notin Body(me.list)
      BY DEF Beside, StoredIn
    <3>3. q \in In(b.scope, b.kind)
      BY <3>1, <3>2 DEF In, Stored
    <3>4. In(b.scope, b.kind) \in kinds
      OBVIOUS
    <3>. HIDE DEF kinds
    <3>. QED  BY <3>2, <3>3, <3>4
  <2>. HIDE DEF kinds
  <2>. QED  BY <2>1
<1>9. Dropping(store, r)
  BY <1>5, <1>7, <1>8 DEF Dropping
<1>10. Serves(store, r, spoiled)
  BY <1>5, <1>7, <1>9 DEF Serves, Putting, Wiping, PuttingBack, Promised
<1>. QED  BY <1>2, <1>6, <1>10 DEF RequestsIInv

LEMMA DropNextKeeps ==
  ASSUME NEW c \in Clients, RequestsIInv(c), DropNext(c) PROVE RequestsIInv(c)'
<1>1. PICK me : me = client[c]
  OBVIOUS
<1>2. /\ Shape(me) /\ Dropping(store, me) /\ me.pc = "drop" /\ (~spoiled => Unique(store))
      /\ store = [r \in Resources |-> store[r]]
  BY <1>1, Parts DEF DropNext, Serving
<1>3. CASE me.todo = {} /\ Answer(c, FALSE) /\ UNCHANGED <<store, spoiled>>
  <2>1. PICK r : r = [me EXCEPT !.pc = "answered", !.errors = FALSE]
    OBVIOUS
  <2>2. Shape(r) /\ r.pc = "answered" /\ r.op = me.op /\ r.list = me.list /\ r.prune = me.prune
    BY <1>2, <2>1 DEF Shape, Fields
  <2>3. client'[c] = r /\ client' = [d \in Clients |-> client'[d]]
    BY <1>1, <1>3, <2>1, Parts, HoldIs DEF Answer
  <2>4. Promised(store, r)
    BY <1>2, <1>3, <2>2 DEF Promised, Dropping
  <2>5. Serves(store, r, spoiled)
    BY <1>2, <2>2, <2>4 DEF Serves, Putting, Dropping, Wiping, PuttingBack
  <2>. QED  BY <1>2, <1>3, <2>3, <2>5 DEF RequestsIInv
<1>4. ASSUME NEW x \in me.todo, store' = [store EXCEPT ![x] = Absent], Hold(c, [me EXCEPT !.todo = @ \ {x}]), UNCHANGED spoiled
      PROVE  RequestsIInv(c)'
  <2>1. PICK r : r = [me EXCEPT !.todo = @ \ {x}]
    OBVIOUS
  <2>2. Shape(r) /\ r.pc = "drop" /\ r.op = me.op /\ r.list = me.list /\ r.prune = me.prune /\ r.todo = me.todo \ {x}
    BY <1>2, <2>1 DEF Shape, Fields
  <2>3. client'[c] = r /\ client' = [d \in Clients |-> client'[d]]
    BY <1>4, <2>1, Parts, HoldIs
  <2>4. /\ store' = [q \in Resources |-> store'[q]] /\ StoredIn(store') = StoredIn(store) \ {x}
        /\ \A q \in Resources \ {x} : store'[q] = store[q]
        /\ Unique(store) => Unique(store')
    <3>1. CASE x \in Resources
      BY <1>2, <1>4, <3>1, Fewer
    <3>2. CASE x \notin Resources
      BY <1>2, <1>4, <3>2 DEF StoredIn
    <3>. QED  BY <3>1, <3>2
  <2>5. x \notin Body(me.list)
    BY <1>2, <1>4 DEF Dropping
  <2>6. ListStored(store', me.list)
    <3>1. ASSUME NEW q \in Body(me.list) PROVE store'[q] = store[q]
      BY <2>5, <2>4, <1>2, <1>4
    <3>. QED  BY <1>2, <3>1 DEF Dropping, ListStored
  <2>7. me.prune => Beside(store', me.list) \subseteq me.todo \ {x}
    BY <1>2, <2>4 DEF Dropping, Beside
  <2>8. Dropping(store', r)
    BY <1>2, <2>2, <2>6, <2>7 DEF Dropping
  <2>9. Serves(store', r, spoiled')
    BY <1>2, <1>4, <2>2, <2>4, <2>8 DEF Serves, Putting, Wiping, PuttingBack, Promised
  <2>. QED  BY <2>3, <2>4, <2>9 DEF RequestsIInv
<1>5. CASE Answer(c, TRUE) /\ spoiled' = TRUE /\ UNCHANGED store
  <2>1. PICK r : r = [me EXCEPT !.pc = "answered", !.errors = TRUE]
    OBVIOUS
  <2>2. Shape(r) /\ r.pc = "answered" /\ r.errors
    BY <1>2, <2>1 DEF Shape, Fields
  <2>3. client'[c] = r /\ client' = [d \in Clients |-> client'[d]]
    BY <1>1, <1>5, <2>1, Parts, HoldIs DEF Answer
  <2>4. Serves(store, r, spoiled')
    BY <1>5, <2>2, FreeServes
  <2>. QED  BY <1>2, <1>5, <2>3, <2>4 DEF RequestsIInv
<1>. QED  BY <1>1, <1>3, <1>4, <1>5 DEF DropNext

-----------------------------------------------------------------------------
(* Wipes, deletes and config changes.                                         *)

LEMMA WipeKeeps ==
  ASSUME NEW c \in Clients, RequestsIInv(c), NEW s, NEW prune, Wipe(c, s, prune) PROVE RequestsIInv(c)'
<1>1. PICK r : r = [Free EXCEPT !.op = "wipe", !.pc = "list", !.scope = s, !.prune = prune,
                             !.kinds = {q.kind : q \in Resources}]
  OBVIOUS
<1>2. Shape(r) /\ r.op = "wipe" /\ r.pc = "list" /\ r.kinds = {q.kind : q \in Resources}
  BY <1>1 DEF Free, Shape, Fields
<1>3. UNCHANGED <<store, spoiled>> /\ (~spoiled => Unique(store)) /\ store = [q \in Resources |-> store[q]]
  BY DEF RequestsIInv, Serves, Wipe, NewRequest, Serving
<1>4. client'[c] = r /\ client' = [d \in Clients |-> client'[d]]
  BY <1>1, Parts, HoldIs DEF Wipe
<1>5. Wiping(store, r)
  BY <1>2 DEF Wiping, StoredIn
<1>6. Serves(store, r, spoiled)
  BY <1>2, <1>3, <1>5 DEF Serves, Putting, Dropping, PuttingBack, Promised
<1>. QED  BY <1>3, <1>4, <1>6 DEF RequestsIInv

LEMMA DeleteNameKeeps ==
  ASSUME NEW c \in Clients, RequestsIInv(c), NEW x \in Resources, NEW prune, DeleteName(c, x, prune) PROVE RequestsIInv(c)'
<1>1. PICK r : r = [Free EXCEPT !.op = "delete", !.pc = "list", !.scope = x.scope, !.name = x.name,
                             !.prune = prune, !.kinds = {q.kind : q \in Resources}]
  OBVIOUS
<1>2. Shape(r) /\ r.op = "delete" /\ r.pc = "list" /\ r.kinds = {q.kind : q \in Resources}
  BY <1>1 DEF Free, Shape, Fields
<1>3. UNCHANGED <<store, spoiled>> /\ (~spoiled => Unique(store)) /\ store = [q \in Resources |-> store[q]]
  BY DEF RequestsIInv, Serves, DeleteName, NewRequest, Serving
<1>4. client'[c] = r /\ client' = [d \in Clients |-> client'[d]]
  BY <1>1, Parts, HoldIs DEF DeleteName
<1>5. Wiping(store, r)
  BY <1>2 DEF Wiping, StoredIn
<1>6. Serves(store, r, spoiled)
  BY <1>2, <1>3, <1>5 DEF Serves, Putting, Dropping, PuttingBack, Promised
<1>. QED  BY <1>3, <1>4, <1>6 DEF RequestsIInv

LEMMA DeleteOneKeeps ==
  ASSUME NEW c \in Clients, RequestsIInv(c), NEW kind, NEW name, NEW prune, DeleteOne(c, kind, name, prune)
  PROVE  RequestsIInv(c)'
<1>1. UNCHANGED <<store, spoiled>> /\ (~spoiled => Unique(store)) /\ store = [q \in Resources |-> store[q]]
  BY DEF RequestsIInv, Serves, DeleteOne, NewRequest, Serving
<1>2. PICK found : found = {r \in Stored : r.kind = kind /\ r.name = name}
  OBVIOUS
<1>3. CASE Hold(c, [Free EXCEPT !.op = "deleteOne", !.pc = "erase", !.prune = prune, !.todo = found])
  <2>1. PICK r : r = [Free EXCEPT !.op = "deleteOne", !.pc = "erase", !.prune = prune, !.todo = found]
    OBVIOUS
  <2>2. Shape(r) /\ r.op = "deleteOne" /\ r.pc = "erase"
    BY <2>1 DEF Free, Shape, Fields
  <2>3. client'[c] = r /\ client' = [d \in Clients |-> client'[d]]
    BY <1>3, <2>1, Parts, HoldIs
  <2>4. Serves(store, r, spoiled)
    BY <1>1, <2>2 DEF Serves, Wiping, Putting, Dropping, PuttingBack, Promised
  <2>. QED  BY <1>1, <2>3, <2>4 DEF RequestsIInv
<1>4. CASE Hold(c, [Free EXCEPT !.pc = "answered", !.errors = TRUE])
  <2>1. PICK r : r = [Free EXCEPT !.pc = "answered", !.errors = TRUE]
    OBVIOUS
  <2>2. Shape(r) /\ r.pc = "answered" /\ r.errors
    BY <2>1 DEF Free, Shape, Fields
  <2>3. client'[c] = r /\ client' = [d \in Clients |-> client'[d]]
    BY <1>4, <2>1, Parts, HoldIs
  <2>4. Serves(store, r, spoiled)
    BY <1>1, <2>2, FreeServes
  <2>. QED  BY <1>1, <2>3, <2>4 DEF RequestsIInv
<1>. QED  BY <1>2, <1>3, <1>4 DEF DeleteOne

LEMMA ListKindKeeps ==
  ASSUME NEW c \in Clients, RequestsIInv(c), ListKind(c) PROVE RequestsIInv(c)'
<1>1. PICK me : me = client[c]
  OBVIOUS
<1>2. /\ Shape(me) /\ Wiping(store, me) /\ me.pc = "list" /\ (~spoiled => Unique(store))
      /\ store = [r \in Resources |-> store[r]] /\ UNCHANGED <<store, spoiled>>
  BY <1>1, Parts DEF ListKind, Serving
<1>3. me.op \in {"wipe", "delete", "deleteOne"}
  BY <1>2 DEF Wiping
<1>4. ASSUME NEW r, client'[c] = r, client' = [d \in Clients |-> client'[d]], Serves(store, r, spoiled)
      PROVE  RequestsIInv(c)'
  BY <1>2, <1>4 DEF RequestsIInv
<1>5. ASSUME NEW k \in me.kinds, NEW found, found = {r \in In(me.scope, k) : me.op = "delete" => r.name = me.name},
             Hold(c, [me EXCEPT !.pc = "erase", !.kinds = @ \ {k}, !.todo = found])
      PROVE  RequestsIInv(c)'
  <2>1. PICK r : r = [me EXCEPT !.pc = "erase", !.kinds = @ \ {k}, !.todo = found]
    OBVIOUS
  <2>2. /\ Shape(r) /\ r.pc = "erase" /\ r.op = me.op /\ r.kinds = me.kinds \ {k} /\ r.todo = found
        /\ r.scope = me.scope /\ r.name = me.name /\ r.errors = me.errors
    BY <1>2, <2>1 DEF Shape, Fields
  <2>3. client'[c] = r /\ client' = [d \in Clients |-> client'[d]]
    BY <1>5, <2>1, Parts, HoldIs
  <2>4. \A q \in StoredIn(store) \cap Meant(me) : q.kind = k => q \in found
    BY <1>5 DEF StoredIn, Meant, In, Stored
  <2>5. Meant(r) = Meant(me)
    BY <2>2 DEF Meant
  <2>6. Wiping(store, r)
    BY <1>2, <1>3, <2>2, <2>4, <2>5 DEF Wiping
  <2>7. Serves(store, r, spoiled)
    BY <1>2, <1>3, <2>2, <2>6 DEF Serves, Putting, Dropping, PuttingBack, Promised
  <2>. QED  BY <1>4, <2>3, <2>7
<1>6. ASSUME NEW k \in me.kinds, Hold(c, [me EXCEPT !.kinds = @ \ {k}, !.errors = TRUE])
      PROVE  RequestsIInv(c)'
  <2>1. PICK r : r = [me EXCEPT !.kinds = @ \ {k}, !.errors = TRUE]
    OBVIOUS
  <2>2. Shape(r) /\ r.pc = "list" /\ r.op = me.op /\ r.errors
    BY <1>2, <2>1 DEF Shape, Fields
  <2>3. client'[c] = r /\ client' = [d \in Clients |-> client'[d]]
    BY <1>6, <2>1, Parts, HoldIs
  <2>4. Serves(store, r, spoiled)
    BY <1>2, <1>3, <2>2 DEF Serves, Wiping, Putting, Dropping, PuttingBack, Promised
  <2>. QED  BY <1>4, <2>3, <2>4
<1>7. ASSUME me.kinds = {}, NEW r, Hold(c, r), Shape(r), r.pc = "answered", r.op = me.op, me.errors => r.errors,
             r.scope = me.scope, r.name = me.name
      PROVE  RequestsIInv(c)'
  <2>2. /\ Shape(r) /\ r.pc = "answered" /\ r.op = me.op /\ (me.errors => r.errors)
        /\ r.scope = me.scope /\ r.name = me.name
    BY <1>7
  <2>3. client'[c] = r /\ client' = [d \in Clients |-> client'[d]]
    BY <1>7, Parts, HoldIs
  <2>4. Meant(r) = Meant(me)
    BY <2>2 DEF Meant
  <2>5. Promised(store, r)
    BY <1>2, <1>3, <1>7, <2>2, <2>4 DEF Promised, Wiping
  <2>6. Serves(store, r, spoiled)
    BY <1>2, <2>2, <2>5 DEF Serves, Wiping, Putting, Dropping, PuttingBack
  <2>. QED  BY <1>4, <2>3, <2>6
<1>8. ASSUME me.kinds = {}, NEW e, e = me.errors \/ (me.errors => e), Answer(c, e), me.errors => e
      PROVE  RequestsIInv(c)'
  <2>1. PICK r : r = [me EXCEPT !.pc = "answered", !.errors = e]
    OBVIOUS
  <2>2. /\ Shape(r) /\ r.pc = "answered" /\ r.op = me.op /\ r.errors = e
        /\ r.scope = me.scope /\ r.name = me.name
    BY <1>2, <2>1 DEF Shape, Fields
  <2>3. Hold(c, r)
    BY <1>1, <1>8, <2>1 DEF Answer
  <2>. QED  BY <1>7, <1>8, <2>2, <2>3
<1>9. ASSUME me.kinds = {}, NEW b, Hold(c, [me EXCEPT !.pc = "answered", !.unclean = @ \cup b])
      PROVE  RequestsIInv(c)'
  <2>1. PICK r : r = [me EXCEPT !.pc = "answered", !.unclean = @ \cup b]
    OBVIOUS
  <2>2. /\ Shape(r) /\ r.pc = "answered" /\ r.op = me.op /\ r.errors = me.errors
        /\ r.scope = me.scope /\ r.name = me.name
    BY <1>2, <2>1 DEF Shape, Fields
  <2>. QED  BY <1>7, <1>9, <2>1, <2>2
<1>. QED  BY <1>1, <1>5, <1>6, <1>8, <1>9 DEF ListKind

\* What is in hand after a manifest was deleted.
Deletes(me, x, r) ==
  /\ Shape(r) /\ r.op = me.op /\ r.kinds = me.kinds /\ r.todo = me.todo \ {x} /\ r.prune = me.prune
  /\ r.scope = me.scope /\ r.name = me.name /\ r.unclean = me.unclean
  /\ \/ r.pc = me.pc /\ r.errors = TRUE /\ r.gone = me.gone
     \/ r.pc = "erase" /\ ~me.prune /\ r.errors = me.errors /\ r.gone = me.gone \cup {x}
     \/ r.pc = "bucket" /\ r.at = x /\ r.errors = me.errors /\ r.gone = me.gone \cup {x}

LEMMA DeletedIs ==
  ASSUME NEW me, Shape(me), NEW x
  PROVE  \E r : r = Deleted(me, x) /\ Deletes(me, x, r)
<1>1. Deletes(me, x, [me EXCEPT !.todo = @ \ {x}, !.errors = TRUE])
  BY DEF Deletes, Shape, Fields
<1>2. Deletes(me, x, [me EXCEPT !.todo = @ \ {x}, !.gone = @ \cup {x}, !.pc = "bucket", !.at = x])
  BY DEF Deletes, Shape, Fields
<1>3. ASSUME ~me.prune
      PROVE  Deletes(me, x, [me EXCEPT !.todo = @ \ {x}, !.gone = @ \cup {x}, !.pc = "erase", !.at = Absent])
  BY <1>3 DEF Deletes, Shape, Fields
<1>4. CASE me.prune
  BY <1>1, <1>2, <1>4 DEF Deleted
<1>5. CASE ~me.prune
  BY <1>1, <1>3, <1>5 DEF Deleted
<1>. QED  BY <1>4, <1>5

LEMMA EraseKeeps ==
  ASSUME NEW c \in Clients, RequestsIInv(c), Erase(c) PROVE RequestsIInv(c)'
<1>1. PICK me : me = client[c]
  OBVIOUS
<1>2. /\ Shape(me) /\ Wiping(store, me) /\ me.pc = "erase" /\ (~spoiled => Unique(store))
      /\ store = [r \in Resources |-> store[r]] /\ UNCHANGED spoiled
  BY <1>1, Parts DEF Erase, Serving
<1>3. me.op \in {"wipe", "delete", "deleteOne"}
  BY <1>2 DEF Wiping
<1>4. ASSUME NEW x \in me.todo, Hold(c, Deleted(me, x)), store' = [store EXCEPT ![x] = Absent]
      PROVE  RequestsIInv(c)'
  <2>1. PICK r : r = Deleted(me, x) /\ Deletes(me, x, r)
    BY <1>2, DeletedIs
  <2>2. /\ Shape(r) /\ r.pc \in {"erase", "bucket"} /\ r.op = me.op /\ r.kinds = me.kinds
        /\ r.todo = me.todo \ {x} /\ r.scope = me.scope /\ r.name = me.name
        /\ (r.errors = TRUE \/ r.errors = me.errors)
    BY <1>2, <2>1 DEF Deletes
  <2>3. client'[c] = r /\ client' = [d \in Clients |-> client'[d]]
    BY <1>4, <2>1, Parts, HoldIs
  <2>4. /\ store' = [q \in Resources |-> store'[q]] /\ StoredIn(store') = StoredIn(store) \ {x}
        /\ Unique(store) => Unique(store')
    <3>1. CASE x \in Resources
      BY <1>2, <1>4, <3>1, Fewer
    <3>2. CASE x \notin Resources
      BY <1>2, <1>4, <3>2 DEF StoredIn
    <3>. QED  BY <3>1, <3>2
  <2>5. Meant(r) = Meant(me)
    BY <2>2 DEF Meant
  <2>6. Wiping(store', r)
    BY <1>2, <1>3, <2>2, <2>4, <2>5 DEF Wiping
  <2>7. Serves(store', r, spoiled)
    BY <1>2, <2>2, <2>4, <2>6 DEF Serves, Putting, Dropping, PuttingBack, Promised
  <2>. QED  BY <1>2, <2>3, <2>4, <2>7 DEF RequestsIInv
<1>5. ASSUME NEW x \in me.todo, Hold(c, [me EXCEPT !.todo = @ \ {x}, !.errors = TRUE]), UNCHANGED store
      PROVE  RequestsIInv(c)'
  <2>1. PICK r : r = [me EXCEPT !.todo = @ \ {x}, !.errors = TRUE]
    OBVIOUS
  <2>2. Shape(r) /\ r.pc = "erase" /\ r.op = me.op /\ r.errors
    BY <1>2, <2>1 DEF Shape, Fields
  <2>3. client'[c] = r /\ client' = [d \in Clients |-> client'[d]]
    BY <1>5, <2>1, Parts, HoldIs
  <2>4. Serves(store, r, spoiled)
    BY <1>2, <1>3, <2>2 DEF Serves, Wiping, Putting, Dropping, PuttingBack, Promised
  <2>. QED  BY <1>2, <1>5, <2>3, <2>4 DEF RequestsIInv
<1>6. CASE me.todo = {} /\ Proceed(c, "list") /\ UNCHANGED store
  BY <1>2, <1>1, <1>6, Parts, HoldIs, <1>3 DEF Shape, Fields, Proceed, Meant, Wiping, Serves, Putting,
     Dropping, PuttingBack, Promised, RequestsIInv
<1>. QED  BY <1>1, <1>4, <1>5, <1>6 DEF Erase

LEMMA PruneBucketKeeps ==
  ASSUME NEW c \in Clients, RequestsIInv(c), PruneBucket(c) PROVE RequestsIInv(c)'
<1>1. PICK me : me = client[c]
  OBVIOUS
<1>2. /\ Shape(me) /\ Wiping(store, me) /\ me.pc = "bucket" /\ (~spoiled => Unique(store))
      /\ store = [r \in Resources |-> store[r]] /\ UNCHANGED <<store, spoiled>>
  BY <1>1, Parts DEF PruneBucket, Serving
<1>3. PICK u : Hold(c, [me EXCEPT !.pc = "erase", !.at = Absent, !.unclean = u])
  <2>1. me.unclean = me.unclean /\ [me EXCEPT !.pc = "erase", !.at = Absent]
                                   = [me EXCEPT !.pc = "erase", !.at = Absent, !.unclean = me.unclean]
    BY <1>2 DEF Shape, Fields
  <2>. QED  BY <1>1, <2>1 DEF PruneBucket
<1>4. PICK r : r = [me EXCEPT !.pc = "erase", !.at = Absent, !.unclean = u]
  OBVIOUS
<1>5. /\ Shape(r) /\ r.pc = "erase" /\ r.op = me.op /\ r.kinds = me.kinds /\ r.todo = me.todo
      /\ r.scope = me.scope /\ r.name = me.name /\ r.errors = me.errors
  BY <1>2, <1>4 DEF Shape, Fields
<1>6. client'[c] = r /\ client' = [d \in Clients |-> client'[d]]
  BY <1>3, <1>4, Parts, HoldIs
<1>7. Meant(r) = Meant(me)
  BY <1>5 DEF Meant
<1>8. Wiping(store, r)
  BY <1>2, <1>5, <1>7 DEF Wiping
<1>9. Serves(store, r, spoiled)
  BY <1>2, <1>5, <1>8 DEF Serves, Putting, Dropping, PuttingBack, Promised
<1>. QED  BY <1>2, <1>6, <1>9 DEF RequestsIInv

LEMMA ConfigSetKeeps ==
  ASSUME NEW c \in Clients, RequestsIInv(c), NEW s, NEW n, ConfigSet(c, s, n) PROVE RequestsIInv(c)'
<1>1. PICK r : r = [Free EXCEPT !.op = "config", !.pc = "relist", !.scope = s, !.name = n, !.kinds = AppKinds]
  OBVIOUS
<1>2. Shape(r) /\ r.op = "config" /\ r.pc = "relist"
  BY <1>1 DEF Free, Shape, Fields
<1>3. UNCHANGED <<store, spoiled>> /\ (~spoiled => Unique(store)) /\ store = [q \in Resources |-> store[q]]
  BY DEF RequestsIInv, Serves, ConfigSet, NewRequest, Serving
<1>4. client'[c] = r /\ client' = [d \in Clients |-> client'[d]]
  BY <1>1, Parts, HoldIs DEF ConfigSet
<1>5. Serves(store, r, spoiled)
  BY <1>2, <1>3 DEF Serves, Wiping, Putting, Dropping, PuttingBack, Promised
<1>. QED  BY <1>3, <1>4, <1>5 DEF RequestsIInv

LEMMA RelistKeeps ==
  ASSUME NEW c \in Clients, RequestsIInv(c), Relist(c) PROVE RequestsIInv(c)'
<1>1. PICK me : me = client[c]
  OBVIOUS
<1>2. /\ Shape(me) /\ me.op = "config" /\ me.pc = "relist" /\ (~spoiled => Unique(store))
      /\ store = [r \in Resources |-> store[r]] /\ UNCHANGED <<store, spoiled>>
  BY <1>1, Parts DEF Relist, Serving, PuttingBack
<1>3. ASSUME NEW r, client'[c] = r, client' = [d \in Clients |-> client'[d]], Shape(r), r.op = "config",
             \/ r.pc \in {"relist", "answered"}
             \/ r.pc = "putBack" /\ \A e \in r.todo : e[1] \in Resources /\ store[e[1]] = e[2]
      PROVE  RequestsIInv(c)'
  BY <1>2, <1>3 DEF Serves, Wiping, Putting, Dropping, PuttingBack, Promised, RequestsIInv
<1>4. ASSUME NEW k \in me.kinds, NEW read,
             read = {<<q, store[q]>> : q \in {q \in In(me.scope, k) : me.name # Absent => q.name = me.name}},
             Hold(c, [me EXCEPT !.pc = "putBack", !.kinds = @ \ {k}, !.todo = read])
      PROVE  RequestsIInv(c)'
  <2>1. PICK r : r = [me EXCEPT !.pc = "putBack", !.kinds = @ \ {k}, !.todo = read]
    OBVIOUS
  <2>2. Shape(r) /\ r.pc = "putBack" /\ r.op = me.op /\ r.todo = read
    BY <1>2, <2>1 DEF Shape, Fields
  <2>3. client'[c] = r /\ client' = [d \in Clients |-> client'[d]]
    BY <1>4, <2>1, Parts, HoldIs
  <2>4. \A e \in read : e[1] \in Resources /\ store[e[1]] = e[2]
    BY <1>4 DEF In, Stored
  <2>. QED  BY <1>2, <1>3, <2>2, <2>3, <2>4
<1>5. ASSUME NEW k \in me.kinds, Hold(c, [me EXCEPT !.kinds = @ \ {k}])
      PROVE  RequestsIInv(c)'
  <2>1. PICK r : r = [me EXCEPT !.kinds = @ \ {k}]
    OBVIOUS
  <2>2. Shape(r) /\ r.pc = "relist" /\ r.op = me.op
    BY <1>2, <2>1 DEF Shape, Fields
  <2>3. client'[c] = r /\ client' = [d \in Clients |-> client'[d]]
    BY <1>5, <2>1, Parts, HoldIs
  <2>. QED  BY <1>2, <1>3, <2>2, <2>3
<1>6. CASE Answer(c, FALSE)
  <2>1. PICK r : r = [me EXCEPT !.pc = "answered", !.errors = FALSE]
    OBVIOUS
  <2>2. Shape(r) /\ r.pc = "answered" /\ r.op = me.op
    BY <1>2, <2>1 DEF Shape, Fields
  <2>3. client'[c] = r /\ client' = [d \in Clients |-> client'[d]]
    BY <1>1, <1>6, <2>1, Parts, HoldIs DEF Answer
  <2>. QED  BY <1>2, <1>3, <2>2, <2>3
<1>. QED  BY <1>1, <1>4, <1>5, <1>6 DEF Relist

\* A manifest is put back as it was read, and nobody wrote in between.
LEMMA PutBackKeeps ==
  ASSUME NEW c \in Clients, RequestsIInv(c), PutBack(c) PROVE RequestsIInv(c)'
<1>1. PICK me : me = client[c]
  OBVIOUS
<1>2. /\ Shape(me) /\ me.op = "config" /\ me.pc = "putBack" /\ (~spoiled => Unique(store))
      /\ store = [r \in Resources |-> store[r]] /\ UNCHANGED spoiled
      /\ \A e \in me.todo : e[1] \in Resources /\ store[e[1]] = e[2]
  BY <1>1, Parts DEF PutBack, Serving, PuttingBack
<1>3. ASSUME NEW e \in me.todo, Hold(c, [me EXCEPT !.todo = @ \ {e}]),
             store' = [store EXCEPT ![e[1]] = e[2]] \/ UNCHANGED store
      PROVE  RequestsIInv(c)'
  <2>1. PICK r : r = [me EXCEPT !.todo = @ \ {e}]
    OBVIOUS
  <2>2. Shape(r) /\ r.pc = "putBack" /\ r.op = me.op /\ r.todo = me.todo \ {e}
    BY <1>2, <2>1 DEF Shape, Fields
  <2>3. client'[c] = r /\ client' = [d \in Clients |-> client'[d]]
    BY <1>3, <2>1, Parts, HoldIs
  <2>4. store' = store
    BY <1>2, <1>3
  <2>5. Serves(store, r, spoiled)
    BY <1>2, <2>2 DEF Serves, Wiping, Putting, Dropping, PuttingBack, Promised
  <2>. QED  BY <1>2, <2>3, <2>4, <2>5 DEF RequestsIInv
<1>4. CASE Proceed(c, "relist") /\ UNCHANGED store
  BY <1>2, <1>1, <1>4, Parts, HoldIs DEF Shape, Fields, Proceed, Serves, Wiping, Putting, Dropping,
     PuttingBack, Promised, RequestsIInv
<1>. QED  BY <1>1, <1>3, <1>4 DEF PutBack
-----------------------------------------------------------------------------
(* The accounts of a delete and a wipe.                                       *)

AccountsOf(c) == Accounts(store, buckets, client[c])

LEMMA NothingGone ==
  ASSUME NEW st, NEW bs, NEW me, me.gone = {}, me.op \notin {"wipe", "delete", "deleteOne"},
         me.pc \notin {"list", "erase", "bucket"}
  PROVE  Accounts(st, bs, me)
BY DEF Accounts

\* No other request deletes anything of which it keeps account.
LEMMA OthersAccount ==
  ASSUME NEW c \in Clients, RequestsIInv(c), AccountsOf(c),
         \/ \E b \in Bodies : ApplyBodies(c, b)
         \/ \E s, n : ConfigSet(c, s, n)
         \/ PutNext(c) \/ PlanPrune(c) \/ DropNext(c) \/ Relist(c) \/ PutBack(c) \/ Forget(c)
  PROVE  AccountsOf(c)'
<1>1. PICK me : me = client[c]
  OBVIOUS
<1>2. Shape(me) /\ client = [d \in Clients |-> client[d]] /\ Putting(store, me, spoiled) /\ Dropping(store, me)
      /\ PuttingBack(store, me) /\ Accounts(store, buckets, me)
  BY <1>1, Parts DEF AccountsOf
<1>3. me.pc \in {"put", "drop", "relist", "putBack"} => me.op \in {"apply", "config"} /\ me.gone = {}
  BY <1>2 DEF Putting, Dropping, PuttingBack, Accounts
<1>4. ASSUME NEW r, Hold(c, r), r.gone = {}, r.op \notin {"wipe", "delete", "deleteOne"},
             r.pc \notin {"list", "erase", "bucket"}
      PROVE  AccountsOf(c)'
  <2>1. client'[c] = r
    BY <1>2, <1>4, HoldIs
  <2>. QED  BY <1>4, <2>1, NothingGone DEF AccountsOf
<1>5. CASE \E b \in Bodies : ApplyBodies(c, b)
  BY <1>4, <1>5 DEF ApplyBodies, Free
<1>6. CASE \E s, n : ConfigSet(c, s, n)
  BY <1>4, <1>6 DEF ConfigSet, Free
<1>7. CASE Forget(c)
  BY <1>4, <1>7 DEF Forget, Free
<1>8. CASE PutNext(c)
  BY <1>1, <1>2, <1>3, <1>4, <1>8 DEF PutNext, Serving, Answer, Shape, Fields
<1>9. CASE PlanPrune(c)
  BY <1>1, <1>2, <1>3, <1>4, <1>9 DEF PlanPrune, Serving, Shape, Fields
<1>10. CASE DropNext(c)
  BY <1>1, <1>2, <1>3, <1>4, <1>10 DEF DropNext, Serving, Answer, Shape, Fields
<1>11. CASE Relist(c)
  BY <1>1, <1>2, <1>3, <1>4, <1>11 DEF Relist, Serving, Answer, Shape, Fields
<1>12. CASE PutBack(c)
  BY <1>1, <1>2, <1>3, <1>4, <1>12 DEF PutBack, Serving, Proceed, Shape, Fields
<1>. QED  BY <1>5, <1>6, <1>7, <1>8, <1>9, <1>10, <1>11, <1>12

LEMMA BeginsAccount ==
  ASSUME NEW c \in Clients, RequestsIInv(c),
         \/ \E s, prune : Wipe(c, s, prune)
         \/ \E x \in Resources : \E prune : DeleteName(c, x, prune) \/ DeleteOne(c, x.kind, x.name, prune)
  PROVE  AccountsOf(c)'
<1>4. ASSUME NEW r, Hold(c, r), Shape(r), r.gone = {},
             \/ r.pc = "list" /\ r.op \in {"wipe", "delete"}
             \/ r.pc = "erase" /\ r.op = "deleteOne" /\ r.todo \subseteq Resources /\ r.todo # {}
             \/ r.pc = "answered" /\ r.op = "none"
      PROVE  AccountsOf(c)'
  <2>1. client'[c] = r
    BY <1>4, Parts, HoldIs
  <2>2. Accounts(store', buckets', r)
    BY <1>4 DEF Accounts
  <2>. QED  BY <2>1, <2>2 DEF AccountsOf
<1>1. ASSUME NEW s, NEW prune, Wipe(c, s, prune) PROVE AccountsOf(c)'
  <2>1. PICK r : r = [Free EXCEPT !.op = "wipe", !.pc = "list", !.scope = s, !.prune = prune,
                               !.kinds = {q.kind : q \in Resources}]
    OBVIOUS
  <2>2. Shape(r) /\ r.op = "wipe" /\ r.pc = "list" /\ r.gone = {}
    BY <2>1 DEF Free, Shape, Fields
  <2>. QED  BY <1>1, <1>4, <2>1, <2>2 DEF Wipe
<1>2. ASSUME NEW x \in Resources, NEW prune, DeleteName(c, x, prune) PROVE AccountsOf(c)'
  <2>1. PICK r : r = [Free EXCEPT !.op = "delete", !.pc = "list", !.scope = x.scope, !.name = x.name,
                               !.prune = prune, !.kinds = {q.kind : q \in Resources}]
    OBVIOUS
  <2>2. Shape(r) /\ r.op = "delete" /\ r.pc = "list" /\ r.gone = {}
    BY <2>1 DEF Free, Shape, Fields
  <2>. QED  BY <1>2, <1>4, <2>1, <2>2 DEF DeleteName
<1>3. ASSUME NEW x \in Resources, NEW prune, DeleteOne(c, x.kind, x.name, prune) PROVE AccountsOf(c)'
  <2>1. PICK found : found = {r \in Stored : r.kind = x.kind /\ r.name = x.name}
    OBVIOUS
  <2>2. found \subseteq Resources
    BY <2>1 DEF Stored
  <2>3. CASE Cardinality(found) = 1
    <3>1. PICK r : r = [Free EXCEPT !.op = "deleteOne", !.pc = "erase", !.prune = prune, !.todo = found]
      OBVIOUS
    <3>2. Shape(r) /\ r.op = "deleteOne" /\ r.pc = "erase" /\ r.gone = {} /\ r.todo = found
      BY <3>1 DEF Free, Shape, Fields
    <3>3. found # {}
      BY <2>3, FS_EmptySet
    <3>. QED  BY <1>3, <1>4, <2>1, <2>2, <2>3, <3>1, <3>2, <3>3 DEF DeleteOne
  <2>4. CASE Cardinality(found) # 1
    <3>1. PICK r : r = [Free EXCEPT !.pc = "answered", !.errors = TRUE]
      OBVIOUS
    <3>2. Shape(r) /\ r.op = "none" /\ r.pc = "answered" /\ r.gone = {}
      BY <3>1 DEF Free, Shape, Fields
    <3>. QED  BY <1>3, <1>4, <2>1, <2>4, <3>1, <3>2 DEF DeleteOne
  <2>. QED  BY <2>3, <2>4
<1>. QED  BY <1>1, <1>2, <1>3

LEMMA ListAccounts ==
  ASSUME NEW c \in Clients, RequestsIInv(c), AccountsOf(c), ListKind(c) PROVE AccountsOf(c)'
<1>1. PICK me : me = client[c]
  OBVIOUS
<1>2. Shape(me) /\ me.pc = "list" /\ Accounts(store, buckets, me) /\ UNCHANGED store
  BY <1>1, Parts DEF AccountsOf, ListKind, Serving
<1>3. ASSUME NEW r, Hold(c, r), Accounts(store, buckets', r) PROVE AccountsOf(c)'
  BY <1>2, <1>3, Parts, HoldIs DEF AccountsOf
<1>4. ASSUME NEW k \in me.kinds, NEW found, found = {r \in In(me.scope, k) : me.op = "delete" => r.name = me.name},
             Hold(c, [me EXCEPT !.pc = "erase", !.kinds = @ \ {k}, !.todo = found]), UNCHANGED buckets
      PROVE  AccountsOf(c)'
  <2>1. PICK r : r = [me EXCEPT !.pc = "erase", !.kinds = @ \ {k}, !.todo = found]
    OBVIOUS
  <2>2. /\ r.pc = "erase" /\ r.op = me.op /\ r.todo = found /\ r.gone = me.gone /\ r.unclean = me.unclean
        /\ r.scope = me.scope /\ r.name = me.name /\ r.errors = me.errors /\ r.prune = me.prune
    BY <1>2, <2>1 DEF Shape, Fields
  <2>3. found \subseteq Resources /\ (me.op = "delete" => found \subseteq Meant(me)) /\ Meant(r) = Meant(me)
    BY <1>4, <2>2 DEF In, Stored, Meant
  <2>4. Accounts(store, buckets, r)
    BY <1>2, <2>2, <2>3 DEF Accounts
  <2>. QED  BY <1>3, <1>4, <2>1, <2>4
<1>5. ASSUME NEW k \in me.kinds, Hold(c, [me EXCEPT !.kinds = @ \ {k}, !.errors = TRUE]), UNCHANGED buckets
      PROVE  AccountsOf(c)'
  <2>1. PICK r : r = [me EXCEPT !.kinds = @ \ {k}, !.errors = TRUE]
    OBVIOUS
  <2>2. /\ r.pc = "list" /\ r.op = me.op /\ r.gone = me.gone /\ r.unclean = me.unclean
        /\ r.scope = me.scope /\ r.name = me.name /\ r.errors /\ r.prune = me.prune
    BY <1>2, <2>1 DEF Shape, Fields
  <2>3. Meant(r) = Meant(me)
    BY <2>2 DEF Meant
  <2>4. Accounts(store, buckets, r)
    BY <1>2, <2>2, <2>3 DEF Accounts
  <2>. QED  BY <1>3, <1>5, <2>1, <2>4
<1>6. ASSUME NEW r, Hold(c, r), r.pc = "answered", r.op = me.op, r.gone = me.gone, r.scope = me.scope, r.name = me.name,
             r.prune = me.prune, me.unclean \subseteq r.unclean, buckets' \subseteq buckets,
             ~r.errors => ~me.errors,
             ~r.errors /\ me.op = "wipe" /\ <<me.scope, Absent>> \in buckets' => <<me.scope, Absent>> \in r.unclean,
             ~r.errors /\ me.op = "delete" => me.gone # {}
      PROVE  AccountsOf(c)'
  <2>1. Meant(r) = Meant(me)
    BY <1>6 DEF Meant
  <2>2. Accounts(store, buckets', r)
    BY <1>2, <1>6, <2>1 DEF Accounts
  <2>. QED  BY <1>3, <1>6, <2>2
<1>7. CASE me.kinds = {} /\ me.op # "wipe" /\ Answer(c, me.errors \/ (me.op = "delete" /\ me.gone = {}))
           /\ UNCHANGED buckets
  <2>1. PICK e : e = (me.errors \/ (me.op = "delete" /\ me.gone = {}))
    OBVIOUS
  <2>2. PICK r : r = [me EXCEPT !.pc = "answered", !.errors = e]
    OBVIOUS
  <2>3. /\ r.pc = "answered" /\ r.op = me.op /\ r.gone = me.gone /\ r.unclean = me.unclean
        /\ r.scope = me.scope /\ r.name = me.name /\ r.errors = e /\ r.prune = me.prune
    BY <1>2, <2>2 DEF Shape, Fields
  <2>4. Hold(c, r)
    BY <1>1, <1>7, <2>1, <2>2 DEF Answer
  <2>. QED  BY <1>6, <1>7, <2>1, <2>3, <2>4
<1>8. CASE Answer(c, me.errors) /\ buckets' = buckets \ {<<me.scope, Absent>>} /\ me.op = "wipe"
  <2>2. PICK r : r = [me EXCEPT !.pc = "answered", !.errors = me.errors]
    OBVIOUS
  <2>3. /\ r.pc = "answered" /\ r.op = me.op /\ r.gone = me.gone /\ r.unclean = me.unclean
        /\ r.scope = me.scope /\ r.name = me.name /\ r.errors = me.errors /\ r.prune = me.prune
    BY <1>2, <2>2 DEF Shape, Fields
  <2>4. Hold(c, r)
    BY <1>1, <1>8, <2>2 DEF Answer
  <2>. QED  BY <1>6, <1>8, <2>3, <2>4
<1>9. CASE Hold(c, [me EXCEPT !.pc = "answered", !.unclean = @ \cup {<<me.scope, Absent>>}])
           /\ UNCHANGED buckets /\ me.op = "wipe"
  <2>2. PICK r : r = [me EXCEPT !.pc = "answered", !.unclean = @ \cup {<<me.scope, Absent>>}]
    OBVIOUS
  <2>3. /\ r.pc = "answered" /\ r.op = me.op /\ r.gone = me.gone /\ r.unclean = me.unclean \cup {<<me.scope, Absent>>}
        /\ r.scope = me.scope /\ r.name = me.name /\ r.errors = me.errors /\ r.prune = me.prune
    BY <1>2, <2>2 DEF Shape, Fields
  <2>. QED  BY <1>6, <1>9, <2>2, <2>3
<1>. QED  BY <1>1, <1>4, <1>5, <1>7, <1>8, <1>9 DEF ListKind

LEMMA EraseAccounts ==
  ASSUME NEW c \in Clients, RequestsIInv(c), AccountsOf(c), Erase(c) PROVE AccountsOf(c)'
<1>1. PICK me : me = client[c]
  OBVIOUS
<1>2. Shape(me) /\ me.pc = "erase" /\ Accounts(store, buckets, me) /\ UNCHANGED buckets
      /\ store = [r \in Resources |-> store[r]]
  BY <1>1, Parts DEF AccountsOf, Erase, Serving
<1>3. ASSUME NEW r, Hold(c, r), Accounts(store', buckets, r) PROVE AccountsOf(c)'
  BY <1>2, <1>3, Parts, HoldIs DEF AccountsOf
<1>4. ASSUME NEW x \in me.todo, Hold(c, Deleted(me, x)), store' = [store EXCEPT ![x] = Absent]
      PROVE  AccountsOf(c)'
  <2>1. PICK r : r = Deleted(me, x) /\ Deletes(me, x, r)
    BY <1>2, DeletedIs
  <2>2. Meant(r) = Meant(me)
    BY <2>1 DEF Meant, Deletes
  <2>3. x \in Resources /\ store'[x] = Absent /\ \A q : store[q] = Absent => store'[q] = Absent
    BY <1>2, <1>4 DEF Accounts
  <2>4. r.pc \in {"erase", "bucket"} /\ r.op = me.op
    BY <1>2, <2>1 DEF Deletes
  <2>5. Accounts(store', buckets, r)
    BY <1>2, <1>4, <2>1, <2>2, <2>3, <2>4 DEF Accounts, Deletes
  <2>. QED  BY <1>3, <1>4, <2>1, <2>5
<1>5. ASSUME NEW x \in me.todo, Hold(c, [me EXCEPT !.todo = @ \ {x}, !.errors = TRUE]), UNCHANGED store
      PROVE  AccountsOf(c)'
  <2>1. PICK r : r = [me EXCEPT !.todo = @ \ {x}, !.errors = TRUE]
    OBVIOUS
  <2>2. /\ r.pc = "erase" /\ r.op = me.op /\ r.todo = me.todo \ {x} /\ r.gone = me.gone /\ r.unclean = me.unclean
        /\ r.scope = me.scope /\ r.name = me.name /\ r.errors /\ r.prune = me.prune
    BY <1>2, <2>1 DEF Shape, Fields
  <2>3. Meant(r) = Meant(me)
    BY <2>2 DEF Meant
  <2>4. Accounts(store, buckets, r)
    BY <1>2, <2>2, <2>3 DEF Accounts
  <2>. QED  BY <1>3, <1>5, <2>1, <2>4
<1>6. CASE me.todo = {} /\ Proceed(c, "list") /\ UNCHANGED store
  <2>1. PICK r : r = [me EXCEPT !.pc = "list"]
    OBVIOUS
  <2>2. /\ r.pc = "list" /\ r.op = me.op /\ r.todo = me.todo /\ r.gone = me.gone /\ r.unclean = me.unclean
        /\ r.scope = me.scope /\ r.name = me.name /\ r.errors = me.errors /\ r.prune = me.prune
    BY <1>2, <2>1 DEF Shape, Fields
  <2>3. Meant(r) = Meant(me)
    BY <2>2 DEF Meant
  <2>4. Accounts(store, buckets, r)
    BY <1>2, <1>6, <2>2, <2>3 DEF Accounts
  <2>. QED  BY <1>1, <1>3, <1>6, <2>1, <2>4 DEF Proceed
<1>. QED  BY <1>1, <1>4, <1>5, <1>6 DEF Erase

LEMMA PruneAccounts ==
  ASSUME NEW c \in Clients, RequestsIInv(c), AccountsOf(c), PruneBucket(c) PROVE AccountsOf(c)'
<1>1. PICK me : me = client[c]
  OBVIOUS
<1>2. PICK b : b = BucketOf(me.at)
  OBVIOUS
<1>3. Shape(me) /\ me.pc = "bucket" /\ Accounts(store, buckets, me) /\ UNCHANGED store
  BY <1>1, Parts DEF AccountsOf, PruneBucket, Serving
<1>4. ASSUME NEW r, Hold(c, r), r.pc = "erase", r.op = me.op, r.todo = me.todo, r.gone = me.gone,
             me.unclean \subseteq r.unclean, r.scope = me.scope, r.name = me.name, r.errors = me.errors,
             r.prune = me.prune, buckets' \subseteq buckets, b \in buckets' => b \in r.unclean
      PROVE  AccountsOf(c)'
  <2>1. Meant(r) = Meant(me)
    BY <1>4 DEF Meant
  <2>2. Accounts(store, buckets', r)
    BY <1>2, <1>3, <1>4, <2>1 DEF Accounts
  <2>. QED  BY <1>3, <1>4, <2>2, Parts, HoldIs DEF AccountsOf
<1>5. CASE Hold(c, [me EXCEPT !.pc = "erase", !.at = Absent]) /\ buckets' = buckets \ {b}
  BY <1>3, <1>4, <1>5 DEF Shape, Fields
<1>6. CASE Hold(c, [me EXCEPT !.pc = "erase", !.at = Absent, !.unclean = @ \cup {b}]) /\ UNCHANGED buckets
  BY <1>3, <1>4, <1>6 DEF Shape, Fields
<1>. QED  BY <1>1, <1>2, <1>5, <1>6 DEF PruneBucket

-----------------------------------------------------------------------------
(* The invariant holds, and says what the run checks.                         *)

LEMMA RequestsStarts ==
  ASSUME NEW c \in Clients, RequestsInit PROVE RequestsIInv(c)
BY FreeServes DEF RequestsInit, StoredIn, Unique, HostOnce, Free, Shape, Fields, RequestsIInv

LEMMA RequestsStep ==
  ASSUME NEW c, Clients = {c}, RequestsIInv(c), [RequestsNext]_requestsVars PROVE RequestsIInv(c)'
BY ApplyBodiesKeeps, WipeKeeps, DeleteNameKeeps, DeleteOneKeeps, ConfigSetKeeps, PutNextKeeps,
   PlanPruneKeeps, DropNextKeeps, ListKindKeeps, EraseKeeps, PruneBucketKeeps, RelistKeeps, PutBackKeeps, ForgetKeeps DEF
   requestsVars, RequestsIInv, RequestsNext

LEMMA AccountsStep ==
  ASSUME NEW c, Clients = {c}, RequestsIInv(c), AccountsOf(c), [RequestsNext]_requestsVars PROVE AccountsOf(c)'
<1>1. CASE UNCHANGED requestsVars
  BY <1>1 DEF requestsVars, AccountsOf
<1>2. CASE RequestsNext
  BY <1>2, OthersAccount, BeginsAccount, ListAccounts, EraseAccounts, PruneAccounts DEF RequestsNext
<1>. QED  BY <1>1, <1>2

LEMMA RequestsMeans ==
  ASSUME NEW c, Clients = {c}, RequestsIInv(c), AccountsOf(c) PROVE RequestsTrue
<1>1. PICK me : me = client[c]
  OBVIOUS
<1>2. Shape(me) /\ Promised(store, me) /\ (~spoiled /\ me.pc # "put" => Unique(store))
  BY <1>1, Parts
<1>3. Stored = StoredIn(store)
  BY DEF Stored, StoredIn
<1>4. HostsUnique
  BY <1>1, <1>2, <1>3 DEF HostsUnique, Serving, Unique, HostOnce
<1>5. ASSUME me.pc = "answered", ~me.errors, me.op = "apply"
      PROVE  /\ \A r \in Body(me.list) : store[r] = Kept(me.list[LastOf(me.list, r)])
             /\ me.prune => \A q \in Body(me.list) : In(q.scope, q.kind) \subseteq Body(me.list)
  BY <1>2, <1>5, <1>3 DEF Promised, ListStored, Beside, In
<1>6. ASSUME me.pc = "answered", ~me.errors, me.op \in {"wipe", "delete"}
      PROVE  \A r \in Stored : r.scope # me.scope \/ (me.op = "delete" /\ r.name # me.name)
  BY <1>2, <1>6, <1>3 DEF Promised, Meant, StoredIn
<1>7. Accounts(store, buckets, me)
  BY <1>1 DEF AccountsOf
<1>8. ASSUME me.pc = "answered", me.op = "delete", ~me.errors
      PROVE  \E r \in me.gone : BucketOf(r) = <<me.scope, me.name>>
  BY <1>7, <1>8 DEF Accounts, Meant, BucketOf
<1>9. ASSUME me.pc = "answered"
      PROVE  /\ \A r \in me.gone : store[r] = Absent
             /\ me.prune => \A r \in me.gone : Told(me, BucketOf(r))
             /\ me.op = "wipe" /\ ~me.errors /\ <<me.scope, Absent>> \in buckets =>
                  <<me.scope, Absent>> \in me.unclean
             /\ me.op = "deleteOne" /\ ~me.errors => me.gone # {}
  BY <1>7, <1>9 DEF Accounts, Told
<1>10. AnswersTrue
  <2>. SUFFICES ASSUME NEW d \in Clients, Serving(d, "answered") PROVE AnswerTrue(client[d])
    BY DEF AnswersTrue
  <2>3. client[d] = me /\ me.pc = "answered"
    BY <1>1 DEF Serving
  <2>2. me.op = "wipe" /\ ~me.errors => \A r \in Stored : r.scope # me.scope
    BY <1>6, <2>3
  <2>4. (\A r \in me.gone : store[r] = Absent) /\ (me.prune => \A r \in me.gone : Told(me, BucketOf(r)))
    BY <2>3, <1>9
  <2>5. me.op = "wipe" /\ ~me.errors => (\A r \in Stored : r.scope # me.scope) /\ Told(me, <<me.scope, Absent>>)
    BY <2>2, <2>3, <1>9 DEF Told
  <2>6. me.op = "delete" /\ ~me.errors => \A r \in Stored : r.scope # me.scope \/ r.name # me.name
    BY <2>3, <1>6
  <2>7. AnswerTrue(me)
    BY <2>4, <2>5, <2>6, <2>3, <1>5, <1>8, <1>9 DEF AnswerTrue
  <2>. QED  BY <2>3, <2>7
<1>. QED  BY <1>4, <1>10 DEF RequestsTrue

\* With one request at a time (the handlers of api.go take no lock), whatever
\* the bodies and whichever store calls fail: no two stored ingresses have one
\* host between requests, as checkIngressHostCollisions is there for, unless an
\* apply failed half way or expanded an ingress macro; an apply that answers
\* without errors stored the last version of each manifest and, by
\* computePruneTargets, left nothing else in its kinds and scopes; a wipe or a
\* delete that answers without errors left no manifest of what it named; and what
\* a delete or a wipe lists as deleted is so, with its bucket when it prunes, but
\* for the buckets its summary says it could not delete (pruneResource).
THEOREM RequestsCorrect ==
  ASSUME NEW c, Clients = {c}
  PROVE  RequestsSpec => []RequestsTrue
<1>1. RequestsInit => RequestsIInv(c) /\ AccountsOf(c)
  BY RequestsStarts, NothingGone DEF RequestsInit, AccountsOf, Free
<1>2. RequestsIInv(c) /\ AccountsOf(c) /\ [RequestsNext]_requestsVars => (RequestsIInv(c) /\ AccountsOf(c))'
  BY RequestsStep, AccountsStep
<1>3. RequestsIInv(c) /\ AccountsOf(c) => RequestsTrue
  BY RequestsMeans
<1>. QED  BY <1>1, <1>2, <1>3, PTL DEF RequestsSpec

-----------------------------------------------------------------------------
(* DeployRuns. A record is of a tree an image was made from, and, while        *)
(* nothing disturbed the runs, of the image: what a run has built and not yet  *)
(* recorded, and what it has yet to release, are the only exceptions, and      *)
(* there is one run.                                                           *)

Trees == {TreeAt[c][p] : c \in Commits, p \in Paths} \cup {Unset}
DeploySpecs == {SpecAt[c][a] : c \in Commits, a \in Apps} \cup {Unset}
Triggers == [enabled : BOOLEAN, built : [Paths -> Trees]]
InFile == {"build", "building", "recordFailed", "before", "apply", "release"}
AtWork == InFile \cup {"file", "touch"}
RunStates ==
  [pc : AtWork \cup {"idle", "answered"}, commit : Commits \cup {0},
   files : Seq(ToSet(Files)), takes : SUBSET ToSet(Files), copy : Triggers \cup {Unset},
   todo : Seq(Apps), loaded : BOOLEAN, fresh : SUBSET Paths, rebuilt : SUBSET Apps,
   before : {<<>>} \cup UNION {[S -> DeploySpecs] : S \in SUBSET Apps}, applied : SUBSET ToSet(Files),
   ok : BOOLEAN]

\* What the places of a run say of the rest of it.
Placed(r) ==
  /\ r.pc \in AtWork => r.copy \in Triggers /\ r.commit \in Commits
  /\ r.pc \in InFile => r.files # <<>> /\ r.rebuilt \subseteq ToSet(AppsOf[Head(r.files)])
  /\ r.pc \in InFile \ {"release"} => ToSet(r.todo) \subseteq ToSet(AppsOf[Head(r.files)])
  /\ r.pc = "building" => r.todo # <<>>
  /\ r.pc = "release" => Head(r.files) \in r.applied
  /\ r.fresh = {PathOf[a] : a \in r.rebuilt}
  /\ r.pc \in {"idle", "file", "touch"} => r.rebuilt = {}
  /\ r.pc = "idle" => r.applied = {}

DeployStore ==
  /\ trigger \in Triggers \cup {Unset}
  /\ made \in [Apps -> SUBSET Trees]
  /\ image \in [Apps -> Trees] /\ specs \in [Apps -> DeploySpecs]
  /\ fleet \in [Released -> [image : Trees, spec : DeploySpecs] \cup {Unset}]
  /\ count \in [runs : 0 .. MaxRuns, troubles : 0 .. MaxTroubles]
  /\ disturbed \in BOOLEAN

DeployRunsType ==
  DeployStore /\ run \in [Runs -> RunStates] /\ \A g \in Runs : Placed(run[g])

Aim(r, a) == TreeAt[r.commit][PathOf[a]]

\* A tree that is recorded, or that a run is to record, was built.
WasBuilt(a, t) == t = Unset \/ t \in made[a]
TriggerHeld == trigger # Unset => \A a \in Apps : WasBuilt(a, trigger.built[PathOf[a]])
Held(r) ==
  /\ r.pc \in AtWork => \A a \in Apps : WasBuilt(a, r.copy.built[PathOf[a]])
  /\ \A a \in r.rebuilt : WasBuilt(a, Aim(r, a))
RecordsHeld == TriggerHeld /\ \A g \in Runs : Held(run[g])

\* Built by the run, and not yet in the record.
Unsaved(r) == IF r.pc \in {"build", "building"} THEN r.rebuilt ELSE {}
\* Replicas the run is still to release.
SameSpec(r, a) == r.before[a] # Unset /\ r.before[a] = SpecAt[r.commit][a]
Lagging(r) ==
  IF r.pc \in {"build", "building", "before", "apply"} THEN r.rebuilt
  ELSE IF r.pc = "release" THEN {a \in ToSet(r.todo) \cap Released : a \in r.rebuilt \/ ~SameSpec(r, a)}
  ELSE {}

\* With r the only run: the trigger, and the replicas.
RecordTrue(r) == \A a \in Apps :
  trigger # Unset => a \in Unsaved(r) \/ trigger.built[PathOf[a]] \in {Unset, image[a]}
FleetTrue(r) == \A a \in Released :
  a \in Lagging(r) \/ fleet[a] \in {Unset, [image |-> image[a], spec |-> specs[a]]}
\* The run's own view: its copy, its file, what it applied.
Views(r) ==
  /\ r.pc = "recordFailed" => r.rebuilt = {} /\ r.applied = {}
  /\ r.pc \in AtWork => \A a \in Apps : a \in Unsaved(r) \/ r.copy.built[PathOf[a]] \in {Unset, image[a]}
  /\ \A a \in r.rebuilt : image[a] = Aim(r, a)
  /\ r.pc \in {"build", "building"} =>
       \A a \in ToSet(AppsOf[Head(r.files)]) \ ToSet(r.todo) : image[a] = Aim(r, a)
  /\ r.pc \in {"before", "apply", "release"} =>
       \A a \in ToSet(AppsOf[Head(r.files)]) : image[a] = Aim(r, a)
  /\ r.pc = "apply" => r.before = [a \in Released \cap ToSet(AppsOf[Head(r.files)]) |-> specs[a]]
  /\ \A f \in r.applied : \A a \in ToSet(AppsOf[f]) :
       specs[a] = SpecAt[r.commit][a] /\ image[a] = Aim(r, a)

Sole(g) == \A h \in Runs : h = g \/ RunAt(h, "idle")
CleanRun(r) == RecordTrue(r) /\ FleetTrue(r) /\ Views(r)
CleanRuns ==
  /\ \A g \in Runs : RunAt(g, "idle") \/ Sole(g)
  /\ \A g \in Runs : Sole(g) => CleanRun(run[g])

DeployIInv == DeployRunsType /\ RecordsHeld /\ (~disturbed => CleanRuns)

\* No two apps are built from the same directory.
OwnContexts == \A a, b \in Apps : PathOf[a] = PathOf[b] => a = b

USE DeployRunsAssumption

LEMMA SeqTails ==
  ASSUME NEW S, NEW s \in Seq(S), s # <<>>
  PROVE  /\ Head(s) \in S /\ Tail(s) \in Seq(S) /\ Head(s) \in ToSet(s)
         /\ ToSet(s) = {Head(s)} \cup ToSet(Tail(s))
<1>1. Head(s) \in S /\ Tail(s) \in Seq(S) /\ Len(s) \in Nat \ {0} /\ Len(Tail(s)) = Len(s) - 1
  OBVIOUS
<1>2. \A i \in 1 .. Len(Tail(s)) : Tail(s)[i] = s[i + 1]
  BY HeadTailProperties
<1>3. DOMAIN s = 1 .. Len(s) /\ DOMAIN Tail(s) = 1 .. Len(Tail(s)) /\ Head(s) = s[1]
  BY <1>1
<1>4. ToSet(Tail(s)) \subseteq ToSet(s) /\ Head(s) \in ToSet(s)
  BY <1>1, <1>2, <1>3 DEF ToSet
<1>5. ASSUME NEW i \in 1 .. Len(s), i # 1 PROVE s[i] \in ToSet(Tail(s))
  <2>1. i - 1 \in 1 .. Len(Tail(s)) /\ Tail(s)[i - 1] = s[i]
    BY <1>1, <1>2, <1>5
  <2>. QED  BY <2>1, <1>3 DEF ToSet
<1>6. ToSet(s) \subseteq {Head(s)} \cup ToSet(Tail(s))
  BY <1>3, <1>5 DEF ToSet
<1>. QED  BY <1>1, <1>4, <1>6

LEMMA InFiles ==
  ASSUME NEW f \in ToSet(Files)
  PROVE  AppsOf[f] \in Seq(Apps) /\ ToSet(AppsOf[f]) \subseteq Apps
<1>1. AppsOf[f] \in Seq(Apps)
  OBVIOUS
<1>. QED  BY <1>1 DEF ToSet

LEMMA Aims ==
  ASSUME NEW c \in Commits, NEW a \in Apps
  PROVE  /\ TreeAt[c][PathOf[a]] \in Trees \ {Unset} /\ PathOf[a] \in Paths
         /\ SpecAt[c][a] \in DeploySpecs \ {Unset}
BY DEF Trees, Paths, DeploySpecs

LEMMA NoRunIs ==
  /\ NoRun \in RunStates /\ Placed(NoRun) /\ Held(NoRun) /\ Views(NoRun)
  /\ Unsaved(NoRun) = {} /\ Lagging(NoRun) = {}
  /\ \A p \in {"idle", "answered"} :
       LET r == [NoRun EXCEPT !.pc = p]
       IN r \in RunStates /\ Placed(r) /\ Held(r) /\ Views(r) /\ Unsaved(r) = {} /\ Lagging(r) = {}
<1>1. NoRun \in RunStates
  BY DEF NoRun, RunStates
<1>2. ASSUME NEW r \in RunStates, r.pc \in {"idle", "answered"}, r.rebuilt = {}, r.applied = {},
             r.fresh = {}
      PROVE  Placed(r) /\ Held(r) /\ Views(r) /\ Unsaved(r) = {} /\ Lagging(r) = {}
  BY <1>2 DEF Placed, Held, Views, Unsaved, Lagging, InFile, AtWork
<1>3. NoRun.pc = "idle" /\ NoRun.rebuilt = {} /\ NoRun.applied = {} /\ NoRun.fresh = {}
  BY DEF NoRun
<1>4. ASSUME NEW p \in {"idle", "answered"}
      PROVE  LET r == [NoRun EXCEPT !.pc = p]
             IN r \in RunStates /\ Placed(r) /\ Held(r) /\ Views(r) /\ Unsaved(r) = {} /\ Lagging(r) = {}
  BY <1>1, <1>2, <1>3 DEF RunStates
<1>. QED  BY <1>1, <1>2, <1>3, <1>4

\* A step of one run, the others where they were.
LEMMA StepKeeps ==
  ASSUME DeployIInv, DeployStore', NEW g \in Runs, NEW r \in RunStates, Go(g, r),
         Placed(r), Held(r)', TriggerHeld', \A a \in Apps : made[a] \subseteq made'[a],
         ~disturbed' => ~disturbed /\ Sole(g) /\ CleanRun(r)'
  PROVE  DeployIInv'
<1>1. /\ run' \in [Runs -> RunStates] /\ run'[g] = r
      /\ \A h \in Runs \ {g} : run'[h] = run[h]
  BY DEF DeployIInv, DeployRunsType, Go
<1>2. DeployRunsType'
  <2>1. \A h \in Runs : Placed(run'[h])
    BY <1>1 DEF DeployIInv, DeployRunsType
  <2>2. (\A h \in Runs : Placed(run[h]))'
    BY <2>1 DEF Placed, InFile, AtWork
  <2>. QED  BY <1>1, <2>2 DEF DeployRunsType
<1>3. RecordsHeld'
  <2>1. ASSUME NEW h \in Runs, h # g PROVE Held(run[h])'
    <3>1. PICK q : q = run[h]
      OBVIOUS
    <3>2. Held(q) /\ run'[h] = q /\ q \in RunStates
      BY <1>1, <2>1, <3>1 DEF DeployIInv, RecordsHeld, DeployRunsType
    <3>3. \A a \in Apps : \A t : WasBuilt(a, t) => WasBuilt(a, t)'
      BY DEF WasBuilt
    <3>4. q.rebuilt \subseteq Apps
      BY <3>2 DEF RunStates
    <3>5. Held(q)'
      BY <3>2, <3>3, <3>4 DEF Held, Aim
    <3>. QED  BY <3>2, <3>5 DEF Held, Aim, WasBuilt
  <2>2. Held(run[g])'
    BY <1>1 DEF Held, Aim, WasBuilt
  <2>. QED  BY <2>1, <2>2 DEF RecordsHeld
<1>4. ASSUME ~disturbed' PROVE CleanRuns'
  <2>1. \A h \in Runs : h = g \/ run'[h].pc = "idle"
    BY <1>1, <1>4 DEF Sole, RunAt
  <2>2. \A h \in Runs : run'[h].pc = "idle" \/ \A k \in Runs : k = h \/ run'[k].pc = "idle"
    BY <2>1
  <2>3. ASSUME NEW h \in Runs, Sole(h)' PROVE CleanRun(run[h])'
    <3>1. CASE h = g
      <4>1. CleanRun(r)' /\ run'[h] = r
        BY <1>1, <1>4, <3>1
      <4>2. RecordTrue(run[h])'
        BY <4>1 DEF CleanRun, RecordTrue
      <4>3. FleetTrue(run[h])'
        BY <4>1 DEF CleanRun, FleetTrue
      <4>4. Views(run[h])'
        <5>1. Views(r)' /\ run'[h] = r
          BY <4>1 DEF CleanRun
        <5>. QED  BY ONLY <5>1 DEF Views
      <4>. QED  BY <4>2, <4>3, <4>4 DEF CleanRun
    <3>2. CASE h # g
      <4>1. r.pc = "idle"
        BY <1>1, <2>3, <3>2 DEF Sole, RunAt
      <4>2. PICK q : q = run'[h]
        OBVIOUS
      <4>3. q.pc = "idle" /\ q \in RunStates /\ Placed(q)
        BY <1>1, <1>2, <2>1, <3>2, <4>2 DEF DeployRunsType, Placed
      <4>4. q.rebuilt = {} /\ q.applied = {}
        BY <4>3 DEF Placed
      <4>5. Unsaved(r) = {} /\ Lagging(r) = {} /\ Unsaved(q) = {} /\ Lagging(q) = {}
        BY <4>1, <4>3 DEF Unsaved, Lagging
      <4>6. RecordTrue(q)' /\ FleetTrue(q)'
        BY <1>4, <4>5 DEF CleanRun, RecordTrue, FleetTrue, Unsaved, Lagging, SameSpec
      <4>7. Views(q)'
        BY <4>3, <4>4 DEF Views, InFile, AtWork
      <4>8. CleanRun(q)'
        BY <4>6, <4>7 DEF CleanRun
      <4>9. RecordTrue(run[h])'
        BY <4>2, <4>8 DEF CleanRun, RecordTrue
      <4>10. FleetTrue(run[h])'
        BY <4>2, <4>8 DEF CleanRun, FleetTrue
      <4>11. Views(run[h])'
        <5>1. Views(q)' /\ q = run'[h]
          BY <4>2, <4>8 DEF CleanRun
        <5>. QED  BY ONLY <5>1 DEF Views
      <4>. QED  BY <4>9, <4>10, <4>11 DEF CleanRun
    <3>. QED  BY <3>1, <3>2
  <2>. QED  BY <2>2, <2>3 DEF CleanRuns, Sole, RunAt
<1>. QED  BY <1>2, <1>3, <1>4 DEF DeployIInv

\* What a step of a run starts from, when nothing disturbed the runs.
LEMMA StepStarts ==
  ASSUME DeployIInv, NEW g \in Runs
  PROVE  /\ run[g] \in RunStates /\ Placed(run[g]) /\ Held(run[g]) /\ TriggerHeld /\ DeployStore
         /\ ~RunAt(g, "idle") /\ ~disturbed => Sole(g) /\ CleanRun(run[g])
BY DEF DeployIInv, DeployRunsType, RecordsHeld, CleanRuns

\* A step that gives the store, the images and the records back as they are.
LEMMA SameStore ==
  ASSUME DeployStore, TriggerHeld, UNCHANGED <<trigger, image, made, specs, fleet>>,
         count' \in [runs : 0 .. MaxRuns, troubles : 0 .. MaxTroubles], disturbed' \in BOOLEAN
  PROVE  /\ DeployStore' /\ TriggerHeld' /\ \A a \in Apps : made[a] \subseteq made'[a]
         /\ \A r : Held(r) => Held(r)'
         /\ \A r : CleanRun(r) => CleanRun(r)'
BY DEF DeployStore, TriggerHeld, WasBuilt, Held, Aim, CleanRun, RecordTrue, FleetTrue, Views

LEMMA Troubles ==
  ASSUME DeployStore, Trouble, count.troubles < MaxTroubles
  PROVE  count' \in [runs : 0 .. MaxRuns, troubles : 0 .. MaxTroubles]
BY DEF DeployStore, Trouble

\* The end of a run that fails: clean only if it had built and applied nothing.
LEMMA Fails ==
  ASSUME DeployIInv, NEW g \in Runs, Fail(g), ~RunAt(g, "idle"),
         count' \in [runs : 0 .. MaxRuns, troubles : 0 .. MaxTroubles],
         UNCHANGED <<trigger, image, made, specs, fleet>>
  PROVE  DeployIInv'
<1>1. PICK r : r = [NoRun EXCEPT !.pc = "answered"]
  OBVIOUS
<1>2. /\ r \in RunStates /\ Placed(r) /\ Held(r) /\ Views(r)
      /\ Unsaved(r) = {} /\ Lagging(r) = {}
  BY <1>1, NoRunIs
<1>3. DeployStore' /\ TriggerHeld' /\ Held(r)' /\ \A a \in Apps : made[a] \subseteq made'[a]
  BY <1>2, StepStarts, SameStore DEF Fail, Disturbs, DeployStore
<1>4. ASSUME ~disturbed' PROVE ~disturbed /\ Sole(g) /\ CleanRun(r)'
  BY <1>4, StepStarts, <1>2, <1>3, SameStore DEF Fail, Disturbs, Unsaved, Placed, InFile, Lagging, CleanRun,
     RecordTrue, FleetTrue, DeployStore
<1>. QED  BY <1>1, <1>2, <1>3, <1>4, StepKeeps DEF Fail

LEMMA StartKeeps ==
  ASSUME DeployIInv, NEW g \in Runs, NEW c \in Commits, NEW push \in BOOLEAN, StartRun(g, c, push)
  PROVE  DeployIInv'
<1>1. PICK touched \in SUBSET ToSet(Files) :
        Go(g, IF trigger = Unset \/ ~trigger.enabled \/ touched = {}
              THEN [NoRun EXCEPT !.pc = "answered"]
              ELSE [NoRun EXCEPT !.pc = "file", !.commit = c, !.files = Files,
                                !.takes = IF push THEN touched \ Manual ELSE touched,
                                !.copy = trigger])
  BY DEF StartRun
<1>2. /\ DeployStore' /\ TriggerHeld' /\ \A a \in Apps : made[a] \subseteq made'[a]
      /\ (\A r : Held(r) => Held(r)') /\ (\A r : CleanRun(r) => CleanRun(r)')
  BY StepStarts, SameStore DEF StartRun, DeployStore
<1>3. ASSUME ~disturbed' PROVE ~disturbed /\ Sole(g) /\ CleanRun(run[g])
  BY <1>3 DEF StartRun, Sole, DeployIInv, CleanRuns
<1>4. run[g].pc = "idle" /\ run[g].rebuilt = {} /\ Unsaved(run[g]) = {} /\ Lagging(run[g]) = {}
  BY StepStarts DEF StartRun, RunAt, Placed, Unsaved, Lagging
<1>5. CASE trigger = Unset \/ ~trigger.enabled \/ touched = {}
  BY NoRunIs, <1>4, <1>1, <1>5, <1>2, <1>3, StepKeeps DEF CleanRun, RecordTrue, FleetTrue
<1>6. CASE ~(trigger = Unset \/ ~trigger.enabled \/ touched = {})
  <2>0. PICK some \in SUBSET ToSet(Files) : some = IF push THEN touched \ Manual ELSE touched
    OBVIOUS
  <2>1. PICK r : r = [NoRun EXCEPT !.pc = "file", !.commit = c, !.files = Files,
                                !.takes = some, !.copy = trigger]
    OBVIOUS
  <2>2. trigger \in Triggers
    BY <1>6, StepStarts DEF DeployStore
  <2>3. /\ r \in RunStates /\ r.pc = "file" /\ r.commit = c /\ r.copy = trigger
        /\ r.rebuilt = NoRun.rebuilt /\ r.applied = NoRun.applied /\ r.fresh = NoRun.fresh
    BY <2>1, <2>2, NoRunIs DEF RunStates, AtWork
  <2>4. r.rebuilt = {} /\ r.applied = {} /\ r.fresh = {}
    BY <2>3 DEF NoRun
  <2>5. Placed(r)
    BY <2>2, <2>3, <2>4 DEF Placed, InFile, AtWork
  <2>6. Held(r)
    BY <1>6, <2>3, <2>4, StepStarts DEF Held, TriggerHeld, InFile, AtWork
  <2>7. Unsaved(r) = {} /\ Lagging(r) = {}
    BY <2>3 DEF Unsaved, Lagging
  <2>8. CleanRun(run[g]) => CleanRun(r)
    BY <1>4, <2>7, <1>6, <2>3, <2>4 DEF CleanRun, RecordTrue, FleetTrue, Views
  <2>9. Go(g, r)
    BY <1>1, <1>6, <2>0, <2>1
  <2>. QED  BY <1>2, <1>3, <2>3, <2>5, <2>6, <2>8, <2>9, StepKeeps
<1>. QED  BY <1>5, <1>6

\* What the store's lemmas need of a step that touches neither trouble nor store.
LEMMA Calm ==
  ASSUME DeployIInv, NEW g \in Runs, ~RunAt(g, "idle"), UNCHANGED <<trigger, image, made, specs, fleet>>,
         count' \in [runs : 0 .. MaxRuns, troubles : 0 .. MaxTroubles], UNCHANGED disturbed,
         NEW r \in RunStates, Go(g, r), Placed(r), Held(r),
         ~disturbed /\ CleanRun(run[g]) => CleanRun(r)
  PROVE  DeployIInv'
BY StepStarts, SameStore, StepKeeps DEF DeployStore

LEMMA SameCount ==
  DeployIInv /\ UNCHANGED count => count' \in [runs : 0 .. MaxRuns, troubles : 0 .. MaxTroubles]
BY DEF DeployIInv, DeployRunsType, DeployStore

LEMMA NextFileKeeps ==
  ASSUME DeployIInv, NEW g \in Runs, NextFile(g)
  PROVE  DeployIInv'
<1>1. PICK me : me = run[g]
  OBVIOUS
<1>2. me \in RunStates /\ Placed(me) /\ Held(me) /\ me.pc = "file" /\ ~RunAt(g, "idle")
  BY <1>1, StepStarts DEF NextFile, RunAt
<1>3. /\ UNCHANGED <<trigger, image, made, specs, fleet>>
      /\ count' \in [runs : 0 .. MaxRuns, troubles : 0 .. MaxTroubles]
  BY SameCount DEF NextFile
<1>4. me.rebuilt = {} /\ me.fresh = {} /\ me.copy \in Triggers /\ me.commit \in Commits
      /\ Unsaved(me) = {} /\ Lagging(me) = {}
  BY <1>2 DEF Placed, AtWork, Unsaved, Lagging
<1>5. CASE me.files = <<>>
  <2>1. PICK r : r = [me EXCEPT !.pc = "touch"]
    OBVIOUS
  <2>2. /\ r \in RunStates /\ r.pc = "touch" /\ r.commit = me.commit /\ r.copy = me.copy
        /\ r.rebuilt = me.rebuilt /\ r.applied = me.applied /\ r.fresh = me.fresh
    BY <1>2, <2>1 DEF RunStates, AtWork
  <2>3. Go(g, r) /\ UNCHANGED disturbed
    BY <1>1, <1>5, <2>1 DEF NextFile, RunTo
  <2>4. Placed(r)
    BY <1>4, <2>2 DEF Placed, InFile
  <2>5. Held(r)
    BY <1>2, <1>4, <2>2 DEF Held, InFile, AtWork
  <2>6. CleanRun(me) => CleanRun(r)
    BY <1>2, <1>4, <2>2 DEF CleanRun, RecordTrue, FleetTrue, Views, Unsaved, Lagging, Aim, AtWork, InFile
  <2>. QED  BY <1>1, <1>2, <1>3, <2>2, <2>3, <2>4, <2>5, <2>6, Calm
<1>6. CASE me.files # <<>> /\ Head(me.files) \notin me.takes
  <2>1. PICK r : r = [me EXCEPT !.files = Tail(@)]
    OBVIOUS
  <2>2. Tail(me.files) \in Seq(ToSet(Files))
    BY <1>2, <1>6 DEF RunStates
  <2>3. /\ r \in RunStates /\ r.pc = "file" /\ r.commit = me.commit /\ r.copy = me.copy
        /\ r.rebuilt = me.rebuilt /\ r.applied = me.applied /\ r.fresh = me.fresh
    BY <1>2, <2>1, <2>2 DEF RunStates
  <2>4. Go(g, r) /\ UNCHANGED disturbed
    BY <1>1, <1>6, <2>1 DEF NextFile, File
  <2>5. Placed(r)
    BY <1>4, <2>3 DEF Placed, InFile
  <2>6. Held(r)
    BY <1>2, <1>4, <2>3 DEF Held, InFile, AtWork
  <2>7. CleanRun(me) => CleanRun(r)
    BY <1>2, <1>4, <2>3 DEF CleanRun, RecordTrue, FleetTrue, Views, Unsaved, Lagging, Aim, AtWork, InFile
  <2>. QED  BY <1>1, <1>2, <1>3, <2>3, <2>4, <2>5, <2>6, <2>7, Calm
<1>7. CASE me.files # <<>> /\ Head(me.files) \in me.takes /\ Head(me.files) \in Outside
  BY <1>1, <1>2, <1>3, <1>7, Fails DEF NextFile, File
<1>8. CASE me.files # <<>> /\ Head(me.files) \in me.takes /\ Head(me.files) \notin Outside
  <2>1. PICK f : f = Head(me.files)
    OBVIOUS
  <2>2. PICK some \in BOOLEAN : some = (\E a \in ToSet(AppsOf[f]) : Stale(g, a))
    OBVIOUS
  <2>3. PICK r : r = [me EXCEPT !.pc = IF some THEN "build" ELSE "before", !.todo = AppsOf[f]]
    OBVIOUS
  <2>4. f \in ToSet(Files) /\ AppsOf[f] \in Seq(Apps) /\ ToSet(AppsOf[f]) \subseteq Apps
    BY <1>2, <1>8, <2>1, InFiles DEF RunStates
  <2>5. /\ r \in RunStates /\ r.pc = (IF some THEN "build" ELSE "before") /\ r.commit = me.commit
        /\ r.copy = me.copy /\ r.files = me.files /\ r.todo = AppsOf[f]
        /\ r.rebuilt = me.rebuilt /\ r.applied = me.applied /\ r.fresh = me.fresh
    BY <1>2, <2>3, <2>4 DEF RunStates, AtWork, InFile
  <2>6. Go(g, r) /\ UNCHANGED disturbed
    BY <1>1, <1>8, <2>1, <2>2, <2>3 DEF NextFile, File
  <2>7. Placed(r)
    BY <1>4, <1>8, <2>1, <2>5 DEF Placed, InFile
  <2>8. Held(r)
    BY <1>2, <1>4, <2>5 DEF Held, InFile, AtWork
  <2>9. ASSUME CleanRun(me) PROVE CleanRun(r)
    <3>1. Unsaved(r) = {} /\ Lagging(r) = {}
      BY <1>4, <2>5 DEF Unsaved, Lagging
    <3>2. RecordTrue(r) /\ FleetTrue(r)
      BY <1>4, <2>9, <3>1 DEF CleanRun, RecordTrue, FleetTrue
    <3>3. \A a \in Apps : me.copy.built[PathOf[a]] \in {Unset, image[a]}
      BY <1>2, <1>4, <2>9 DEF CleanRun, Views, AtWork
    <3>4. ASSUME ~some, NEW a \in ToSet(AppsOf[f]) PROVE image[a] = Aim(r, a)
      <4>1. me.copy.built[PathOf[a]] = TreeAt[me.commit][PathOf[a]]
        BY <1>1, <2>2, <3>4 DEF Stale
      <4>2. a \in Apps
        BY <2>4
      <4>. QED  BY <1>4, <2>5, <3>3, <4>1, <4>2, Aims DEF Aim
    <3>5. \A h \in r.applied : \A a \in ToSet(AppsOf[h]) :
             specs[a] = SpecAt[r.commit][a] /\ image[a] = Aim(r, a)
      BY <2>5, <2>9 DEF CleanRun, Views, Aim
    <3>6. Views(r)
      BY <1>4, <2>1, <2>5, <3>3, <3>4, <3>5 DEF Views
    <3>. QED  BY <3>2, <3>6 DEF CleanRun
  <2>. QED  BY <1>1, <1>2, <1>3, <2>5, <2>6, <2>7, <2>8, <2>9, Calm
<1>. QED  BY <1>5, <1>6, <1>7, <1>8

LEMMA DownloadKeeps ==
  ASSUME DeployIInv, NEW g \in Runs, Download(g)
  PROVE  DeployIInv'
<1>1. PICK me : me = run[g]
  OBVIOUS
<1>2. me \in RunStates /\ Placed(me) /\ Held(me) /\ me.pc = "build" /\ ~RunAt(g, "idle")
  BY <1>1, StepStarts DEF Download, RunAt
<1>3. UNCHANGED <<trigger, image, made, specs, fleet>>
  BY DEF Download
<1>4. CASE Go(g, [me EXCEPT !.loaded = TRUE]) /\ UNCHANGED <<disturbed, count>>
  <2>1. PICK r : r = [me EXCEPT !.loaded = TRUE]
    OBVIOUS
  <2>2. /\ r \in RunStates /\ r.pc = me.pc /\ r.commit = me.commit /\ r.copy = me.copy
        /\ r.files = me.files /\ r.todo = me.todo
        /\ r.rebuilt = me.rebuilt /\ r.applied = me.applied /\ r.fresh = me.fresh
    BY <1>2, <2>1 DEF RunStates
  <2>3. Placed(r)
    BY <1>2, <2>2 DEF Placed
  <2>4. Held(r)
    BY <1>2, <2>2 DEF Held, Aim
  <2>5. CleanRun(me) => CleanRun(r)
    BY <1>2, <2>2 DEF CleanRun, RecordTrue, FleetTrue, Views, Unsaved, Lagging, Aim
  <2>. QED  BY <1>1, <1>2, <1>3, <1>4, <2>1, <2>2, <2>3, <2>4, <2>5, Calm, SameCount
<1>5. CASE May("download") /\ Fail(g) /\ Trouble
  BY <1>2, <1>3, <1>5, Fails, Troubles, StepStarts DEF May
<1>. QED  BY <1>1, <1>4, <1>5 DEF Download

\* The next target of a build, and what is left.
LEMMA NextTarget ==
  ASSUME NEW me \in RunStates, Placed(me), me.pc \in {"build", "building"}, me.todo # <<>>
  PROVE  /\ Head(me.todo) \in Apps /\ Tail(me.todo) \in Seq(Apps)
         /\ Head(me.todo) \in ToSet(AppsOf[Head(me.files)])
         /\ ToSet(Tail(me.todo)) \subseteq ToSet(AppsOf[Head(me.files)])
         /\ ToSet(me.todo) = {Head(me.todo)} \cup ToSet(Tail(me.todo))
         /\ me.copy \in Triggers /\ me.commit \in Commits
         /\ Aim(me, Head(me.todo)) \in Trees \ {Unset} /\ PathOf[Head(me.todo)] \in Paths
<1>1. me.todo \in Seq(Apps) /\ ToSet(me.todo) \subseteq ToSet(AppsOf[Head(me.files)])
  BY DEF RunStates, Placed, InFile
<1>2. me.copy \in Triggers /\ me.commit \in Commits
  BY DEF Placed, AtWork, InFile
<1>3. /\ Head(me.todo) \in Apps /\ Tail(me.todo) \in Seq(Apps)
      /\ ToSet(me.todo) = {Head(me.todo)} \cup ToSet(Tail(me.todo))
  BY <1>1, SeqTails
<1>. QED  BY <1>1, <1>2, <1>3, Aims DEF Aim

LEMMA MakeReleaseKeeps ==
  ASSUME DeployIInv, NEW g \in Runs, MakeRelease(g)
  PROVE  DeployIInv'
<1>1. PICK me : me = run[g]
  OBVIOUS
<1>2. /\ me \in RunStates /\ Placed(me) /\ Held(me) /\ me.pc = "build" /\ ~RunAt(g, "idle")
      /\ me.todo # <<>>
  BY <1>1, StepStarts DEF MakeRelease, RunAt
<1>3. PICK a : a = Head(me.todo)
  OBVIOUS
<1>4. /\ a \in Apps /\ Tail(me.todo) \in Seq(Apps) /\ a \in ToSet(AppsOf[Head(me.files)])
      /\ ToSet(Tail(me.todo)) \subseteq ToSet(AppsOf[Head(me.files)])
      /\ ToSet(me.todo) = {a} \cup ToSet(Tail(me.todo))
      /\ me.copy \in Triggers /\ me.commit \in Commits
      /\ Aim(me, a) \in Trees \ {Unset} /\ PathOf[a] \in Paths
  BY <1>2, <1>3, NextTarget
<1>5. CASE ~Stale(g, a)
  <2>1. PICK r : r = [me EXCEPT !.todo = Tail(@)]
    OBVIOUS
  <2>2. /\ r \in RunStates /\ r.pc = me.pc /\ r.commit = me.commit /\ r.copy = me.copy
        /\ r.files = me.files /\ r.todo = Tail(me.todo)
        /\ r.rebuilt = me.rebuilt /\ r.applied = me.applied /\ r.fresh = me.fresh
    BY <1>2, <1>4, <2>1 DEF RunStates
  <2>3. Go(g, r) /\ UNCHANGED <<trigger, image, made, specs, fleet, count, disturbed>>
    BY <1>1, <1>3, <1>5, <2>1 DEF MakeRelease
  <2>4. Placed(r)
    BY <1>2, <1>4, <2>2 DEF Placed, InFile, AtWork
  <2>5. Held(r)
    BY <1>2, <2>2 DEF Held, Aim
  <2>6. ASSUME CleanRun(me) PROVE CleanRun(r)
    <3>1. Unsaved(r) = Unsaved(me) /\ Lagging(r) = Lagging(me)
      BY <1>2, <2>2 DEF Unsaved, Lagging
    <3>2. image[a] = Aim(me, a)
      BY <1>1, <1>5, <1>2, <2>6, <1>4 DEF Stale, Aim, CleanRun, Views, Unsaved, AtWork, InFile
    <3>3. Views(r)
      BY <1>2, <1>4, <2>2, <2>6, <3>1, <3>2 DEF CleanRun, Views, Aim
    <3>. QED  BY <2>6, <3>1, <3>3 DEF CleanRun, RecordTrue, FleetTrue
  <2>. QED  BY <1>1, <1>2, <2>2, <2>3, <2>4, <2>5, <2>6, Calm, SameCount
<1>6. CASE Stale(g, a)
  <2>1. PICK r : r = [me EXCEPT !.pc = "building"]
    OBVIOUS
  <2>2. /\ r \in RunStates /\ r.pc = "building" /\ r.commit = me.commit /\ r.copy = me.copy
        /\ r.files = me.files /\ r.todo = me.todo
        /\ r.rebuilt = me.rebuilt /\ r.applied = me.applied /\ r.fresh = me.fresh
    BY <1>1, <1>2, <1>4, <2>1 DEF RunStates, AtWork, InFile
  <2>3. Go(g, r) /\ UNCHANGED <<trigger, image, made, specs, fleet, count, disturbed>>
    BY <1>1, <1>3, <1>6, <2>1 DEF MakeRelease, RunTo
  <2>4. Placed(r)
    BY <1>2, <1>4, <2>2 DEF Placed, InFile, AtWork
  <2>5. Held(r)
    BY <1>2, <2>2 DEF Held, Aim, AtWork, InFile
  <2>6. CleanRun(me) => CleanRun(r)
    BY <1>2, <2>2 DEF CleanRun, RecordTrue, FleetTrue, Views, Unsaved, Lagging, Aim, AtWork, InFile
  <2>. QED  BY <1>1, <1>2, <2>2, <2>3, <2>4, <2>5, <2>6, Calm, SameCount
<1>. QED  BY <1>5, <1>6

LEMMA FinishBuildKeeps ==
  ASSUME DeployIInv, NEW g \in Runs, FinishBuild(g)
  PROVE  DeployIInv'
<1>1. PICK me : me = run[g]
  OBVIOUS
<1>2. /\ me \in RunStates /\ Placed(me) /\ Held(me) /\ me.pc = "building" /\ ~RunAt(g, "idle")
      /\ me.todo # <<>>
  BY <1>1, StepStarts DEF FinishBuild, RunAt, Placed
<1>3. PICK a : a = Head(me.todo)
  OBVIOUS
<1>4. /\ a \in Apps /\ Tail(me.todo) \in Seq(Apps) /\ a \in ToSet(AppsOf[Head(me.files)])
      /\ ToSet(Tail(me.todo)) \subseteq ToSet(AppsOf[Head(me.files)])
      /\ ToSet(me.todo) = {a} \cup ToSet(Tail(me.todo))
      /\ me.copy \in Triggers /\ me.commit \in Commits
      /\ Aim(me, a) \in Trees \ {Unset} /\ PathOf[a] \in Paths
  BY <1>2, <1>3, NextTarget
<1>5. CASE /\ image' = [image EXCEPT ![a] = Aim(me, a)]
           /\ made' = [made EXCEPT ![a] = @ \cup {Aim(me, a)}]
           /\ Go(g, [Built(g, a) EXCEPT !.pc = "build"])
           /\ UNCHANGED <<disturbed, count>>
  <2>1. PICK r : r = [Built(g, a) EXCEPT !.pc = "build"]
    OBVIOUS
  <2>2. /\ r \in RunStates /\ r.pc = "build" /\ r.commit = me.commit /\ r.copy = me.copy
        /\ r.files = me.files /\ r.todo = Tail(me.todo)
        /\ r.rebuilt = me.rebuilt \cup {a} /\ r.applied = me.applied
        /\ r.fresh = me.fresh \cup {PathOf[a]}
    BY <1>1, <1>2, <1>4, <2>1 DEF RunStates, Built, AtWork, InFile
  <2>3. Go(g, r) /\ UNCHANGED <<trigger, specs, fleet, count, disturbed>>
    BY <1>5, <2>1 DEF FinishBuild
  <2>0. Aim(me, a) \in made'[a] /\ \A b \in Apps : made[b] \subseteq made'[b]
    BY <1>4, <1>5, StepStarts DEF DeployStore
  <2>4. Placed(r)
    BY <1>2, <1>4, <2>2 DEF Placed, InFile, AtWork
  <2>5. DeployStore' /\ (\A b \in Apps : made[b] \subseteq made'[b]) /\ TriggerHeld'
    BY <1>4, <1>5, <2>0, <2>3, StepStarts DEF DeployStore, TriggerHeld, WasBuilt
  <2>6. Held(r)'
    <3>1. me.rebuilt \subseteq Apps
      BY <1>2 DEF RunStates
    <3>. QED  BY <1>2, <1>4, <2>0, <2>2, <3>1 DEF Held, WasBuilt, Aim, AtWork, InFile
  <2>7. /\ image'[a] = Aim(me, a) /\ \A b \in Apps \ {a} : image'[b] = image[b]
    BY <1>4, <1>5, StepStarts DEF DeployStore
  <2>8. ASSUME CleanRun(me) PROVE CleanRun(r)'
    <3>1. /\ Unsaved(me) = me.rebuilt /\ Unsaved(r) = me.rebuilt \cup {a}
          /\ Lagging(me) = me.rebuilt /\ Lagging(r) = me.rebuilt \cup {a}
      BY <1>2, <2>2 DEF Unsaved, Lagging
    <3>2. RecordTrue(r)'
      BY <2>3, <2>7, <2>8, <3>1 DEF CleanRun, RecordTrue, Unsaved
    <3>3. FleetTrue(r)'
      BY <2>3, <2>7, <2>8, <3>1 DEF Lagging, SameSpec, CleanRun, FleetTrue
    <3>4. \A b \in Apps : image[b] = Aim(me, b) => image'[b] = Aim(me, b)
      BY <2>7
    <3>5. me.rebuilt \subseteq Apps /\ ToSet(AppsOf[Head(me.files)]) \subseteq Apps
          /\ \A f \in me.applied : ToSet(AppsOf[f]) \subseteq Apps
      BY <1>2, InFiles DEF RunStates, Placed, InFile
    <3>6. Views(me)
      BY <2>8 DEF CleanRun
    <3>7. \A b \in Apps : b \in Unsaved(r) \/ r.copy.built[PathOf[b]] \in {Unset, image'[b]}
      BY <1>2, <2>2, <2>7, <3>1, <3>6 DEF Views, AtWork, InFile
    <3>8. \A b \in r.rebuilt : image'[b] = Aim(r, b)
      BY <2>2, <2>7, <3>4, <3>5, <3>6 DEF Views, Aim
    <3>9. \A b \in ToSet(AppsOf[Head(r.files)]) \ ToSet(r.todo) : image'[b] = Aim(r, b)
      BY <1>2, <1>4, <2>2, <2>7, <3>4, <3>5, <3>6 DEF Views, Aim
    <3>10. \A f \in r.applied : \A b \in ToSet(AppsOf[f]) :
             specs'[b] = SpecAt[r.commit][b] /\ image'[b] = Aim(r, b)
      BY <2>2, <2>3, <3>4, <3>5, <3>6 DEF Views, Aim
    <3>11. Views(r)'
      BY <2>2, <3>7, <3>8, <3>9, <3>10 DEF Views, Aim, Unsaved
    <3>. QED  BY <3>2, <3>3, <3>11 DEF CleanRun
  <2>. QED  BY <1>1, <1>2, <2>2, <2>3, <2>4, <2>5, <2>6, <2>8, StepStarts, StepKeeps
<1>6. CASE May("build") /\ Trouble /\ RunTo(g, "recordFailed") /\ Disturbs(g) /\ UNCHANGED <<image, made>>
  <2>1. PICK r : r = [me EXCEPT !.pc = "recordFailed"]
    OBVIOUS
  <2>2. /\ r \in RunStates /\ r.pc = "recordFailed" /\ r.commit = me.commit /\ r.copy = me.copy
        /\ r.files = me.files /\ r.todo = me.todo
        /\ r.rebuilt = me.rebuilt /\ r.applied = me.applied /\ r.fresh = me.fresh
    BY <1>1, <1>2, <1>4, <2>1 DEF RunStates, AtWork, InFile
  <2>3. Go(g, r) /\ UNCHANGED <<trigger, image, made, specs, fleet>> /\ disturbed' \in BOOLEAN
    BY <1>1, <1>6, <2>1, StepStarts DEF FinishBuild, RunTo, Disturbs, DeployStore
  <2>4. Placed(r)
    BY <1>2, <1>4, <2>2 DEF Placed, InFile, AtWork
  <2>5. Held(r)
    BY <1>2, <2>2 DEF Held, Aim, AtWork, InFile
  <2>6. DeployStore' /\ TriggerHeld' /\ (\A b \in Apps : made[b] \subseteq made'[b]) /\ Held(r)'
    BY <1>6, <2>3, <2>5, SameStore, StepStarts, Troubles DEF May
  <2>7. ASSUME ~disturbed' PROVE ~disturbed /\ Sole(g) /\ CleanRun(r)'
    <3>1. ~disturbed /\ me.applied = {} /\ me.rebuilt = {}
      BY <1>1, <1>6, <2>7 DEF Disturbs
    <3>2. Sole(g) /\ CleanRun(me)
      BY <1>1, <1>2, <3>1, StepStarts
    <3>3. CleanRun(r)
      BY <1>2, <2>2, <3>1, <3>2 DEF CleanRun, RecordTrue, FleetTrue, Views, Unsaved, Lagging, Aim, AtWork, InFile
    <3>. QED  BY <2>3, <3>1, <3>2, <3>3 DEF CleanRun, RecordTrue, FleetTrue, Views
  <2>. QED  BY <2>2, <2>3, <2>4, <2>6, <2>7, StepKeeps
<1>. QED  BY <1>1, <1>3, <1>5, <1>6 DEF FinishBuild, Aim

\* The copy with the run's builds in it.
LEMMA RememberedIs ==
  ASSUME OwnContexts, DeployIInv, NEW g \in Runs, run[g].pc \in AtWork
  PROVE  /\ Remembered(g) \in Triggers /\ Remembered(g).enabled = run[g].copy.enabled
         /\ \A a \in Apps : Remembered(g).built[PathOf[a]] =
              IF a \in run[g].rebuilt THEN Aim(run[g], a) ELSE run[g].copy.built[PathOf[a]]
<1>1. PICK me : me = run[g]
  OBVIOUS
<1>2. /\ me \in RunStates /\ me.copy \in Triggers /\ me.commit \in Commits
      /\ me.fresh = {PathOf[a] : a \in me.rebuilt} /\ me.rebuilt \subseteq Apps
  BY <1>1, StepStarts DEF Placed, RunStates
<1>3. PICK b : b = [p \in Paths |-> IF p \in me.fresh THEN TreeAt[me.commit][p] ELSE me.copy.built[p]]
  OBVIOUS
<1>4. b \in [Paths -> Trees]
  <2>1. me.copy.built \in [Paths -> Trees]
    BY <1>2 DEF Triggers
  <2>2. ASSUME NEW p \in Paths PROVE TreeAt[me.commit][p] \in Trees
    BY <1>2, Aims DEF Paths
  <2>. QED  BY <1>3, <2>1, <2>2
<1>5. Remembered(g) = [me.copy EXCEPT !.built = b]
  BY <1>1, <1>3 DEF Remembered
<1>6. /\ Remembered(g) \in Triggers /\ Remembered(g).enabled = me.copy.enabled
      /\ Remembered(g).built = b
  BY <1>2, <1>4, <1>5 DEF Triggers
<1>7. ASSUME NEW a \in Apps PROVE PathOf[a] \in me.fresh <=> a \in me.rebuilt
  BY <1>2 DEF OwnContexts
<1>8. \A a \in Apps : PathOf[a] \in Paths
  BY DEF Paths
<1>. QED  BY <1>1, <1>3, <1>6, <1>7, <1>8 DEF Aim

LEMMA RememberKeeps ==
  ASSUME OwnContexts, DeployIInv, NEW g \in Runs, Remember(g)
  PROVE  DeployIInv'
<1>1. PICK me : me = run[g]
  OBVIOUS
<1>2. /\ me \in RunStates /\ Placed(me) /\ Held(me) /\ me.pc \in {"build", "recordFailed"}
      /\ ~RunAt(g, "idle") /\ (me.pc = "build" => me.todo = <<>>)
      /\ me.copy \in Triggers /\ me.commit \in Commits
  BY <1>1, StepStarts DEF Remember, RunAt, Placed, AtWork, InFile
<1>3. UNCHANGED <<image, made, specs, fleet>>
  BY DEF Remember
<1>4. PICK kept \in {me.copy, Remembered(g)} :
        /\ Go(g, IF me.pc = "build" THEN [me EXCEPT !.copy = kept, !.pc = "before"]
                                    ELSE [NoRun EXCEPT !.pc = "answered"])
        /\ trigger' \in {trigger, Remembered(g)}
        /\ \/ /\ kept = Remembered(g) /\ UNCHANGED <<count, disturbed>>
              /\ trigger' = IF me.fresh = {} THEN trigger ELSE kept
           \/ disturbed' = TRUE /\ Trouble /\ count.troubles < MaxTroubles
  <2>1. CASE /\ trigger' = (IF run[g].fresh = {} THEN trigger ELSE Remembered(g))
             /\ Go(g, IF RunAt(g, "build") THEN [[run[g] EXCEPT !.copy = Remembered(g)] EXCEPT !.pc = "before"]
                      ELSE [NoRun EXCEPT !.pc = "answered"])
             /\ UNCHANGED <<count, disturbed>>
    BY <1>1, <2>1 DEF RunAt
  <2>2. CASE /\ May("record") /\ run[g].fresh # {}
             /\ Go(g, IF RunAt(g, "build") THEN [run[g] EXCEPT !.pc = "before"]
                      ELSE [NoRun EXCEPT !.pc = "answered"])
             /\ Trouble /\ disturbed' = TRUE /\ UNCHANGED trigger
    BY <1>2, <1>1, <2>2 DEF RunStates, RunAt, May
  <2>. QED  BY <2>1, <2>2 DEF Remember
<1>5. /\ Remembered(g) \in Triggers
      /\ \A a \in Apps : Remembered(g).built[PathOf[a]] =
           IF a \in me.rebuilt THEN Aim(me, a) ELSE me.copy.built[PathOf[a]]
  BY <1>1, <1>2, RememberedIs DEF AtWork, InFile
<1>6. kept \in Triggers /\ \A a \in Apps : WasBuilt(a, kept.built[PathOf[a]])
      /\ WasBuilt(a, Remembered(g).built[PathOf[a]])
  BY <1>2, <1>4, <1>5 DEF Held, AtWork, InFile
<1>7. /\ DeployStore' /\ TriggerHeld' /\ \A a \in Apps : made[a] \subseteq made'[a]
      /\ \A r : Held(r) => Held(r)'
  BY <1>4, StepStarts, Troubles, <1>5, <1>3, <1>6 DEF DeployStore, TriggerHeld, WasBuilt, Held, Aim
<1>8. CASE me.pc = "recordFailed"
  <2>1. PICK r : r = [NoRun EXCEPT !.pc = "answered"]
    OBVIOUS
  <2>2. r \in RunStates /\ Placed(r) /\ Held(r) /\ Go(g, r)
    BY <1>4, <1>8, <2>1, NoRunIs
  <2>3. r.pc = "answered" /\ Unsaved(r) = {} /\ Lagging(r) = {} /\ Views(r)
    BY <2>1, NoRunIs DEF NoRun
  <2>4. ASSUME ~disturbed' PROVE ~disturbed /\ Sole(g) /\ CleanRun(r)'
    <3>1. ~disturbed /\ trigger' = IF me.fresh = {} THEN trigger ELSE kept
      BY <1>4, <2>4
    <3>2. Sole(g) /\ CleanRun(me)
      BY <1>1, <1>2, <3>1, StepStarts
    <3>3. me.rebuilt = {} /\ me.fresh = {}
      BY <1>2, <1>8, <3>2 DEF CleanRun, Views, Placed
    <3>4. trigger' = trigger
      BY <3>1, <3>3
    <3>5. CleanRun(r)
      BY <1>8, <2>3, <3>2 DEF CleanRun, RecordTrue, FleetTrue, Unsaved, Lagging
    <3>. QED  BY <1>3, <3>1, <3>2, <3>4, <3>5 DEF CleanRun, RecordTrue, FleetTrue, Views
  <2>. QED  BY <1>7, <2>2, <2>4, StepKeeps
<1>9. CASE me.pc = "build"
  <2>1. PICK r : r = [me EXCEPT !.copy = kept, !.pc = "before"]
    OBVIOUS
  <2>2. /\ r \in RunStates /\ r.pc = "before" /\ r.commit = me.commit /\ r.copy = kept
        /\ r.files = me.files /\ r.todo = me.todo
        /\ r.rebuilt = me.rebuilt /\ r.applied = me.applied /\ r.fresh = me.fresh
    BY <1>2, <1>6, <2>1 DEF RunStates, AtWork, InFile
  <2>3. Go(g, r)
    BY <1>4, <1>9, <2>1
  <2>4. Placed(r)
    BY <1>2, <1>6, <2>2 DEF Placed, InFile, AtWork
  <2>5. Held(r)
    BY <1>2, <1>6, <2>2 DEF Held, Aim, AtWork, InFile
  <2>6. ASSUME ~disturbed' PROVE ~disturbed /\ Sole(g) /\ CleanRun(r)'
    <3>1. ~disturbed /\ kept = Remembered(g) /\ trigger' = IF me.fresh = {} THEN trigger ELSE kept
      BY <1>4, <2>6
    <3>2. Sole(g) /\ CleanRun(me)
      BY <1>1, <1>2, <3>1, StepStarts
    <3>3. /\ Unsaved(me) = me.rebuilt /\ Unsaved(r) = {}
          /\ Lagging(me) = me.rebuilt /\ Lagging(r) = me.rebuilt
      BY <1>9, <2>2 DEF Unsaved, Lagging
    <3>4. Views(me) /\ RecordTrue(me) /\ FleetTrue(me)
      BY <3>2 DEF CleanRun
    <3>5. \A a \in Apps : kept.built[PathOf[a]] \in {Unset, image[a]}
      BY <1>2, <1>5, <3>1, <3>3, <3>4 DEF Views, AtWork, InFile
    <3>6. RecordTrue(r)'
      <4>1. CASE me.fresh = {}
        <5>1. \A a \in me.rebuilt : PathOf[a] \in me.fresh
          BY <1>2 DEF Placed
        <5>2. me.rebuilt = {}
          BY <4>1, <5>1
        <5>. QED  BY <1>3, <3>1, <3>3, <3>4, <4>1, <5>2 DEF RecordTrue, Unsaved
      <4>2. CASE me.fresh # {}
        BY <1>3, <3>1, <3>5, <4>2 DEF RecordTrue
      <4>. QED  BY <4>1, <4>2
    <3>7. FleetTrue(r)'
      BY <1>3, <3>3, <3>4 DEF Lagging, SameSpec, FleetTrue
    <3>8. ToSet(me.todo) = {}
      BY <1>2, <1>9 DEF ToSet
    <3>9. \A a \in ToSet(AppsOf[Head(r.files)]) : image[a] = Aim(r, a)
      BY <1>9, <2>2, <3>4, <3>8 DEF Views, Aim
    <3>10. Views(r)
      BY <2>2, <3>4, <3>5, <3>9 DEF Views, Aim
    <3>11. Views(r)'
      BY <1>3, <3>10 DEF Views, Aim, Unsaved
    <3>. QED  BY <3>1, <3>2, <3>6, <3>7, <3>11 DEF CleanRun
  <2>. QED  BY <1>7, <2>2, <2>3, <2>4, <2>5, <2>6, StepKeeps
<1>. QED  BY <1>2, <1>8, <1>9

LEMMA ReadBeforeKeeps ==
  ASSUME DeployIInv, NEW g \in Runs, ReadBefore(g)
  PROVE  DeployIInv'
<1>1. PICK me : me = run[g]
  OBVIOUS
<1>2. me \in RunStates /\ Placed(me) /\ Held(me) /\ me.pc = "before" /\ ~RunAt(g, "idle")
  BY <1>1, StepStarts DEF ReadBefore, RunAt
<1>3. PICK b : b = [a \in Released \cap ToSet(AppsOf[Head(me.files)]) |-> specs[a]]
  OBVIOUS
<1>4. PICK r : r = [me EXCEPT !.pc = "apply", !.before = b]
  OBVIOUS
<1>5. b \in {<<>>} \cup UNION {[S -> DeploySpecs] : S \in SUBSET Apps}
  <2>1. PICK S \in SUBSET Apps : S = Released \cap ToSet(AppsOf[Head(me.files)])
    OBVIOUS
  <2>2. b \in [S -> DeploySpecs]
    BY <1>3, <2>1, StepStarts DEF DeployStore
  <2>. QED  BY <2>2
<1>6. /\ r \in RunStates /\ r.pc = "apply" /\ r.commit = me.commit /\ r.copy = me.copy
      /\ r.files = me.files /\ r.todo = me.todo /\ r.before = b
      /\ r.rebuilt = me.rebuilt /\ r.applied = me.applied /\ r.fresh = me.fresh
  BY <1>2, <1>4, <1>5 DEF RunStates, AtWork, InFile
<1>7. Go(g, r) /\ UNCHANGED <<trigger, image, made, specs, fleet, count, disturbed>>
  BY <1>1, <1>3, <1>4 DEF ReadBefore, File
<1>8. Placed(r)
  BY <1>2, <1>6 DEF Placed, InFile, AtWork
<1>9. Held(r)
  BY <1>2, <1>6 DEF Held, Aim, AtWork, InFile
<1>10. CleanRun(me) => CleanRun(r)
  BY <1>2, <1>3, <1>6 DEF CleanRun, RecordTrue, FleetTrue, Views, Unsaved, Lagging, Aim, AtWork, InFile
<1>. QED  BY <1>1, <1>2, <1>6, <1>7, <1>8, <1>9, <1>10, Calm, SameCount

LEMMA ApplyFileKeeps ==
  ASSUME DeployIInv, NEW g \in Runs, ApplyFile(g)
  PROVE  DeployIInv'
<1>1. PICK me : me = run[g]
  OBVIOUS
<1>2. me \in RunStates /\ Placed(me) /\ Held(me) /\ me.pc = "apply" /\ ~RunAt(g, "idle")
  BY <1>1, StepStarts DEF ApplyFile, RunAt
<1>3. PICK f : f = Head(me.files)
  OBVIOUS
<1>4. f \in ToSet(Files) /\ AppsOf[f] \in Seq(Apps) /\ ToSet(AppsOf[f]) \subseteq Apps
      /\ me.commit \in Commits /\ me.applied \subseteq ToSet(Files) /\ me.rebuilt \subseteq ToSet(AppsOf[f])
  BY <1>2, <1>3, InFiles DEF RunStates, Placed, InFile, AtWork
<1>5. CASE /\ specs' = [a \in Apps |-> IF a \in ToSet(AppsOf[f]) THEN SpecAt[me.commit][a] ELSE specs[a]]
           /\ Go(g, [me EXCEPT !.pc = "release", !.applied = @ \cup {f}, !.todo = AppsOf[f]])
           /\ UNCHANGED <<disturbed, count>>
  <2>1. PICK r : r = [me EXCEPT !.pc = "release", !.applied = @ \cup {f}, !.todo = AppsOf[f]]
    OBVIOUS
  <2>2. /\ r \in RunStates /\ r.pc = "release" /\ r.commit = me.commit /\ r.copy = me.copy
        /\ r.files = me.files /\ r.todo = AppsOf[f] /\ r.before = me.before
        /\ r.rebuilt = me.rebuilt /\ r.applied = me.applied \cup {f} /\ r.fresh = me.fresh
    BY <1>2, <1>4, <2>1 DEF RunStates, AtWork, InFile
  <2>3. Go(g, r) /\ UNCHANGED <<trigger, image, made, fleet, count, disturbed>>
    BY <1>5, <2>1 DEF ApplyFile
  <2>4. Placed(r)
    BY <1>2, <1>3, <1>4, <2>2 DEF Placed, InFile, AtWork
  <2>5. /\ \A a \in Apps : specs'[a] = IF a \in ToSet(AppsOf[f]) THEN SpecAt[me.commit][a] ELSE specs[a]
        /\ specs' \in [Apps -> DeploySpecs]
    BY <1>4, <1>5, StepStarts, Aims DEF DeployStore
  <2>6. DeployStore' /\ (\A b \in Apps : made[b] \subseteq made'[b]) /\ TriggerHeld'
    BY <2>3, <2>5, StepStarts DEF DeployStore, TriggerHeld, WasBuilt
  <2>7. Held(r)'
    BY <1>2, <2>2, <2>3 DEF Held, WasBuilt, Aim, AtWork, InFile
  <2>8. ASSUME CleanRun(me) PROVE CleanRun(r)'
    <3>1. /\ Unsaved(me) = {} /\ Unsaved(r) = {} /\ Lagging(me) = me.rebuilt
          /\ Lagging(r) = {a \in ToSet(AppsOf[f]) \cap Released : a \in me.rebuilt \/ ~SameSpec(r, a)}
      BY <1>2, <2>2 DEF Unsaved, Lagging
    <3>2. Views(me) /\ RecordTrue(me) /\ FleetTrue(me)
      BY <2>8 DEF CleanRun
    <3>3. RecordTrue(r)'
      BY <2>3, <3>1, <3>2 DEF RecordTrue, Unsaved
    <3>4. ASSUME NEW a \in Released, a \notin Lagging(r)
          PROVE  fleet'[a] \in {Unset, [image |-> image'[a], spec |-> specs'[a]]}
      <4>1. a \in Apps
        OBVIOUS
      <4>2. CASE a \notin ToSet(AppsOf[f])
        BY <1>4, <2>3, <2>5, <3>1, <3>2, <4>1, <4>2 DEF FleetTrue
      <4>3. CASE a \in ToSet(AppsOf[f])
        BY <3>1, <3>4, <4>3, <1>2, <1>3, <3>2, <2>2, <2>5, <4>1, <2>3 DEF Views, SameSpec, FleetTrue
      <4>. QED  BY <4>2, <4>3
    <3>5. FleetTrue(r)'
      BY <3>4 DEF Lagging, SameSpec, FleetTrue
    <3>6. \A h \in r.applied : \A a \in ToSet(AppsOf[h]) :
             specs'[a] = SpecAt[r.commit][a] /\ image[a] = Aim(r, a)
      <4>1. ASSUME NEW h \in me.applied, NEW a \in ToSet(AppsOf[h])
            PROVE  specs'[a] = SpecAt[me.commit][a] /\ image[a] = Aim(me, a)
        BY <1>4, InFiles, <2>5, <3>2 DEF Views
      <4>2. ASSUME NEW a \in ToSet(AppsOf[f])
            PROVE  specs'[a] = SpecAt[me.commit][a] /\ image[a] = Aim(me, a)
        BY <1>2, <1>3, <1>4, <2>5, <3>2 DEF Views
      <4>. QED  BY <2>2, <4>1, <4>2 DEF Aim
    <3>7. \A a \in ToSet(AppsOf[Head(r.files)]) : image[a] = Aim(r, a)
      BY <1>2, <2>2, <3>2 DEF Views, Aim
    <3>8. \A a \in r.rebuilt : image[a] = Aim(r, a)
      BY <2>2, <3>2 DEF Views, Aim
    <3>9. \A a \in Apps : r.copy.built[PathOf[a]] \in {Unset, image[a]}
      BY <1>2, <2>2, <3>1, <3>2 DEF Views, AtWork, InFile
    <3>10. Views(r)'
      BY <2>2, <2>3, <3>1, <3>6, <3>7, <3>8, <3>9 DEF Views, Aim, Unsaved
    <3>. QED  BY <3>3, <3>5, <3>10 DEF CleanRun
  <2>. QED  BY <1>1, <1>2, <2>2, <2>3, <2>4, <2>6, <2>7, <2>8, StepStarts, StepKeeps
<1>6. CASE May("apply") /\ Fail(g) /\ Trouble /\ UNCHANGED specs
  BY <1>6, <1>2, Fails, Troubles, StepStarts DEF ApplyFile, May
<1>. QED  BY <1>1, <1>3, <1>5, <1>6 DEF ApplyFile, File

LEMMA ReleaseNextKeeps ==
  ASSUME DeployIInv, NEW g \in Runs, ReleaseNext(g)
  PROVE  DeployIInv'
<1>1. PICK me : me = run[g]
  OBVIOUS
<1>2. /\ me \in RunStates /\ Placed(me) /\ Held(me) /\ me.pc = "release" /\ ~RunAt(g, "idle")
      /\ me.files \in Seq(ToSet(Files)) /\ me.files # <<>> /\ me.todo \in Seq(Apps)
      /\ Unsaved(me) = {}
  BY <1>1, StepStarts DEF ReleaseNext, RunAt, RunStates, Placed, InFile, Unsaved
<1>3. UNCHANGED <<trigger, image, made, specs>>
  BY DEF ReleaseNext
<1>4. CASE me.todo = <<>>
  <2>1. PICK r : r = [me EXCEPT !.pc = "file", !.files = Tail(@), !.before = <<>>,
                                  !.rebuilt = {}, !.fresh = {}, !.loaded = FALSE]
    OBVIOUS
  <2>2. Tail(me.files) \in Seq(ToSet(Files))
    BY <1>2
  <2>3. /\ r \in RunStates /\ r.pc = "file" /\ r.commit = me.commit /\ r.copy = me.copy
        /\ r.rebuilt = {} /\ r.applied = me.applied /\ r.fresh = {}
    BY <1>2, <2>1, <2>2 DEF RunStates, AtWork, InFile
  <2>4. Go(g, r) /\ UNCHANGED <<fleet, count, disturbed>>
    BY <1>1, <1>4, <2>1 DEF ReleaseNext
  <2>5. Placed(r)
    BY <1>2, <2>3 DEF Placed, InFile, AtWork
  <2>6. Held(r)
    BY <1>2, <2>3 DEF Held, AtWork, InFile
  <2>7. Unsaved(r) = {} /\ Lagging(r) = {}
    BY <2>3 DEF Unsaved, Lagging
  <2>8. Lagging(me) = {}
    BY <1>2, <1>4 DEF Lagging, ToSet
  <2>9. CleanRun(me) => CleanRun(r)
    BY <1>2, <2>3, <2>7, <2>8 DEF CleanRun, RecordTrue, FleetTrue, Views, Aim, AtWork, InFile
  <2>. QED  BY <1>1, <1>2, <1>3, <2>3, <2>4, <2>5, <2>6, <2>9, Calm, SameCount
<1>5. CASE me.todo # <<>>
  <2>1. PICK a : a = Head(me.todo)
    OBVIOUS
  <2>2. a \in Apps /\ Tail(me.todo) \in Seq(Apps) /\ ToSet(me.todo) = {a} \cup ToSet(Tail(me.todo))
    BY <1>2, <1>5, <2>1, SeqTails
  <2>3. CASE /\ Go(g, [me EXCEPT !.todo = Tail(@)])
             /\ fleet' = IF a \in Released /\ ~Unchanged(g, a) /\ fleet[a] # Unset
                         THEN [fleet EXCEPT ![a] = [image |-> image[a], spec |-> specs[a]]]
                         ELSE fleet
             /\ UNCHANGED <<disturbed, count>>
    <3>1. PICK r : r = [me EXCEPT !.todo = Tail(@)]
      OBVIOUS
    <3>2. /\ r \in RunStates /\ r.pc = "release" /\ r.commit = me.commit /\ r.copy = me.copy
          /\ r.files = me.files /\ r.todo = Tail(me.todo) /\ r.before = me.before
          /\ r.rebuilt = me.rebuilt /\ r.applied = me.applied /\ r.fresh = me.fresh
      BY <1>2, <2>2, <3>1 DEF RunStates
    <3>3. Go(g, r)
      BY <2>3, <3>1
    <3>4. Placed(r)
      BY <1>2, <3>2 DEF Placed, InFile, AtWork
    <3>5. image[a] \in Trees /\ specs[a] \in DeploySpecs
      BY <2>2, StepStarts DEF DeployStore
    <3>6. fleet' \in [Released -> [image : Trees, spec : DeploySpecs] \cup {Unset}]
      BY <2>3, <3>5, StepStarts DEF DeployStore
    <3>7. DeployStore' /\ TriggerHeld' /\ \A b \in Apps : made[b] \subseteq made'[b]
      BY <1>3, <2>3, <3>6, StepStarts DEF DeployStore, TriggerHeld, WasBuilt
    <3>8. Held(r)'
      BY <1>2, <1>3, <3>2 DEF Held, WasBuilt, Aim, AtWork, InFile
    <3>9. ASSUME CleanRun(me) PROVE CleanRun(r)'
      <4>1. Unsaved(r) = {}
        BY <3>2 DEF Unsaved
      <4>2. Views(me) /\ RecordTrue(me) /\ FleetTrue(me)
        BY <3>9 DEF CleanRun
      <4>3. RecordTrue(r)'
        BY <1>2, <1>3, <4>1, <4>2 DEF RecordTrue, Unsaved
      <4>4. Lagging(me) \subseteq Lagging(r) \cup {a}
        BY <1>2, <2>2, <3>2 DEF Lagging, SameSpec
      <4>5. Unchanged(g, a) => a \notin Lagging(me)
        BY <1>1, <1>2 DEF Unchanged, Lagging, SameSpec
      <4>6. ASSUME NEW b \in Released, b \notin Lagging(r)
            PROVE  fleet'[b] \in {Unset, [image |-> image[b], spec |-> specs[b]]}
        <5>1. CASE b # a
          BY <2>3, <5>1, StepStarts, <4>2, <4>4, <4>6 DEF DeployStore, FleetTrue
        <5>2. CASE b = a /\ (Unchanged(g, a) \/ fleet[a] = Unset)
          BY <2>3, <4>2, <4>5, <5>2 DEF FleetTrue
        <5>3. CASE b = a /\ ~(Unchanged(g, a) \/ fleet[a] = Unset)
          BY <2>3, <4>6, <5>3, StepStarts DEF DeployStore
        <5>. QED  BY <5>1, <5>2, <5>3
      <4>7. FleetTrue(r)'
        BY <1>3, <4>6 DEF Lagging, SameSpec, FleetTrue
      <4>8. Views(r)'
        BY <1>2, <1>3, <3>2, <4>1, <4>2 DEF Views, Aim, Unsaved, AtWork, InFile
      <4>. QED  BY <4>3, <4>7, <4>8 DEF CleanRun
    <3>. QED  BY <1>1, <1>2, <2>3, <3>2, <3>3, <3>4, <3>7, <3>8, <3>9, StepStarts, StepKeeps
  <2>4. CASE /\ May("release") /\ a \in Released /\ ~Unchanged(g, a)
             /\ Fail(g) /\ Trouble /\ UNCHANGED fleet
    BY <1>2, <1>3, <2>4, Fails, Troubles, StepStarts DEF May
  <2>. QED  BY <1>1, <1>5, <2>1, <2>3, <2>4 DEF ReleaseNext
<1>. QED  BY <1>4, <1>5

LEMMA TouchKeeps ==
  ASSUME DeployIInv, NEW g \in Runs, Touch(g)
  PROVE  DeployIInv'
<1>1. PICK me : me = run[g]
  OBVIOUS
<1>2. /\ me \in RunStates /\ Placed(me) /\ Held(me) /\ me.pc = "touch" /\ ~RunAt(g, "idle")
      /\ me.rebuilt = {} /\ me.copy \in Triggers /\ Unsaved(me) = {} /\ Lagging(me) = {}
  BY <1>1, StepStarts DEF Touch, RunAt, Placed, AtWork, Unsaved, Lagging
<1>3. PICK r : r = [me EXCEPT !.pc = "answered", !.ok = TRUE, !.copy = Unset]
  OBVIOUS
<1>4. /\ r \in RunStates /\ r.pc = "answered" /\ r.commit = me.commit
      /\ r.rebuilt = {} /\ r.applied = me.applied /\ r.fresh = me.fresh
  BY <1>2, <1>3 DEF RunStates
<1>5. /\ Go(g, r) /\ UNCHANGED <<image, made, specs, fleet, count, disturbed>>
      /\ trigger' = me.copy
  BY <1>1, <1>3 DEF Touch
<1>6. Placed(r)
  BY <1>2, <1>4 DEF Placed, InFile, AtWork
<1>7. DeployStore' /\ TriggerHeld' /\ \A b \in Apps : made[b] \subseteq made'[b]
  BY <1>2, <1>5, StepStarts DEF DeployStore, TriggerHeld, WasBuilt, Held, AtWork
<1>8. Held(r)'
  BY <1>4 DEF Held, AtWork, InFile
<1>9. CleanRun(me) => CleanRun(r)'
  BY <1>2, <1>4, <1>5 DEF CleanRun, RecordTrue, FleetTrue, Views, Aim, Unsaved, Lagging, AtWork, InFile
<1>. QED  BY <1>1, <1>2, <1>4, <1>5, <1>6, <1>7, <1>8, <1>9, StepStarts, StepKeeps

LEMMA AnsweredKeeps ==
  ASSUME DeployIInv, NEW g \in Runs, Answered(g)
  PROVE  DeployIInv'
BY NoRunIs, Calm, SameCount DEF Answered, RunAt, Unsaved, Lagging, CleanRun, RecordTrue, FleetTrue

LEMMA CleanKept ==
  ASSUME CleanRuns, UNCHANGED run, \A r : CleanRun(r) => CleanRun(r)'
  PROVE  CleanRuns'
<1>1. ASSUME NEW g \in Runs, Sole(g)' PROVE CleanRun(run[g])'
  <2>1. PICK q : q = run[g]
    OBVIOUS
  <2>2. CleanRun(q)
    BY <1>1, <2>1 DEF CleanRuns, Sole, RunAt
  <2>3. CleanRun(q)' /\ q = run'[g]
    BY <2>1, <2>2
  <2>4. RecordTrue(run[g])'
    BY <2>3 DEF CleanRun, RecordTrue
  <2>5. FleetTrue(run[g])'
    BY <2>3 DEF CleanRun, FleetTrue
  <2>6. Views(run[g])'
    <3>1. Views(q)' /\ q = run'[g]
      BY <2>3 DEF CleanRun
    <3>. QED  BY ONLY <3>1 DEF Views
  <2>. QED  BY <2>4, <2>5, <2>6 DEF CleanRun
<1>. QED  BY <1>1 DEF CleanRuns, Sole, RunAt

LEMMA EditKeeps == DeployIInv /\ Edit => DeployIInv'
<1>. SUFFICES ASSUME DeployIInv, Edit PROVE DeployIInv'
  OBVIOUS
<1>1. UNCHANGED <<image, made, specs, fleet, run, disturbed>>
  BY DEF Edit
<1>2. DeployStore /\ TriggerHeld
  BY DEF DeployIInv, DeployRunsType, RecordsHeld
<1>3. \/ trigger' = Unset
      \/ trigger' \in Triggers /\ trigger \in Triggers /\ trigger # Unset /\ trigger'.built = trigger.built
  BY <1>2 DEF Edit, DeployStore, Triggers
<1>4. DeployStore'
  BY <1>1, <1>2, <1>3, Troubles DEF DeployStore, Edit
<1>5. DeployRunsType'
  BY <1>1, <1>4 DEF DeployIInv, DeployRunsType, Placed
<1>6. RecordsHeld'
  BY <1>1, <1>3 DEF DeployIInv, RecordsHeld, TriggerHeld, Held, WasBuilt, Aim
<1>7. \A r : CleanRun(r) => CleanRun(r)'
  BY <1>1, <1>3 DEF RecordTrue, FleetTrue, Views, CleanRun
<1>8. CleanRuns => CleanRuns'
  BY <1>1, <1>7, CleanKept
<1>. QED  BY <1>1, <1>5, <1>6, <1>8 DEF DeployIInv

LEMMA ReconcileKeeps ==
  ASSUME DeployIInv, NEW a \in Released, Reconcile(a)
  PROVE  DeployIInv'
<1>1. /\ UNCHANGED <<trigger, image, made, specs, run, count, disturbed>>
      /\ fleet' = [fleet EXCEPT ![a] = [image |-> image[a], spec |-> specs[a]]]
  BY DEF Reconcile
<1>2. DeployStore /\ a \in Apps
  BY DEF DeployIInv, DeployRunsType
<1>3. DeployStore'
  BY <1>1, <1>2 DEF DeployStore
<1>4. DeployRunsType'
  BY <1>1, <1>3 DEF DeployIInv, DeployRunsType, Placed
<1>5. RecordsHeld'
  BY <1>1 DEF DeployIInv, RecordsHeld, TriggerHeld, Held, WasBuilt, Aim
<1>6. fleet'[a] = [image |-> image[a], spec |-> specs[a]] /\ \A b \in Released \ {a} : fleet'[b] = fleet[b]
  BY <1>1, <1>2 DEF DeployStore
<1>7. \A r : CleanRun(r) => CleanRun(r)'
  BY <1>1, <1>6 DEF RecordTrue, FleetTrue, Views, CleanRun
<1>8. CleanRuns => CleanRuns'
  BY <1>1, <1>7, CleanKept
<1>. QED  BY <1>1, <1>4, <1>5, <1>8 DEF DeployIInv

LEMMA DeployInitOK == DeployRunsInit => DeployIInv
<1>. SUFFICES ASSUME DeployRunsInit PROVE DeployIInv
  OBVIOUS
<1>1. DeployStore
  <2>1. Unset \in Trees /\ Unset \in DeploySpecs
    BY DEF Trees, DeploySpecs
  <2>2. [enabled |-> TRUE, built |-> [p \in Paths |-> Unset]] \in Triggers
    BY <2>1 DEF Triggers
  <2>3. 0 \in 0 .. MaxRuns /\ 0 \in 0 .. MaxTroubles
    OBVIOUS
  <2>. QED  BY <2>1, <2>2, <2>3 DEF DeployRunsInit, DeployStore
<1>2. NoRun \in RunStates /\ Placed(NoRun) /\ Held(NoRun) /\ Views(NoRun)
      /\ Unsaved(NoRun) = {} /\ Lagging(NoRun) = {} /\ NoRun.pc = "idle"
  BY NoRunIs DEF NoRun
<1>3. \A p \in Paths : trigger.built[p] = Unset
  BY DEF DeployRunsInit
<1>4. \A a \in Apps : trigger.built[PathOf[a]] = Unset
  BY <1>3 DEF Paths
<1>5. DeployRunsType
  BY <1>1, <1>2 DEF DeployRunsType, DeployRunsInit
<1>6. RecordsHeld
  BY <1>2, <1>4 DEF RecordsHeld, TriggerHeld, WasBuilt, DeployRunsInit
<1>7. \A a \in Released : fleet[a] = Unset
  BY DEF DeployRunsInit
<1>8. CleanRun(NoRun)
  BY <1>2, <1>4, <1>7 DEF CleanRun, RecordTrue, FleetTrue
<1>9. CleanRuns
  BY <1>2, <1>8 DEF CleanRuns, DeployRunsInit, RunAt
<1>. QED  BY <1>5, <1>6, <1>9 DEF DeployIInv

LEMMA DeployInductive == OwnContexts /\ DeployIInv /\ [DeployRunsNext]_deployRunsVars => DeployIInv'
<1>. SUFFICES ASSUME OwnContexts, DeployIInv, [DeployRunsNext]_deployRunsVars PROVE DeployIInv'
  OBVIOUS
<1>1. CASE UNCHANGED deployRunsVars
  <2>1. UNCHANGED <<trigger, image, made, specs, fleet, run, count, disturbed>>
    BY <1>1 DEF deployRunsVars
  <2>2. DeployRunsType' /\ RecordsHeld'
    BY <2>1 DEF DeployIInv, DeployRunsType, DeployStore, RecordsHeld, TriggerHeld, Held, WasBuilt, Aim, Placed
  <2>3. \A r : CleanRun(r) => CleanRun(r)'
    BY <2>1 DEF RecordTrue, FleetTrue, Views, CleanRun
  <2>4. CleanRuns => CleanRuns'
    BY <2>1, <2>3, CleanKept
  <2>. QED  BY <2>1, <2>2, <2>4 DEF DeployIInv
<1>2. CASE DeployRunsNext
  BY <1>2, StartKeeps, NextFileKeeps, DownloadKeeps, MakeReleaseKeeps, FinishBuildKeeps,
     RememberKeeps, ReadBeforeKeeps, ApplyFileKeeps, ReleaseNextKeeps, TouchKeeps, AnsweredKeeps,
     EditKeeps, ReconcileKeeps DEF DeployRunsNext
<1>. QED  BY <1>1, <1>2

LEMMA DeployMeans == DeployIInv => RunsDeliver
<1>. SUFFICES ASSUME DeployIInv PROVE RunsDeliver
  OBVIOUS
<1>1. RecordHonest
  BY DEF DeployIInv, RecordsHeld, TriggerHeld, WasBuilt, RecordHonest
<1>2. ASSUME ~disturbed, NEW g \in Runs, RunAt(g, "answered") PROVE Delivered(g)
  <2>1. CleanRun(run[g]) /\ run[g] \in RunStates
    BY <1>2, StepStarts DEF RunAt
  <2>2. Lagging(run[g]) = {}
    BY <1>2 DEF Lagging, RunAt
  <2>. QED  BY <2>1, <2>2 DEF Delivered, CleanRun, FleetTrue, Views, Aim
<1>. QED  BY <1>1, <1>2 DEF RunsDeliver, CleanRunsDeliver, OkDelivers

(* Where no two apps are built from one directory, whatever runs fail, overlap *)
(* or lose their record, and whatever operators do to the trigger: a recorded   *)
(* tree is one an image was made from, and a run that answers OK on an          *)
(* undisturbed box has delivered its commit (applyFromRepo, rememberBuilt,      *)
(* releaseDeployments).                                                         *)
THEOREM DeployRunsCorrect == ASSUME OwnContexts PROVE DeployRunsSpec => []RunsDeliver
<1>1. DeployIInv /\ [DeployRunsNext]_deployRunsVars => DeployIInv'
  BY DeployInductive
<1>. QED  BY <1>1, DeployInitOK, DeployMeans, PTL DEF DeployRunsSpec
=============================================================================
