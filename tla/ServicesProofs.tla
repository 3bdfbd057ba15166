---------------------------- MODULE ServicesProofs ----------------------------
(***************************************************************************)
(* Proofs about what stands around the workloads: Wire, Containers,        *)
(* Registries, Webhooks, Plugins, Mesh, Forwarded, Ingress, Assets and     *)
(* Trail, for every value of their constants. Each component has its own   *)
(* inductive invariant, named after it.                                    *)
(***************************************************************************)
EXTENDS Wire, Containers, Registries, Webhooks, Plugins, Mesh, Forwarded, Ingress, Assets, Trail,
        FiniteSetTheorems, SequenceTheorems, TLAPS

-----------------------------------------------------------------------------
(* Wire. The argument: whoever holds the lock works from what etcd had when   *)
(* it listed, and no one changes etcd meanwhile, so after each call one more  *)
(* of the three copies is etcd's. What a cut leaves behind does not matter:   *)
(* each call overwrites or removes whatever it finds, and a key at two        *)
(* addresses, which would let a peer take another's place, is never recorded. *)

RecordedPeer == [key : Keys, ep : Endpoints]
WgPeer == [addr : Addresses \cup {NoAddress}, ep : Endpoints]
ConfPeer == [addr : Addresses, key : Keys, ep : Endpoints]
WirePcs == {"idle", "list", "write", "addconf", "trim", "route"}

\* Every variable has its type.
WireType ==
  /\ record \in [Addresses -> RecordedPeer \cup {NoPeer}]
  /\ conf \subseteq ConfPeer
  /\ wg0 \in [Keys -> WgPeer \cup {NoPeer}]
  /\ routes \subseteq Addresses
  /\ hand.pc \in WirePcs /\ hand.peers \subseteq ConfPeer
  /\ hand = [pc |-> hand.pc, peers |-> hand.peers, said |-> hand.said]
  /\ synced \in BOOLEAN

OneAddressPerKey ==
  \A a, b \in Addresses : a # b /\ record[a] # NoPeer /\ record[b] # NoPeer
                          => record[a].key # record[b].key

\* Each peer of ps is on w, at its address, with its endpoint.
OnWg(w, ps) ==
  \A p \in ps : /\ w[p.key] # NoPeer /\ w[p.key].addr = p.addr
                /\ p.ep # NoEndpoint => w[p.key].ep = p.ep

\* What the holder of the lock has brought to match so far.
HandTrue ==
  /\ hand.pc \in {"write", "addconf", "trim", "route"} => hand.peers = Recorded
  /\ hand.pc \in {"addconf", "trim", "route"} => conf = Recorded
  /\ hand.pc \in {"trim", "route"} => OnWg(wg0, Recorded)
  /\ hand.pc = "route" => WgKeys = {p.key : p \in Recorded}
  /\ hand.pc # "idle" => ~synced

InSync ==
  /\ conf = Recorded /\ routes = {p.addr : p \in Recorded}
  /\ WgKeys = {p.key : p \in Recorded} /\ OnWg(wg0, Recorded)

WireIInv == WireType /\ OneAddressPerKey /\ HandTrue /\ (synced => InSync)

LEMMA RecordedLemma ==
  ASSUME WireType, OneAddressPerKey
  PROVE  /\ Recorded \subseteq ConfPeer
         /\ \A p, q \in Recorded : p.key = q.key => p = q
<1> USE WireAssumption
<1>1. \A a \in Addresses : record[a] # NoPeer => record[a].key \in Keys /\ record[a].ep \in Endpoints
  BY DEF WireType, RecordedPeer
<1>2. \A p \in Recorded : \E a \in Addresses :
         record[a] # NoPeer /\ p = [addr |-> a, key |-> record[a].key, ep |-> record[a].ep]
  BY DEF Recorded
<1>. QED  BY <1>1, <1>2 DEF ConfPeer, OneAddressPerKey

\* What wg addconf makes of one key.
LEMMA ConfAt ==
  ASSUME NEW w \in [Keys -> WgPeer \cup {NoPeer}], NEW ps \in SUBSET ConfPeer, NEW k \in Keys
  PROVE  /\ Conf(w, ps)[k] \in WgPeer \cup {NoPeer}
         /\ (\E p \in ps : p.key = k) =>
              \E p \in ps : /\ p.key = k
                            /\ Conf(w, ps)[k] # NoPeer /\ Conf(w, ps)[k].addr = p.addr
                            /\ p.ep # NoEndpoint => Conf(w, ps)[k].ep = p.ep
<1> USE WireAssumption
<1> DEFINE mine == {p \in ps : p.key = k}
           the == CHOOSE p \in mine : TRUE
           ep == IF the.ep = NoEndpoint /\ w[k] # NoPeer THEN w[k].ep ELSE the.ep
           new == [addr |-> the.addr, ep |-> ep]
<1>1. Conf(w, ps)[k] = IF mine # {} THEN new
                       ELSE IF w[k] # NoPeer /\ \E p \in ps : p.addr = w[k].addr
                       THEN [w[k] EXCEPT !.addr = NoAddress] ELSE w[k]
  BY DEF Conf
<1>2. w[k] = NoPeer \/ w[k] \in WgPeer
  OBVIOUS
<1>3. CASE mine # {}
  <2>1. the \in ps /\ the.key = k
    BY <1>3
  <2> HIDE DEF the
  <2>2. the.addr \in Addresses /\ the.ep \in Endpoints
    BY <2>1 DEF ConfPeer
  <2>3. ep \in Endpoints /\ (the.ep # NoEndpoint => ep = the.ep)
    BY <1>2, <2>2 DEF WgPeer
  <2> HIDE DEF ep
  <2>4. new \in WgPeer /\ new # NoPeer /\ new.addr = the.addr /\ new.ep = ep
    BY <2>2, <2>3 DEF WgPeer
  <2> HIDE DEF new
  <2>. QED  BY <1>1, <1>3, <2>1, <2>3, <2>4
<1>4. CASE mine = {}
  BY <1>1, <1>4, <1>2 DEF WgPeer
<1>. QED  BY <1>3, <1>4

LEMMA ConfType ==
  ASSUME NEW w \in [Keys -> WgPeer \cup {NoPeer}], NEW ps \in SUBSET ConfPeer
  PROVE  Conf(w, ps) \in [Keys -> WgPeer \cup {NoPeer}]
<1>1. DOMAIN Conf(w, ps) = Keys /\ Conf(w, ps) = [k \in Keys |-> Conf(w, ps)[k]]
  BY DEF Conf
<1>. QED  BY <1>1, ConfAt

\* wg addconf: the peers of ps, if they share no key, are all there afterwards.
LEMMA ConfLemma ==
  ASSUME NEW w \in [Keys -> WgPeer \cup {NoPeer}], NEW ps \in SUBSET ConfPeer,
         \A p, q \in ps : p.key = q.key => p = q
  PROVE  OnWg(Conf(w, ps), ps)
<1>1. ASSUME NEW p \in ps
      PROVE  /\ Conf(w, ps)[p.key] # NoPeer /\ Conf(w, ps)[p.key].addr = p.addr
             /\ p.ep # NoEndpoint => Conf(w, ps)[p.key].ep = p.ep
  BY ConfAt DEF ConfPeer
<1>. QED  BY <1>1 DEF OnWg

LEMMA WireInitially == WireInit => WireIInv
<1> SUFFICES ASSUME WireInit PROVE WireIInv
  OBVIOUS
<1> USE WireAssumption
<1>1. Recorded = {} /\ WgKeys = {}
  BY DEF WireInit, Recorded, WgKeys
<1>2. WireType /\ OneAddressPerKey
  BY DEF WireInit, WireType, WirePcs, FreeHand, OneAddressPerKey
<1>. QED  BY <1>1, <1>2 DEF WireInit, WireIInv, HandTrue, InSync, FreeHand, OnWg

\* A step that leaves etcd, the keys and the type as they are.
LEMMA RecordKept ==
  ASSUME UNCHANGED record
  PROVE  Recorded' = Recorded /\ (OneAddressPerKey => OneAddressPerKey')
  BY DEF Recorded, OneAddressPerKey

LEMMA HandMoves ==
  ASSUME WireType, NEW pc \in WirePcs, Then(pc)
  PROVE  /\ hand'.pc = pc /\ hand'.peers = hand.peers /\ hand'.said = hand.said
         /\ hand' = [pc |-> hand'.pc, peers |-> hand'.peers, said |-> hand'.said]
  BY DEF WireType, Then

LEMMA HandSays ==
  ASSUME NEW s, Say(s)
  PROVE  /\ hand'.pc = "idle" /\ hand'.peers = {}
         /\ hand' = [pc |-> hand'.pc, peers |-> hand'.peers, said |-> hand'.said]
  BY DEF Say, FreeHand

\* A peer added or removed by the holder of the lock, who must list next.
LEMMA Changed ==
  ASSUME WireIInv, NEW a \in Addresses, NEW r \in RecordedPeer \cup {NoPeer},
         record' = [record EXCEPT ![a] = r],
         \A b \in Addresses \ {a} : r # NoPeer /\ record[b] # NoPeer => record[b].key # r.key,
         Then("list"), synced' = FALSE, UNCHANGED <<conf, wg0, routes>>
  PROVE  WireIInv'
BY HandMoves DEF WireIInv, WirePcs, WireType, OneAddressPerKey, HandTrue

LEMMA Refused ==
  ASSUME WireIInv, AtHand("idle"), NEW s, Say(s), UNCHANGED <<record, conf, wg0, routes, synced>>
  PROVE  WireIInv'
BY HandSays, RecordKept DEF WireIInv, WireType, WirePcs, WgKeys, HandTrue, InSync, OnWg

LEMMA WireStep == WireIInv /\ [WireNext]_wireVars => WireIInv'
<1> SUFFICES ASSUME WireIInv, [WireNext]_wireVars PROVE WireIInv'
  OBVIOUS
<1> USE WireAssumption
<1>t. WireType /\ OneAddressPerKey /\ HandTrue /\ (synced => InSync)
  BY DEF WireIInv
<1>r. Recorded \subseteq ConfPeer /\ \A p, q \in Recorded : p.key = q.key => p = q
  BY <1>t, RecordedLemma
<1>0. CASE UNCHANGED wireVars
  BY <1>0 DEF WireIInv, WireType, OneAddressPerKey, HandTrue, InSync, OnWg, WgKeys, Recorded, wireVars
<1>1. ASSUME NEW a \in Addresses, NEW k \in Keys, NEW e \in Endpoints, AddPeer(a, k, e) PROVE WireIInv'
  <2>1. CASE \E p \in Recorded : p.key = k /\ p.addr # a
    BY <1>1, <2>1, Refused DEF AddPeer
  <2>2. CASE ~ \E p \in Recorded : p.key = k /\ p.addr # a
    <3> DEFINE r == [key |-> k, ep |-> e]
    <3>1. r \in RecordedPeer /\ r.key = k
      BY DEF RecordedPeer
    <3>2. ASSUME NEW b \in Addresses \ {a}, record[b] # NoPeer PROVE record[b].key # k
      <4> DEFINE p == [addr |-> b, key |-> record[b].key, ep |-> record[b].ep]
      <4>1. p \in Recorded
        BY <3>2 DEF Recorded
      <4>. QED  BY <2>2, <3>2, <4>1
    <3>3. record' = [record EXCEPT ![a] = r] /\ Then("list") /\ synced' = FALSE /\ UNCHANGED <<conf, wg0, routes>>
      BY <1>1, <2>2 DEF AddPeer
    <3> HIDE DEF r
    <3>. QED  BY <3>1, <3>2, <3>3, Changed
  <2>. QED  BY <2>1, <2>2
<1>2. ASSUME NEW a \in Addresses, RemovePeer(a) PROVE WireIInv'
  BY <1>2, Refused, Changed DEF RemovePeer
<1>3. CASE ListPeers
  BY <1>3, <1>t, RecordKept, <1>r DEF ListPeers, WireType, HandTrue, AtHand, WirePcs, WireIInv
<1>4. CASE WriteConf
  BY <1>4, <1>t, HandMoves, RecordKept, <1>r DEF WriteConf, WirePcs, HandTrue, AtHand, WireType, WireIInv
<1>5. CASE AddConf
  BY <1>5, <1>t, HandMoves, RecordKept, <1>r, ConfLemma, ConfType DEF AddConf, WirePcs, HandTrue, AtHand,
     WireType, WireIInv, OnWg
<1>6. CASE Trim
  <2> DEFINE extra == WgKeys \ {p.key : p \in hand.peers}
  <2>1. hand.peers = Recorded /\ conf = Recorded /\ OnWg(wg0, Recorded) /\ ~synced /\ hand.pc = "trim"
    BY <1>6, <1>t DEF Trim, HandTrue, AtHand
  <2>2. Recorded' = Recorded /\ OneAddressPerKey' /\ ~synced' /\ conf' = Recorded
    BY <1>6, <1>t, <2>1, RecordKept DEF Trim
  <2>3. CASE extra = {}
    BY <1>6, <1>t, <2>3, HandMoves, <1>r, <2>1, <2>2 DEF Trim, WirePcs, WgKeys, OnWg, ConfPeer, WireType,
       WireIInv, HandTrue
  <2>4. CASE extra # {}
    BY <1>6, <2>4, <2>1, <1>t, <1>r, <2>2 DEF Trim, WgKeys, WireType, OnWg, ConfPeer, WireIInv, HandTrue
  <2>. QED  BY <2>3, <2>4
<1>7. CASE Route
  <2> DEFINE wanted == {p.addr : p \in hand.peers}
  <2>1. /\ hand.peers = Recorded /\ conf = Recorded /\ OnWg(wg0, Recorded) /\ ~synced
        /\ WgKeys = {p.key : p \in Recorded} /\ hand.pc = "route"
    BY <1>7, <1>t DEF Route, HandTrue, AtHand
  <2>2. UNCHANGED <<record, conf, wg0>>
    BY <1>7 DEF Route
  <2>3. Recorded' = Recorded /\ OneAddressPerKey' /\ WgKeys' = WgKeys
    BY <1>t, <2>2, RecordKept DEF WgKeys
  <2>4. wanted \subseteq Addresses
    BY <1>r, <2>1 DEF ConfPeer
  <2>5. CASE wanted = routes
    BY <1>7, <2>5, <1>t, <2>2, HandSays, <2>1, <2>3 DEF Route, WireType, WirePcs, InSync, OnWg, WireIInv,
       HandTrue
  <2>6. CASE wanted # routes
    BY <1>7, <1>t, <2>4, <2>6, <2>2, <2>1, <2>3 DEF Route, WireType, WireIInv, HandTrue, OnWg
  <2>. QED  BY <2>5, <2>6
<1>8. CASE FailApply
  BY <1>8, <1>t, HandSays, RecordKept DEF FailApply, HandTrue, AtHand, WireType, WirePcs, WireIInv
<1>9. ASSUME NEW reboot \in BOOLEAN, StartUp(reboot) PROVE WireIInv'
  <2>1. UNCHANGED <<record, conf>> /\ Recorded' = Recorded /\ OneAddressPerKey'
    BY <1>9, <1>t, RecordKept DEF StartUp
  <2>2. /\ hand'.peers = {} /\ hand'.pc \in {"idle", "list"} /\ (Recorded # {} => hand'.pc = "list")
        /\ hand' = [pc |-> hand'.pc, peers |-> hand'.peers, said |-> hand'.said]
        /\ hand'.pc = "list" => ~synced'
    BY <1>9 DEF StartUp, FreeHand
  <2>3. synced' <=> (Recorded = {} /\ synced)
    BY <1>9, <1>t DEF StartUp, WireType
  <2>4. wg0' \in [Keys -> WgPeer \cup {NoPeer}] /\ routes' \subseteq Addresses
    <3>1. CASE reboot
      <4> DEFINE none == [k \in Keys |-> NoPeer]
      <4>1. wg0' = Conf(none, conf) /\ routes' = {}
        BY <1>9, <3>1 DEF StartUp
      <4>2. Conf(none, conf) \in [Keys -> WgPeer \cup {NoPeer}]
        BY <1>t, ConfType DEF WireType
      <4>. QED  BY <4>1, <4>2
    <3>2. CASE ~reboot
      BY <1>9, <1>t, <3>2 DEF StartUp, WireType
    <3>. QED  BY <3>1, <3>2
  <2>5. WireType'
    BY <1>t, <2>1, <2>2, <2>3, <2>4 DEF WireType, WirePcs
  <2>6. ASSUME synced' PROVE InSync'
    <3>1. Recorded = {} /\ conf = {} /\ routes = {} /\ WgKeys = {}
      BY <1>t, <2>3, <2>6 DEF InSync
    <3>2. routes' = {} /\ wg0' = [k \in Keys |-> NoPeer]
      BY <1>t, <3>1, <1>9 DEF WireType, WgKeys, StartUp, Conf
    <3>3. WgKeys' = {}
      BY <3>2 DEF WgKeys
    <3>. QED  BY <2>1, <3>1, <3>2, <3>3 DEF InSync, OnWg
  <2>. QED  BY <2>1, <2>2, <2>5, <2>6 DEF WireIInv, HandTrue
<1>. QED  BY <1>0, <1>1, <1>2, <1>3, <1>4, <1>5, <1>6, <1>7, <1>8, <1>9 DEF WireNext

\* Every variable of the peers' state stays in its type (wire.go).
THEOREM WireTypeCorrect == WireSpec => []WireType
<1>1. WireIInv => WireType
  BY DEF WireIInv
<1>. QED  BY WireInitially, WireStep, <1>1, PTL DEF WireSpec

\* After every apply that goes through, wg0, the peers file and the routes are
\* what etcd records, for any hosts, keys and endpoints and any sequence of
\* adds, removals, failed calls, restarts and reboots; no key is two hosts'.
THEOREM WireCorrect == WireSpec => []WireTrue
<1>1. WireIInv => WireTrue
  BY DEF WireIInv, OneAddressPerKey, InSync, OnWg, WireTrue
<1>. QED  BY WireInitially, WireStep, <1>1, PTL DEF WireSpec

-----------------------------------------------------------------------------
(* Containers. Of a container that is not torn, somebody who is still joining *)
(* has every network it lacks left to join, or somebody is about to remove    *)
(* it. Who is alone meets at each call what the one before it left.           *)

CtrRec == [up : BOOLEAN, nets : SUBSET Nets, restarts : BOOLEAN, held : BOOLEAN, torn : BOOLEAN]
CtrPcs == {"exists", "policy", "running", "stop", "start", "remove", "restart", "run", "join", "undo",
           "done", "failed"}
CtrOpNames == {"none", "ensure", "recreate", "remove", "stop", "start", "restart"}
Caller == [op : CtrOpNames, pc : CtrPcs, nets : SUBSET Nets, fooled : BOOLEAN, alone : BOOLEAN]

\* Every variable has its type.
ContainersType == ctr \in CtrRec \cup {NoCtr} /\ callers \in [Callers -> Caller]

\* The calls an operation comes to.
Fits(q) ==
  /\ q.pc \in {"policy"} => q.op = "ensure"
  /\ q.pc \in {"running", "start"} => q.op \in {"ensure", "start", "stop"}
  /\ q.pc = "start" => q.op # "stop"
  /\ q.pc = "stop" => q.op \in {"recreate", "remove", "stop"}
  /\ q.pc = "remove" => q.op \in {"recreate", "remove"}
  /\ q.pc \in {"run", "join", "undo"} => q.op \in {"ensure", "recreate"}
  /\ q.pc = "restart" => q.op = "restart"
  /\ q.pc = "exists" => q.op \in {"ensure", "recreate", "remove", "stop", "start"}
AllFit == \A c \in Callers : Fits(callers[c])

\* Nobody is at work beside a caller that is alone.
AloneTrue == \A c, d \in Callers : callers[c].alone /\ callers[c].op # "none" /\ d # c => ~Engaged(d)

\* The outcome an operation promises.
Promised(op) ==
  CASE op \in {"ensure", "recreate", "start", "restart"} -> ctr # NoCtr /\ ctr.up
    [] op = "remove" -> ctr = NoCtr
    [] op = "stop" -> ctr = NoCtr \/ (ctr # NoCtr /\ ~ctr.up)
Kept(q) ==
  q.alone /\ q.op # "none" =>
    /\ q.pc = "done" /\ ~q.fooled => Promised(q.op)
    /\ q.pc = "join" => ctr # NoCtr /\ ctr.up
AllKept == \A c \in Callers : Kept(callers[c])

BeingJoined ==
  ctr # NoCtr /\ ~ctr.torn /\ ctr.nets # Nets =>
    \E c \in Callers : \/ callers[c].pc = "undo"
                       \/ callers[c].pc = "join" /\ Nets \ ctr.nets \subseteq callers[c].nets

ContainersIInv == ContainersType /\ AllFit /\ AloneTrue /\ AllKept /\ BeingJoined

\* One caller at work takes a step: what must be shown of it.
LEMMA CallerStep ==
  ASSUME ContainersIInv, NEW c \in Callers, Engaged(c), NEW r \in Caller,
         callers' = [callers EXCEPT ![c] = r], ctr' \in CtrRec \cup {NoCtr},
         r.op = callers[c].op, r.alone = callers[c].alone, Fits(r), Kept(r)', BeingJoined'
  PROVE  ContainersIInv'
<1>1. ContainersType'
  BY DEF ContainersIInv, ContainersType
<1>2. callers'[c] = r /\ \A d \in Callers \ {c} : callers'[d] = callers[d]
  BY DEF ContainersIInv, ContainersType
<1>3. AllFit'
  BY <1>2 DEF ContainersIInv, AllFit, Fits
<1>4. \A d \in Callers : d # c => ~(callers[d].alone /\ callers[d].op # "none")
  BY DEF ContainersIInv, AloneTrue
<1>5. AloneTrue'
  BY <1>2, <1>4 DEF ContainersIInv, AloneTrue, Engaged
<1>6. AllKept'
  BY <1>2, <1>4 DEF Kept, Promised, AllKept
<1>. QED  BY <1>1, <1>3, <1>5, <1>6 DEF ContainersIInv

\* What a caller remembers as it goes on to its next call.
LEMMA GoesOn ==
  ASSUME ContainersIInv, NEW c \in Callers, NEW pc \in CtrPcs, GoOn(c, pc)
  PROVE  \E r \in Caller : /\ callers' = [callers EXCEPT ![c] = r]
                           /\ r.op = callers[c].op /\ r.alone = callers[c].alone /\ r.pc = pc
                           /\ r.nets = callers[c].nets /\ r.fooled = callers[c].fooled
<1> DEFINE r == [callers[c] EXCEPT !.pc = pc]
<1>1. callers[c] \in Caller
  BY DEF ContainersIInv, ContainersType
<1>2. r \in Caller /\ r.op = callers[c].op /\ r.alone = callers[c].alone /\ r.pc = pc
      /\ r.nets = callers[c].nets /\ r.fooled = callers[c].fooled
  BY <1>1 DEF Caller
<1>3. callers' = [callers EXCEPT ![c] = r]
  BY DEF GoOn
<1> HIDE DEF r
<1>. QED  BY <1>2, <1>3

LEMMA GoesOnFooled ==
  ASSUME ContainersIInv, NEW c \in Callers, NEW pc \in CtrPcs, Fooled(c, pc)
  PROVE  \E r \in Caller : /\ callers' = [callers EXCEPT ![c] = r]
                           /\ r.op = callers[c].op /\ r.alone = callers[c].alone /\ r.pc = pc
                           /\ r.nets = callers[c].nets /\ r.fooled = TRUE
<1> DEFINE r == [callers[c] EXCEPT !.pc = pc, !.fooled = TRUE]
<1>1. callers[c] \in Caller
  BY DEF ContainersIInv, ContainersType
<1>2. r \in Caller /\ r.op = callers[c].op /\ r.alone = callers[c].alone /\ r.pc = pc
      /\ r.nets = callers[c].nets /\ r.fooled = TRUE
  BY <1>1 DEF Caller
<1>3. callers' = [callers EXCEPT ![c] = r]
  BY DEF Fooled
<1> HIDE DEF r
<1>. QED  BY <1>2, <1>3

\* A step of a caller that joins nothing leaves the joining to those who do.
LEMMA JoinersStay ==
  ASSUME ContainersIInv, NEW c \in Callers, NEW r \in Caller, callers' = [callers EXCEPT ![c] = r],
         callers[c].pc \notin {"join", "undo"},
         ctr' = NoCtr \/ (ctr # NoCtr /\ ctr'.nets = ctr.nets /\ ctr'.torn = ctr.torn)
  PROVE  BeingJoined'
BY DEF ContainersIInv, ContainersType, BeingJoined

\* A docker call that went through, or did not.
LEMMA CallStep ==
  ASSUME ContainersIInv, NEW c \in Callers, NEW pc \in CtrPcs \ {"done", "failed", "join", "undo"},
         NEW then \in CtrPcs, NEW new, Call(c, pc, then, new),
         ctr # NoCtr => \/ new = NoCtr
                        \/ new \in CtrRec /\ new.nets = ctr.nets /\ new.torn = ctr.torn,
         NEW r0, r0 = [op |-> callers[c].op, pc |-> then], Fits(r0),
         then # "join", then = "done" /\ ctr # NoCtr /\ ctr' = new => Promised(callers[c].op)'
  PROVE  ContainersIInv'
<1> USE ContainersAssumption
<1>1. ctr \in CtrRec \cup {NoCtr} /\ ctr' \in CtrRec \cup {NoCtr}
  BY DEF Call, ContainersIInv, ContainersType
<1>2. callers[c].pc = pc /\ Engaged(c)
  BY DEF Call, InPc, Engaged
<1>3. CASE ctr # NoCtr /\ ctr' = new /\ GoOn(c, then)
  <2>1. PICK r \in Caller : /\ callers' = [callers EXCEPT ![c] = r]
                           /\ r.op = callers[c].op /\ r.alone = callers[c].alone /\ r.pc = then
    BY <1>3, GoesOn
  <2>2. BeingJoined'
    BY <1>2, <1>3, <2>1, JoinersStay
  <2>3. Fits(r) /\ Kept(r)'
    BY <1>3, <2>1 DEF Fits, Kept
  <2>. QED  BY <1>1, <1>2, <2>1, <2>2, <2>3, CallerStep
<1>4. CASE ctr' = ctr /\ GoOn(c, "failed")
  BY <1>4, GoesOn, <1>2, JoinersStay, <1>1, CallerStep DEF CtrPcs, Fits, Kept
<1>. QED  BY <1>3, <1>4 DEF Call

\* A look, or the mending of the policy: the caller goes on to pc, whatever it saw.
LEMMA LookStep ==
  ASSUME ContainersIInv, NEW c \in Callers, Engaged(c), callers[c].pc \notin {"join", "undo"},
         NEW pc \in CtrPcs, pc # "join",
         Fooled(c, pc) \/ (GoOn(c, pc) /\ (pc = "done" => Promised(callers[c].op)')),
         ctr' = ctr \/ (ctr # NoCtr /\ ctr' = [ctr EXCEPT !.restarts = @ \/ Managed]),
         NEW r0, r0 = [op |-> callers[c].op, pc |-> pc], Fits(r0)
  PROVE  ContainersIInv'
<1> USE ContainersAssumption
<1>a. ctr \in CtrRec \cup {NoCtr}
  BY DEF ContainersIInv, ContainersType
<1>1. /\ ctr' \in CtrRec \cup {NoCtr}
      /\ ctr' = NoCtr \/ (ctr # NoCtr /\ ctr'.nets = ctr.nets /\ ctr'.torn = ctr.torn)
  <2>1. CASE ctr' = ctr
    BY <1>a, <2>1
  <2>2. CASE ctr # NoCtr /\ ctr' = [ctr EXCEPT !.restarts = @ \/ Managed]
    BY <1>a, <2>2 DEF CtrRec
  <2>. QED  BY <2>1, <2>2
<1>2. CASE Fooled(c, pc)
  <2>1. PICK r \in Caller : /\ callers' = [callers EXCEPT ![c] = r]
                           /\ r.op = callers[c].op /\ r.alone = callers[c].alone /\ r.pc = pc
                           /\ r.nets = callers[c].nets /\ r.fooled = TRUE
    BY <1>2, GoesOnFooled
  <2>2. BeingJoined'
    BY <1>1, <2>1, JoinersStay
  <2>3. Fits(r) /\ Kept(r)'
    BY <2>1 DEF Fits, Kept
  <2>. QED  BY <1>1, <2>1, <2>2, <2>3, CallerStep
<1>3. CASE GoOn(c, pc) /\ (pc = "done" => Promised(callers[c].op)')
  <2>1. PICK r \in Caller : /\ callers' = [callers EXCEPT ![c] = r]
                           /\ r.op = callers[c].op /\ r.alone = callers[c].alone /\ r.pc = pc
    BY <1>3, GoesOn
  <2>2. BeingJoined'
    BY <1>1, <2>1, JoinersStay
  <2>3. Fits(r) /\ Kept(r)'
    BY <1>3, <2>1 DEF Fits, Kept
  <2>. QED  BY <1>1, <2>1, <2>2, <2>3, CallerStep
<1>. QED  BY <1>2, <1>3

LEMMA ExistsStep ==
  ASSUME ContainersIInv, NEW c \in Callers, Exists(c)
  PROVE  ContainersIInv'
<1> DEFINE op == callers[c].op
           Yes == CASE op = "ensure" -> "policy" [] op \in {"recreate", "remove"} -> "stop"
                    [] OTHER -> "running"
           No == CASE op \in {"ensure", "recreate"} -> "run" [] op = "start" -> "failed"
                   [] OTHER -> "done"
           R(pc) == [op |-> op, pc |-> pc]
<1>1. Engaged(c) /\ callers[c].pc = "exists" /\ op \in {"ensure", "recreate", "remove", "stop", "start"}
  BY DEF Exists, InPc, Engaged, ContainersIInv, AllFit, Fits
<1>2. UNCHANGED ctr /\ (GoOn(c, IF ctr = NoCtr THEN No ELSE Yes) \/ (ctr # NoCtr /\ Fooled(c, No)))
  BY DEF Exists
<1>3. Yes \in CtrPcs /\ Yes \notin {"join", "done"} /\ Fits(R(Yes))
  BY <1>1 DEF CtrPcs, Fits
<1>4. No \in CtrPcs /\ No # "join" /\ Fits(R(No))
  BY <1>1 DEF CtrPcs, Fits
<1>5. ASSUME ctr = NoCtr, No = "done" PROVE Promised(op)'
  BY <1>1, <1>5, <1>2 DEF Promised, GoOn, ContainersIInv, ContainersType, Caller
<1>6. CASE ctr # NoCtr /\ GoOn(c, Yes)
  <2> HIDE DEF Yes, No, R
  <2>1. R(Yes) = [op |-> callers[c].op, pc |-> Yes]
    BY DEF R
  <2>. QED  BY <1>1, <1>2, <1>3, <1>6, <2>1, LookStep
<1>7. CASE ctr = NoCtr /\ GoOn(c, No)
  <2> HIDE DEF Yes, No, R
  <2>1. R(No) = [op |-> callers[c].op, pc |-> No]
    BY DEF R
  <2>. QED  BY <1>1, <1>2, <1>4, <1>5, <1>7, <2>1, LookStep
<1>8. CASE Fooled(c, No)
  <2> HIDE DEF Yes, No, R
  <2>1. R(No) = [op |-> callers[c].op, pc |-> No]
    BY DEF R
  <2>. QED  BY <1>1, <1>2, <1>4, <1>8, <2>1, LookStep
<1>. QED
  <2> HIDE DEF Yes, No
  <2>. QED  BY <1>2, <1>6, <1>7, <1>8

LEMMA PolicyStep ==
  ASSUME ContainersIInv, NEW c \in Callers, Policy(c)
  PROVE  ContainersIInv'
<1> DEFINE r == [op |-> callers[c].op, pc |-> "running"]
<1>1. Engaged(c) /\ callers[c].pc = "policy" /\ callers[c].op = "ensure"
  BY DEF Policy, InPc, Engaged, ContainersIInv, AllFit, Fits
<1>2. Fits(r) /\ "running" \in CtrPcs
  BY <1>1 DEF Fits, CtrPcs
<1>3. GoOn(c, "running") /\ (ctr' = ctr \/ (ctr # NoCtr /\ ctr' = [ctr EXCEPT !.restarts = @ \/ Managed]))
  BY DEF Policy
<1> HIDE DEF r
<1>4. r = [op |-> callers[c].op, pc |-> "running"]
  BY DEF r
<1>. QED  BY <1>1, <1>2, <1>3, <1>4, LookStep

LEMMA RunningStep ==
  ASSUME ContainersIInv, NEW c \in Callers, Running(c)
  PROVE  ContainersIInv'
<1> DEFINE op == callers[c].op
           Yes == IF op = "stop" THEN "stop" ELSE "done"
           No == IF op = "stop" THEN "done" ELSE "start"
           R(pc) == [op |-> op, pc |-> pc]
<1>1. Engaged(c) /\ callers[c].pc = "running" /\ op \in {"ensure", "start", "stop"}
  BY DEF Running, InPc, Engaged, ContainersIInv, AllFit, Fits
<1>2. UNCHANGED ctr /\ (GoOn(c, IF ctr # NoCtr /\ ctr.up THEN Yes ELSE No) \/ Fooled(c, No))
  BY DEF Running
<1>3. Yes \in CtrPcs /\ Yes # "join" /\ Fits(R(Yes))
  BY <1>1 DEF CtrPcs, Fits
<1>4. No \in CtrPcs /\ No # "join" /\ Fits(R(No))
  BY <1>1 DEF CtrPcs, Fits
<1>5. callers'[c].op = op
  BY <1>2 DEF GoOn, Fooled, ContainersIInv, ContainersType, Caller
<1>6. ASSUME ctr # NoCtr /\ ctr.up, Yes = "done" PROVE Promised(op)'
  BY <1>1, <1>6, <1>2, <1>5 DEF Promised
<1>7. ASSUME ~(ctr # NoCtr /\ ctr.up), No = "done" PROVE Promised(op)'
  BY <1>1, <1>7, <1>2, <1>5 DEF Promised
<1>8. CASE ctr # NoCtr /\ ctr.up /\ GoOn(c, Yes)
  <2> HIDE DEF Yes, No, R
  <2>1. R(Yes) = [op |-> callers[c].op, pc |-> Yes]
    BY DEF R
  <2>. QED  BY <1>1, <1>2, <1>3, <1>6, <1>8, <2>1, LookStep
<1>9. CASE ~(ctr # NoCtr /\ ctr.up) /\ GoOn(c, No)
  <2> HIDE DEF Yes, No, R
  <2>1. R(No) = [op |-> callers[c].op, pc |-> No]
    BY DEF R
  <2>. QED  BY <1>1, <1>2, <1>4, <1>7, <1>9, <2>1, LookStep
<1>10. CASE Fooled(c, No)
  <2> HIDE DEF Yes, No, R
  <2>1. R(No) = [op |-> callers[c].op, pc |-> No]
    BY DEF R
  <2>. QED  BY <1>1, <1>2, <1>4, <1>10, <2>1, LookStep
<1>. QED
  <2> HIDE DEF Yes, No
  <2>. QED  BY <1>2, <1>8, <1>9, <1>10

\* stop, start, remove and restart.
LEMMA CallsStep ==
  ASSUME ContainersIInv, NEW c \in Callers, Stop(c) \/ Revive(c) \/ RemoveCtr(c) \/ Bounce(c)
  PROVE  ContainersIInv'
<1> DEFINE op == callers[c].op
           R(pc) == [op |-> op, pc |-> pc]
<1>t. ctr \in CtrRec \cup {NoCtr} /\ Fits(callers[c])
  BY DEF ContainersIInv, ContainersType, AllFit
<1>o. ASSUME NEW pc, NEW then, NEW new, Call(c, pc, then, new) PROVE callers'[c].op = op
  BY <1>o DEF Call, GoOn, ContainersIInv, ContainersType, Caller
<1>1. CASE Stop(c)
  <2> DEFINE then == IF op = "stop" THEN "done" ELSE "remove"
             new == [ctr EXCEPT !.up = FALSE, !.held = TRUE]
  <2>1. Call(c, "stop", then, new) /\ op \in {"recreate", "remove", "stop"}
    BY <1>1, <1>t DEF Stop, Call, InPc, Fits
  <2>2. ctr # NoCtr => new \in CtrRec /\ new.nets = ctr.nets /\ new.torn = ctr.torn /\ new.up = FALSE
    BY <1>t DEF CtrRec
  <2>3. then \in CtrPcs /\ then # "join" /\ Fits(R(then))
    BY <2>1 DEF CtrPcs, Fits
  <2>4. callers'[c].op = op
    BY <1>o, <2>1
  <2> HIDE DEF new
  <2>5. then = "done" /\ ctr # NoCtr /\ ctr' = new => Promised(op)'
    BY <2>2, <2>1, <2>4 DEF Promised
  <2>6. R(then) = [op |-> callers[c].op, pc |-> then]
    OBVIOUS
  <2>7. "stop" \in CtrPcs \ {"done", "failed", "join", "undo"}
    BY DEF CtrPcs
  <2> HIDE DEF then, R
  <2>. QED  BY <2>1, <2>2, <2>3, <2>5, <2>6, <2>7, CallStep
<1>2. CASE Revive(c)
  <2> DEFINE new == [ctr EXCEPT !.up = TRUE, !.held = FALSE]
  <2>1. Call(c, "start", "done", new) /\ op \in {"ensure", "start"}
    BY <1>2, <1>t DEF Revive, Call, InPc, Fits
  <2>2. ctr # NoCtr => new \in CtrRec /\ new.nets = ctr.nets /\ new.torn = ctr.torn /\ new.up = TRUE
    BY <1>t DEF CtrRec
  <2>3. Fits(R("done"))
    BY DEF Fits
  <2>4. callers'[c].op = op
    BY <1>o, <2>1
  <2> HIDE DEF new
  <2>5. ctr # NoCtr /\ ctr' = new => Promised(op)'
    BY <1>t, <2>2, ContainersAssumption, <2>1, <2>4 DEF Promised, CtrRec
  <2>6. R("done") = [op |-> callers[c].op, pc |-> "done"]
    OBVIOUS
  <2>7. "start" \in CtrPcs \ {"done", "failed", "join", "undo"} /\ "done" \in CtrPcs
    BY DEF CtrPcs
  <2> HIDE DEF R
  <2>. QED  BY <2>1, <2>2, <2>3, <2>5, <2>6, <2>7, CallStep
<1>3. CASE Bounce(c)
  <2> DEFINE new == [ctr EXCEPT !.up = TRUE, !.held = FALSE]
  <2>1. Call(c, "restart", "done", new) /\ op = "restart"
    BY <1>3, <1>t DEF Bounce, Call, InPc, Fits
  <2>2. ctr # NoCtr => new \in CtrRec /\ new.nets = ctr.nets /\ new.torn = ctr.torn /\ new.up = TRUE
    BY <1>t DEF CtrRec
  <2>3. Fits(R("done"))
    BY DEF Fits
  <2>4. callers'[c].op = op
    BY <1>o, <2>1
  <2> HIDE DEF new
  <2>5. ctr # NoCtr /\ ctr' = new => Promised(op)'
    BY <1>t, <2>2, ContainersAssumption, <2>1, <2>4 DEF Promised, CtrRec
  <2>6. R("done") = [op |-> callers[c].op, pc |-> "done"]
    OBVIOUS
  <2>7. "restart" \in CtrPcs \ {"done", "failed", "join", "undo"} /\ "done" \in CtrPcs
    BY DEF CtrPcs
  <2> HIDE DEF R
  <2>. QED  BY <2>1, <2>2, <2>3, <2>5, <2>6, <2>7, CallStep
<1>4. CASE RemoveCtr(c)
  <2> DEFINE then == IF op = "recreate" THEN "run" ELSE "done"
  <2>1. Call(c, "remove", then, NoCtr) /\ op \in {"recreate", "remove"}
    BY <1>4, <1>t DEF RemoveCtr, Call, InPc, Fits
  <2>3. then \in CtrPcs /\ then # "join" /\ Fits(R(then))
    BY <2>1 DEF CtrPcs, Fits
  <2>4. callers'[c].op = op
    BY <1>o, <2>1
  <2>5. then = "done" /\ ctr' = NoCtr => Promised(op)'
    BY <2>1, <2>4 DEF Promised
  <2>6. R(then) = [op |-> callers[c].op, pc |-> then]
    OBVIOUS
  <2>7. "remove" \in CtrPcs \ {"done", "failed", "join", "undo"}
    BY DEF CtrPcs
  <2> HIDE DEF then, R
  <2>. QED  BY <2>1, <2>3, <2>5, <2>6, <2>7, CallStep
<1>. QED  BY <1>1, <1>2, <1>3, <1>4

LEMMA RunNewType ==
  ASSUME NEW starts \in BOOLEAN
  PROVE  RunNew(starts) \in CtrRec /\ RunNew(starts) # NoCtr /\ (RunNew(starts).up <=> starts) /\ (RunNew(starts).torn <=> ~starts)
<1> DEFINE R(a, b) == [up |-> a, nets |-> {}, restarts |-> Managed, held |-> FALSE, torn |-> b]
<1>1. ASSUME NEW a \in BOOLEAN, NEW b \in BOOLEAN
      PROVE  R(a, b) \in CtrRec /\ R(a, b).up = a /\ R(a, b).torn = b
  <2>1. Managed \in BOOLEAN
    BY ContainersAssumption
  <2>. QED  BY <2>1 DEF CtrRec
<1>2. RunNew(starts) = R(starts, ~starts)
  BY DEF RunNew
<1>5. NoCtr \notin CtrRec
  BY ContainersAssumption DEF CtrRec
<1> HIDE DEF R
<1>3. CASE starts = TRUE
  BY <1>3, <1>2, <1>1, <1>5
<1>4. CASE starts = FALSE
  BY <1>4, <1>2, <1>1, <1>5
<1>. QED  BY <1>3, <1>4

LEMMA RunStep ==
  ASSUME ContainersIInv, NEW c \in Callers, RunCtr(c)
  PROVE  ContainersIInv'
<1>1. /\ Engaged(c) /\ callers[c].pc = "run" /\ callers[c].op \in {"ensure", "recreate"}
      /\ callers[c] \in Caller /\ ctr \in CtrRec \cup {NoCtr} /\ "failed" \in CtrPcs
  BY DEF RunCtr, InPc, Engaged, ContainersIInv, AllFit, Fits, ContainersType, CtrPcs
<1>2. CASE /\ ctr = NoCtr /\ ctr' = RunNew(TRUE)
           /\ callers' = [callers EXCEPT ![c].pc = "join", ![c].nets = Nets]
  <2> DEFINE s == [callers[c] EXCEPT !.pc = "join", !.nets = Nets]
  <2>1. /\ s \in Caller /\ s.op = callers[c].op /\ s.alone = callers[c].alone
        /\ s.pc = "join" /\ s.nets = Nets
    BY <1>1 DEF Caller, CtrPcs
  <2>2. callers' = [callers EXCEPT ![c] = s]
    BY <1>2
  <2> HIDE DEF s
  <2>a. PICK r \in Caller : /\ callers' = [callers EXCEPT ![c] = r]
                           /\ r.op = callers[c].op /\ r.alone = callers[c].alone
                           /\ r.pc = "join" /\ r.nets = Nets
    BY <2>1, <2>2
  <2>3. callers'[c] = r
    BY <2>a DEF ContainersIInv, ContainersType
  <2>4. BeingJoined'
    BY <2>a, <2>3 DEF BeingJoined
  <2>5. Fits(r) /\ Kept(r)'
    BY <1>1, <1>2, <2>a, RunNewType DEF Fits, Kept
  <2>. QED  BY <1>1, <1>2, <2>a, <2>4, <2>5, RunNewType, CallerStep
<1>3. CASE /\ GoOn(c, "failed")
           /\ ctr' \in IF ctr = NoCtr THEN {NoCtr, RunNew(FALSE)} ELSE {ctr}
  <2>1. PICK r \in Caller : /\ callers' = [callers EXCEPT ![c] = r]
                           /\ r.op = callers[c].op /\ r.alone = callers[c].alone /\ r.pc = "failed"
    BY <1>1, <1>3, GoesOn
  <2>2. BeingJoined'
    BY RunNewType, <1>1, <2>1, JoinersStay, <1>3 DEF BeingJoined
  <2>3. Fits(r) /\ Kept(r)'
    BY <2>1 DEF Fits, Kept
  <2>4. ctr' \in CtrRec \cup {NoCtr}
    BY <1>1, <1>3, RunNewType
  <2>. QED  BY <1>1, <2>1, <2>2, <2>3, <2>4, CallerStep
<1>. QED  BY <1>2, <1>3 DEF RunCtr

LEMMA JoinStep ==
  ASSUME ContainersIInv, NEW c \in Callers, Join(c)
  PROVE  ContainersIInv'
<1>1. /\ Engaged(c) /\ callers[c].pc = "join" /\ callers[c].op \in {"ensure", "recreate"}
      /\ callers[c] \in Caller /\ ctr \in CtrRec \cup {NoCtr} /\ {"undo", "done"} \subseteq CtrPcs
      /\ callers[c].alone => ctr # NoCtr /\ ctr.up
  BY DEF Join, InPc, Engaged, ContainersIInv, AllFit, Fits, ContainersType, CtrPcs, AllKept, Kept
<1>2. CASE callers[c].nets = {} /\ GoOn(c, "done") /\ UNCHANGED ctr
  <2>1. PICK r \in Caller : /\ callers' = [callers EXCEPT ![c] = r]
                           /\ r.op = callers[c].op /\ r.alone = callers[c].alone /\ r.pc = "done"
    BY <1>1, <1>2, GoesOn
  <2>2. \A d \in Callers : d # c => callers'[d] = callers[d]
    BY <2>1 DEF ContainersIInv, ContainersType
  <2>3. BeingJoined'
    BY <1>2, <1>1, <2>2 DEF BeingJoined, CtrRec, ContainersIInv
  <2>4. Fits(r)
    BY <2>1 DEF Fits
  <2>5. Kept(r)'
    BY <1>1, <1>2, <2>1 DEF Promised, Kept
  <2>. QED  BY <1>1, <1>2, <2>1, <2>3, <2>4, <2>5, CallerStep
<1>3. ASSUME NEW n \in callers[c].nets, ctr # NoCtr, ctr' = [ctr EXCEPT !.nets = @ \cup {n}],
             callers' = [callers EXCEPT ![c].nets = @ \ {n}]
      PROVE  ContainersIInv'
  <2> DEFINE s == [callers[c] EXCEPT !.nets = @ \ {n}]
  <2>a. /\ s \in Caller /\ s.op = callers[c].op /\ s.alone = callers[c].alone
        /\ s.pc = "join" /\ s.nets = callers[c].nets \ {n}
    BY <1>1 DEF Caller
  <2>b. callers' = [callers EXCEPT ![c] = s]
    BY <1>3
  <2> HIDE DEF s
  <2>1. PICK r \in Caller : /\ callers' = [callers EXCEPT ![c] = r]
                           /\ r.op = callers[c].op /\ r.alone = callers[c].alone
                           /\ r.pc = "join" /\ r.nets = callers[c].nets \ {n}
    BY <2>a, <2>b
  <2>2. callers' = [callers EXCEPT ![c] = r]
    BY <2>1
  <2>3. callers'[c] = r /\ \A d \in Callers : d # c => callers'[d] = callers[d]
    BY <2>2 DEF ContainersIInv, ContainersType
  <2>4. n \in Nets /\ ctr \in CtrRec
    BY <1>1, <1>3 DEF Caller
  <2>5. ctr' \in CtrRec /\ ctr'.nets = ctr.nets \cup {n} /\ ctr'.torn = ctr.torn /\ ctr'.up = ctr.up
    BY <1>3, <2>4 DEF CtrRec
  <2>6. BeingJoined'
    BY <2>5, <2>4, <1>3, <1>1, <2>1, <2>3 DEF BeingJoined, ContainersIInv
  <2>7. Fits(r) /\ Kept(r)'
    BY <1>1, <2>1, <2>5, ContainersAssumption DEF Fits, Kept, CtrRec
  <2>. QED  BY <1>1, <2>1, <2>2, <2>5, <2>6, <2>7, CallerStep
<1>4. CASE GoOn(c, "undo") /\ UNCHANGED ctr
  BY <1>1, <1>4, GoesOn, CallerStep DEF ContainersIInv, ContainersType, BeingJoined, Fits, Kept
<1>. QED  BY <1>2, <1>3, <1>4 DEF Join

LEMMA UndoStep ==
  ASSUME ContainersIInv, NEW c \in Callers, Undo(c)
  PROVE  ContainersIInv'
<1>1. Engaged(c) /\ ctr \in CtrRec \cup {NoCtr} /\ "failed" \in CtrPcs /\ GoOn(c, "failed")
  BY DEF Undo, InPc, Engaged, ContainersIInv, ContainersType, CtrPcs
<1>2. PICK r \in Caller : /\ callers' = [callers EXCEPT ![c] = r]
                         /\ r.op = callers[c].op /\ r.alone = callers[c].alone /\ r.pc = "failed"
  BY <1>1, GoesOn
<1>3. ctr' \in CtrRec \cup {NoCtr} /\ (ctr' # NoCtr => ctr'.torn)
  BY <1>1 DEF CtrRec, Undo
<1>4. BeingJoined'
  BY <1>3 DEF BeingJoined
<1>5. Fits(r) /\ Kept(r)'
  BY <1>2 DEF Fits, Kept
<1>. QED  BY <1>1, <1>2, <1>3, <1>4, <1>5, CallerStep

LEMMA DisturbedLemma ==
  ASSUME ContainersIInv
  PROVE  /\ Disturbed \in [Callers -> Caller]
         /\ \A d \in Callers : /\ Disturbed[d].op = callers[d].op /\ Disturbed[d].pc = callers[d].pc
                               /\ Disturbed[d].nets = callers[d].nets /\ ~Disturbed[d].alone
<1>1. ASSUME NEW d \in Callers
      PROVE  /\ Disturbed[d] \in Caller
             /\ Disturbed[d].op = callers[d].op /\ Disturbed[d].pc = callers[d].pc
             /\ Disturbed[d].nets = callers[d].nets /\ ~Disturbed[d].alone
  BY DEF ContainersIInv, ContainersType, Disturbed, Caller
<1>2. Disturbed = [d \in Callers |-> Disturbed[d]]
  BY DEF Disturbed
<1>. QED  BY <1>1, <1>2

LEMMA StartOpStep ==
  ASSUME ContainersIInv, NEW c \in Callers, NEW op \in CtrOps, StartOp(c, op)
  PROVE  ContainersIInv'
<1> USE ContainersAssumption
<1> DEFINE r == [Free EXCEPT !.op = op, !.pc = IF op = "restart" THEN "restart" ELSE "exists",
                             !.alone = \A d \in Callers : ~Engaged(d)]
<1>1. /\ r \in Caller /\ r.op = op /\ r.pc = IF op = "restart" THEN "restart" ELSE "exists"
      /\ r.alone => \A d \in Callers : ~Engaged(d)
  BY DEF Free, Caller, CtrPcs, CtrOpNames
<1>2. ~Engaged(c) /\ callers' = [Disturbed EXCEPT ![c] = r] /\ UNCHANGED ctr
  BY DEF StartOp
<1> HIDE DEF r
<1>3. /\ callers' \in [Callers -> Caller] /\ callers'[c] = r
      /\ \A d \in Callers : d # c =>
           /\ callers'[d].op = callers[d].op /\ callers'[d].pc = callers[d].pc
           /\ callers'[d].nets = callers[d].nets /\ ~callers'[d].alone
  BY <1>1, <1>2, DisturbedLemma
<1>4. ContainersType'
  BY <1>2, <1>3 DEF ContainersIInv, ContainersType
<1>5. Fits(r)
  BY <1>1 DEF Fits
<1>6. AllFit'
  BY <1>3, <1>5 DEF ContainersIInv, AllFit, Fits
<1>7. AloneTrue'
  BY <1>1, <1>3 DEF AloneTrue, Engaged
<1>8. AllKept'
  BY <1>1, <1>3 DEF AllKept, Kept
<1>9. BeingJoined'
  BY <1>2, <1>3 DEF ContainersIInv, BeingJoined, Engaged
<1>. QED  BY <1>4, <1>6, <1>7, <1>8, <1>9 DEF ContainersIInv

LEMMA ExitStep ==
  ASSUME ContainersIInv, ExitCtr
  PROVE  ContainersIInv'
BY DisturbedLemma DEF ExitCtr, ContainersIInv, ContainersType, CtrRec, AllFit, Fits, AloneTrue, AllKept,
   Kept, BeingJoined

LEMMA FreeType == Free \in Caller /\ Free.op = "none" /\ Free.pc = "done"
  BY DEF Free, Caller, CtrPcs, CtrOpNames

LEMMA HaltStep ==
  ASSUME ContainersIInv, NEW reboot \in BOOLEAN, Halt(reboot)
  PROVE  ContainersIInv'
<1> DEFINE joining == \E c \in Callers : callers[c].pc \in {"join", "undo"}
           starts == IF reboot THEN ctr.restarts /\ ~ctr.held /\ (ctr.up \/ ~ctr.torn) ELSE ctr.up
           new == [ctr EXCEPT !.torn = ctr.torn \/ joining, !.up = starts]
<1>1. ctr \in CtrRec \cup {NoCtr}
  BY DEF ContainersIInv, ContainersType
<1>2. ctr' = IF ctr = NoCtr THEN ctr ELSE new
  BY DEF Halt
<1>3. callers' = [c \in Callers |-> Free]
  BY DEF Halt
<1>4. ASSUME ctr # NoCtr
      PROVE  new \in CtrRec /\ new.nets = ctr.nets /\ (new.torn <=> ctr.torn \/ joining)
  <2>1. starts \in BOOLEAN /\ joining \in BOOLEAN /\ ctr.torn \in BOOLEAN
    BY <1>1, <1>4 DEF CtrRec
  <2> HIDE DEF starts, joining
  <2>. QED  BY <1>1, <1>4, <2>1 DEF CtrRec
<1> HIDE DEF new
<1>5. BeingJoined'
  BY <1>2, <1>4 DEF BeingJoined, ContainersIInv
<1>6. callers' \in [Callers -> Caller] /\ AllFit' /\ AloneTrue' /\ AllKept'
  BY <1>3, FreeType DEF AllFit, Fits, AloneTrue, AllKept, Kept
<1>. QED  BY <1>1, <1>2, <1>4, <1>5, <1>6 DEF ContainersIInv, ContainersType

LEMMA ContainersInitially == ContainersInit => ContainersIInv
  BY FreeType DEF ContainersInit, ContainersIInv, ContainersType, AllFit, Fits, AloneTrue, AllKept, Kept, BeingJoined

LEMMA ContainersStep == ContainersIInv /\ [ContainersNext]_containersVars => ContainersIInv'
BY StartOpStep, ExistsStep, PolicyStep, RunningStep, CallsStep, RunStep, JoinStep, UndoStep, ExitStep,
   HaltStep DEF containersVars, ContainersIInv, ContainersType, AllFit, Fits, AloneTrue, Engaged, AllKept,
   Kept, Promised, BeingJoined, ContainersNext

\* The container and what each caller remembers stay in their type (container.go).
THEOREM ContainersTypeCorrect == ContainersSpec => []ContainersType
<1>1. ContainersIInv => ContainersType
  BY DEF ContainersIInv
<1>. QED  BY ContainersInitially, ContainersStep, <1>1, PTL DEF ContainersSpec

\* For any number of callers without a lock, any networks and any failures,
\* crashes and reboots: a container that runs without one of its networks was
\* torn or is being joined, and who answers without error, alone and with no
\* look that failed, has done what it was asked.
THEOREM ContainersCorrect == ContainersSpec => []ContainersTrue
<1>1. ContainersIInv => Joined
  BY DEF ContainersIInv, BeingJoined, Joined
<1>2. ContainersIInv => AnsweredTrue
  BY DEF AnsweredTrue, Promised, ContainersIInv, AllKept, Kept
<1>3. ContainersIInv => ContainersTrue
  BY <1>1, <1>2 DEF ContainersTrue
<1>. QED  BY ContainersInitially, ContainersStep, <1>3, PTL DEF ContainersSpec

-----------------------------------------------------------------------------
(* Registries. A rewrite that is under way may be stale, but then there is    *)
(* another event behind its own; only the last one has to be right.           *)

\* What is stored and what is counted has its type.
RegistriesType ==
  /\ regs \in [ToSet(RegNames) -> RegSpecs \cup {NoReg}]
  /\ regEvents \in Nat /\ failedPass \in BOOLEAN /\ forgot \in BOOLEAN

LastPassTrue ==
  pass # NoReg =>
    /\ regEvents > 0
    /\ regEvents = 1 => pass.auths = Wanted.auths /\ pass.helpers = Wanted.helpers

RegistriesIInv == RegistriesType /\ LastPassTrue /\ CredentialsFollow

LEMMA WantedKept == UNCHANGED regs => Wanted' = Wanted
  BY DEF Wanted, Claims, Usable

LEMMA PassLemma == Pass.auths = Wanted.auths /\ Pass.helpers = Wanted.helpers
  BY DEF Pass

LEMMA StoredFinite ==
  Cardinality({n \in ToSet(RegNames) : regs[n] # NoReg}) \in Nat
<1>1. DOMAIN RegNames = 1 .. Len(RegNames) /\ Len(RegNames) \in Nat
  BY RegistriesAssumption
<1>2. IsFiniteSet(1 .. Len(RegNames))
  BY <1>1, FS_Interval
<1>3. RegNames \in Surjection(1 .. Len(RegNames), ToSet(RegNames))
  BY <1>1, RegistriesAssumption DEF Surjection, ToSet
<1>4. IsFiniteSet(ToSet(RegNames))
  BY <1>2, <1>3, FS_Surjection
<1>5. IsFiniteSet({n \in ToSet(RegNames) : regs[n] # NoReg})
  BY <1>4, FS_Subset
<1>. QED  BY <1>5, FS_CardinalityType

LEMMA RegistriesInitially == RegistriesInit => RegistriesIInv
<1> SUFFICES ASSUME RegistriesInit PROVE RegistriesIInv
  OBVIOUS
<1>1. Wanted.auths = {} /\ Wanted.helpers = {}
  BY DEF RegistriesInit, Wanted, Claims, Usable, ToSet
<1>. QED  BY <1>1 DEF RegistriesInit, RegistriesIInv, RegistriesType, LastPassTrue, CredentialsFollow

LEMMA RegistriesStep == RegistriesIInv /\ [RegistriesNext]_registriesVars => RegistriesIInv'
<1> SUFFICES ASSUME RegistriesIInv, [RegistriesNext]_registriesVars PROVE RegistriesIInv'
  OBVIOUS
<1>t. RegistriesType /\ LastPassTrue /\ CredentialsFollow
  BY DEF RegistriesIInv
<1>1. ASSUME NEW n \in ToSet(RegNames), NEW s \in RegSpecs \cup {NoReg}, ChangeRegistry(n, s)
      PROVE  RegistriesIInv'
  <2>a. /\ regs' = [regs EXCEPT ![n] = s] /\ regEvents' = regEvents + 1 /\ forgot' = FALSE
        /\ UNCHANGED <<pass, failedPass>>
    BY <1>1 DEF ChangeRegistry
  <2>b. regEvents \in Nat /\ (pass # NoReg => regEvents > 0)
    BY <1>t DEF RegistriesType, LastPassTrue
  <2>c. RegistriesType'
    <3>1. regs' \in [ToSet(RegNames) -> RegSpecs \cup {NoReg}] /\ regEvents' \in Nat
      BY <1>t, <2>a, <2>b DEF RegistriesType
    <3>2. failedPass' \in BOOLEAN /\ forgot' \in BOOLEAN
      BY <1>t, <2>a, Zenon DEF RegistriesType
    <3>. QED  BY <3>1, <3>2 DEF RegistriesType
  <2>1. RegistriesType' /\ regEvents' > 0 /\ (pass' # NoReg => regEvents' > 1)
    BY <2>a, <2>b, <2>c
  <2>. QED  BY <2>1 DEF RegistriesIInv, RegistriesType, LastPassTrue, CredentialsFollow
<1>2. CASE Gather
  <2>1. UNCHANGED <<regs, dockerConf, forgot>> /\ Wanted' = Wanted /\ regEvents > 0 /\ pass = NoReg
    BY <1>2, WantedKept DEF Gather
  <2>2. CASE pass' = Pass /\ UNCHANGED <<regEvents, failedPass>>
    BY <1>t, <2>1, <2>2, PassLemma DEF RegistriesIInv, RegistriesType, LastPassTrue, CredentialsFollow
  <2>3. CASE failedPass' = TRUE /\ regEvents' = regEvents - 1 /\ UNCHANGED pass
    BY <1>t, <2>1, <2>3 DEF RegistriesIInv, RegistriesType, LastPassTrue, CredentialsFollow
  <2>. QED  BY <1>2, <2>2, <2>3 DEF Gather
<1>3. CASE SaveConf
  <2>1. /\ UNCHANGED <<regs, forgot>> /\ Wanted' = Wanted /\ pass # NoReg /\ pass' = NoReg
        /\ regEvents' = regEvents - 1 /\ regEvents \in Nat /\ regEvents > 0
    BY <1>t, <1>3, WantedKept DEF SaveConf, RegistriesType, LastPassTrue
  <2>a. \/ failedPass' = TRUE
        \/ /\ failedPass' = FALSE
           /\ dockerConf' = [auths |-> pass.auths, helpers |-> pass.helpers,
                             extra |-> pass.extra, parses |-> TRUE]
    BY <1>3 DEF SaveConf
  <2>b. failedPass' \in BOOLEAN /\ forgot' \in BOOLEAN
    BY <1>t, <2>1, <2>a, Zenon DEF RegistriesType
  <2>c. regs' \in [ToSet(RegNames) -> RegSpecs \cup {NoReg}] /\ regEvents' \in Nat
    BY <1>t, <2>1 DEF RegistriesType
  <2>2. RegistriesType' /\ LastPassTrue'
    BY <2>1, <2>b, <2>c DEF RegistriesType, LastPassTrue
  <2>3. CredentialsFollow'
    <3>1. CASE failedPass' = TRUE
      BY <3>1 DEF CredentialsFollow
    <3>2. CASE dockerConf'.auths = pass.auths /\ dockerConf'.helpers = pass.helpers
      BY <1>t, <2>1, <3>2 DEF LastPassTrue, CredentialsFollow
    <3>3. failedPass' = TRUE \/ (dockerConf'.auths = pass.auths /\ dockerConf'.helpers = pass.helpers)
      <4> DEFINE new == [auths |-> pass.auths, helpers |-> pass.helpers, extra |-> pass.extra, parses |-> TRUE]
      <4>1. new.auths = pass.auths /\ new.helpers = pass.helpers
        OBVIOUS
      <4>2. failedPass' = TRUE \/ dockerConf' = new
        BY <2>a, Zenon
      <4> HIDE DEF new
      <4>. QED  BY <4>1, <4>2
    <3>. QED  BY <3>1, <3>2, <3>3
  <2>. QED  BY <2>2, <2>3 DEF RegistriesIInv
<1>4. CASE EditByHand
  BY <1>4, WantedKept, <1>t DEF EditByHand, RegistriesIInv, RegistriesType, LastPassTrue, CredentialsFollow
<1>5. CASE RestartController
  <2>1. UNCHANGED <<regs, dockerConf, failedPass>> /\ Wanted' = Wanted /\ pass' = NoReg
    BY <1>5, WantedKept DEF RestartController
  <2>2. regEvents' \in Nat
    BY <1>5, StoredFinite DEF RestartController
  <2>3. forgot' \in BOOLEAN /\ (forgot' <=> (forgot \/ (regEvents > 0 /\ regEvents' = 0)))
    BY <1>5 DEF RestartController
  <2>4. RegistriesType' /\ LastPassTrue'
    BY <1>t, <2>1, <2>2, <2>3 DEF RegistriesType, LastPassTrue
  <2>5. CredentialsFollow'
    BY <1>t, <2>1, <2>2, <2>3 DEF RegistriesType, CredentialsFollow
  <2>. QED  BY <2>4, <2>5 DEF RegistriesIInv
<1>6. CASE UNCHANGED registriesVars
  BY <1>6, WantedKept, <1>t DEF registriesVars, RegistriesIInv, RegistriesType, LastPassTrue,
     CredentialsFollow
<1>. QED  BY <1>1, <1>2, <1>3, <1>4, <1>5, <1>6 DEF RegistriesNext

\* For any registries, however many name one url, and any sequence of changes,
\* crashes, failed rewrites and edits by hand: when every event is handled the
\* file has the credentials of the stored registries and no others, unless the
\* last rewrite failed or a crash lost the delete of the last one.
THEOREM RegistriesCorrect == RegistriesSpec => []CredentialsFollow
<1>1. RegistriesIInv => CredentialsFollow
  BY DEF RegistriesIInv
<1>. QED  BY RegistriesInitially, RegistriesStep, <1>1, PTL DEF RegistriesSpec

-----------------------------------------------------------------------------
(* Webhooks. No notice is new twice: a rollout has its own number, and a      *)
(* transition of this second that was fired is still remembered, since time   *)
(* that drops it, or a restart that forgets it, ends the second too.          *)

Transitions == {"failure", "recovery"}

\* The clock, what is counted, and each sender's attempts.
WebhooksType ==
  /\ second \in Nat /\ news \in Nat
  /\ \A s \in senders :
       /\ s = [id |-> s.id, target |-> s.target, own |-> s.own, no |-> s.no, pc |-> s.pc, tries |-> s.tries]
       /\ s.own \in BOOLEAN /\ s.pc \in {"trying", "acked", "dropped", "died"} /\ s.tries \in 0 .. MaxAttempts
       /\ s.pc = "trying" => s.tries < MaxAttempts
       /\ s.pc = "dropped" => s.tries = MaxAttempts

\* A sender is one of something that happened, with the body it should have.
SenderOf(s, o) ==
  /\ s.id = o.id /\ s.target \in HookTargets[o.slot]
  /\ s.own <=> s.target.body = "inline" \/ (s.target.body = "file" /\ o.well)

OneSender ==
  /\ \A s, u \in senders : s.id = u.id /\ s.target = u.target => s = u
  /\ \A o \in owed : \A t \in HookTargets[o.slot] :
       t.to # NoUrl => \E s \in senders : s.id = o.id /\ s.target = t
  /\ \A s \in senders : s.target.to # NoUrl /\ \E o \in owed : SenderOf(s, o)

\* What was fired has happened, and this second's transitions are remembered.
Remembered ==
  \A o \in owed :
    \/ \E n \in Nat : o.id = <<"rollout", n>> /\ n < news
    \/ \E tr \in Transitions, t \in Nat :
         /\ o.id = <<tr, t>> /\ t <= second
         /\ t = second => \E e \in seen : e.id = o.id /\ e.at = second

WebhooksIInv == WebhooksType /\ OneSender /\ Remembered

\* A notice that is new gets one sender for each target.
LEMMA FireLemma ==
  ASSUME WebhooksType, OneSender, NEW id, NEW slot, FireWebhooks(id, slot), Owe(id, slot),
         \A o \in owed : o.id # id, UNCHANGED second, news' \in Nat
  PROVE  /\ WebhooksType' /\ OneSender'
         /\ \A o \in owed' : o \in owed \/ o.id = id
<1> DEFINE no(t) == Cardinality({s \in senders : s.id = id /\ s.target = t})
           new(t) == [id |-> id, target |-> t, own |-> Builds(t), no |-> no(t),
                      pc |-> "trying", tries |-> 0]
           T == FireTo(slot)
           it == [id |-> id, slot |-> slot, well |-> readable]
<1>1. senders' = senders \cup {new(t) : t \in T}
  BY DEF FireWebhooks
<1>2. owed' = owed \cup {it} /\ it.id = id /\ it.slot = slot /\ it.well = readable
  BY DEF Owe
<1>3. \A t : /\ new(t).id = id /\ new(t).target = t /\ new(t).pc = "trying" /\ new(t).tries = 0
             /\ new(t).own = Builds(t) /\ new(t).own \in BOOLEAN
             /\ new(t) = [id |-> new(t).id, target |-> new(t).target, own |-> new(t).own,
                          no |-> new(t).no, pc |-> new(t).pc, tries |-> new(t).tries]
  BY DEF Builds
<1>4. \A t : t \in T <=> t \in HookTargets[slot] /\ t.to # NoUrl
  BY DEF FireTo
<1>5. ASSUME NEW t \in T PROVE SenderOf(new(t), it)
  <2>1. new(t).own <=> t.body = "inline" \/ (t.body = "file" /\ readable)
    BY <1>3 DEF Builds
  <2> HIDE DEF new, it
  <2>. QED  BY <2>1, <1>2, <1>3, <1>4, <1>5 DEF SenderOf
<1>6. \A s \in senders : s.id # id
  BY DEF OneSender, SenderOf
<1> HIDE DEF new, no, T, it
<1>7. WebhooksType'
  BY <1>1, <1>3, WebhooksAssumption DEF WebhooksType
<1>8. OneSender'
  <2>1. \A s, u \in senders' : s.id = u.id /\ s.target = u.target => s = u
    BY <1>1, <1>3, <1>6 DEF OneSender
  <2>2. ASSUME NEW o \in owed', NEW t \in HookTargets[o.slot], t.to # NoUrl
        PROVE  \E s \in senders' : s.id = o.id /\ s.target = t
    BY <2>2, <1>1, <1>2, <1>3, <1>4 DEF OneSender
  <2>3. ASSUME NEW s \in senders'
        PROVE  s.target.to # NoUrl /\ \E o \in owed' : SenderOf(s, o)
    <3>1. CASE s \in senders
      BY <3>1, <1>2 DEF OneSender
    <3>2. ASSUME NEW t \in T, s = new(t) PROVE s.target.to # NoUrl /\ SenderOf(s, it)
      BY <3>2, <1>3, <1>4, <1>5
    <3>. QED  BY <3>1, <3>2, <1>1, <1>2
  <2>. QED  BY <2>1, <2>2, <2>3 DEF OneSender, SenderOf
<1>. QED  BY <1>2, <1>7, <1>8

LEMMA RolloutStep ==
  ASSUME WebhooksIInv, NEW res, Rollout(res)
  PROVE  WebhooksIInv'
<1>1. UNCHANGED <<second, seen>> /\ news' = news + 1 /\ news' \in Nat /\ news \in Nat
  BY DEF Rollout, WebhooksIInv, WebhooksType
<1>2. CASE FireWebhooks(<<"rollout", news>>, res) /\ Owe(<<"rollout", news>>, res)
  <2>1. \A o \in owed : o.id # <<"rollout", news>>
    BY <1>1 DEF WebhooksIInv, Remembered, Transitions
  <2>2. /\ WebhooksType' /\ OneSender'
        /\ \A o \in owed' : o \in owed \/ o.id = <<"rollout", news>>
    BY <1>1, <1>2, <2>1, FireLemma DEF WebhooksIInv
  <2>3. Remembered'
    BY <1>1, <2>2 DEF Remembered, WebhooksIInv
  <2>. QED  BY <2>2, <2>3 DEF WebhooksIInv
<1>3. CASE UNCHANGED <<senders, owed>>
  BY <1>1, <1>3 DEF WebhooksIInv, WebhooksType, OneSender, SenderOf, Remembered
<1>. QED  BY <1>2, <1>3 DEF Rollout

LEMMA ProbeStep ==
  ASSUME WebhooksIInv, NEW tr \in Transitions, FireProbeWebhook(tr)
  PROVE  WebhooksIInv'
<1> DEFINE id == <<tr, second>>
           mark == [id |-> id, at |-> second]
<1>1. UNCHANGED second /\ news' = news + 1 /\ news' \in Nat /\ news \in Nat /\ second \in Nat
  BY DEF FireProbeWebhook, WebhooksIInv, WebhooksType
<1>2. \A e \in seen : e.at = second => e \in Recent
  BY <1>1, WebhooksAssumption DEF Recent
<1>3. ASSUME UNCHANGED <<senders, owed>>, seen' = seen \/ seen' = Recent
      PROVE  WebhooksIInv'
  BY <1>1, <1>3, <1>2 DEF WebhooksIInv, WebhooksType, OneSender, SenderOf, Remembered
<1>4. ASSUME ~Marked(id), seen' = Recent \cup {mark}, FireWebhooks(id, tr), Owe(id, tr)
      PROVE  WebhooksIInv'
  <2>1. \A o \in owed : o.id # id
    BY <1>1, <1>2, <1>4 DEF WebhooksIInv, Remembered, Transitions, Marked
  <2> HIDE DEF id
  <2>2. /\ WebhooksType' /\ OneSender'
        /\ \A o \in owed' : o \in owed \/ o.id = id
    BY <1>1, <1>4, <2>1, FireLemma DEF WebhooksIInv
  <2>3. mark \in seen' /\ mark.id = id /\ mark.at = second /\ id = <<tr, second>>
    BY <1>4 DEF id
  <2>4. \A e \in seen : e.at = second => e \in seen'
    BY <1>2, <1>4
  <2>5. Remembered'
    BY <1>1, <2>3, <2>4, <2>2 DEF Remembered, WebhooksIInv
  <2>. QED  BY <2>2, <2>5 DEF WebhooksIInv
<1>. QED  BY <1>3, <1>4 DEF FireProbeWebhook, TransitionID

IsSender(s) ==
  s = [id |-> s.id, target |-> s.target, own |-> s.own, no |-> s.no, pc |-> s.pc, tries |-> s.tries]

\* An attempt, or a crash, changes how far senders are and nobody's notice.
LEMMA SenderMoves ==
  ASSUME WebhooksIInv, NEW s \in senders, s.pc = "trying",
         NEW pc \in {"trying", "acked", "dropped"}, Become(s, pc, s.tries + 1),
         pc = "trying" => s.tries + 1 < MaxAttempts, pc = "dropped" => s.tries + 1 = MaxAttempts,
         UNCHANGED <<second, seen, owed, news>>
  PROVE  WebhooksIInv'
<1> DEFINE u == [s EXCEPT !.pc = pc, !.tries = s.tries + 1]
<1>1. /\ u.id = s.id /\ u.target = s.target /\ u.own = s.own /\ u.pc = pc /\ u.tries = s.tries + 1
      /\ u = [id |-> u.id, target |-> u.target, own |-> u.own, no |-> u.no, pc |-> u.pc, tries |-> u.tries]
  <2>1. IsSender(s)
    BY DEF WebhooksIInv, WebhooksType, IsSender
  <2> DEFINE S == [id : {s.id}, target : {s.target}, own : {s.own}, no : {s.no}, pc : {s.pc, pc},
                tries : {s.tries, s.tries + 1}]
  <2>2. s \in S
    BY <2>1 DEF IsSender
  <2>3. u \in S /\ u.pc = pc /\ u.tries = s.tries + 1
    BY <2>2
  <2> HIDE DEF u
  <2>4. u.id = s.id /\ u.target = s.target /\ u.own = s.own
    BY <2>3
  <2>5. IsSender(u)
    BY <2>3 DEF IsSender
  <2>. QED  BY <2>3, <2>4, <2>5, Zenon DEF IsSender
<1>2. senders' = (senders \ {s}) \cup {u}
  BY DEF Become
<1> HIDE DEF u
<1>3. u.tries \in 0 .. MaxAttempts
  BY <1>1, WebhooksAssumption DEF WebhooksIInv, WebhooksType
<1>4. WebhooksType'
  BY <1>1, <1>2, <1>3 DEF WebhooksIInv, WebhooksType
<1>5. OneSender'
  BY <1>1, <1>2 DEF WebhooksIInv, OneSender, SenderOf
<1>6. Remembered'
  BY DEF WebhooksIInv, Remembered
<1>. QED  BY <1>4, <1>5, <1>6 DEF WebhooksIInv

LEMMA StopStep ==
  ASSUME WebhooksIInv, StopController
  PROVE  WebhooksIInv'
<1> DEFINE dead(s) == IF s.pc = "trying" THEN [s EXCEPT !.pc = "died"] ELSE s
<1>1. second' = second + 1 /\ UNCHANGED <<owed, news>> /\ second \in Nat
  BY DEF StopController, WebhooksIInv, WebhooksType
<1>2. senders' = {dead(s) : s \in senders}
  BY DEF StopController
<1>3. ASSUME NEW s \in senders
      PROVE  /\ dead(s).id = s.id /\ dead(s).target = s.target /\ dead(s).own = s.own
             /\ dead(s).tries = s.tries
             /\ dead(s) = [id |-> dead(s).id, target |-> dead(s).target, own |-> dead(s).own,
                           no |-> dead(s).no, pc |-> dead(s).pc, tries |-> dead(s).tries]
             /\ dead(s).pc = "died" \/ (dead(s) = s /\ s.pc # "trying")
  <2>1. s = [id |-> s.id, target |-> s.target, own |-> s.own, no |-> s.no, pc |-> s.pc, tries |-> s.tries]
    BY DEF WebhooksIInv, WebhooksType
  <2>2. PICK a, b, w, n, p, k : s = [id |-> a, target |-> b, own |-> w, no |-> n, pc |-> p, tries |-> k]
    BY <2>1
  <2>3. CASE s.pc = "trying"
    <3>1. dead(s) = [id |-> a, target |-> b, own |-> w, no |-> n, pc |-> "died", tries |-> k]
      BY <2>2, <2>3
    <3> HIDE DEF dead
    <3>2. s.id = a /\ s.target = b /\ s.own = w /\ s.tries = k
      BY <2>2
    <3>3. /\ dead(s).id = a /\ dead(s).target = b /\ dead(s).own = w /\ dead(s).no = n
          /\ dead(s).pc = "died" /\ dead(s).tries = k
      BY <3>1
    <3>4. dead(s) = [id |-> dead(s).id, target |-> dead(s).target, own |-> dead(s).own,
                     no |-> dead(s).no, pc |-> dead(s).pc, tries |-> dead(s).tries]
      BY <3>1, <3>3, Zenon
    <3>. QED  BY <3>2, <3>3, <3>4
  <2>4. CASE s.pc # "trying"
    BY <2>1, <2>4
  <2>. QED  BY <2>3, <2>4
<1> HIDE DEF dead
<1>4. WebhooksType'
  <2>1. ASSUME NEW u \in senders'
        PROVE  /\ u = [id |-> u.id, target |-> u.target, own |-> u.own, no |-> u.no, pc |-> u.pc, tries |-> u.tries]
               /\ u.own \in BOOLEAN /\ u.pc \in {"acked", "dropped", "died"} /\ u.tries \in 0 .. MaxAttempts
               /\ u.pc = "dropped" => u.tries = MaxAttempts
    BY <1>2, <1>3 DEF WebhooksIInv, WebhooksType
  <2>. QED  BY <1>1, <2>1 DEF WebhooksIInv, WebhooksType
<1>5. OneSender'
  <2>1. \A s, u \in senders' : s.id = u.id /\ s.target = u.target => s = u
    BY <1>2, <1>3 DEF WebhooksIInv, OneSender
  <2>2. ASSUME NEW o \in owed, NEW t \in HookTargets[o.slot], t.to # NoUrl
        PROVE  \E s \in senders' : s.id = o.id /\ s.target = t
    BY <2>2, <1>2, <1>3 DEF WebhooksIInv, OneSender
  <2>3. ASSUME NEW u \in senders'
        PROVE  u.target.to # NoUrl /\ \E o \in owed : SenderOf(u, o)
    BY <1>2, <1>3 DEF WebhooksIInv, OneSender, SenderOf
  <2>. QED  BY <1>1, <2>1, <2>2, <2>3 DEF OneSender, SenderOf
<1>6. Remembered'
  BY <1>1 DEF Remembered, WebhooksIInv
<1>. QED  BY <1>4, <1>5, <1>6 DEF WebhooksIInv

LEMMA WebhooksInitially == WebhooksInit => WebhooksIInv
  BY DEF WebhooksInit, WebhooksIInv, WebhooksType, OneSender, Remembered

LEMMA WebhooksStep == WebhooksIInv /\ [WebhooksNext]_webhooksVars => WebhooksIInv'
<1> SUFFICES ASSUME WebhooksIInv, [WebhooksNext]_webhooksVars PROVE WebhooksIInv'
  OBVIOUS
<1>1. ASSUME NEW res, Rollout(res) PROVE WebhooksIInv'
  BY <1>1, RolloutStep
<1>2. ASSUME NEW tr \in {"failure", "recovery"}, FireProbeWebhook(tr) PROVE WebhooksIInv'
  BY <1>2, ProbeStep DEF Transitions
<1>3. ASSUME NEW s \in senders, Attempt(s) PROVE WebhooksIInv'
  <2>1. s.pc = "trying" /\ UNCHANGED <<second, seen, owed, news>> /\ s.tries \in 0 .. MaxAttempts /\ s.tries < MaxAttempts
    BY <1>3 DEF Attempt, WebhooksIInv, WebhooksType
  <2>2. CASE Become(s, "acked", s.tries + 1)
    BY <2>1, <2>2, SenderMoves
  <2>3. CASE Become(s, "trying", s.tries + 1) /\ s.tries + 1 < MaxAttempts
    BY <2>1, <2>3, SenderMoves
  <2>4. CASE Become(s, "dropped", s.tries + 1) /\ ~(s.tries + 1 < MaxAttempts)
    BY <2>1, <2>4, WebhooksAssumption, SenderMoves
  <2>. QED  BY <1>3, <2>2, <2>3, <2>4 DEF Attempt
<1>4. CASE Second
  <2>1. second' = second + 1 /\ UNCHANGED <<seen, senders, owed, news>> /\ second \in Nat
    BY <1>4 DEF Second, WebhooksIInv, WebhooksType
  <2>2. WebhooksType' /\ OneSender'
    BY <2>1 DEF WebhooksIInv, WebhooksType, OneSender, SenderOf
  <2>3. Remembered'
    BY <2>1 DEF Remembered, WebhooksIInv
  <2>. QED  BY <2>2, <2>3 DEF WebhooksIInv
<1>5. CASE UNCHANGED <<second, seen, senders, owed, news>>
  BY <1>5 DEF WebhooksIInv, WebhooksType, OneSender, SenderOf, Remembered
<1>6. CASE StopController
  BY <1>6, StopStep
<1>. QED  BY <1>1, <1>2, <1>3, <1>4, <1>5, <1>6 DEF WebhooksNext, EditFile, webhooksVars

\* The clock, the counters and each sender's attempts stay in their type
\* (webhooks.go).
THEOREM WebhooksTypeCorrect == WebhooksSpec => []WebhooksType
<1>1. WebhooksIInv => WebhooksType
  BY DEF WebhooksIInv
<1>. QED  BY WebhooksInitially, WebhooksStep, <1>1, PTL DEF WebhooksSpec

\* For any targets, any length of the memory of transitions and any number of
\* attempts: every target with a URL is told of what happened by one sender, with
\* its own body when that could be built, and the sender gives up after its last
\* attempt or dies with the controller.
THEOREM WebhooksCorrect == WebhooksSpec => []ToldOnce
<1>1. WebhooksIInv => ToldOnce
  <2>1. SUFFICES ASSUME WebhooksIInv PROVE ToldOnce
    OBVIOUS
  <2>2. ASSUME NEW o \in owed, NEW t \in HookTargets[o.slot], t.to # NoUrl
        PROVE  Cardinality({s \in senders : s.id = o.id /\ s.target = t}) = 1
    <3>1. PICK u \in senders : u.id = o.id /\ u.target = t
      BY <2>1, <2>2 DEF WebhooksIInv, OneSender
    <3>2. {s \in senders : s.id = o.id /\ s.target = t} = {u}
      BY <2>1, <3>1 DEF WebhooksIInv, OneSender
    <3>. QED  BY <3>2, FS_Singleton
  <2>3. ASSUME NEW s \in senders
        PROVE  /\ s.target.to # NoUrl
               /\ \E o \in owed : SenderOf(s, o)
               /\ s.tries <= MaxAttempts /\ (s.pc = "dropped" => s.tries = MaxAttempts)
    <3>1. s.target.to # NoUrl /\ \E o \in owed : SenderOf(s, o)
      BY <2>1 DEF WebhooksIInv, OneSender
    <3>2. s.tries <= MaxAttempts /\ (s.pc = "dropped" => s.tries = MaxAttempts)
      BY <2>1, WebhooksAssumption DEF WebhooksIInv, WebhooksType
    <3>. QED  BY <3>1, <3>2
  <2>. QED  BY <2>2, <2>3 DEF ToldOnce, SenderOf
<1>. QED  BY WebhooksInitially, WebhooksStep, <1>1, PTL DEF WebhooksSpec

-----------------------------------------------------------------------------
(* Plugins. The argument: an install is named by its request and block, which  *)
(* only grows while more installs may follow, so no two have one name and what *)
(* bears a name has one version (Named, OneVersion); hence what is expanded    *)
(* under the name that was looked at has the version looked at. A request has  *)
(* at most one scratch directory (OneTree), which accounts for a path that is  *)
(* empty; what lies behind a request is done (Progress), and an install of the *)
(* background is listed, or an uninstall has taken it off (JobsListed).            *)

PluginIds == {<<>>} \cup (Requests \X (Nat \ {0}))
PluginTypes == [name : Kinds, v : Nat, by : PluginIds, macro : BOOLEAN, error : BOOLEAN]
Scratch == [by : Requests, name : Kinds, v : Nat, macro : BOOLEAN]
PluginDeeds == {"config", "manifest", "bad"}
Installing == {"fetch", "clear", "move", "hook"}
AskStages == {"idle", "look", "expand", "act", "put", "unhook", "ok", "rejected", "lost"} \cup Installing
AskSources == {NoBlock} \cup UNION {PluginAsks[r] : r \in Requests}
AskRecords == [pc : AskStages, i : Nat \ {0}, todo : Seq(PluginDeeds),
               plug : PluginTypes \cup {NoPlugin},
               src : AskSources]

\* Every variable has its type.
PluginsType ==
  /\ dirs \in [Kinds -> PluginTypes \cup {NoPlugin}]
  /\ release \in Nat /\ tmp \subseteq Scratch
  /\ jobs \in [DOMAIN Repos -> {"none", "installing", "failed"}]
  /\ asks \in [Requests -> AskRecords]

\* The block that an apply stands at is one that a plugin expands.
Stands(q) ==
  q.src.op = "apply" => q.i <= Len(q.src.body) /\ q.src.body[q.i].kind # Core

\* What a request is at is what it asked for, and it holds what that needs.
PlacedAt(r, q) ==
  /\ q.pc = "idle" => q.i = 1 /\ q.src = NoBlock
  /\ q.pc # "idle" => q.src \in PluginAsks[r]
  /\ q.pc \in {"look", "expand", "put"} => q.src.op = "apply"
  /\ q.pc \in Installing => q.src.op \in {"apply", "install"} /\ Stands(q)
  /\ q.pc = "unhook" => q.src.op = "remove"
  /\ q.pc = "act" => q.src.op \in {"apply", "command"} /\ Stands(q) /\ Len(q.todo) <= Len(q.src.acts)
  /\ q.pc \in {"hook", "expand"} => q.plug # NoPlugin
  /\ q.pc = "expand" => Stands(q) /\ q.src.body[q.i].pin \in {NoPin, Latest, q.plug.v}
Placed == \A r \in Requests : PlacedAt(r, asks[r])

\* A request has one scratch directory, while it installs, or for ever when it was lost then.
OneTree ==
  /\ \A t, u \in tmp : t.by = u.by => t = u
  /\ \A t \in tmp : asks[t.by].pc \in {"clear", "move", "lost"}
  /\ \A r \in Requests : asks[r].pc \in {"clear", "move"} => \E t \in tmp : t.by = r

\* Plugins in use: at their paths, or remembered by a request.
InUse == ({dirs[k] : k \in Kinds} \cup {asks[r].plug : r \in Requests}) \ {NoPlugin}
OneVersion == \A p, q \in InUse : p.by = q.by => p.v = q.v
\* An install that is still to come has not put anything anywhere.
Earlier(id) ==
  \A r \in Requests : \A n \in Nat \ {0} :
    id = <<r, n>> =>
      /\ asks[r].pc \in {"idle", "look", "fetch", "clear", "move"} => n < asks[r].i
      /\ asks[r].pc \in {"hook", "expand", "act"} => n <= asks[r].i
Named == \A p \in InUse : Earlier(p.by)

DidBlock(r, i) ==
  /\ \E e \in expanded : e.r = r /\ e.i = i
  /\ \A k \in 1..Len(asks[r].src.acts) : <<r, i, k>> \in kept
DidTo(r, n) ==
  \A i \in 1..Len(asks[r].src.body) :
    i <= n /\ asks[r].src.body[i].kind # Core => DidBlock(r, i)
AnyStored(r) == \E i \in 1..Len(asks[r].src.body) : <<r, i, 0>> \in kept
StoredTo(r, n) == \A i \in 1..Len(asks[r].src.body) : i <= n => <<r, i, 0>> \in kept
\* How far an apply has come: what is behind it is done.
ApplyProgress(r) ==
  LET q == asks[r] IN
  /\ q.pc \in {"look", "expand", "act"} \cup Installing => DidTo(r, q.i - 1)
  /\ q.pc = "act" =>
       /\ \E e \in expanded : e.r = r /\ e.i = q.i
       /\ \A k \in 1..(Len(q.src.acts) - Len(q.todo)) : <<r, q.i, k>> \in kept
  /\ q.pc \in {"put", "ok"} \/ AnyStored(r) => DidTo(r, Len(q.src.body))
  /\ AnyStored(r) => ~q.src.dry
  /\ q.pc = "put" /\ ~q.src.dry => StoredTo(r, q.i - 1)
  /\ q.pc = "ok" /\ ~q.src.dry => StoredTo(r, Len(q.src.body))
Progress ==
  \A r \in Requests :
    /\ asks[r].pc = "idle" => \A i, k \in Nat : <<r, i, k>> \notin kept
    /\ asks[r].pc # "idle" /\ asks[r].src.op = "apply" => ApplyProgress(r)

\* The job of a source went with an uninstall of the plugin that its URL suggests.
Forgotten(x) ==
  \E u \in Requests : asks[u].pc = "ok" /\ asks[u].src.op = "remove" /\ asks[u].src.name = Repos[x].guess
JobsListed ==
  \A r \in Requests :
    asks[r].pc \in Installing /\ asks[r].src.op = "install" =>
      jobs[asks[r].src.repo] = "installing" \/ Forgotten(asks[r].src.repo)

\* What is not at its path is gone, or an install that has cleared it holds its successor.
OutOfTheWay ==
  \A k \in Kinds : dirs[k] = NoPlugin /\ k \notin gone =>
                     \E t \in tmp : asks[t.by].pc = "move" /\ t.name = k

PluginsIInv ==
  /\ PluginsType /\ Placed /\ OneTree /\ OneVersion /\ Named /\ Progress /\ JobsListed
  /\ OutOfTheWay /\ Pinned /\ OneInstall
-----------------------------------------------------------------------------
\* The request r becomes this; the others stay.
Turns(r, pc, i, todo, plug, src) ==
  /\ asks' \in [Requests -> AskRecords]
  /\ asks'[r].pc = pc /\ asks'[r].i = i /\ asks'[r].todo = todo
  /\ asks'[r].plug = plug /\ asks'[r].src = src
  /\ \A s \in Requests : s # r => asks'[s] = asks[s]
\* It goes to a stage and keeps what it has.
TurnsTo(r, pc) == Turns(r, pc, asks[r].i, asks[r].todo, asks[r].plug, asks[r].src)

LEMMA GotoGoes ==
  ASSUME PluginsType, NEW r \in Requests, NEW pc \in AskStages, Goto(r, pc)
  PROVE  TurnsTo(r, pc)
BY DEF PluginsType, AskRecords, Goto, Becomes, TurnsTo, Turns

LEMMA BecomesTurns ==
  ASSUME PluginsType, NEW r \in Requests, NEW q \in AskRecords, Becomes(r, q)
  PROVE  Turns(r, q.pc, q.i, q.todo, q.plug, q.src)
BY DEF Becomes, Turns, PluginsType

LEMMA AskTyped ==
  ASSUME NEW r \in Requests, NEW a \in PluginAsks[r]
  PROVE  /\ a.op \in {"apply", "install", "remove", "command"}
         /\ a.repo \in DOMAIN Repos /\ a.pin \in Nat \cup {NoPin, Latest}
         /\ Len(a.body) \in Nat /\ Len(a.acts) \in Nat /\ a.acts \in Seq(PluginDeeds)
         /\ \A i \in 1..Len(a.body) :
              /\ a.body[i].kind \in Kinds \cup {Core} /\ a.body[i].repo \in DOMAIN Repos
              /\ a.body[i].pin \in Nat \cup {NoPin, Latest} /\ a.body[i] # NoBlock
<1> DEFINE B == [kind : Kinds \cup {Core}, repo : DOMAIN Repos, pin : Nat \cup {NoPin, Latest}]
<1>1. /\ a.op \in {"apply", "install", "remove", "command"}
      /\ a.repo \in DOMAIN Repos /\ a.pin \in Nat \cup {NoPin, Latest}
      /\ a.body \in Seq(B) /\ NoBlock \notin B /\ a.acts \in Seq(PluginDeeds)
  BY PluginsAssumption DEF PluginDeeds
<1>2. Len(a.body) \in Nat /\ Len(a.acts) \in Nat
  BY <1>1
<1>3. \A i \in 1..Len(a.body) : a.body[i] \in B
  <2> HIDE DEF B
  <2> QED
    BY <1>1, ElementOfSeq
<1> QED
  BY <1>1, <1>2, <1>3

\* What StartAsk makes of a request.
LEMMA StartAskDoes ==
  ASSUME PluginsType, Placed, NEW r \in Requests, NEW a \in PluginAsks[r], StartAsk(r, a)
  PROVE  /\ asks[r].pc = "idle"
         /\ \/ a.op = "apply" /\ Turns(r, "look", 1, a.acts, NoPlugin, a) /\ UNCHANGED jobs
            \/ a.op \in {"install", "remove", "command"} /\ UNCHANGED jobs
               /\ Turns(r, "rejected", 1, a.acts, NoPlugin, a)
            \/ /\ a.op = "install" /\ jobs[a.repo] # "installing"
               /\ Turns(r, "fetch", 1, a.acts, NoPlugin, a)
               /\ jobs' = [jobs EXCEPT ![a.repo] = "installing"]
            \/ a.op = "remove" /\ Turns(r, "unhook", 1, a.acts, NoPlugin, a) /\ UNCHANGED jobs
            \/ a.op = "command" /\ Turns(r, "act", 1, a.acts, NoPlugin, a) /\ UNCHANGED jobs
         /\ UNCHANGED <<dirs, release, tmp, kept, expanded, gone, slips>>
<1> DEFINE q(pc) == [Unasked EXCEPT !.pc = pc, !.src = a, !.todo = a.acts]
<1>1. a.op \in {"apply", "install", "remove", "command"} /\ a.acts \in Seq(PluginDeeds)
  BY AskTyped
<1>2. a \in UNION {PluginAsks[s] : s \in Requests}
  OBVIOUS
<1>3. ASSUME NEW pc \in AskStages, Becomes(r, q(pc)) PROVE Turns(r, pc, 1, a.acts, NoPlugin, a)
  <2>1. PICK z : z = q(pc)
    OBVIOUS
  <2>2. z.pc = pc /\ z.i = 1 /\ z.todo = a.acts /\ z.plug = NoPlugin /\ z.src = a
    BY <2>1 DEF Unasked
  <2>0. z = [pc |-> pc, i |-> 1, todo |-> a.acts, plug |-> NoPlugin, src |-> a]
    BY <2>1 DEF Unasked
  <2>3. z \in AskRecords
    <3>1. a \in AskSources
      BY <1>2 DEF AskSources
    <3> QED
      BY <1>1, <2>0, <3>1 DEF AskRecords
  <2>4. Becomes(r, z)
    BY <1>3, <2>1
  <2> QED
    BY <2>2, <2>3, <2>4, BecomesTurns
<1>4. asks[r].pc = "idle" /\ UNCHANGED <<dirs, release, tmp, kept, expanded, gone, slips>>
  BY DEF StartAsk, At
<1>5. CASE a.op = "apply"
  BY <1>5, <1>3, <1>4 DEF StartAsk, AskStages
<1>6. CASE a.op = "install"
  BY <1>6, <1>3, <1>4 DEF StartAsk, AskStages, Installing
<1>7. CASE a.op = "remove"
  BY <1>7, <1>3, <1>4 DEF StartAsk, AskStages
<1>8. CASE a.op = "command"
  BY <1>8, <1>3, <1>4 DEF StartAsk, AskStages
<1> QED
  BY <1>1, <1>5, <1>6, <1>7, <1>8

LEMMA NoPluginType == NoPlugin \notin PluginTypes
<1> DEFINE P == [name : Kinds, v : Nat, by : {<<>>} \cup (Requests \X Nat), macro : BOOLEAN, error : BOOLEAN]
<1>1. NoPlugin \notin P
  BY PluginsAssumption
<1>2. PluginTypes \subseteq P
  BY DEF PluginTypes, PluginIds
<1> QED
  BY <1>1, <1>2

\* The block an apply stands at is there and has its type.
LEMMA BlockTyped ==
  ASSUME PluginsType, Placed, NEW r \in Requests, asks[r].pc # "idle"
  PROVE  /\ asks[r].i \in Nat \ {0} /\ Len(asks[r].src.body) \in Nat
         /\ Block(r) # NoBlock => asks[r].i <= Len(asks[r].src.body)
         /\ asks[r].i <= Len(asks[r].src.body) =>
              /\ Block(r) # NoBlock /\ Block(r) = asks[r].src.body[asks[r].i]
              /\ Block(r).kind \in Kinds \cup {Core} /\ Block(r).repo \in DOMAIN Repos
              /\ Block(r).pin \in Nat \cup {NoPin, Latest}
<1>1. asks[r].src \in PluginAsks[r]
  BY DEF Placed, PlacedAt
<1>2. asks[r].i \in Nat \ {0}
  BY DEF PluginsType, AskRecords
<1>3. PICK a \in PluginAsks[r] : a = asks[r].src
  BY <1>1
<1>4. PICK n \in Nat \ {0} : n = asks[r].i
  BY <1>2
<1>5. Len(a.body) \in Nat
  BY AskTyped
<1>6. CASE n <= Len(a.body)
  BY <1>5, <1>6, AskTyped, <1>3, <1>4, <1>2 DEF Block
<1>7. CASE ~(n <= Len(a.body))
  BY <1>3, <1>4, <1>7, <1>2, <1>5 DEF Block
<1> QED
  BY <1>6, <1>7

LEMMA LookDoes ==
  ASSUME PluginsType, Placed, NEW r \in Requests, Look(r)
  PROVE  /\ asks[r].pc = "look"
         /\ LET q == asks[r] b == q.src.body[q.i] IN
            \/ q.i > Len(q.src.body) /\ Turns(r, "put", 1, q.todo, q.plug, q.src)
            \/ /\ q.i <= Len(q.src.body) /\ b.kind = Core
               /\ Turns(r, "look", q.i + 1, q.todo, q.plug, q.src)
            \/ q.i <= Len(q.src.body) /\ b.kind # Core /\ TurnsTo(r, "fetch")
            \/ /\ q.i <= Len(q.src.body) /\ b.kind # Core /\ b.kind \in Kinds
               /\ dirs[b.kind] # NoPlugin /\ b.pin \in {NoPin, dirs[b.kind].v}
               /\ Turns(r, "expand", q.i, q.todo, dirs[b.kind], q.src)
         /\ UNCHANGED <<dirs, release, tmp, jobs, kept, expanded, gone, slips>>
<1>1. asks[r].pc = "look" /\ UNCHANGED <<dirs, release, tmp, jobs, kept, expanded, gone, slips>>
  BY DEF Look, At
<1> DEFINE q == asks[r]
<1>2. q \in AskRecords
  BY DEF PluginsType
<1>6. q.i \in Nat \ {0} /\ q.todo \in Seq(PluginDeeds) /\ q.plug \in PluginTypes \cup {NoPlugin} /\ q.src \in AskSources
  BY <1>2 DEF AskRecords
<1>3. CASE Block(r) = NoBlock
  <2>1. PICK z : z = [q EXCEPT !.pc = "put", !.i = 1]
    OBVIOUS
  <2>2. Becomes(r, z)
    BY <1>3, <2>1 DEF Look
  <2>3. /\ z \in AskRecords /\ z.pc = "put" /\ z.i = 1 /\ z.todo = q.todo
        /\ z.plug = q.plug /\ z.src = q.src
    <3>1. z = [pc |-> "put", i |-> 1, todo |-> q.todo, plug |-> q.plug, src |-> q.src]
      BY <1>2, <2>1 DEF AskRecords
    <3> QED
      BY <1>6, <3>1 DEF AskRecords, AskStages
  <2>4. q.i > Len(q.src.body)
    BY <1>1, <1>3, BlockTyped
  <2> QED
    BY <1>1, <2>2, <2>3, <2>4, BecomesTurns
<1>4. CASE Block(r) # NoBlock /\ Block(r).kind = Core
  <2>1. PICK z : z = [q EXCEPT !.pc = q.pc, !.i = @ + 1]
    OBVIOUS
  <2>2. z = [q EXCEPT !.i = @ + 1]
    BY <1>2, <2>1 DEF AskRecords
  <2>3. Becomes(r, z)
    BY <1>4, <2>2 DEF Look
  <2>4. /\ z \in AskRecords /\ z.pc = "look" /\ z.i = q.i + 1 /\ z.todo = q.todo
        /\ z.plug = q.plug /\ z.src = q.src
    <3>1. z = [pc |-> "look", i |-> q.i + 1, todo |-> q.todo, plug |-> q.plug, src |-> q.src]
      BY <1>1, <1>2, <2>1 DEF AskRecords
    <3> QED
      BY <1>6, <3>1 DEF AskRecords, AskStages
  <2>5. q.i <= Len(q.src.body) /\ q.src.body[q.i].kind = Core
    BY <1>1, <1>4, BlockTyped
  <2> QED
    BY <1>1, <2>3, <2>4, <2>5, BecomesTurns
<1>5. CASE Block(r) # NoBlock /\ Block(r).kind # Core
  <2>1. q.i <= Len(q.src.body) /\ q.src.body[q.i].kind # Core /\ Block(r) = q.src.body[q.i] /\ Block(r).kind \in Kinds
    BY <1>1, <1>5, BlockTyped
  <2>2. CASE NeedsInstall(Block(r))
    <3>1. Goto(r, "fetch")
      BY <1>5, <2>2 DEF Look
    <3> QED
      BY <1>1, <2>1, <3>1, GotoGoes DEF AskStages, Installing
  <2>3. CASE ~NeedsInstall(Block(r))
    <3>1. PICK p : p = dirs[Block(r).kind]
      OBVIOUS
    <3>2. p \in PluginTypes /\ p # NoPlugin /\ Block(r).pin \in {NoPin, p.v}
      BY <2>1, <2>3, <3>1 DEF NeedsInstall, PluginsType
    <3>3. PICK z : z = [q EXCEPT !.pc = "expand", !.plug = p]
      OBVIOUS
    <3>4. Becomes(r, z)
      BY <1>5, <2>3, <3>1, <3>3 DEF Look
    <3>5. /\ z \in AskRecords /\ z.pc = "expand" /\ z.i = q.i /\ z.todo = q.todo
          /\ z.plug = p /\ z.src = q.src
      BY <1>2, <3>2, <3>3 DEF AskRecords, AskStages
    <3>6. Turns(r, "expand", q.i, q.todo, p, q.src)
      BY <3>4, <3>5, BecomesTurns
    <3> QED
      BY <1>1, <2>1, <3>1, <3>2, <3>6
  <2> QED
    BY <2>2, <2>3
<1> QED
  BY <1>3, <1>4, <1>5

LEMMA FetchDoes ==
  ASSUME PluginsType, Placed, NEW r \in Requests, Fetch(r)
  PROVE  /\ asks[r].pc = "fetch"
         /\ \/ /\ TurnsTo(r, "clear") /\ UNCHANGED jobs
               /\ \E t \in Scratch : t.by = r /\ tmp' = tmp \cup {t}
            \/ TurnsTo(r, "rejected") /\ JobFailed(r) /\ UNCHANGED tmp
         /\ UNCHANGED <<dirs, release, kept, expanded, gone>>
<1>1. asks[r].pc = "fetch" /\ UNCHANGED <<dirs, release, kept, expanded, gone>>
  BY DEF Fetch, At
<1> DEFINE s == Source(r)
           v == IF s.pin \in {NoPin, Latest} THEN release ELSE s.pin
           repo == Repos[s.repo]
           t == [by |-> r, name |-> repo.name, v |-> v, macro |-> repo.macro]
<1>2. s.repo \in DOMAIN Repos /\ s.pin \in Nat \cup {NoPin, Latest}
  BY <1>1, AskTyped, BlockTyped DEF Placed, PlacedAt, Installing, Stands, Source
<1>3. repo.name \in Kinds /\ repo.macro \in BOOLEAN
  BY <1>2, PluginsAssumption
<1>4. v \in Nat
  BY <1>2 DEF PluginsType
<1>5. t \in Scratch /\ t.by = r
  BY <1>3, <1>4 DEF Scratch
<1>6. \/ UNCHANGED jobs /\ tmp' = tmp \cup {t} /\ Goto(r, "clear")
      \/ Reject(r) /\ JobFailed(r) /\ UNCHANGED tmp
  BY DEF Fetch
<1> HIDE DEF t
<1> QED
  BY <1>1, <1>5, <1>6, GotoGoes DEF Reject, AskStages, Installing

LEMMA TreeOf ==
  ASSUME OneTree, NEW t \in tmp
  PROVE  Tree(t.by) = t
BY DEF Tree, OneTree

LEMMA ClearDoes ==
  ASSUME PluginsType, Placed, OneTree, NEW r \in Requests, ClearOld(r)
  PROVE  /\ asks[r].pc = "clear" /\ TurnsTo(r, "move")
         /\ \E t \in tmp : t.by = r /\ t.name \in Kinds /\ dirs' = [dirs EXCEPT ![t.name] = NoPlugin]
         /\ UNCHANGED <<release, tmp, jobs, kept, expanded, gone, slips>>
<1>1. asks[r].pc = "clear" /\ Goto(r, "move") /\ dirs' = [dirs EXCEPT ![Tree(r).name] = NoPlugin]
      /\ UNCHANGED <<release, tmp, jobs, kept, expanded, gone, slips>>
  BY DEF ClearOld, At
<1>2. PICK t \in tmp : t.by = r
  BY <1>1 DEF OneTree
<1>3. Tree(r) = t /\ t.name \in Kinds
  BY <1>2, TreeOf DEF PluginsType, Scratch
<1>4. TurnsTo(r, "move")
  BY <1>1, GotoGoes DEF AskStages, Installing
<1> QED
  BY <1>1, <1>2, <1>3, <1>4

LEMMA MoveDoes ==
  ASSUME PluginsType, Placed, OneTree, NEW r \in Requests, MoveIn(r)
  PROVE  /\ asks[r].pc = "move"
         /\ \E t \in tmp :
              /\ t.by = r /\ t.name \in Kinds /\ tmp' = tmp \ {t}
              /\ \/ \E p \in PluginTypes :
                      /\ dirs[t.name] = NoPlugin /\ p.by = <<r, asks[r].i>> /\ p # NoPlugin
                      /\ dirs' = [dirs EXCEPT ![t.name] = p]
                      /\ Turns(r, "hook", asks[r].i, asks[r].todo, p, asks[r].src)
                      /\ gone' = gone \ {t.name} /\ UNCHANGED jobs
                 \/ /\ dirs[t.name] # NoPlugin /\ TurnsTo(r, "rejected") /\ JobFailed(r)
                    /\ UNCHANGED <<dirs, gone>>
         /\ UNCHANGED <<release, kept, expanded, slips>>
<1>1. asks[r].pc = "move" /\ UNCHANGED <<release, kept, expanded, slips>>
  BY DEF MoveIn, At
<1>2. PICK t \in tmp : t.by = r
  BY <1>1 DEF OneTree
<1>3. Tree(r) = t /\ t.name \in Kinds /\ t.v \in Nat /\ t.macro \in BOOLEAN
  BY <1>2, TreeOf DEF PluginsType, Scratch
<1>4. asks[r] \in AskRecords
  BY DEF PluginsType
<1>5. tmp' = tmp \ {t}
  BY <1>3 DEF MoveIn
<1>6. CASE dirs[t.name] # NoPlugin
  BY <1>3, <1>6, GotoGoes, <1>1, <1>2, <1>5 DEF MoveIn, Reject, AskStages
<1>7. CASE dirs[t.name] = NoPlugin
  <2>1. PICK p : p = [name |-> t.name, v |-> t.v, by |-> <<r, asks[r].i>>, macro |-> t.macro, error |-> FALSE]
    OBVIOUS
  <2>2. asks[r].i \in Nat \ {0}
    BY <1>4 DEF AskRecords
  <2>3. p \in PluginTypes /\ p.by = <<r, asks[r].i>>
    BY <1>3, <2>1, <2>2 DEF PluginTypes, PluginIds
  <2>4. p # NoPlugin
    BY <2>3, NoPluginType
  <2>5. /\ dirs' = [dirs EXCEPT ![t.name] = p]
        /\ Becomes(r, [asks[r] EXCEPT !.pc = "hook", !.plug = dirs'[t.name]])
        /\ gone' = gone \ {t.name} /\ UNCHANGED jobs
    BY <1>3, <1>7, <2>1 DEF MoveIn
  <2>6. dirs'[t.name] = p
    BY <1>3, <2>5 DEF PluginsType
  <2>7. PICK z : z = [asks[r] EXCEPT !.pc = "hook", !.plug = p]
    OBVIOUS
  <2>8. /\ z \in AskRecords /\ z.pc = "hook" /\ z.i = asks[r].i /\ z.todo = asks[r].todo
        /\ z.plug = p /\ z.src = asks[r].src
    BY <1>4, <2>3, <2>7 DEF AskRecords, AskStages, Installing
  <2>9. Becomes(r, z)
    BY <2>5, <2>6, <2>7
  <2>10. Turns(r, "hook", asks[r].i, asks[r].todo, p, asks[r].src)
    BY <2>8, <2>9, BecomesTurns
  <2> QED
    BY <1>1, <1>2, <1>3, <1>5, <1>7, <2>3, <2>4, <2>5, <2>10
<1> QED
  BY <1>6, <1>7

LEMMA HookDoes ==
  ASSUME PluginsType, Placed, NEW r \in Requests, RunHook(r)
  PROVE  /\ asks[r].pc = "hook"
         /\ \/ /\ asks[r].src.op = "install" /\ TurnsTo(r, "ok") /\ UNCHANGED dirs
               /\ jobs' = [jobs EXCEPT ![asks[r].src.repo] = "none"]
            \/ /\ asks[r].src.op = "apply" /\ TurnsTo(r, "expand") /\ UNCHANGED <<dirs, jobs>>
               /\ asks[r].src.body[asks[r].i].pin \in {NoPin, Latest, asks[r].plug.v}
            \/ asks[r].src.op = "apply" /\ TurnsTo(r, "rejected") /\ UNCHANGED <<dirs, jobs>>
            \/ /\ TurnsTo(r, "rejected") /\ JobFailed(r)
               /\ \/ UNCHANGED dirs
                  \/ \E k \in Kinds : \E p \in PluginTypes :
                       /\ dirs[k] # NoPlugin /\ p.by = dirs[k].by /\ p.v = dirs[k].v
                       /\ dirs' = [dirs EXCEPT ![k] = p]
         /\ UNCHANGED <<release, tmp, kept, expanded, gone>>
<1> DEFINE n == asks[r].plug.name
<1>1. asks[r].pc = "hook" /\ UNCHANGED <<release, tmp, kept, expanded, gone>>
  BY DEF RunHook, At
<1>2. asks[r].src.op \in {"apply", "install"} /\ asks[r].plug # NoPlugin /\ Stands(asks[r])
  BY <1>1 DEF Placed, PlacedAt, Installing
<1>3. asks[r].plug \in PluginTypes
  BY <1>2 DEF PluginsType, AskRecords
<1>4. n \in Kinds
  BY <1>3 DEF PluginTypes
<1>5. CASE /\ asks[r].src.op = "install" /\ Goto(r, "ok") /\ UNCHANGED dirs
           /\ jobs' = [jobs EXCEPT ![asks[r].src.repo] = "none"]
  BY <1>1, <1>5, GotoGoes DEF AskStages
<1>6. CASE asks[r].src.op = "apply" /\ Suits(r) /\ Goto(r, "expand") /\ UNCHANGED <<dirs, jobs>>
  BY <1>1, <1>2, <1>6, BlockTyped, GotoGoes DEF Stands, Suits, AskStages
<1>7. CASE asks[r].src.op = "apply" /\ Goto(r, "rejected") /\ UNCHANGED <<dirs, jobs>>
  BY <1>1, <1>7, GotoGoes DEF AskStages
<1>8. CASE /\ Reject(r) /\ JobFailed(r)
           /\ dirs' = IF dirs[n] = NoPlugin THEN dirs ELSE [dirs EXCEPT ![n].error = TRUE]
  <2>1. TurnsTo(r, "rejected")
    BY <1>8, GotoGoes DEF Reject, AskStages
  <2>2. CASE dirs[n] = NoPlugin
    <3>1. UNCHANGED dirs
      BY <1>8, <2>2
    <3> QED
      BY <1>1, <1>8, <2>1, <3>1
  <2>3. CASE dirs[n] # NoPlugin
    BY <1>4, <2>3, <1>8, <1>1, <2>1 DEF PluginsType, PluginTypes
  <2> QED
    BY <2>2, <2>3
<1> QED
  BY <1>2, <1>5, <1>6, <1>7, <1>8 DEF RunHook

LEMMA UninstallDoes ==
  ASSUME PluginsType, Placed, NEW r \in Requests, Uninstall(r)
  PROVE  /\ asks[r].pc = "unhook" /\ asks[r].src.op = "remove" /\ TurnsTo(r, "ok")
         /\ dirs' = [dirs EXCEPT ![asks[r].src.name] = NoPlugin] /\ gone' = gone \cup {asks[r].src.name}
         /\ jobs' = [x \in DOMAIN Repos |-> IF Repos[x].guess = asks[r].src.name THEN "none" ELSE jobs[x]]
         /\ UNCHANGED <<release, tmp, kept, expanded, slips>>
BY GotoGoes DEF Uninstall, At, Placed, PlacedAt, AskStages

LEMMA ExpandDoes ==
  ASSUME PluginsType, Placed, NEW r \in Requests, Expand(r)
  PROVE  /\ asks[r].pc = "expand" /\ asks[r].src.op = "apply" /\ Stands(asks[r])
         /\ \/ TurnsTo(r, "rejected") /\ UNCHANGED expanded
            \/ /\ Turns(r, "act", asks[r].i, asks[r].src.acts, asks[r].plug, asks[r].src)
               /\ \E k \in Kinds : \E e :
                    /\ dirs[k] # NoPlugin /\ expanded' = expanded \cup {e}
                    /\ e.r = r /\ e.i = asks[r].i /\ e.v = dirs[k].v
                    /\ e.pin = asks[r].src.body[asks[r].i].pin
                    /\ e.same <=> dirs[k].by = asks[r].plug.by
         /\ UNCHANGED <<dirs, release, tmp, jobs, kept, gone>>
<1> DEFINE b == Block(r)
           p == dirs[b.kind]
<1>1. asks[r].pc = "expand" /\ UNCHANGED <<dirs, release, tmp, jobs, kept, gone>>
  BY DEF Expand, At
<1>2. asks[r].src.op = "apply" /\ Stands(asks[r]) /\ asks[r].src \in PluginAsks[r]
  BY <1>1 DEF Placed, PlacedAt
<1>3. b = asks[r].src.body[asks[r].i] /\ b.kind \in Kinds
  BY <1>1, <1>2, BlockTyped DEF Stands
<1>4. CASE Reject(r) /\ UNCHANGED expanded
  BY <1>1, <1>2, <1>4, GotoGoes DEF Reject, AskStages
<1>5. CASE /\ p # NoPlugin
           /\ Becomes(r, [asks[r] EXCEPT !.pc = "act", !.todo = asks[r].src.acts])
           /\ expanded' = expanded \cup {[r |-> r, i |-> asks[r].i, pin |-> b.pin, v |-> p.v,
                                          same |-> p.by = asks[r].plug.by]}
  <2>1. PICK z : z = [asks[r] EXCEPT !.pc = "act", !.todo = asks[r].src.acts]
    OBVIOUS
  <2>2. asks[r] \in AskRecords /\ asks[r].src.acts \in Seq(PluginDeeds)
    BY <1>2, AskTyped DEF PluginsType
  <2>3. /\ z \in AskRecords /\ z.pc = "act" /\ z.i = asks[r].i /\ z.todo = asks[r].src.acts
        /\ z.plug = asks[r].plug /\ z.src = asks[r].src
    BY <2>1, <2>2 DEF AskRecords, AskStages
  <2>4. Becomes(r, z)
    BY <1>5, <2>1
  <2>5. Turns(r, "act", asks[r].i, asks[r].src.acts, asks[r].plug, asks[r].src)
    BY <2>3, <2>4, BecomesTurns
  <2>6. PICK e : e = [r |-> r, i |-> asks[r].i, pin |-> b.pin, v |-> p.v, same |-> p.by = asks[r].plug.by]
    OBVIOUS
  <2>7. /\ e.r = r /\ e.i = asks[r].i /\ e.v = p.v /\ e.pin = asks[r].src.body[asks[r].i].pin
        /\ e.same <=> p.by = asks[r].plug.by
    BY <1>3, <2>6
  <2>8. expanded' = expanded \cup {e}
    BY <1>5, <2>6
  <2> QED
    BY <1>1, <1>2, <1>3, <1>5, <2>5, <2>7, <2>8
<1> QED
  BY <1>4, <1>5 DEF Expand

LEMMA ActDoes ==
  ASSUME PluginsType, Placed, NEW r \in Requests, Act(r)
  PROVE  /\ asks[r].pc = "act" /\ Len(asks[r].todo) \in Nat /\ asks[r].src.op \in {"apply", "command"}
         /\ LET q == asks[r] IN
            \/ q.todo = <<>> /\ q.src.op = "command" /\ TurnsTo(r, "ok") /\ UNCHANGED kept
            \/ /\ q.todo = <<>> /\ q.src.op = "apply" /\ UNCHANGED kept
               /\ Turns(r, "look", q.i + 1, q.todo, q.plug, q.src)
            \/ TurnsTo(r, "rejected") /\ UNCHANGED kept
            \/ /\ kept' = kept \cup {<<r, q.i, Len(q.src.acts) - Len(q.todo) + 1>>}
               /\ \E s \in Seq(PluginDeeds) : Len(s) = Len(q.todo) - 1 /\ Turns(r, "act", q.i, s, q.plug, q.src)
         /\ UNCHANGED <<dirs, release, tmp, jobs, expanded, gone, slips>>
<1> DEFINE q == asks[r]
<1>1. q.pc = "act" /\ UNCHANGED <<dirs, release, tmp, jobs, expanded, gone, slips>>
  BY DEF Act, At
<1>2. q.src.op \in {"apply", "command"} /\ q \in AskRecords
  BY <1>1 DEF Placed, PlacedAt, PluginsType
<1>3. /\ q.i \in Nat \ {0} /\ q.todo \in Seq(PluginDeeds) /\ q.plug \in PluginTypes \cup {NoPlugin}
      /\ q.src \in AskSources /\ Len(q.todo) \in Nat
  BY <1>2 DEF AskRecords
<1>4. CASE q.todo = <<>> /\ q.src.op = "command"
  BY <1>4, GotoGoes, <1>1, <1>2, <1>3 DEF Act, Goto, AskStages
<1>5. CASE q.todo = <<>> /\ q.src.op = "apply"
  <2>1. PICK z : z = [q EXCEPT !.pc = "look", !.i = @ + 1]
    OBVIOUS
  <2>2. Becomes(r, z) /\ UNCHANGED kept
    BY <1>5, <2>1 DEF Act
  <2>3. z = [pc |-> "look", i |-> q.i + 1, todo |-> q.todo, plug |-> q.plug, src |-> q.src]
    BY <1>2, <2>1 DEF AskRecords
  <2>4. /\ z \in AskRecords /\ z.pc = "look" /\ z.i = q.i + 1 /\ z.todo = q.todo
        /\ z.plug = q.plug /\ z.src = q.src
    BY <1>3, <2>3 DEF AskRecords, AskStages
  <2> QED
    BY <1>1, <1>2, <1>3, <1>5, <2>2, <2>4, BecomesTurns
<1>6. CASE q.todo # <<>> /\ Head(q.todo) = "bad"
  BY <1>6, <1>1, <1>2, <1>3, GotoGoes DEF Act, Reject, AskStages
<1>7. CASE q.todo # <<>> /\ Head(q.todo) # "bad"
  <2>1. PICK z : z = [q EXCEPT !.todo = Tail(@)]
    OBVIOUS
  <2>2. Becomes(r, z) /\ kept' = kept \cup {<<r, q.i, Len(q.src.acts) - Len(q.todo) + 1>>}
    BY <1>7, <2>1 DEF Act
  <2>3. Tail(q.todo) \in Seq(PluginDeeds) /\ Len(Tail(q.todo)) = Len(q.todo) - 1
    BY <1>3, <1>7, HeadTailProperties
  <2>4. z = [pc |-> q.pc, i |-> q.i, todo |-> Tail(q.todo), plug |-> q.plug, src |-> q.src]
    BY <1>2, <2>1 DEF AskRecords
  <2>5. /\ z \in AskRecords /\ z.pc = "act" /\ z.i = q.i /\ z.todo = Tail(q.todo)
        /\ z.plug = q.plug /\ z.src = q.src
    BY <1>1, <1>3, <2>3, <2>4 DEF AskRecords, AskStages
  <2>6. Turns(r, "act", q.i, Tail(q.todo), q.plug, q.src)
    BY <2>2, <2>5, BecomesTurns
  <2> QED
    BY <1>1, <1>2, <1>3, <2>2, <2>3, <2>6
<1> QED
  BY <1>2, <1>4, <1>5, <1>6, <1>7

LEMMA PutDoes ==
  ASSUME PluginsType, Placed, NEW r \in Requests, PutNext(r)
  PROVE  /\ asks[r].pc = "put" /\ asks[r].src.op = "apply"
         /\ LET q == asks[r] IN
            \/ q.i > Len(q.src.body) /\ TurnsTo(r, "ok") /\ UNCHANGED kept
            \/ /\ q.i <= Len(q.src.body) /\ Turns(r, "put", q.i + 1, q.todo, q.plug, q.src)
               /\ kept' = IF q.src.dry THEN kept ELSE kept \cup {<<r, q.i, 0>>}
            \/ TurnsTo(r, "rejected") /\ UNCHANGED kept
         /\ UNCHANGED <<dirs, release, tmp, jobs, expanded, gone>>
<1> DEFINE q == asks[r]
<1>1. q.pc = "put" /\ UNCHANGED <<dirs, release, tmp, jobs, expanded, gone>>
  BY DEF PutNext, At
<1>2. q.src.op = "apply" /\ q \in AskRecords
  BY <1>1 DEF Placed, PlacedAt, PluginsType
<1>3. /\ q.i \in Nat \ {0} /\ q.todo \in Seq(PluginDeeds) /\ q.plug \in PluginTypes \cup {NoPlugin}
      /\ q.src \in AskSources
  BY <1>2 DEF AskRecords
<1>4. CASE Block(r) = NoBlock /\ Goto(r, "ok") /\ UNCHANGED kept
  BY <1>1, <1>4, BlockTyped, <1>2, GotoGoes DEF AskStages
<1>5. CASE /\ Block(r) # NoBlock /\ Becomes(r, [q EXCEPT !.i = @ + 1])
           /\ kept' = IF q.src.dry THEN kept ELSE kept \cup {<<r, q.i, 0>>}
  BY <1>5, <1>2, <1>1, <1>3, BlockTyped, BecomesTurns DEF AskRecords, AskStages
<1>6. CASE Reject(r) /\ UNCHANGED kept
  BY <1>1, <1>2, <1>6, GotoGoes DEF Reject, AskStages
<1> QED
  BY <1>4, <1>5, <1>6 DEF PutNext

\* A stop: what had not ended is lost.
LEMMA StopDoes ==
  ASSUME PluginsType, StopAsks
  PROVE  /\ asks' \in [Requests -> AskRecords]
         /\ \A r \in Requests :
              \/ asks'[r] = asks[r] /\ asks[r].pc \in {"idle", "ok", "rejected", "lost"}
              \/ /\ asks[r].pc \notin {"idle", "ok", "rejected", "lost"}
                 /\ asks'[r].pc = "lost" /\ asks'[r].i = asks[r].i /\ asks'[r].todo = asks[r].todo
                 /\ asks'[r].plug = asks[r].plug /\ asks'[r].src = asks[r].src
         /\ jobs' = [x \in DOMAIN Repos |-> "none"]
         /\ gone' = gone \cup {Tree(r).name : r \in {q \in Requests : asks[q].pc = "move"}}
         /\ UNCHANGED <<dirs, release, tmp, kept, expanded>>
<1>1. ASSUME NEW r \in Requests
      PROVE  /\ asks'[r] \in AskRecords
             /\ \/ asks'[r] = asks[r] /\ asks[r].pc \in {"idle", "ok", "rejected", "lost"}
                \/ /\ asks[r].pc \notin {"idle", "ok", "rejected", "lost"}
                   /\ asks'[r].pc = "lost" /\ asks'[r].i = asks[r].i /\ asks'[r].todo = asks[r].todo
                   /\ asks'[r].plug = asks[r].plug /\ asks'[r].src = asks[r].src
  <2>1. asks[r] \in AskRecords
    BY DEF PluginsType
  <2>2. CASE Ended(r)
    BY <2>1, <2>2 DEF StopAsks, Ended
  <2>3. CASE ~Ended(r)
    BY <2>3, <2>1 DEF StopAsks, AskRecords, AskStages, Ended
  <2> QED
    BY <2>2, <2>3
<1>2. asks' = [r \in Requests |-> asks'[r]]
  BY DEF StopAsks
<1>3. asks' \in [Requests -> AskRecords]
  BY <1>1, <1>2
<1> QED
  BY <1>1, <1>3 DEF StopAsks, At
-----------------------------------------------------------------------------
LEMMA JobFailedType ==
  ASSUME PluginsType, Placed, NEW r \in Requests, asks[r].pc \in Installing, JobFailed(r)
  PROVE  jobs' \in [DOMAIN Repos -> {"none", "installing", "failed"}]
BY AskTyped DEF Placed, PlacedAt, Installing, JobFailed, PluginsType

LEMMA PluginsTypeStep == PluginsIInv /\ [PluginsNext]_pluginsVars => PluginsType'
<1> SUFFICES ASSUME PluginsIInv, [PluginsNext]_pluginsVars PROVE PluginsType'
  OBVIOUS
<1> USE DEF PluginsIInv
<1>1. ASSUME NEW r \in Requests, NEW a \in PluginAsks[r], StartAsk(r, a) PROVE PluginsType'
  <2>1. a.repo \in DOMAIN Repos
    BY AskTyped
  <2> QED
    BY <1>1, <2>1, StartAskDoes DEF PluginsType, Turns
<1>2. ASSUME NEW r \in Requests, Look(r) PROVE PluginsType'
  BY <1>2, LookDoes DEF PluginsType, Turns, TurnsTo
<1>3. ASSUME NEW r \in Requests, Fetch(r) PROVE PluginsType'
  BY <1>3, FetchDoes, JobFailedType DEF PluginsType, Turns, TurnsTo, Installing
<1>4. ASSUME NEW r \in Requests, ClearOld(r) PROVE PluginsType'
  BY <1>4, ClearDoes DEF PluginsType, Turns, TurnsTo
<1>5. ASSUME NEW r \in Requests, MoveIn(r) PROVE PluginsType'
  BY <1>5, MoveDoes, JobFailedType DEF PluginsType, Turns, TurnsTo, Installing
<1>6. ASSUME NEW r \in Requests, RunHook(r) PROVE PluginsType'
  BY <1>6, HookDoes, JobFailedType DEF PluginsType, Turns, TurnsTo, Installing
<1>7. ASSUME NEW r \in Requests, Uninstall(r) PROVE PluginsType'
  BY <1>7, UninstallDoes DEF PluginsType, Turns, TurnsTo
<1>8. ASSUME NEW r \in Requests, Expand(r) PROVE PluginsType'
  BY <1>8, ExpandDoes DEF PluginsType, Turns, TurnsTo
<1>9. ASSUME NEW r \in Requests, Act(r) PROVE PluginsType'
  BY <1>9, ActDoes DEF PluginsType, Turns, TurnsTo
<1>10. ASSUME NEW r \in Requests, PutNext(r) PROVE PluginsType'
  BY <1>10, PutDoes DEF PluginsType, Turns, TurnsTo
<1>11. CASE Upstream
  BY <1>11 DEF Upstream, PluginsType
<1>12. CASE Expire
  BY <1>12 DEF Expire, PluginsType
<1>13. CASE StopAsks
  BY <1>13, StopDoes DEF PluginsType
<1>14. CASE UNCHANGED pluginsVars
  BY <1>14 DEF pluginsVars, PluginsType
<1> QED
  BY <1>1, <1>2, <1>3, <1>4, <1>5, <1>6, <1>7, <1>8, <1>9, <1>10, <1>11, <1>12, <1>13, <1>14 DEF PluginsNext

\* The other requests stand where they stood.
LEMMA PlacedMoves ==
  ASSUME Placed, NEW r \in Requests, PlacedAt(r, asks'[r]), \A s \in Requests : s # r => asks'[s] = asks[s]
  PROVE  Placed'
BY DEF Placed

LEMMA PlacedStep == PluginsIInv /\ [PluginsNext]_pluginsVars => Placed'
<1> SUFFICES ASSUME PluginsIInv, [PluginsNext]_pluginsVars PROVE Placed'
  OBVIOUS
<1>0. PluginsType /\ Placed /\ OneTree
  BY DEF PluginsIInv
<1>1. ASSUME NEW r \in Requests, NEW a \in PluginAsks[r], StartAsk(r, a) PROVE Placed'
  <2>1. PlacedAt(r, asks'[r])
    <3>1. Len(a.acts) \in Nat
      BY AskTyped
    <3> QED
      BY <1>0, <1>1, StartAskDoes, <3>1 DEF Turns, PlacedAt, Stands, Installing
  <2> QED
    BY <1>0, <1>1, <2>1, PlacedMoves, StartAskDoes DEF Turns
<1>2. ASSUME NEW r \in Requests, Look(r) PROVE Placed'
  <2>1. PlacedAt(r, asks[r])
    BY <1>0 DEF Placed
  <2>2. PlacedAt(r, asks'[r])
    <3> DEFINE q == asks[r]
               b == q.src.body[q.i]
    <3>1. /\ q.pc = "look" /\ q.src \in PluginAsks[r] /\ q.src.op = "apply"
      BY <1>0, <1>2, <2>1, LookDoes DEF PlacedAt
    <3>2. CASE Turns(r, "put", 1, q.todo, q.plug, q.src) \/ Turns(r, "look", q.i + 1, q.todo, q.plug, q.src)
      BY <3>1, <3>2 DEF Turns, PlacedAt, Installing
    <3>3. CASE q.i <= Len(q.src.body) /\ b.kind # Core /\ TurnsTo(r, "fetch")
      BY <3>1, <3>3 DEF Turns, TurnsTo, PlacedAt, Stands, Installing
    <3>4. CASE /\ q.i <= Len(q.src.body) /\ b.kind # Core
               /\ dirs[b.kind] # NoPlugin /\ b.pin \in {NoPin, dirs[b.kind].v}
               /\ Turns(r, "expand", q.i, q.todo, dirs[b.kind], q.src)
      BY <3>1, <3>4 DEF Turns, PlacedAt, Stands, Installing
    <3> QED
      BY <1>0, <1>2, <3>2, <3>3, <3>4, LookDoes
  <2> QED
    BY <1>0, <1>2, <2>2, PlacedMoves, LookDoes DEF Turns, TurnsTo
<1>3. ASSUME NEW r \in Requests, Fetch(r) PROVE Placed'
  <2>1. PlacedAt(r, asks[r])
    BY <1>0 DEF Placed
  <2>2. PlacedAt(r, asks'[r])
    BY <1>0, <1>3, <2>1, FetchDoes DEF Turns, TurnsTo, PlacedAt, Stands, Installing
  <2> QED
    BY <1>0, <1>3, <2>2, PlacedMoves, FetchDoes DEF Turns, TurnsTo
<1>4. ASSUME NEW r \in Requests, ClearOld(r) PROVE Placed'
  <2>1. PlacedAt(r, asks[r])
    BY <1>0 DEF Placed
  <2>2. PlacedAt(r, asks'[r])
    BY <1>0, <1>4, <2>1, ClearDoes DEF Turns, TurnsTo, PlacedAt, Stands, Installing
  <2> QED
    BY <1>0, <1>4, <2>2, PlacedMoves, ClearDoes DEF Turns, TurnsTo
<1>5. ASSUME NEW r \in Requests, MoveIn(r) PROVE Placed'
  <2>1. PlacedAt(r, asks[r])
    BY <1>0 DEF Placed
  <2>2. PlacedAt(r, asks'[r])
    BY <1>0, <1>5, MoveDoes, <2>1 DEF Turns, TurnsTo, PlacedAt, Installing, Stands
  <2> QED
    BY <1>0, <1>5, <2>2, PlacedMoves, MoveDoes DEF Turns, TurnsTo
<1>6. ASSUME NEW r \in Requests, RunHook(r) PROVE Placed'
  <2>1. PlacedAt(r, asks[r])
    BY <1>0 DEF Placed
  <2>2. PlacedAt(r, asks'[r])
    BY <1>0, <1>6, <2>1, HookDoes DEF Turns, TurnsTo, PlacedAt, Stands, Installing
  <2> QED
    BY <1>0, <1>6, <2>2, PlacedMoves, HookDoes DEF Turns, TurnsTo
<1>7. ASSUME NEW r \in Requests, Uninstall(r) PROVE Placed'
  BY <1>0, <1>7, UninstallDoes, PlacedMoves DEF Placed, Turns, TurnsTo, PlacedAt, Installing
<1>8. ASSUME NEW r \in Requests, Expand(r) PROVE Placed'
  <2>1. PlacedAt(r, asks[r])
    BY <1>0 DEF Placed
  <2>2. Len(asks[r].src.acts) \in Nat
    BY <1>0, <1>8, <2>1, ExpandDoes, AskTyped DEF PlacedAt
  <2>3. PlacedAt(r, asks'[r])
    <3>1. asks[r].pc = "expand" /\ asks[r].src.op = "apply" /\ Stands(asks[r])
      BY <1>0, <1>8, ExpandDoes
    <3>2. CASE TurnsTo(r, "rejected")
      BY <2>1, <3>1, <3>2 DEF Turns, TurnsTo, PlacedAt, Installing
    <3>3. CASE Turns(r, "act", asks[r].i, asks[r].src.acts, asks[r].plug, asks[r].src)
      BY <3>3, <2>1, <3>1, <2>2 DEF Turns, PlacedAt, Stands, Installing
    <3> QED
      BY <1>0, <1>8, <3>2, <3>3, ExpandDoes
  <2> QED
    BY <1>0, <1>8, <2>3, PlacedMoves, ExpandDoes DEF Turns, TurnsTo
<1>9. ASSUME NEW r \in Requests, Act(r) PROVE Placed'
  <2>1. PlacedAt(r, asks[r])
    BY <1>0 DEF Placed
  <2>2. Len(asks[r].src.acts) \in Nat
    BY <1>0, <1>9, <2>1, ActDoes, AskTyped DEF PlacedAt
  <2>3. PlacedAt(r, asks'[r])
    <3> DEFINE q == asks[r]
    <3>1. /\ q.pc = "act" /\ q.src \in PluginAsks[r] /\ q.src.op \in {"apply", "command"}
          /\ Stands(q) /\ Len(q.todo) <= Len(q.src.acts) /\ Len(q.todo) \in Nat
      BY <1>0, <1>9, <2>1, ActDoes DEF PlacedAt
    <3>2. CASE TurnsTo(r, "ok") \/ TurnsTo(r, "rejected")
      BY <3>1, <3>2 DEF Turns, TurnsTo, PlacedAt, Installing
    <3>3. CASE q.src.op = "apply" /\ Turns(r, "look", q.i + 1, q.todo, q.plug, q.src)
      BY <3>1, <3>3 DEF Turns, PlacedAt, Installing
    <3>4. CASE \E s \in Seq(PluginDeeds) : Len(s) = Len(q.todo) - 1 /\ Turns(r, "act", q.i, s, q.plug, q.src)
      BY <2>2, <3>1, <3>4 DEF Turns, PlacedAt, Stands, Installing
    <3> QED
      BY <1>0, <1>9, <3>2, <3>3, <3>4, ActDoes
  <2> QED
    BY <1>0, <1>9, <2>3, PlacedMoves, ActDoes DEF Turns, TurnsTo
<1>10. ASSUME NEW r \in Requests, PutNext(r) PROVE Placed'
  <2>1. PlacedAt(r, asks[r])
    BY <1>0 DEF Placed
  <2>2. PlacedAt(r, asks'[r])
    BY <1>0, <1>10, <2>1, PutDoes DEF Turns, TurnsTo, PlacedAt, Installing
  <2> QED
    BY <1>0, <1>10, <2>2, PlacedMoves, PutDoes DEF Turns, TurnsTo
<1>11. CASE Upstream \/ Expire \/ UNCHANGED pluginsVars
  <2>1. UNCHANGED asks
    BY <1>11 DEF Upstream, Expire, pluginsVars
  <2> QED
    BY <1>0, <2>1 DEF Placed
<1>12. CASE StopAsks
  <2>1. ASSUME NEW r \in Requests PROVE PlacedAt(r, asks'[r])
    BY <1>0, <1>12, StopDoes DEF Placed, PlacedAt, Installing
  <2> QED
    BY <1>0, <2>1 DEF Placed
<1> QED
  BY <1>0, <1>1, <1>2, <1>3, <1>4, <1>5, <1>6, <1>7, <1>8, <1>9, <1>10, <1>11, <1>12 DEF PluginsNext

\* A step of a request that has no scratch directory before and after it, and of no other.
LEMMA TreesStay ==
  ASSUME OneTree, UNCHANGED tmp, NEW r \in Requests, asks[r].pc \notin {"clear", "move", "lost"},
         asks'[r].pc \notin {"clear", "move"}, \A s \in Requests : s # r => asks'[s] = asks[s],
         tmp \subseteq Scratch
  PROVE  OneTree'
BY DEF OneTree, Scratch

LEMMA OneTreeStep == PluginsIInv /\ [PluginsNext]_pluginsVars => OneTree'
<1> SUFFICES ASSUME PluginsIInv, [PluginsNext]_pluginsVars PROVE OneTree'
  OBVIOUS
<1>0. PluginsType /\ Placed /\ OneTree /\ tmp \subseteq Scratch
  BY DEF PluginsIInv, PluginsType
<1>1. ASSUME NEW r \in Requests, NEW a \in PluginAsks[r], StartAsk(r, a) PROVE OneTree'
  BY <1>0, <1>1, StartAskDoes, TreesStay DEF Turns
<1>2. ASSUME NEW r \in Requests, Look(r) PROVE OneTree'
  BY <1>0, <1>2, LookDoes, TreesStay DEF Turns, TurnsTo
<1>3. ASSUME NEW r \in Requests, Fetch(r) PROVE OneTree'
  BY <1>0, <1>3, FetchDoes, TreesStay DEF Turns, TurnsTo, OneTree, Scratch
<1>4. ASSUME NEW r \in Requests, ClearOld(r) PROVE OneTree'
  BY <1>0, <1>4, ClearDoes DEF Turns, TurnsTo, OneTree, Scratch
<1>5. ASSUME NEW r \in Requests, MoveIn(r) PROVE OneTree'
  BY <1>0, <1>5, MoveDoes DEF Turns, TurnsTo, OneTree, Scratch
<1>6. ASSUME NEW r \in Requests, RunHook(r) PROVE OneTree'
  BY <1>0, <1>6, HookDoes, TreesStay DEF Turns, TurnsTo
<1>7. ASSUME NEW r \in Requests, Uninstall(r) PROVE OneTree'
  BY <1>0, <1>7, UninstallDoes, TreesStay DEF Turns, TurnsTo
<1>8. ASSUME NEW r \in Requests, Expand(r) PROVE OneTree'
  BY <1>0, <1>8, ExpandDoes, TreesStay DEF Turns, TurnsTo
<1>9. ASSUME NEW r \in Requests, Act(r) PROVE OneTree'
  BY <1>0, <1>9, ActDoes, TreesStay DEF Turns, TurnsTo
<1>10. ASSUME NEW r \in Requests, PutNext(r) PROVE OneTree'
  BY <1>0, <1>10, PutDoes, TreesStay DEF Turns, TurnsTo
<1>11. CASE Upstream \/ Expire \/ UNCHANGED pluginsVars
  <2>1. UNCHANGED <<asks, tmp>>
    BY <1>11 DEF Upstream, Expire, pluginsVars
  <2> QED
    BY <1>0, <2>1 DEF OneTree
<1>12. CASE StopAsks
  BY <1>0, <1>12, StopDoes DEF OneTree, Scratch
<1> QED
  BY <1>1, <1>2, <1>3, <1>4, <1>5, <1>6, <1>7, <1>8, <1>9, <1>10, <1>11, <1>12 DEF PluginsNext
-----------------------------------------------------------------------------
\* Whatever is in use after the step came from what was in use before.
Carries == \A p \in InUse' : \E o \in InUse : o.by = p.by /\ o.v = p.v
\* No request goes back to where an install of it is still to come.
Forwards ==
  \A r \in Requests : \A n \in Nat \ {0} :
    LET q == asks[r] IN
    /\ (q.pc \in {"idle", "look", "fetch", "clear", "move"} => n < q.i)
    /\ (q.pc \in {"hook", "expand", "act"} => n <= q.i)
    => /\ asks'[r].pc \in {"idle", "look", "fetch", "clear", "move"} => n < asks'[r].i
       /\ asks'[r].pc \in {"hook", "expand", "act"} => n <= asks'[r].i

LEMMA CarryStep ==
  ASSUME PluginsIInv, Carries, Forwards
  PROVE  OneVersion' /\ Named'
<1>1. OneVersion'
  BY DEF PluginsIInv, OneVersion, Carries
<1>2. Named'
  <2>1. ASSUME NEW p \in InUse', NEW r \in Requests, NEW n \in Nat \ {0}, p.by = <<r, n>>
        PROVE  /\ asks'[r].pc \in {"idle", "look", "fetch", "clear", "move"} => n < asks'[r].i
               /\ asks'[r].pc \in {"hook", "expand", "act"} => n <= asks'[r].i
    BY <2>1 DEF Carries, PluginsIInv, Named, Earlier, Forwards
  <2> QED
    BY <2>1 DEF Named, Earlier
<1> QED
  BY <1>1, <1>2

\* The common case: paths and requests hold what they held, or what another held.
LEMMA CarryLemma ==
  ASSUME \A k \in Kinds : \/ dirs'[k] \in InUse \cup {NoPlugin}
                          \/ \E o \in InUse : o.by = dirs'[k].by /\ o.v = dirs'[k].v,
         \A r \in Requests : asks'[r].plug \in InUse \cup {NoPlugin}
  PROVE  Carries
<1>1. InUse' = ({dirs'[k] : k \in Kinds} \cup {asks'[r].plug : r \in Requests}) \ {NoPlugin}
  BY DEF InUse
<1> HIDE DEF InUse
<1> QED
  BY <1>1 DEF Carries

LEMMA InUseLemma ==
  /\ \A k \in Kinds : dirs[k] \in InUse \cup {NoPlugin}
  /\ \A r \in Requests : asks[r].plug \in InUse \cup {NoPlugin}
BY DEF InUse

LEMMA NumbersLemma == PluginsType => \A r \in Requests : asks[r].i \in Nat \ {0}
BY DEF PluginsType, AskRecords

LEMMA VersionsStep == PluginsIInv /\ [PluginsNext]_pluginsVars => OneVersion' /\ Named'
<1> SUFFICES ASSUME PluginsIInv, [PluginsNext]_pluginsVars PROVE OneVersion' /\ Named'
  OBVIOUS
<1>0. PluginsType /\ Placed /\ OneTree
  BY DEF PluginsIInv
<1>a. \A r \in Requests : asks[r].i \in Nat \ {0}
  BY <1>0, NumbersLemma
\* A step of one request that changes nothing at a path.
<1>b. ASSUME NEW r \in Requests, UNCHANGED dirs, asks'[r].plug \in InUse \cup {NoPlugin},
             \A s \in Requests : s # r => asks'[s] = asks[s]
      PROVE  Carries
  BY <1>b, CarryLemma, InUseLemma
<1>1. ASSUME NEW r \in Requests, NEW a \in PluginAsks[r], StartAsk(r, a) PROVE OneVersion' /\ Named'
  BY <1>0, <1>1, StartAskDoes, <1>a, <1>b, CarryStep DEF Placed, PlacedAt, Turns, Forwards
<1>2. ASSUME NEW r \in Requests, Look(r) PROVE OneVersion' /\ Named'
  <2>2. Forwards
    <3>1. /\ asks[r].pc = "look" /\ \A s \in Requests : s # r => asks'[s] = asks[s]
          /\ \/ asks'[r].pc = "put"
             \/ asks'[r].pc = "look" /\ asks'[r].i = asks[r].i + 1
             \/ asks'[r].pc \in {"fetch", "expand"} /\ asks'[r].i = asks[r].i
      BY <1>0, <1>2, LookDoes DEF Turns, TurnsTo
    <3> QED
      BY <1>a, <3>1 DEF Forwards
  <2>3. Carries
    BY <1>0, <1>2, InUseLemma, LookDoes, <1>b DEF Turns, TurnsTo
  <2> QED
    BY <2>2, <2>3, CarryStep
<1>3. ASSUME NEW r \in Requests, Fetch(r) PROVE OneVersion' /\ Named'
  BY <1>0, <1>3, <1>a, FetchDoes, <1>b, InUseLemma, CarryStep DEF Turns, TurnsTo, Forwards
<1>4. ASSUME NEW r \in Requests, ClearOld(r) PROVE OneVersion' /\ Named'
  BY <1>0, <1>4, <1>a, ClearDoes, InUseLemma, CarryLemma, CarryStep DEF Turns, TurnsTo, Forwards, PluginsType
<1>5. ASSUME NEW r \in Requests, MoveIn(r) PROVE OneVersion' /\ Named'
  <2>1. asks[r].pc = "move"
    BY <1>0, <1>5, MoveDoes
  <2>2. CASE TurnsTo(r, "rejected") /\ UNCHANGED dirs
    BY <1>a, <2>1, <2>2, <1>b, InUseLemma, CarryStep DEF Turns, TurnsTo, Forwards
  <2>3. ASSUME NEW k \in Kinds, NEW p \in PluginTypes, p.by = <<r, asks[r].i>>, p # NoPlugin,
               dirs' = [dirs EXCEPT ![k] = p],
               Turns(r, "hook", asks[r].i, asks[r].todo, p, asks[r].src)
        PROVE  OneVersion' /\ Named'
    <3>1. \A o \in InUse' : o = p \/ o \in InUse
      BY <1>0, <2>3, InUseLemma DEF InUse, PluginsType, Turns
    <3>2. \A o \in InUse : o.by # p.by
      BY <1>a, <2>1, <2>3 DEF PluginsIInv, Named, Earlier
    <3>3. OneVersion'
      BY <3>1, <3>2 DEF PluginsIInv, OneVersion
    <3>4. Named'
      <4>1. Forwards
        BY <1>a, <2>1, <2>3 DEF Turns, Forwards
      <4>2. ASSUME NEW o \in InUse', NEW s \in Requests, NEW n \in Nat \ {0}, o.by = <<s, n>>
            PROVE  /\ asks'[s].pc \in {"idle", "look", "fetch", "clear", "move"} => n < asks'[s].i
                   /\ asks'[s].pc \in {"hook", "expand", "act"} => n <= asks'[s].i
        <5>1. CASE o \in InUse
          BY <4>2, <5>1, <4>1 DEF PluginsIInv, Named, Earlier, Forwards
        <5>2. CASE o = p
          BY <2>3, <4>2, <5>2, <1>a DEF Turns
        <5> QED
          BY <3>1, <5>1, <5>2
      <4> QED
        BY <4>2 DEF Named, Earlier
    <3> QED
      BY <3>3, <3>4
  <2> QED
    BY <1>0, <1>5, <2>2, <2>3, MoveDoes
<1>6. ASSUME NEW r \in Requests, RunHook(r) PROVE OneVersion' /\ Named'
  <2>2. Forwards
    BY <1>0, <1>6, <1>a, HookDoes DEF Turns, TurnsTo, Forwards
  <2>3. \A s \in Requests : asks'[s].plug \in InUse \cup {NoPlugin}
    BY <1>0, <1>6, InUseLemma, HookDoes DEF Turns, TurnsTo
  <2>4. CASE UNCHANGED dirs
    BY <2>2, <2>3, <2>4, CarryStep, CarryLemma, InUseLemma
  <2>5. ASSUME NEW k \in Kinds, NEW p \in PluginTypes, dirs[k] # NoPlugin, p.by = dirs[k].by, p.v = dirs[k].v,
               dirs' = [dirs EXCEPT ![k] = p]
        PROVE  OneVersion' /\ Named'
    BY <2>5, InUseLemma, <1>0, <2>2, <2>3, CarryStep, CarryLemma DEF PluginsType
  <2> QED
    BY <1>0, <1>6, <2>4, <2>5, HookDoes
<1>7. ASSUME NEW r \in Requests, Uninstall(r) PROVE OneVersion' /\ Named'
  BY <1>0, <1>7, <1>a, UninstallDoes, InUseLemma, CarryLemma, CarryStep DEF Turns, TurnsTo, Forwards,
     PluginsType
<1>8. ASSUME NEW r \in Requests, Expand(r) PROVE OneVersion' /\ Named'
  BY <1>0, <1>8, <1>a, ExpandDoes, <1>b, InUseLemma, CarryStep DEF Turns, TurnsTo, Forwards
<1>9. ASSUME NEW r \in Requests, Act(r) PROVE OneVersion' /\ Named'
  <2>2. Forwards
    <3>1. asks[r].pc = "act"
      BY <1>0, <1>9, ActDoes
    <3>2. CASE TurnsTo(r, "ok") \/ TurnsTo(r, "rejected")
      BY <1>a, <3>1, <3>2 DEF Turns, TurnsTo, Forwards
    <3>3. CASE Turns(r, "look", asks[r].i + 1, asks[r].todo, asks[r].plug, asks[r].src)
      BY <1>a, <3>1, <3>3 DEF Turns, Forwards
    <3>4. CASE \E s \in Seq(PluginDeeds) : Turns(r, "act", asks[r].i, s, asks[r].plug, asks[r].src)
      BY <1>a, <3>1, <3>4 DEF Turns, Forwards
    <3> QED
      BY <1>0, <1>9, <3>2, <3>3, <3>4, ActDoes
  <2>3. Carries
    BY <1>0, <1>9, <1>b, InUseLemma, ActDoes DEF Turns, TurnsTo
  <2> QED
    BY <2>2, <2>3, CarryStep
<1>10. ASSUME NEW r \in Requests, PutNext(r) PROVE OneVersion' /\ Named'
  BY <1>0, <1>10, <1>a, PutDoes, <1>b, InUseLemma, CarryStep DEF Turns, TurnsTo, Forwards
<1>11. CASE Upstream \/ Expire \/ UNCHANGED pluginsVars
  BY <1>11, InUseLemma, CarryLemma, CarryStep DEF Upstream, Expire, pluginsVars, Forwards
<1>12. CASE StopAsks
  BY <1>0, <1>12, StopDoes, InUseLemma, CarryLemma, CarryStep DEF Forwards
<1> QED
  BY <1>1, <1>2, <1>3, <1>4, <1>5, <1>6, <1>7, <1>8, <1>9, <1>10, <1>11, <1>12 DEF PluginsNext
-----------------------------------------------------------------------------
\* What is done and stored for a request stays, and stays true of one that stands still.
LEMMA ProgressStays ==
  ASSUME NEW r \in Requests, asks'[r] = asks[r] \/ (asks'[r].pc \in {"lost", "rejected"} /\ asks'[r].src = asks[r].src),
         asks[r].pc # "idle" => asks'[r].pc # "idle",
         asks[r].pc = "idle" => asks'[r] = asks[r],
         expanded \subseteq expanded',
         kept \subseteq kept', \A i, k : <<r, i, k>> \in kept' => <<r, i, k>> \in kept,
         /\ asks[r].pc = "idle" => \A i, k \in Nat : <<r, i, k>> \notin kept
         /\ asks[r].pc # "idle" /\ asks[r].src.op = "apply" => ApplyProgress(r)
  PROVE  /\ asks'[r].pc = "idle" => \A i, k \in Nat : <<r, i, k>> \notin kept'
         /\ asks'[r].pc # "idle" /\ asks'[r].src.op = "apply" => ApplyProgress(r)'
<1>1. \A i : DidBlock(r, i) => DidBlock(r, i)'
  BY DEF DidBlock
<1>2. \A n : DidTo(r, n) => DidTo(r, n)'
  BY <1>1 DEF DidTo
<1>3. AnyStored(r)' <=> AnyStored(r)
  BY DEF AnyStored
<1>4. \A n : StoredTo(r, n) => StoredTo(r, n)'
  BY DEF StoredTo
<1>5. CASE asks'[r] = asks[r]
  BY <1>2, <1>3, <1>4, <1>5 DEF ApplyProgress
<1>6. CASE asks'[r].pc \in {"lost", "rejected"} /\ asks'[r].src = asks[r].src
  BY <1>2, <1>3, <1>6 DEF ApplyProgress, Installing
<1> QED
  BY <1>5, <1>6

\* A step of r that writes nothing of the others.
LEMMA ProgressMoves ==
  ASSUME Progress, NEW r \in Requests, \A s \in Requests : s # r => asks'[s] = asks[s],
         expanded \subseteq expanded', kept \subseteq kept',
         \A s \in Requests : s # r => \A i, k : <<s, i, k>> \in kept' => <<s, i, k>> \in kept,
         /\ asks'[r].pc = "idle" => \A i, k \in Nat : <<r, i, k>> \notin kept'
         /\ asks'[r].pc # "idle" /\ asks'[r].src.op = "apply" => ApplyProgress(r)'
  PROVE  Progress'
<1>1. ASSUME NEW s \in Requests
      PROVE  /\ asks'[s].pc = "idle" => \A i, k \in Nat : <<s, i, k>> \notin kept'
             /\ asks'[s].pc # "idle" /\ asks'[s].src.op = "apply" => ApplyProgress(s)'
  <2>1. CASE s = r
    BY <2>1
  <2>2. CASE s # r
    BY <2>2, ProgressStays DEF Progress
  <2> QED
    BY <2>1, <2>2
<1> QED
  BY <1>1 DEF Progress

\* It ends, or is installing, or its expansion waits: nothing is written.
LEMMA ProgressGoes ==
  ASSUME Progress, NEW r \in Requests, NEW pc \in {"rejected", "fetch", "clear", "move", "hook", "expand"},
         asks[r].pc \in {"look", "expand"} \cup Installing \/ pc = "rejected",
         asks[r].pc # "idle",
         asks'[r].pc = pc, asks'[r].i = asks[r].i, asks'[r].src = asks[r].src,
         \A s \in Requests : s # r => asks'[s] = asks[s],
         UNCHANGED <<expanded, kept>>
  PROVE  Progress'
<1>1. asks'[r].src.op = "apply" => ApplyProgress(r)'
  BY DEF Progress, DidTo, DidBlock, AnyStored, ApplyProgress, Installing
<1> QED
  BY <1>1, ProgressMoves

\* What r writes is of r.
LEMMA WritesOwn ==
  ASSUME NEW r \in Requests, NEW i, NEW k, kept' = kept \cup {<<r, i, k>>}
  PROVE  kept \subseteq kept' /\ \A s \in Requests : s # r => \A j, l : <<s, j, l>> \in kept' => <<s, j, l>> \in kept
OBVIOUS

LEMMA ProgressStep == PluginsIInv /\ [PluginsNext]_pluginsVars => Progress'
<1> SUFFICES ASSUME PluginsIInv, [PluginsNext]_pluginsVars PROVE Progress'
  OBVIOUS
<1>0. PluginsType /\ Placed /\ OneTree /\ Progress
  BY DEF PluginsIInv
<1>a. \A r \in Requests : asks[r].i \in Nat \ {0}
  BY <1>0, NumbersLemma
<1>b. ASSUME NEW r \in Requests, NEW pc \in {"rejected", "fetch", "clear", "move", "hook", "expand"},
             asks[r].pc \in {"look", "expand"} \cup Installing \/ pc = "rejected",
             asks[r].pc # "idle", TurnsTo(r, pc), UNCHANGED <<expanded, kept>>
      PROVE  Progress'
  BY <1>0, <1>b, ProgressGoes DEF TurnsTo, Turns
<1>c. ASSUME NEW r \in Requests, asks[r].pc # "idle", asks[r].src.op = "apply"
      PROVE  ApplyProgress(r) /\ Len(asks[r].src.body) \in Nat /\ Len(asks[r].src.acts) \in Nat
  BY <1>0, <1>c, AskTyped DEF Placed, PlacedAt, Progress
<1>1. ASSUME NEW r \in Requests, NEW a \in PluginAsks[r], StartAsk(r, a) PROVE Progress'
  <2>1. /\ asks[r].pc = "idle" /\ UNCHANGED <<expanded, kept>> /\ asks'[r].pc # "idle" /\ asks'[r].i = 1
        /\ asks'[r].src = a /\ \A s \in Requests : s # r => asks'[s] = asks[s]
        /\ asks'[r].src.op = "apply" => asks'[r].pc = "look"
    BY <1>0, <1>1, StartAskDoes DEF Turns
  <2>2. \A i, k \in Nat : <<r, i, k>> \notin kept
    BY <1>0, <2>1 DEF Progress
  <2>3. Len(a.body) \in Nat
    BY AskTyped
  <2>4. ~AnyStored(r)'
    <3>1. \A i \in 1..Len(a.body) : <<r, i, 0>> \notin kept
      BY <2>2, <2>3
    <3>2. kept' = kept /\ asks'[r].src.body = a.body
      BY <2>1
    <3> QED
      BY <3>1, <3>2 DEF AnyStored
  <2>5. DidTo(r, 0)'
    BY <2>1, <2>3 DEF DidTo
  <2>6. asks'[r].src.op = "apply" => ApplyProgress(r)'
    BY <2>1, <2>5, <2>4 DEF DidTo, ApplyProgress, Installing
  <2> QED
    BY <1>0, <2>1, <2>6, ProgressMoves
<1>2. ASSUME NEW r \in Requests, Look(r) PROVE Progress'
  <2> DEFINE q == asks[r]
             b == q.src.body[q.i]
  <2>1. q.pc = "look" /\ UNCHANGED <<expanded, kept>> /\ q.src.op = "apply"
    BY <1>0, <1>2, LookDoes DEF Placed, PlacedAt
  <2>2. ApplyProgress(r) /\ Len(q.src.body) \in Nat
    BY <1>c, <2>1
  <2>3. DidTo(r, q.i - 1) /\ (AnyStored(r) => ~q.src.dry /\ DidTo(r, Len(q.src.body)))
    BY <2>1, <2>2 DEF ApplyProgress
  <2>4. ASSUME asks'[r].src = q.src PROVE (AnyStored(r)' <=> AnyStored(r)) /\ \A n : DidTo(r, n)' <=> DidTo(r, n)
    BY <2>1, <2>4 DEF AnyStored, DidTo, DidBlock
  <2>5. CASE q.i > Len(q.src.body) /\ Turns(r, "put", 1, q.todo, q.plug, q.src)
    <3>1. DidTo(r, Len(q.src.body))
      BY <1>a, <2>2, <2>3, <2>5 DEF DidTo
    <3>2. StoredTo(r, 0)'
      BY <2>2, <2>5 DEF StoredTo, Turns
    <3>3. ApplyProgress(r)'
      BY <2>3, <2>4, <2>5, <3>1, <3>2 DEF ApplyProgress, Installing, Turns
    <3> QED
      BY <1>0, <2>1, <2>5, <3>3, ProgressMoves DEF Turns
  <2>6. CASE b.kind = Core /\ Turns(r, "look", q.i + 1, q.todo, q.plug, q.src)
    <3>1. DidTo(r, q.i)
      BY <1>a, <2>2, <2>3, <2>6 DEF DidTo
    <3>2. ApplyProgress(r)'
      BY <1>a, <2>3, <2>4, <2>6, <3>1 DEF ApplyProgress, Installing, Turns
    <3> QED
      BY <1>0, <2>1, <2>6, <3>2, ProgressMoves DEF Turns
  <2>7. CASE TurnsTo(r, "fetch")
    BY <1>b, <2>1, <2>7
  <2>8. CASE Turns(r, "expand", q.i, q.todo, dirs[b.kind], q.src)
    BY <1>0, <2>1, <2>8, ProgressGoes DEF Turns
  <2> QED
    BY <1>0, <1>2, <2>5, <2>6, <2>7, <2>8, LookDoes
<1>3. ASSUME NEW r \in Requests, Fetch(r) PROVE Progress'
  BY <1>0, <1>3, <1>b, FetchDoes DEF Installing
<1>4. ASSUME NEW r \in Requests, ClearOld(r) PROVE Progress'
  BY <1>0, <1>4, <1>b, ClearDoes DEF Installing
<1>5. ASSUME NEW r \in Requests, MoveIn(r) PROVE Progress'
  BY <1>0, <1>5, MoveDoes, <1>b, ProgressGoes DEF Turns, Installing
<1>6. ASSUME NEW r \in Requests, RunHook(r) PROVE Progress'
  BY <1>0, <1>6, HookDoes, <1>b, ProgressMoves DEF Installing, TurnsTo, Turns
<1>7. ASSUME NEW r \in Requests, Uninstall(r) PROVE Progress'
  BY <1>0, <1>7, UninstallDoes, ProgressMoves DEF TurnsTo, Turns
<1>8. ASSUME NEW r \in Requests, Expand(r) PROVE Progress'
  <2> DEFINE q == asks[r]
  <2>1. q.pc = "expand" /\ q.src.op = "apply" /\ UNCHANGED kept
    BY <1>0, <1>8, ExpandDoes
  <2>2. CASE TurnsTo(r, "rejected") /\ UNCHANGED expanded
    BY <1>b, <2>1, <2>2
  <2>3. CASE /\ Turns(r, "act", q.i, q.src.acts, q.plug, q.src)
             /\ \E e : expanded' = expanded \cup {e} /\ e.r = r /\ e.i = q.i
    <3>1. ApplyProgress(r) /\ Len(q.src.acts) \in Nat
      BY <1>c, <2>1
    <3>2. DidTo(r, q.i - 1) /\ (AnyStored(r) => ~q.src.dry /\ DidTo(r, Len(q.src.body)))
      BY <2>1, <3>1 DEF ApplyProgress
    <3>3. AnyStored(r)' <=> AnyStored(r)
      BY <2>1, <2>3 DEF AnyStored, Turns
    <3>4. \A n : DidTo(r, n) => DidTo(r, n)'
      BY <2>1, <2>3 DEF DidBlock, Turns, DidTo
    <3>5. \E e \in expanded' : e.r = r /\ e.i = q.i
      BY <2>3
    <3>6. ApplyProgress(r)'
      BY <2>3, <3>1, <3>2, <3>3, <3>4, <3>5 DEF ApplyProgress, Turns, Installing
    <3> QED
      BY <1>0, <2>1, <2>3, <3>6, ProgressMoves DEF Turns
  <2> QED
    BY <1>0, <1>8, <2>2, <2>3, ExpandDoes
<1>9. ASSUME NEW r \in Requests, Act(r) PROVE Progress'
  <2> DEFINE q == asks[r]
  <2>1. q.pc = "act" /\ UNCHANGED expanded /\ Len(q.todo) \in Nat
    BY <1>0, <1>9, ActDoes
  <2>2. CASE TurnsTo(r, "rejected") /\ UNCHANGED kept
    BY <1>b, <2>1, <2>2
  <2>3. CASE q.src.op = "command" /\ TurnsTo(r, "ok") /\ UNCHANGED kept
    BY <1>0, <2>1, <2>3, ProgressMoves DEF TurnsTo, Turns
  <2>4. CASE q.todo = <<>> /\ q.src.op = "apply" /\ UNCHANGED kept /\ Turns(r, "look", q.i + 1, q.todo, q.plug, q.src)
    <3>1. ApplyProgress(r) /\ Len(q.src.acts) \in Nat /\ Len(q.src.body) \in Nat
      BY <1>c, <2>1, <2>4
    <3>2. DidTo(r, q.i - 1) /\ (AnyStored(r) => ~q.src.dry /\ DidTo(r, Len(q.src.body)))
      BY <2>1, <3>1 DEF ApplyProgress
    <3>3. DidBlock(r, q.i)
      BY <2>1, <2>4, <3>1 DEF ApplyProgress, DidBlock
    <3>4. DidTo(r, q.i)
      BY <1>a, <3>1, <3>2, <3>3 DEF DidTo
    <3>5. (AnyStored(r)' <=> AnyStored(r)) /\ \A n : DidTo(r, n)' <=> DidTo(r, n)
      BY <2>1, <2>4 DEF AnyStored, DidTo, DidBlock, Turns
    <3>6. ApplyProgress(r)'
      BY <1>a, <2>4, <3>2, <3>4, <3>5 DEF ApplyProgress, Turns, Installing
    <3> QED
      BY <1>0, <2>1, <2>4, <3>6, ProgressMoves DEF Turns
  <2>5. ASSUME NEW s \in Seq(PluginDeeds), Len(s) = Len(q.todo) - 1, Turns(r, "act", q.i, s, q.plug, q.src),
               kept' = kept \cup {<<r, q.i, Len(q.src.acts) - Len(q.todo) + 1>>}
        PROVE  Progress'
    <3>0. /\ kept \subseteq kept'
          /\ \A z \in Requests : z # r => \A i, k : <<z, i, k>> \in kept' => <<z, i, k>> \in kept
      BY <2>5, WritesOwn
    <3>1. ASSUME q.src.op = "apply" PROVE ApplyProgress(r)'
      <4>1. ApplyProgress(r) /\ Len(q.src.acts) \in Nat /\ Len(q.src.body) \in Nat /\ Len(q.todo) <= Len(q.src.acts)
        BY <1>0, <1>c, <2>1, <3>1 DEF Placed, PlacedAt
      <4>2. DidTo(r, q.i - 1) /\ (AnyStored(r) => ~q.src.dry /\ DidTo(r, Len(q.src.body)))
        BY <2>1, <4>1 DEF ApplyProgress
      <4>3. AnyStored(r)' <=> AnyStored(r)
        BY <2>1, <2>5, <4>1 DEF AnyStored, Turns
      <4>4. \A n : DidTo(r, n) => DidTo(r, n)'
        BY <2>1, <2>5, <3>0 DEF DidTo, DidBlock, Turns
      <4>5. /\ \E e \in expanded : e.r = r /\ e.i = q.i
            /\ \A k \in 1..(Len(q.src.acts) - Len(q.todo)) : <<r, q.i, k>> \in kept
        BY <2>1, <4>1 DEF ApplyProgress
      <4>6. \A k \in 1..(Len(q.src.acts) - Len(s)) : <<r, q.i, k>> \in kept'
        <5>1. ASSUME NEW k \in 1..(Len(q.src.acts) - Len(s)) PROVE <<r, q.i, k>> \in kept'
          <6>1. k \in 1..(Len(q.src.acts) - Len(q.todo)) \/ k = Len(q.src.acts) - Len(q.todo) + 1
            <7>1. PICK c \in Nat : c = Len(s)
              BY <2>5
            <7>2. PICK t \in Nat : t = Len(q.todo)
              BY <2>1
            <7>3. PICK A \in Nat : A = Len(q.src.acts)
              BY <4>1
            <7>4. c = t - 1
              BY <2>5, <7>1, <7>2
            <7>5. k \in 1..(A - c)
              BY <5>1, <7>1, <7>3
            <7>6. k \in 1..(A - t) \/ k = A - t + 1
              BY <7>4, <7>5
            <7> QED
              BY <7>2, <7>3, <7>6
          <6> QED
            BY <2>5, <3>0, <4>5, <6>1
        <5> QED
          BY <5>1
      <4> QED
        BY <2>1, <2>5, <4>2, <4>3, <4>4, <4>5, <4>6 DEF ApplyProgress, Turns, Installing
    <3> QED
      BY <1>0, <2>1, <2>5, <3>0, <3>1, ProgressMoves DEF Turns
  <2> QED
    BY <1>0, <1>9, <2>2, <2>3, <2>4, <2>5, ActDoes
<1>10. ASSUME NEW r \in Requests, PutNext(r) PROVE Progress'
  <2> DEFINE q == asks[r]
  <2>1. q.pc = "put" /\ q.src.op = "apply" /\ UNCHANGED expanded
    BY <1>0, <1>10, PutDoes
  <2>2. ApplyProgress(r) /\ Len(q.src.body) \in Nat
    BY <1>c, <2>1
  <2>3. /\ DidTo(r, Len(q.src.body)) /\ (AnyStored(r) => ~q.src.dry)
        /\ ~q.src.dry => StoredTo(r, q.i - 1)
    BY <2>1, <2>2 DEF ApplyProgress
  <2>4. CASE TurnsTo(r, "rejected") /\ UNCHANGED kept
    BY <1>b, <2>1, <2>4
  <2>5. CASE q.i > Len(q.src.body) /\ TurnsTo(r, "ok") /\ UNCHANGED kept
    <3>1. (AnyStored(r)' <=> AnyStored(r)) /\ \A n : DidTo(r, n)' <=> DidTo(r, n)
      BY <2>1, <2>5 DEF AnyStored, DidTo, DidBlock, TurnsTo, Turns
    <3>2. ~q.src.dry => StoredTo(r, Len(q.src.body))'
      BY <1>a, <2>2, <2>3, <2>5 DEF StoredTo, TurnsTo, Turns
    <3>3. ApplyProgress(r)'
      BY <2>3, <2>5, <3>1, <3>2 DEF ApplyProgress, TurnsTo, Turns, Installing
    <3> QED
      BY <1>0, <2>1, <2>5, <3>3, ProgressMoves DEF TurnsTo, Turns
  <2>6. CASE /\ Turns(r, "put", q.i + 1, q.todo, q.plug, q.src)
             /\ kept' = IF q.src.dry THEN kept ELSE kept \cup {<<r, q.i, 0>>}
    <3>0. /\ kept \subseteq kept'
          /\ \A z \in Requests : z # r => \A i, k : <<z, i, k>> \in kept' => <<z, i, k>> \in kept
      BY <2>6, WritesOwn
    <3>1. \A n : DidTo(r, n) => DidTo(r, n)'
      BY <2>1, <2>6, <3>0 DEF DidTo, DidBlock, Turns
    <3>2. AnyStored(r)' => ~q.src.dry
      BY <2>3, <2>6 DEF AnyStored, Turns
    <3>3. ASSUME ~q.src.dry, NEW i \in 1..Len(q.src.body), i <= q.i PROVE <<r, i, 0>> \in kept'
      BY <2>6, <3>3, <1>a, <2>2, <2>3 DEF StoredTo
    <3>4. ApplyProgress(r)'
      BY <1>a, <2>6, <2>3, <3>1, <3>3, <3>2 DEF Turns, StoredTo, ApplyProgress, Installing
    <3> QED
      BY <1>0, <2>1, <2>6, <3>0, <3>4, ProgressMoves DEF Turns
  <2> QED
    BY <1>0, <1>10, <2>4, <2>5, <2>6, PutDoes
<1>11. CASE Upstream \/ Expire \/ UNCHANGED pluginsVars
  BY <1>11, <1>0, ProgressStays DEF Upstream, Expire, pluginsVars, Progress
<1>12. CASE StopAsks
  BY <1>0, <1>12, StopDoes, ProgressStays DEF Progress
<1> QED
  BY <1>1, <1>2, <1>3, <1>4, <1>5, <1>6, <1>7, <1>8, <1>9, <1>10, <1>11, <1>12 DEF PluginsNext
-----------------------------------------------------------------------------
\* An uninstall that was answered stays answered.
LEMMA ForgottenStays ==
  ASSUME PluginsIInv, [PluginsNext]_pluginsVars, NEW x, Forgotten(x)
  PROVE  Forgotten(x)'
<1>1. PluginsType /\ Placed /\ OneTree
  BY DEF PluginsIInv
<1>2. PICK u \in Requests : asks[u].pc = "ok" /\ asks[u].src.op = "remove" /\ asks[u].src.name = Repos[x].guess
  BY DEF Forgotten
<1>3. asks'[u] = asks[u]
  <2>1. ASSUME NEW r \in Requests, NEW a \in PluginAsks[r], StartAsk(r, a) PROVE asks'[u] = asks[u]
    BY <1>1, <1>2, <2>1, StartAskDoes DEF Turns
  <2>2. ASSUME NEW r \in Requests, Look(r) PROVE asks'[u] = asks[u]
    BY <1>1, <1>2, <2>2, LookDoes DEF Turns, TurnsTo
  <2>3. ASSUME NEW r \in Requests, Fetch(r) PROVE asks'[u] = asks[u]
    BY <1>1, <1>2, <2>3, FetchDoes DEF Turns, TurnsTo
  <2>4. ASSUME NEW r \in Requests, ClearOld(r) PROVE asks'[u] = asks[u]
    BY <1>1, <1>2, <2>4, ClearDoes DEF Turns, TurnsTo
  <2>5. ASSUME NEW r \in Requests, MoveIn(r) PROVE asks'[u] = asks[u]
    BY <1>1, <1>2, <2>5, MoveDoes DEF Turns, TurnsTo
  <2>6. ASSUME NEW r \in Requests, RunHook(r) PROVE asks'[u] = asks[u]
    BY <1>1, <1>2, <2>6, HookDoes DEF Turns, TurnsTo
  <2>7. ASSUME NEW r \in Requests, Uninstall(r) PROVE asks'[u] = asks[u]
    BY <1>1, <1>2, <2>7, UninstallDoes DEF Turns, TurnsTo
  <2>8. ASSUME NEW r \in Requests, Expand(r) PROVE asks'[u] = asks[u]
    BY <1>1, <1>2, <2>8, ExpandDoes DEF Turns, TurnsTo
  <2>9. ASSUME NEW r \in Requests, Act(r) PROVE asks'[u] = asks[u]
    BY <1>1, <1>2, <2>9, ActDoes DEF Turns, TurnsTo
  <2>10. ASSUME NEW r \in Requests, PutNext(r) PROVE asks'[u] = asks[u]
    BY <1>1, <1>2, <2>10, PutDoes DEF Turns, TurnsTo
  <2>11. CASE Upstream \/ Expire \/ UNCHANGED pluginsVars
    BY <2>11 DEF Upstream, Expire, pluginsVars
  <2>12. CASE StopAsks
    BY <1>1, <1>2, <2>12, StopDoes
  <2> QED
    BY <2>1, <2>2, <2>3, <2>4, <2>5, <2>6, <2>7, <2>8, <2>9, <2>10, <2>11, <2>12 DEF PluginsNext
<1> QED
  BY <1>2, <1>3 DEF Forgotten

\* An install of the background that has not ended.
Waits(r) == asks[r].pc \in Installing /\ asks[r].src.op = "install"


LEMMA WaitsLemma ==
  ASSUME PluginsType, Placed, NEW r \in Requests
  PROVE  Waits(r) <=> ~Ended(r) /\ asks[r].src.op = "install"
BY DEF PluginsType, AskRecords, Placed, PlacedAt, Waits, Ended, AskStages, Installing

LEMMA WaitsNext ==
  ASSUME PluginsType', Placed'
  PROVE  \A r \in Requests : ~Ended(r)' /\ asks'[r].src.op = "install" => Waits(r)'
<1>1. ASSUME NEW r \in Requests PROVE (Waits(r) <=> ~Ended(r) /\ asks[r].src.op = "install")'
  BY WaitsLemma, PTL
<1> QED
  BY <1>1

\* Installs of the background that go on, and the list of them that stays.
LEMMA ListStays ==
  ASSUME PluginsIInv, PluginsType', Placed', \A x : Forgotten(x) => Forgotten(x)',
         \A r \in Requests : Waits(r)' =>
           /\ Waits(r) /\ asks'[r].src = asks[r].src
           /\ jobs[asks[r].src.repo] = "installing" =>
                jobs'[asks[r].src.repo] = "installing" \/ Forgotten(asks[r].src.repo)'
  PROVE  JobsListed' /\ OneInstall'
<1>1. JobsListed'
  BY DEF PluginsIInv, JobsListed, Waits
<1>2. ASSUME NEW r \in Requests, NEW q \in Requests, Waits(r)', Waits(q)', r # q,
             asks'[r].src.repo = asks'[q].src.repo
      PROVE  Forgotten(asks[r].src.repo)'
  BY <1>2, WaitsLemma DEF PluginsIInv, OneInstall, Forgotten
<1>3. \A r \in Requests : ~Ended(r)' /\ asks'[r].src.op = "install" => Waits(r)'
  BY WaitsNext
<1> QED
  BY <1>1, <1>2, <1>3 DEF OneInstall, Forgotten

LEMMA ListStep == PluginsIInv /\ [PluginsNext]_pluginsVars => JobsListed' /\ OneInstall'
<1> SUFFICES ASSUME PluginsIInv, [PluginsNext]_pluginsVars PROVE JobsListed' /\ OneInstall'
  OBVIOUS
<1>0. PluginsType /\ Placed /\ OneTree /\ JobsListed /\ OneInstall
  BY DEF PluginsIInv
<1>a. PluginsType' /\ Placed' /\ \A x : Forgotten(x) => Forgotten(x)'
  BY PluginsTypeStep, PlacedStep, ForgottenStays
<1>b. \A r \in Requests : asks[r].pc # "idle" => asks[r].src \in PluginAsks[r]
  BY <1>0 DEF Placed, PlacedAt
<1>c. \A r \in Requests : Waits(r) => asks[r].src.repo \in DOMAIN Repos
  BY <1>b, AskTyped DEF Waits, Installing
\* A step of one request that leaves the list, or does not start an install.
<1>d. ASSUME NEW r \in Requests, UNCHANGED jobs, \A s \in Requests : s # r => asks'[s] = asks[s],
             Waits(r)' => Waits(r) /\ asks'[r].src = asks[r].src
      PROVE  JobsListed' /\ OneInstall'
  BY <1>d, <1>a, ListStays DEF Waits
\* An install of the background ends: another one of its source runs only when
\* the first was forgotten.
<1>e. ASSUME NEW r \in Requests, Waits(r), ~Waits(r)', \A s \in Requests : s # r => asks'[s] = asks[s],
             \A x \in DOMAIN Repos : x # asks[r].src.repo => jobs'[x] = jobs[x]
      PROVE  JobsListed' /\ OneInstall'
  <2>1. ASSUME NEW s \in Requests, Waits(s)'
        PROVE  /\ Waits(s) /\ asks'[s].src = asks[s].src
               /\ jobs[asks[s].src.repo] = "installing" =>
                    jobs'[asks[s].src.repo] = "installing" \/ Forgotten(asks[s].src.repo)'
    <3>1. s # r /\ asks'[s] = asks[s] /\ Waits(s)
      BY <1>e, <2>1 DEF Waits
    <3>2. CASE asks[s].src.repo # asks[r].src.repo
      BY <1>c, <1>e, <3>1, <3>2
    <3>3. CASE asks[s].src.repo = asks[r].src.repo
      BY <1>0, <1>e, <3>1, WaitsLemma, <3>3, <1>a DEF OneInstall, Forgotten
    <3> QED
      BY <3>2, <3>3
  <2> QED
    BY <1>a, <2>1, ListStays
\* A request is rejected, and an install of the background is listed as failed.
<1>f. ASSUME NEW r \in Requests, TurnsTo(r, "rejected"), JobFailed(r), asks[r].pc \in Installing
      PROVE  JobsListed' /\ OneInstall'
  BY <1>f, <1>0, <1>e, <1>d DEF TurnsTo, Turns, Waits, Installing, JobFailed, PluginsType
<1>1. ASSUME NEW r \in Requests, NEW a \in PluginAsks[r], StartAsk(r, a) PROVE JobsListed' /\ OneInstall'
  <2>1. asks[r].pc = "idle" /\ \A s \in Requests : s # r => asks'[s] = asks[s]
    BY <1>0, <1>1, StartAskDoes DEF Turns
  <2>2. CASE UNCHANGED jobs /\ ~Waits(r)'
    BY <1>d, <2>1, <2>2
  <2>3. CASE /\ a.op = "install" /\ jobs[a.repo] # "installing" /\ Turns(r, "fetch", 1, a.acts, NoPlugin, a)
             /\ jobs' = [jobs EXCEPT ![a.repo] = "installing"]
    <3>1. a.repo \in DOMAIN Repos
      BY AskTyped
    <3>2. asks'[r].src = a
      BY <2>3 DEF Turns
    <3>3. jobs'[a.repo] = "installing" /\ \A x \in DOMAIN Repos : jobs[x] = "installing" => jobs'[x] = "installing"
      BY <1>0, <2>3, <3>1 DEF PluginsType
    <3>4. ASSUME NEW s \in Requests, s # r, Waits(s)'
          PROVE  /\ Waits(s) /\ asks'[s].src = asks[s].src
                 /\ jobs'[asks'[s].src.repo] = "installing" \/ Forgotten(asks[s].src.repo)'
                 /\ asks[s].src.repo = a.repo => Forgotten(asks[s].src.repo)'
      BY <2>1, <3>4, <1>0, <1>a, <1>c, <3>3, <2>3 DEF Waits, JobsListed
    <3>5. JobsListed'
      <4>1. ASSUME NEW s \in Requests, Waits(s)'
            PROVE  jobs'[asks'[s].src.repo] = "installing" \/ Forgotten(asks[s].src.repo)'
        BY <3>2, <3>3, <3>4, <4>1
      <4> QED
        BY <4>1 DEF JobsListed, Waits
    <3>6. ASSUME NEW s \in Requests, NEW u \in Requests, s # u, Waits(s)', Waits(u)',
                 asks'[s].src.repo = asks'[u].src.repo
          PROVE  Forgotten(asks[s].src.repo)'
      <4>1. CASE s = r
        BY <3>2, <3>4, <3>6, <4>1
      <4>2. CASE u = r
        BY <3>2, <3>4, <3>6, <4>2
      <4>3. CASE s # r /\ u # r
        BY <3>4, <3>6, <4>3, <1>0, WaitsLemma, <1>a DEF OneInstall, Forgotten
      <4> QED
        BY <4>1, <4>2, <4>3
    <3>7. \A s \in Requests : ~Ended(s)' /\ asks'[s].src.op = "install" => Waits(s)'
      BY <1>a, WaitsNext
    <3>8. OneInstall'
      BY <3>6, <3>7 DEF OneInstall, Forgotten
    <3> QED
      BY <3>5, <3>8
  <2> QED
    BY <1>0, <1>1, <2>2, <2>3, StartAskDoes DEF Turns, Waits, Installing
<1>2. ASSUME NEW r \in Requests, Look(r) PROVE JobsListed' /\ OneInstall'
  BY <1>0, <1>2, LookDoes, <1>d DEF Turns, TurnsTo, Placed, PlacedAt, Waits
<1>3. ASSUME NEW r \in Requests, Fetch(r) PROVE JobsListed' /\ OneInstall'
  BY <1>0, <1>3, <1>d, FetchDoes, <1>f DEF Turns, TurnsTo, Waits, Installing
<1>4. ASSUME NEW r \in Requests, ClearOld(r) PROVE JobsListed' /\ OneInstall'
  BY <1>0, <1>4, <1>d, ClearDoes DEF Turns, TurnsTo, Waits, Installing
<1>5. ASSUME NEW r \in Requests, MoveIn(r) PROVE JobsListed' /\ OneInstall'
  BY <1>0, <1>5, MoveDoes, <1>d, <1>f DEF Turns, Waits, Installing
<1>6. ASSUME NEW r \in Requests, RunHook(r) PROVE JobsListed' /\ OneInstall'
  <2>1. asks[r].pc = "hook"
    BY <1>0, <1>6, HookDoes
  <2>2. CASE /\ asks[r].src.op = "install" /\ TurnsTo(r, "ok")
             /\ jobs' = [jobs EXCEPT ![asks[r].src.repo] = "none"]
    BY <2>1, <2>2, <1>0, <1>e DEF Waits, Installing, TurnsTo, Turns, PluginsType
  <2>3. CASE asks[r].src.op = "apply" /\ (TurnsTo(r, "expand") \/ TurnsTo(r, "rejected")) /\ UNCHANGED jobs
    BY <1>d, <2>3 DEF TurnsTo, Turns, Waits, Installing
  <2> QED
    BY <1>0, <1>6, <1>f, <2>2, <2>3, HookDoes DEF Installing
<1>7. ASSUME NEW r \in Requests, Uninstall(r) PROVE JobsListed' /\ OneInstall'
  <2>1. /\ asks[r].src.op = "remove" /\ TurnsTo(r, "ok")
        /\ jobs' = [x \in DOMAIN Repos |-> IF Repos[x].guess = asks[r].src.name THEN "none" ELSE jobs[x]]
    BY <1>0, <1>7, UninstallDoes
  <2>2. ~Waits(r)'
    BY <2>1 DEF TurnsTo, Turns, Waits, Installing
  <2>3. \A x : Repos[x].guess = asks[r].src.name => Forgotten(x)'
    BY <2>1 DEF TurnsTo, Turns, Forgotten
  <2>4. ASSUME NEW s \in Requests, Waits(s)'
        PROVE  /\ Waits(s) /\ asks'[s].src = asks[s].src
               /\ jobs[asks[s].src.repo] = "installing" =>
                    jobs'[asks[s].src.repo] = "installing" \/ Forgotten(asks[s].src.repo)'
    BY <2>1, <2>2, <2>4, <1>c, <2>3 DEF TurnsTo, Turns, Waits
  <2> QED
    BY <1>a, <2>4, ListStays
<1>8. ASSUME NEW r \in Requests, Expand(r) PROVE JobsListed' /\ OneInstall'
  BY <1>0, <1>8, <1>d, ExpandDoes DEF Turns, TurnsTo, Waits, Installing
<1>9. ASSUME NEW r \in Requests, Act(r) PROVE JobsListed' /\ OneInstall'
  BY <1>0, <1>9, <1>d, ActDoes DEF Turns, TurnsTo, Waits, Installing
<1>10. ASSUME NEW r \in Requests, PutNext(r) PROVE JobsListed' /\ OneInstall'
  BY <1>0, <1>10, <1>d, PutDoes DEF Turns, TurnsTo, Waits, Installing
<1>11. CASE Upstream \/ UNCHANGED pluginsVars
  BY <1>11, <1>a, ListStays DEF Upstream, pluginsVars, Waits
<1>12. CASE Expire
  BY <1>0, <1>12, <1>a, <1>c, ListStays DEF Expire, PluginsType, Waits
<1>13. CASE StopAsks
  BY <1>0, <1>13, StopDoes, <1>a, ListStays DEF Waits, Installing
<1> QED
  BY <1>1, <1>2, <1>3, <1>4, <1>5, <1>6, <1>7, <1>8, <1>9, <1>10, <1>11, <1>12, <1>13 DEF PluginsNext

\* A step of one request that clears no path and takes no scratch directory away.
LEMMA WayStays ==
  ASSUME OutOfTheWay, tmp \subseteq tmp', gone \subseteq gone',
         tmp \subseteq Scratch,
         \A k \in Kinds : dirs'[k] = NoPlugin => dirs[k] = NoPlugin \/ k \in gone',
         \A r \in Requests : asks[r].pc = "move" => asks'[r].pc = "move"
  PROVE  OutOfTheWay'
BY DEF OutOfTheWay, Scratch

LEMMA WayStep == PluginsIInv /\ [PluginsNext]_pluginsVars => OutOfTheWay'
<1> SUFFICES ASSUME PluginsIInv, [PluginsNext]_pluginsVars PROVE OutOfTheWay'
  OBVIOUS
<1>0. PluginsType /\ Placed /\ OneTree /\ OutOfTheWay /\ tmp \subseteq Scratch
  BY DEF PluginsIInv, PluginsType
<1>1. ASSUME NEW r \in Requests, NEW a \in PluginAsks[r], StartAsk(r, a) PROVE OutOfTheWay'
  BY <1>0, <1>1, StartAskDoes, WayStays DEF Turns
<1>2. ASSUME NEW r \in Requests, Look(r) PROVE OutOfTheWay'
  BY <1>0, <1>2, LookDoes, WayStays DEF Turns, TurnsTo
<1>3. ASSUME NEW r \in Requests, Fetch(r) PROVE OutOfTheWay'
  BY <1>0, <1>3, FetchDoes, WayStays DEF Turns, TurnsTo
<1>4. ASSUME NEW r \in Requests, ClearOld(r) PROVE OutOfTheWay'
  <2>1. asks[r].pc = "clear" /\ TurnsTo(r, "move") /\ UNCHANGED <<tmp, gone>>
    BY <1>0, <1>4, ClearDoes
  <2>2. PICK t \in tmp : t.by = r /\ t.name \in Kinds /\ dirs' = [dirs EXCEPT ![t.name] = NoPlugin]
    BY <1>0, <1>4, ClearDoes
  <2>3. ASSUME NEW k \in Kinds, dirs'[k] = NoPlugin, k \notin gone'
        PROVE  \E u \in tmp' : asks'[u.by].pc = "move" /\ u.name = k
    <3>1. CASE k = t.name
      BY <2>1, <2>2, <3>1 DEF TurnsTo, Turns
    <3>2. CASE k # t.name
      BY <1>0, <2>1, <2>2, <2>3, <3>2 DEF OutOfTheWay, PluginsType, TurnsTo, Turns, Scratch
    <3> QED
      BY <3>1, <3>2
  <2> QED
    BY <2>3 DEF OutOfTheWay
<1>5. ASSUME NEW r \in Requests, MoveIn(r) PROVE OutOfTheWay'
  <2>1. asks[r].pc = "move" /\ \A s \in Requests : s # r => asks'[s] = asks[s]
    BY <1>0, <1>5, MoveDoes DEF TurnsTo, Turns
  <2>2. PICK t \in tmp :
          /\ t.by = r /\ t.name \in Kinds /\ tmp' = tmp \ {t}
          /\ \/ \E p \in PluginTypes : /\ dirs' = [dirs EXCEPT ![t.name] = p] /\ p # NoPlugin
                                       /\ gone' = gone \ {t.name}
             \/ dirs[t.name] # NoPlugin /\ UNCHANGED <<dirs, gone>>
    BY <1>0, <1>5, MoveDoes
  <2>3. ASSUME NEW k \in Kinds, dirs'[k] = NoPlugin, k \notin gone'
        PROVE  \E u \in tmp' : asks'[u.by].pc = "move" /\ u.name = k
    BY <1>0, <2>2, <2>3, <2>1 DEF PluginsType, OutOfTheWay, OneTree, Scratch
  <2> QED
    BY <2>3 DEF OutOfTheWay
<1>6. ASSUME NEW r \in Requests, RunHook(r) PROVE OutOfTheWay'
  BY <1>0, <1>6, HookDoes, NoPluginType, WayStays DEF PluginsType, Turns, TurnsTo
<1>7. ASSUME NEW r \in Requests, Uninstall(r) PROVE OutOfTheWay'
  BY <1>0, <1>7, UninstallDoes, WayStays DEF PluginsType, Turns, TurnsTo
<1>8. ASSUME NEW r \in Requests, Expand(r) PROVE OutOfTheWay'
  BY <1>0, <1>8, ExpandDoes, WayStays DEF Turns, TurnsTo
<1>9. ASSUME NEW r \in Requests, Act(r) PROVE OutOfTheWay'
  BY <1>0, <1>9, ActDoes, WayStays DEF Turns, TurnsTo
<1>10. ASSUME NEW r \in Requests, PutNext(r) PROVE OutOfTheWay'
  BY <1>0, <1>10, PutDoes, WayStays DEF Turns, TurnsTo
<1>11. CASE Upstream \/ Expire \/ UNCHANGED pluginsVars
  BY <1>11, <1>0 DEF Upstream, Expire, pluginsVars, OutOfTheWay
<1>12. CASE StopAsks
  <2>1. ASSUME NEW t \in tmp, asks[t.by].pc = "move" PROVE t.name \in gone'
    BY <1>0, TreeOf, <1>12, <2>1, StopDoes DEF Scratch
  <2>2. UNCHANGED dirs /\ gone \subseteq gone'
    BY <1>0, <1>12, StopDoes
  <2> QED
    BY <1>0, <2>1, <2>2 DEF OutOfTheWay
<1> QED
  BY <1>1, <1>2, <1>3, <1>4, <1>5, <1>6, <1>7, <1>8, <1>9, <1>10, <1>11, <1>12 DEF PluginsNext

LEMMA PinnedStep == PluginsIInv /\ [PluginsNext]_pluginsVars => Pinned'
<1> SUFFICES ASSUME PluginsIInv, [PluginsNext]_pluginsVars PROVE Pinned'
  OBVIOUS
<1>0. PluginsType /\ Placed /\ OneTree /\ Pinned
  BY DEF PluginsIInv
<1>1. ASSUME NEW r \in Requests, Expand(r) PROVE Pinned'
  <2>1. CASE UNCHANGED expanded
    BY <1>0, <2>1 DEF Pinned
  <2>2. ASSUME NEW k \in Kinds, NEW e, dirs[k] # NoPlugin, expanded' = expanded \cup {e}, e.v = dirs[k].v,
               e.pin = asks[r].src.body[asks[r].i].pin, e.same <=> dirs[k].by = asks[r].plug.by
        PROVE  Pinned'
    <3>1. /\ asks[r].plug # NoPlugin
          /\ asks[r].src.body[asks[r].i].pin \in {NoPin, Latest, asks[r].plug.v}
      BY <1>0, <1>1, ExpandDoes DEF Placed, PlacedAt
    <3>2. dirs[k] \in InUse /\ asks[r].plug \in InUse
      BY <2>2, <3>1, InUseLemma
    <3>3. e.same => dirs[k].v = asks[r].plug.v
      BY <2>2, <3>2 DEF PluginsIInv, OneVersion
    <3>4. e.same => e.pin \in {NoPin, Latest, e.v}
      BY <2>2, <3>1, <3>3
    <3> QED
      BY <1>0, <2>2, <3>4 DEF Pinned
  <2> QED
    BY <1>0, <1>1, <2>1, <2>2, ExpandDoes
<1>2. CASE UNCHANGED expanded
  BY <1>0, <1>2 DEF Pinned
<1> QED
  BY <1>1, <1>2 DEF PluginsNext, pluginsVars, StartAsk, Look, Fetch, ClearOld, MoveIn, RunHook, Uninstall,
     Act, PutNext, Upstream, Expire, StopAsks

LEMMA PluginsInitially == PluginsInit => PluginsIInv
<1> SUFFICES ASSUME PluginsInit PROVE PluginsIInv
  OBVIOUS
<1>1. \A r \in Requests : asks[r] = Unasked
  BY DEF PluginsInit
<1>2. /\ tmp = {} /\ kept = {} /\ expanded = {} /\ gone = Kinds \ Shipped
      /\ Unasked.pc = "idle" /\ Unasked.i = 1 /\ Unasked.plug = NoPlugin /\ Unasked.src = NoBlock
  BY DEF PluginsInit, Unasked
<1>3. \A k \in Kinds : \/ dirs[k] = NoPlugin /\ k \notin Shipped
                       \/ dirs[k] \in PluginTypes /\ dirs[k].v = 1 /\ dirs[k].by = <<>> /\ k \in Shipped
  BY DEF PluginsInit, PluginTypes, PluginIds
<1>4. PluginsType
  BY PluginsAssumption, <1>3, <1>2 DEF Unasked, AskRecords, AskStages, AskSources, PluginsInit, PluginsType
<1>5. Placed
  BY <1>1, <1>2 DEF Placed, PlacedAt, Installing
<1>6. OneTree
  BY <1>1, <1>2 DEF OneTree
<1>7. \A p \in InUse : p.v = 1 /\ p.by = <<>>
  BY <1>1, <1>2, <1>3 DEF InUse
<1>8. OneVersion /\ Named
  <2>1. OneVersion
    BY <1>7 DEF OneVersion
  <2>2. \A r, n : <<>> # <<r, n>>
    OBVIOUS
  <2>3. ASSUME NEW p \in InUse PROVE Earlier(p.by)
    BY <1>7, <2>2, <2>3 DEF Earlier
  <2> QED
    BY <2>1, <2>3 DEF Named
<1>9. Progress /\ JobsListed /\ Pinned /\ OneInstall
  BY <1>1, <1>2 DEF Progress, JobsListed, Pinned, OneInstall, Installing, Ended
<1>10. OutOfTheWay
  BY <1>2, <1>3, NoPluginType DEF OutOfTheWay
<1> QED
  BY <1>4, <1>5, <1>6, <1>8, <1>9, <1>10 DEF PluginsIInv

LEMMA PluginsStep == PluginsIInv /\ [PluginsNext]_pluginsVars => PluginsIInv'
BY PluginsTypeStep, PlacedStep, OneTreeStep, VersionsStep, ProgressStep, ListStep, WayStep, PinnedStep DEF PluginsIInv

LEMMA PluginsEnough == PluginsIInv => PluginsTrue
<1> SUFFICES ASSUME PluginsIInv PROVE PluginsTrue
  OBVIOUS
<1>0. PluginsType /\ Placed /\ OneTree /\ Progress /\ OutOfTheWay /\ tmp \subseteq Scratch
  BY DEF PluginsIInv, PluginsType
<1>1. NotLost
  <2>1. ASSUME NEW k \in Kinds, dirs[k] = NoPlugin, k \notin gone
        PROVE  \E r \in Requests : At(r, "move") /\ Tree(r).name = k
    BY <1>0, <2>1, TreeOf DEF OutOfTheWay, Scratch, At
  <2> QED
    BY <2>1 DEF NotLost
<1>2. ActionsFirst
  <2>1. ASSUME NEW r \in Requests, asks[r].src # NoBlock, asks[r].src.op = "apply"
        PROVE  LET q == asks[r]
                   Mine == {i \in 1..Len(q.src.body) : <<r, i, 0>> \in kept}
                   Macros == {i \in 1..Len(q.src.body) : q.src.body[i].kind # Core} IN
               /\ Mine # {} => /\ ~q.src.dry
                               /\ \A i \in Macros : /\ \E e \in expanded : e.r = r /\ e.i = i
                                                    /\ \A k \in 1..Len(q.src.acts) : <<r, i, k>> \in kept
               /\ q.pc = "ok" /\ ~q.src.dry => Mine = 1..Len(q.src.body)
    <3>1. asks[r].pc # "idle" /\ asks[r].src \in PluginAsks[r]
      BY <1>0, <2>1 DEF Placed, PlacedAt
    <3>2. ApplyProgress(r) /\ Len(asks[r].src.body) \in Nat
      BY <1>0, <2>1, <3>1, AskTyped DEF Progress
    <3>3. AnyStored(r) => /\ ~asks[r].src.dry
                          /\ \A i \in 1..Len(asks[r].src.body) : asks[r].src.body[i].kind # Core => DidBlock(r, i)
      BY <3>2 DEF ApplyProgress, DidTo
    <3>4. asks[r].pc = "ok" /\ ~asks[r].src.dry => \A i \in 1..Len(asks[r].src.body) : <<r, i, 0>> \in kept
      BY <3>2 DEF ApplyProgress, StoredTo
    <3> QED
      BY <3>3, <3>4 DEF AnyStored, DidBlock
  <2> QED
    BY <2>1 DEF ActionsFirst
<1> QED
  BY <1>1, <1>2 DEF PluginsIInv, PluginsTrue

\* Plugins on disk, scratch directories, listed installs and requests keep
\* their types (plugins.Install, pluginJobs, expandPluginBlocks).
THEOREM PluginsTypeCorrect == PluginsSpec => []PluginsType
<1>1. PluginsInit => PluginsIInv
  BY PluginsInitially
<1>2. PluginsIInv /\ [PluginsNext]_pluginsVars => PluginsIInv'
  BY PluginsStep
<1>3. PluginsIInv => PluginsType
  BY DEF PluginsIInv
<1> QED
  BY <1>1, <1>2, <1>3, PTL DEF PluginsSpec

\* Whatever is installed, uninstalled and asked for at once: a block that pins a
\* version is expanded by it unless another install came between, nothing of an
\* apply is stored before what its plugins asked for is done, a plugin is missing
\* only while an install replaces it or after an uninstall or a crash, and two
\* installs of one source run only after an uninstall made the list forget one
\* (expandPluginBlocks, Install, applyPost, pluginJobs).
THEOREM PluginsCorrect == PluginsSpec => []PluginsTrue
<1>1. PluginsInit => PluginsIInv
  BY PluginsInitially
<1>2. PluginsIInv /\ [PluginsNext]_pluginsVars => PluginsIInv'
  BY PluginsStep
<1>3. PluginsIInv => PluginsTrue
  BY PluginsEnough
<1> QED
  BY <1>1, <1>2, <1>3, PTL DEF PluginsSpec

-----------------------------------------------------------------------------
(* Mesh. The argument: a reading of docker, a question that has been answered *)
(* by some hosts, and an answer that is kept each tell, of the pods they are  *)
(* about, which run; not of those that have moved since, so each of them has  *)
(* an age beyond which what has not moved is told right (Tells). The age      *)
(* grows with the time, and what is made of another starts with its age: an   *)
(* answer that is given is at most a refresh, a question and a lifetime old.  *)

HomePods(h) == {p \in MeshPods : Home[p] = h}
Readings == [pods : SUBSET MeshPods, age : 0 .. IndexRefresh]
KeptAnswers == [addrs : SUBSET MeshPods, left : Nat]
Asked == [at : Askers, wait : SUBSET Hosts, got : SUBSET MeshPods, age : 0 .. PeerTimeout]

\* Every variable has its type; a question is with the other hosts.
MeshType ==
  /\ running \in SUBSET MeshPods
  /\ index \in [Hosts -> Readings] /\ answers \in [Hosts -> KeptAnswers]
  /\ question \in [Questions -> Asked \cup {NoQuestion}]
  /\ lost \in 0 .. Reach + 1 /\ moved \in [MeshPods -> 0 .. Reach + 1]
  /\ moves \in Nat /\ losses \in Nat

\* Of the pods that have not moved for longer than n, s has those that run.
Tells(s, pods, n) == \A p \in pods : moved[p] > n => (p \in s <=> p \in running)

\* A reading of docker is of the host's own pods, as they were when it was taken.
IndexTrue ==
  \A h \in Hosts :
    /\ index[h].pods \subseteq HomePods(h)
    /\ Fresh(h) => Tells(index[h].pods, HomePods(h), index[h].age)

\* Who asked had no pod of its own then; who has answered said what it had.
QuestionTrue ==
  \A q \in Questions :
    LET x == question[q] IN
    x # NoQuestion =>
      /\ x.at \notin x.wait /\ \A p \in x.got : Home[p] # x.at /\ Home[p] \notin x.wait
      /\ lost > x.age => Tells(x.got, {p \in MeshPods : Home[p] \notin x.wait}, IndexRefresh + x.age)

\* For how long an answer has been kept.
KeptFor(a) == (IF a.addrs = {} THEN NegativeTTL ELSE AnswerTTL) - a.left
AnswersTrue ==
  \A h \in Hosts :
    LET a == answers[h] n == KeptFor(a) IN
    a.left > 0 =>
      /\ n \in Nat /\ \A p \in a.addrs : Home[p] # h
      /\ lost > PeerTimeout + n =>
           Tells(a.addrs, {p \in MeshPods : Home[p] # h}, IndexRefresh + PeerTimeout + n)

MeshIInv == MeshType /\ IndexTrue /\ QuestionTrue /\ AnswersTrue /\ NamesFollow

LEMMA ReachLemma ==
  /\ Reach \in Nat /\ IndexRefresh \in Nat /\ AnswerTTL \in Nat /\ NegativeTTL \in Nat /\ PeerTimeout \in Nat
  /\ NegativeTTL <= AnswerTTL /\ Reach = IndexRefresh + PeerTimeout + AnswerTTL
BY MeshAssumption DEF Reach

\* A count that goes no further than Reach + 1 says enough about what is at most Reach.
LEMMA LaterLemma ==
  ASSUME NEW m \in 0 .. Reach + 1
  PROVE  /\ Later(m, Reach + 1) \in 0 .. Reach + 1
         /\ \A n \in Nat : n <= Reach /\ Later(m, Reach + 1) > n + 1 => m > n
BY ReachLemma DEF Later

\* Time goes on, and no pod moves: what told of the older ones still does.
LEMMA TellsLater ==
  ASSUME MeshType, NEW s, NEW pods \in SUBSET MeshPods, NEW n \in Nat, n <= Reach, Tells(s, pods, n),
         UNCHANGED running, moved' = [p \in MeshPods |-> Later(moved[p], Reach + 1)]
  PROVE  \A p \in pods : moved'[p] > n + 1 => (p \in s <=> p \in running')
BY LaterLemma DEF MeshType, Tells

\* A pod that moves is no longer one of them.
LEMMA TellsMoves ==
  ASSUME MeshType, NEW s, NEW pods \in SUBSET MeshPods, NEW n \in Nat, Tells(s, pods, n),
         NEW p \in MeshPods, PodMoves(p)
  PROVE  \A q \in pods : moved'[q] > n => (q \in s <=> q \in running')
BY DEF PodMoves, MeshType, Tells

LEMMA TellsWeaker ==
  ASSUME MeshType, NEW s, NEW pods \in SUBSET MeshPods, NEW n \in Nat, Tells(s, pods, n), NEW m \in Nat, n <= m
  PROVE  Tells(s, pods, m)
BY DEF Tells, MeshType

\* A lookup gives the host's own pods, as they were a refresh ago at most,
\* unless docker did not answer; and a reading stays true.
LEMMA LookupDoes ==
  ASSUME MeshType, IndexTrue, NEW h \in Hosts, NEW new, Lookup(h, new), UNCHANGED <<running, moved>>
  PROVE  /\ new \in SUBSET HomePods(h) /\ (lost' > 0 => Tells(new, HomePods(h), IndexRefresh))
         /\ index' \in [Hosts -> Readings] /\ IndexTrue' /\ lost' \in 0 .. Reach + 1 /\ losses' \in Nat
         /\ lost' = lost \/ lost' = 0
<1>1. /\ index[h] \in Readings /\ index[h].pods \subseteq HomePods(h)
      /\ Fresh(h) => Tells(index[h].pods, HomePods(h), index[h].age)
      /\ HomePods(h) \in SUBSET MeshPods
  BY DEF MeshType, IndexTrue, HomePods
<1>2. CASE Fresh(h) /\ new = index[h].pods /\ UNCHANGED <<index, lost, losses>>
  BY <1>1, ReachLemma, <1>2, TellsWeaker DEF Readings, IndexTrue, Tells, Fresh, MeshType
<1>3. CASE /\ new = {p \in running : Home[p] = h} /\ UNCHANGED <<lost, losses>>
           /\ index' = [index EXCEPT ![h] = [pods |-> new, age |-> 0]]
  <2>1. new \in SUBSET HomePods(h) /\ \A n : Tells(new, HomePods(h), n)
    BY <1>3 DEF MeshType, HomePods, Tells
  <2>2. PICK x : x = [pods |-> new, age |-> 0]
    OBVIOUS
  <2>3. x \in Readings /\ x.pods = new /\ x.age = 0
    BY <1>1, <2>1, <2>2, ReachLemma DEF Readings
  <2>4. /\ index' \in [Hosts -> Readings] /\ index'[h] = x
        /\ \A g \in Hosts : g # h => index'[g] = index[g]
    BY <1>3, <2>2, <2>3 DEF MeshType
  <2>5. IndexTrue'
    BY <2>1, <2>3, <2>4 DEF IndexTrue, Fresh, Tells, HomePods
  <2> QED
    BY <1>3, <2>1, <2>4, <2>5 DEF MeshType
<1>4. CASE Lost /\ new = index[h].pods /\ UNCHANGED index
  <2>1. IndexTrue'
    BY <1>4 DEF IndexTrue, Tells, Fresh
  <2> QED
    BY <1>1, <1>4, <2>1, ReachLemma DEF MeshType, Lost
<1> QED
  BY <1>2, <1>3, <1>4 DEF Lookup

\* What is said of questions and of kept answers stays while no pod moves and
\* losses only come.
LEMMA QuestionsStay ==
  ASSUME MeshType, QuestionTrue, UNCHANGED <<running, moved, question>>, lost' = lost \/ lost' = 0
  PROVE  QuestionTrue'
BY ReachLemma DEF MeshType, Asked, QuestionTrue, Tells

LEMMA AnswersStay ==
  ASSUME MeshType, AnswersTrue, UNCHANGED <<running, moved, answers>>, lost' = lost \/ lost' = 0
  PROVE  AnswersTrue'
BY ReachLemma DEF AnswersTrue, KeptFor, Tells

LEMMA NoQuestionAsked == NoQuestion \notin Asked
BY MeshAssumption DEF NoQuestion, Asked

LEMMA PodMovesStep ==
  ASSUME MeshIInv, NEW p \in MeshPods, PodMoves(p)
  PROVE  MeshIInv'
<1>0. MeshType /\ IndexTrue /\ QuestionTrue /\ AnswersTrue
  BY DEF MeshIInv
<1>1. /\ UNCHANGED <<index, answers, question, lost, losses>> /\ said' = Silent
      /\ moved' = [moved EXCEPT ![p] = 0] /\ moves' = moves + 1
      /\ running' = IF p \in running THEN running \ {p} ELSE running \cup {p}
  BY DEF PodMoves
<1>2. MeshType'
  BY <1>0, <1>1, ReachLemma DEF MeshType
<1>3. IndexTrue'
  <2>1. ASSUME NEW h \in Hosts, Fresh(h)
        PROVE  \A q \in HomePods(h) : moved'[q] > index[h].age => (q \in index[h].pods <=> q \in running')
    <3>1. index[h].age \in Nat /\ HomePods(h) \in SUBSET MeshPods
      BY <1>0, ReachLemma DEF MeshType, Readings, HomePods
    <3> QED
      BY <1>0, <2>1, <3>1, TellsMoves DEF IndexTrue
  <2> QED
    BY <1>0, <1>1, <2>1 DEF IndexTrue, Tells, Fresh
<1>4. QuestionTrue'
  <2>1. ASSUME NEW q \in Questions, question[q] # NoQuestion, lost > question[q].age
        PROVE  \A u \in {x \in MeshPods : Home[x] \notin question[q].wait} :
                 moved'[u] > IndexRefresh + question[q].age => (u \in question[q].got <=> u \in running')
    <3> DEFINE S == {x \in MeshPods : Home[x] \notin question[q].wait}
    <3>1. question[q].age \in Nat /\ S \in SUBSET MeshPods /\ IndexRefresh + question[q].age \in Nat
      BY <1>0, <2>1, ReachLemma DEF MeshType, Asked
    <3>2. Tells(question[q].got, S, IndexRefresh + question[q].age)
      BY <1>0, <2>1 DEF QuestionTrue
    <3> HIDE DEF S
    <3>3. \A u \in S : moved'[u] > IndexRefresh + question[q].age => (u \in question[q].got <=> u \in running')
      BY <1>0, <3>1, <3>2, TellsMoves
    <3> QED
      BY <3>3 DEF S
  <2>2. ASSUME NEW q \in Questions, question[q] # NoQuestion
        PROVE  /\ question[q].at \notin question[q].wait
               /\ \A u \in question[q].got : Home[u] # question[q].at /\ Home[u] \notin question[q].wait
               /\ lost > question[q].age =>
                    \A u \in {x \in MeshPods : Home[x] \notin question[q].wait} :
                      moved'[u] > IndexRefresh + question[q].age => (u \in question[q].got <=> u \in running')
    BY <1>0, <2>1, <2>2 DEF QuestionTrue
  <2> QED
    BY <1>1, <2>2 DEF QuestionTrue, Tells
<1>5. AnswersTrue'
  <2>1. ASSUME NEW h \in Hosts, answers[h].left > 0
        PROVE  /\ KeptFor(answers[h]) \in Nat /\ \A u \in answers[h].addrs : Home[u] # h
               /\ lost > PeerTimeout + KeptFor(answers[h]) =>
                    \A u \in {x \in MeshPods : Home[x] # h} :
                      moved'[u] > IndexRefresh + PeerTimeout + KeptFor(answers[h]) =>
                        (u \in answers[h].addrs <=> u \in running')
    <3> DEFINE S == {x \in MeshPods : Home[x] # h}
               n == IndexRefresh + PeerTimeout + KeptFor(answers[h])
    <3>1. KeptFor(answers[h]) \in Nat /\ \A u \in answers[h].addrs : Home[u] # h
      BY <1>0, <2>1 DEF AnswersTrue
    <3>2. n \in Nat /\ S \in SUBSET MeshPods
      BY <3>1, ReachLemma
    <3>3. lost > PeerTimeout + KeptFor(answers[h]) => Tells(answers[h].addrs, S, n)
      BY <1>0, <2>1 DEF AnswersTrue
    <3> HIDE DEF S, n
    <3>4. lost > PeerTimeout + KeptFor(answers[h]) =>
            \A u \in S : moved'[u] > n => (u \in answers[h].addrs <=> u \in running')
      BY <1>0, <3>2, <3>3, TellsMoves
    <3> QED
      BY <3>1, <3>4 DEF S, n
  <2> QED
    BY <1>1, <2>1 DEF AnswersTrue, Tells, KeptFor
<1>6. NamesFollow'
  BY <1>1 DEF NamesFollow, Silent
<1> QED
  BY <1>2, <1>3, <1>4, <1>5, <1>6 DEF MeshIInv

\* One question changes to x, which tells of what has not moved; the others stay.
LEMMA QuestionMoves ==
  ASSUME MeshType, QuestionTrue, UNCHANGED <<running, moved>>, lost' = lost \/ lost' = 0,
         NEW q \in Questions, NEW x \in Asked, question' = [question EXCEPT ![q] = x],
         x.at \notin x.wait, \A p \in x.got : Home[p] # x.at /\ Home[p] \notin x.wait,
         lost' > x.age => Tells(x.got, {p \in MeshPods : Home[p] \notin x.wait}, IndexRefresh + x.age)
  PROVE  QuestionTrue' /\ question' \in [Questions -> Asked \cup {NoQuestion}]
<1>1. /\ question' \in [Questions -> Asked \cup {NoQuestion}] /\ question'[q] = x
      /\ \A u \in Questions : u # q => question'[u] = question[u]
  BY DEF MeshType
<1>2. ASSUME NEW u \in Questions, question'[u] # NoQuestion
      PROVE  LET y == question'[u] IN
             /\ y.at \notin y.wait /\ \A p \in y.got : Home[p] # y.at /\ Home[p] \notin y.wait
             /\ lost' > y.age => Tells(y.got, {p \in MeshPods : Home[p] \notin y.wait}, IndexRefresh + y.age)
  <2>1. CASE u = q
    BY <1>1, <2>1
  <2>2. CASE u # q
    <3>1. question'[u] = question[u] /\ question[u] # NoQuestion
      BY <1>1, <1>2, <2>2
    <3>2. question[u].age \in Nat
      BY <3>1, ReachLemma DEF MeshType, Asked
    <3>3. lost' > question[u].age => lost > question[u].age
      BY <3>2
    <3> QED
      BY <3>1, <3>3 DEF QuestionTrue
  <2> QED
    BY <2>1, <2>2
<1> QED
  BY <1>1, <1>2 DEF QuestionTrue, Tells

LEMMA AskStep ==
  ASSUME MeshIInv, NEW q \in Questions, NEW h \in Askers, AskName(q, h)
  PROVE  MeshIInv'
<1>0. MeshType /\ IndexTrue /\ QuestionTrue /\ AnswersTrue
  BY DEF MeshIInv
<1>1. h \in Hosts /\ UNCHANGED <<running, moved, moves>> /\ question[q] = NoQuestion
  BY MeshAssumption DEF AskName
<1>2. PICK own \in Views(h) :
        /\ Lookup(h, own)
        /\ \/ own # {} /\ Answer(h, own) /\ UNCHANGED <<question, answers>>
           \/ own = {} /\ FromCache(h) /\ UNCHANGED question
           \/ /\ own = {} /\ answers[h].left = 0 /\ said' = Silent
              /\ question' = [question EXCEPT ![q] =
                   [at |-> h, wait |-> Hosts \ {h}, got |-> {}, age |-> 0]]
              /\ UNCHANGED answers
  BY DEF AskName
<1>3. /\ own \in SUBSET HomePods(h) /\ (lost' > 0 => Tells(own, HomePods(h), IndexRefresh))
      /\ index' \in [Hosts -> Readings] /\ IndexTrue' /\ lost' \in 0 .. Reach + 1 /\ losses' \in Nat
      /\ lost' = lost \/ lost' = 0
  BY <1>0, <1>1, <1>2, LookupDoes
<1>4. UNCHANGED answers
  BY <1>2 DEF FromCache
<1>5. AnswersTrue'
  BY <1>0, <1>1, <1>3, <1>4, AnswersStay
<1>6. CASE own # {} /\ Answer(h, own) /\ UNCHANGED question
  <2>1. MeshType'
    BY <1>0, <1>1, <1>3, <1>4, <1>6 DEF MeshType
  <2>2. QuestionTrue'
    BY <1>0, <1>1, <1>3, <1>6, QuestionsStay
  <2>3. NamesFollow'
    <3>1. said' = [addrs |-> own, from |-> h]
      BY <1>6 DEF Answer
    <3>2. ASSUME lost' > Reach, NEW p \in own PROVE p \in running \/ moved[p] <= Reach
      BY <1>0, <1>3, ReachLemma, <3>2 DEF MeshType, HomePods, Tells
    <3>3. PICK p \in own : Home[p] = h
      BY <1>3, <1>6 DEF HomePods
    <3> QED
      BY <1>1, <3>1, <3>2, <3>3 DEF NamesFollow
  <2> QED
    BY <1>3, <1>5, <2>1, <2>2, <2>3 DEF MeshIInv
<1>7. CASE own = {} /\ FromCache(h) /\ UNCHANGED question
  <2>1. MeshType'
    BY <1>0, <1>1, <1>3, <1>4, <1>7 DEF MeshType
  <2>2. QuestionTrue'
    BY <1>0, <1>1, <1>3, <1>7, QuestionsStay
  <2>3. NamesFollow'
    <3> DEFINE a == answers[h]
               n == KeptFor(a)
    <3>1. a.left > 0 /\ said' = [addrs |-> a.addrs, from |-> h]
      BY <1>7 DEF FromCache, Answer
    <3>2. a \in KeptAnswers
      BY <1>0, <1>1 DEF MeshType
    <3>3. n \in Nat /\ n <= AnswerTTL /\ \A p \in a.addrs : Home[p] # h
      <4>1. n \in Nat /\ \A p \in a.addrs : Home[p] # h
        BY <1>0, <1>1, <3>1 DEF AnswersTrue
      <4>2. n <= AnswerTTL
        BY <3>1, <3>2, ReachLemma DEF KeptFor, KeptAnswers
      <4> QED
        BY <4>1, <4>2
    <3>4. ASSUME lost' > Reach, NEW p \in MeshPods, moved[p] > Reach PROVE p \in a.addrs <=> p \in running
      <4>1. moved[p] \in Nat /\ lost = lost' /\ lost \in Nat
        BY <1>0, <1>3, <3>4, ReachLemma DEF MeshType
      <4>2. CASE Home[p] = h
        BY <1>3, <3>4, ReachLemma, <1>7, <4>1, <4>2, <3>3 DEF Tells, HomePods
      <4>3. CASE Home[p] # h
        BY <3>3, <3>4, <4>1, ReachLemma, <1>0, <1>1, <3>1, <4>3 DEF AnswersTrue, Tells
      <4> QED
        BY <4>2, <4>3
    <3>5. \A p \in MeshPods : moved[p] \in Nat
      BY <1>0, ReachLemma DEF MeshType
    <3>6. a.addrs \subseteq MeshPods /\ running \subseteq MeshPods
      BY <1>0, <3>2 DEF KeptAnswers, MeshType
    <3>7. ASSUME lost' > Reach
          PROVE  /\ \A p \in a.addrs : p \in running \/ moved[p] <= Reach
                 /\ \A p \in running : moved[p] > Reach => p \in a.addrs
      BY <3>4, <3>5, <3>6, <3>7, ReachLemma
    <3> QED
      BY <1>1, <3>1, <3>7 DEF NamesFollow
  <2> QED
    BY <1>3, <1>5, <2>1, <2>2, <2>3 DEF MeshIInv
<1>8. CASE /\ own = {} /\ said' = Silent
           /\ question' = [question EXCEPT ![q] = [at |-> h, wait |-> Hosts \ {h}, got |-> {}, age |-> 0]]
  <2>1. PICK x : x = [at |-> h, wait |-> Hosts \ {h}, got |-> {}, age |-> 0]
    OBVIOUS
  <2>2. x \in Asked /\ x.at = h /\ x.wait = Hosts \ {h} /\ x.got = {} /\ x.age = 0
    BY <2>1, ReachLemma DEF Asked
  <2>3. /\ question' \in [Questions -> Asked \cup {NoQuestion}] /\ question'[q] = x
        /\ \A u \in Questions : u # q => question'[u] = question[u]
    BY <1>0, <1>8, <2>1, <2>2 DEF MeshType
  <2>4. MeshType'
    BY <1>0, <1>1, <1>3, <1>4, <2>3 DEF MeshType
  <2>5. QuestionTrue'
    <3>1. lost' > 0 => Tells({}, {p \in MeshPods : Home[p] \notin Hosts \ {h}}, IndexRefresh)
      BY <1>3, <1>8, MeshAssumption DEF Tells, HomePods
    <3>2. lost' > x.age => Tells(x.got, {p \in MeshPods : Home[p] \notin x.wait}, IndexRefresh + x.age)
      BY <2>2, <3>1, ReachLemma
    <3>3. x.at \notin x.wait /\ \A p \in x.got : Home[p] # x.at /\ Home[p] \notin x.wait
      BY <2>2
    <3>4. question' = [question EXCEPT ![q] = x]
      BY <1>8, <2>1
    <3> QED
      BY <1>0, <1>1, <1>3, <2>2, <3>2, <3>3, <3>4, QuestionMoves
  <2>6. NamesFollow'
    BY <1>8 DEF NamesFollow, Silent
  <2> QED
    BY <1>3, <1>5, <2>4, <2>5, <2>6 DEF MeshIInv
<1> QED
  BY <1>2, <1>6, <1>7, <1>8

LEMMA PeerAnswersStep ==
  ASSUME MeshIInv, NEW q \in Questions, NEW h \in Hosts, PeerAnswers(q, h)
  PROVE  MeshIInv'
<1>0. MeshType /\ IndexTrue /\ QuestionTrue /\ AnswersTrue
  BY DEF MeshIInv
<1> DEFINE z == question[q]
<1>1. h \in z.wait /\ said' = Silent /\ UNCHANGED <<running, answers, moved, moves>>
  BY DEF PeerAnswers
<1>2. PICK own \in Views(h) :
        /\ Lookup(h, own)
        /\ question' = [question EXCEPT ![q].wait = @ \ {h}, ![q].got = @ \cup own]
  BY DEF PeerAnswers
<1>3. /\ own \in SUBSET HomePods(h) /\ (lost' > 0 => Tells(own, HomePods(h), IndexRefresh))
      /\ index' \in [Hosts -> Readings] /\ IndexTrue' /\ lost' \in 0 .. Reach + 1 /\ losses' \in Nat
      /\ lost' = lost \/ lost' = 0
  BY <1>0, <1>1, <1>2, LookupDoes
<1>4. z # NoQuestion /\ z \in Asked
  BY <1>0, <1>1 DEF MeshType, NoQuestion
<1>5. PICK x : x = [z EXCEPT !.wait = @ \ {h}, !.got = @ \cup own]
  OBVIOUS
<1>6. /\ x \in Asked /\ x.at = z.at /\ x.wait = z.wait \ {h} /\ x.got = z.got \cup own /\ x.age = z.age
  BY <1>3, <1>4, <1>5 DEF Asked, HomePods
<1>7. question' = [question EXCEPT ![q] = x]
  BY <1>0, <1>4, <1>2, <1>5 DEF MeshType, Asked
<1>8. x.age \in Nat /\ z.at # h
  <2>1. z.age \in Nat
    BY <1>4, ReachLemma DEF Asked
  <2>2. h \notin {z.at}
    BY <1>0, <1>1, <1>4 DEF QuestionTrue
  <2> QED
    BY <1>6, <2>1, <2>2
<1>9. x.at \notin x.wait /\ \A p \in x.got : Home[p] # x.at /\ Home[p] \notin x.wait
  BY <1>0, <1>3, <1>4, <1>6, <1>8 DEF QuestionTrue, HomePods
<1>10. lost' > x.age => Tells(x.got, {p \in MeshPods : Home[p] \notin x.wait}, IndexRefresh + x.age)
  <2>1. SUFFICES ASSUME lost' > x.age, NEW p \in MeshPods, Home[p] \notin x.wait, moved[p] > IndexRefresh + x.age
                 PROVE  p \in x.got <=> p \in running
    BY DEF Tells
  <2>2. lost' > 0 /\ lost > z.age /\ moved[p] \in Nat
    BY <1>0, <1>3, <1>6, <1>8, <2>1, ReachLemma DEF MeshType
  <2>3. CASE Home[p] = h
    BY <1>3, <1>8, <2>1, <2>2, <2>3, ReachLemma, <1>0, <1>1, <1>4, <1>6 DEF Tells, HomePods, QuestionTrue
  <2>4. CASE Home[p] # h
    BY <1>3, <1>6, <2>1, <2>4, <1>0, <1>4, <2>2 DEF HomePods, QuestionTrue, Tells
  <2> QED
    BY <2>3, <2>4
<1>11. QuestionTrue' /\ question' \in [Questions -> Asked \cup {NoQuestion}]
  BY <1>0, <1>1, <1>3, <1>6, <1>7, <1>9, <1>10, QuestionMoves
<1>12. AnswersTrue'
  BY <1>0, <1>1, <1>3, AnswersStay
<1>13. MeshType'
  BY <1>0, <1>1, <1>3, <1>11 DEF MeshType
<1>14. NamesFollow'
  BY <1>1 DEF NamesFollow, Silent
<1> QED
  BY <1>3, <1>11, <1>12, <1>13, <1>14 DEF MeshIInv

LEMMA PeerLostStep ==
  ASSUME MeshIInv, NEW q \in Questions, NEW h \in Hosts, PeerLost(q, h)
  PROVE  MeshIInv'
<1>0. MeshType /\ IndexTrue /\ QuestionTrue /\ AnswersTrue
  BY DEF MeshIInv
<1> DEFINE z == question[q]
<1>1. /\ h \in z.wait /\ said' = Silent /\ UNCHANGED <<running, index, answers, moved, moves>>
      /\ lost' = 0 /\ losses' = losses + 1 /\ question' = [question EXCEPT ![q].wait = @ \ {h}]
  BY DEF PeerLost, Lost
<1>2. z # NoQuestion /\ z \in Asked
  BY <1>0, <1>1 DEF MeshType, NoQuestion
<1>3. PICK x : x = [z EXCEPT !.wait = @ \ {h}]
  OBVIOUS
<1>4. x \in Asked /\ x.at = z.at /\ x.wait = z.wait \ {h} /\ x.got = z.got /\ x.age = z.age /\ x.age \in Nat
  BY <1>2, <1>3, ReachLemma DEF Asked
<1>5. question' = [question EXCEPT ![q] = x]
  BY <1>1, <1>3
<1>6. x.at \notin x.wait /\ \A p \in x.got : Home[p] # x.at /\ Home[p] \notin x.wait
  BY <1>0, <1>2, <1>4 DEF QuestionTrue
<1>7. ~(lost' > x.age)
  BY <1>1, <1>4
<1>8. QuestionTrue' /\ question' \in [Questions -> Asked \cup {NoQuestion}]
  BY <1>0, <1>1, <1>4, <1>5, <1>6, <1>7, QuestionMoves
<1>9. AnswersTrue'
  BY <1>0, <1>1, AnswersStay
<1>10. MeshType' /\ IndexTrue'
  BY <1>0, <1>1, <1>8, ReachLemma DEF MeshType, IndexTrue, Tells, Fresh
<1>11. NamesFollow'
  BY <1>1 DEF NamesFollow, Silent
<1> QED
  BY <1>8, <1>9, <1>10, <1>11 DEF MeshIInv

LEMMA MergedStep ==
  ASSUME MeshIInv, NEW q \in Questions, Merged(q)
  PROVE  MeshIInv'
<1>0. MeshType /\ IndexTrue /\ QuestionTrue /\ AnswersTrue
  BY DEF MeshIInv
<1> DEFINE z == question[q]
           ttl == IF z.got = {} THEN NegativeTTL ELSE AnswerTTL
<1>1. /\ z # NoQuestion /\ z.wait = {} /\ question' = [question EXCEPT ![q] = NoQuestion]
      /\ answers' = [answers EXCEPT ![z.at] = [addrs |-> z.got, left |-> ttl]]
      /\ said' = [addrs |-> z.got, from |-> z.at]
      /\ UNCHANGED <<running, index, lost, moved, moves, losses>>
  BY DEF Merged, Answer
<1>2. /\ z \in Asked /\ z.at \in Hosts /\ z.got \in SUBSET MeshPods /\ z.age \in Nat /\ z.age <= PeerTimeout
      /\ ttl \in Nat /\ lost \in Nat /\ \A p \in MeshPods : moved[p] \in Nat
  BY <1>0, <1>1, MeshAssumption, ReachLemma DEF MeshType, Asked
<1>3. /\ \A p \in z.got : Home[p] # z.at
      /\ lost > z.age => \A p \in MeshPods : moved[p] > IndexRefresh + z.age => (p \in z.got <=> p \in running)
  BY <1>0, <1>1 DEF QuestionTrue, Tells
<1>4. PICK a : a = [addrs |-> z.got, left |-> ttl]
  OBVIOUS
<1>5. a.addrs = z.got /\ a.left = ttl /\ a \in KeptAnswers
  BY <1>2, <1>4 DEF KeptAnswers
<1>6. KeptFor(a) = 0
  BY <1>2, <1>5 DEF KeptFor
<1>7. /\ answers' \in [Hosts -> KeptAnswers] /\ answers'[z.at] = a
      /\ \A h \in Hosts : h # z.at => answers'[h] = answers[h]
  BY <1>0, <1>1, <1>2, <1>4, <1>5 DEF MeshType
<1>8. /\ question' \in [Questions -> Asked \cup {NoQuestion}] /\ question'[q] = NoQuestion
      /\ \A u \in Questions : u # q => question'[u] = question[u]
  BY <1>0, <1>1 DEF MeshType
<1>9. MeshType' /\ IndexTrue'
  BY <1>0, <1>1, <1>7, <1>8 DEF MeshType, IndexTrue, Tells, Fresh
<1>10. QuestionTrue'
  BY <1>0, <1>1, <1>8 DEF QuestionTrue, Tells
<1>11. AnswersTrue'
  <2>1. ASSUME NEW h \in Hosts, answers'[h].left > 0
        PROVE  LET b == answers'[h] n == KeptFor(b) IN
               /\ n \in Nat /\ \A p \in b.addrs : Home[p] # h
               /\ lost > PeerTimeout + n =>
                    Tells(b.addrs, {p \in MeshPods : Home[p] # h}, IndexRefresh + PeerTimeout + n)
    <3>1. CASE h # z.at
      BY <1>0, <1>7, <2>1, <3>1 DEF AnswersTrue
    <3>2. CASE h = z.at
      <4>1. lost > PeerTimeout + 0 =>
              \A p \in MeshPods : moved[p] > IndexRefresh + PeerTimeout + 0 => (p \in z.got <=> p \in running)
        BY <1>2, <1>3, ReachLemma
      <4>2. lost > PeerTimeout + 0 => Tells(a.addrs, {p \in MeshPods : Home[p] # h}, IndexRefresh + PeerTimeout + 0)
        BY <1>5, <4>1 DEF Tells
      <4>3. \A p \in a.addrs : Home[p] # h
        BY <1>3, <1>5, <3>2
      <4>4. answers'[h] = a
        BY <1>7, <3>2
      <4> HIDE DEF z, ttl
      <4> QED
        BY <1>6, <4>2, <4>3, <4>4
    <3> QED
      BY <3>1, <3>2
  <2> QED
    BY <1>1, <2>1 DEF AnswersTrue, Tells, KeptFor
<1>12. NamesFollow'
  <2>1. ASSUME lost > Reach
        PROVE  /\ \A p \in z.got : p \in running \/ moved[p] <= Reach
               /\ \A p \in running : moved[p] > Reach => p \in z.got
    BY <1>2, <1>3, <2>1, ReachLemma, <1>0 DEF MeshType
  <2> QED
    BY <1>1, <2>1 DEF NamesFollow
<1> QED
  BY <1>9, <1>10, <1>11, <1>12 DEF MeshIInv

LEMMA TickStep ==
  ASSUME MeshIInv, Tick
  PROVE  MeshIInv'
<1>0. MeshType /\ IndexTrue /\ QuestionTrue /\ AnswersTrue
  BY DEF MeshIInv
<1>1. /\ UNCHANGED <<running, moves, losses>> /\ said' = Silent /\ lost' = Later(lost, Reach + 1)
      /\ moved' = [p \in MeshPods |-> Later(moved[p], Reach + 1)]
  BY DEF Tick
<1>2. /\ \A p \in MeshPods : moved[p] \in 0 .. Reach + 1
      /\ lost' \in 0 .. Reach + 1 /\ \A n \in Nat : n <= Reach /\ lost' > n + 1 => lost > n
  BY <1>0, <1>1, LaterLemma DEF MeshType
<1>3. moved' \in [MeshPods -> 0 .. Reach + 1]
  BY <1>1, <1>2, LaterLemma
<1>4. ASSUME NEW h \in Hosts
      PROVE  /\ index'[h] \in Readings /\ index'[h].pods = index[h].pods
             /\ index'[h].age < IndexRefresh => Fresh(h) /\ index'[h].age = index[h].age + 1
  BY <1>0, ReachLemma DEF Tick, MeshType, Readings, Later, Fresh
<1>5. index' \in [Hosts -> Readings]
  BY <1>4 DEF Tick
<1>6. IndexTrue'
  <2>1. ASSUME NEW h \in Hosts, index'[h].age < IndexRefresh
        PROVE  \A p \in HomePods(h) : moved'[p] > index'[h].age => (p \in index'[h].pods <=> p \in running')
    <3>1. /\ Fresh(h) /\ index'[h].age = index[h].age + 1 /\ index'[h].pods = index[h].pods
      BY <1>4, <2>1
    <3>2. HomePods(h) \in SUBSET MeshPods /\ index[h].age \in Nat /\ index[h].age <= Reach
      BY <1>0, ReachLemma DEF MeshType, Readings, HomePods
    <3>3. Tells(index[h].pods, HomePods(h), index[h].age)
      BY <1>0, <3>1 DEF IndexTrue
    <3>4. \A p \in HomePods(h) : moved'[p] > index[h].age + 1 => (p \in index[h].pods <=> p \in running')
      <4> DEFINE s == index[h].pods
                 n == index[h].age
                 S == HomePods(h)
      <4>1. S \in SUBSET MeshPods /\ n \in Nat /\ n <= Reach /\ Tells(s, S, n)
        BY <3>2, <3>3
      <4> HIDE DEF s, n, S
      <4>2. \A p \in S : moved'[p] > n + 1 => (p \in s <=> p \in running')
        BY <1>0, <1>1, <4>1, TellsLater
      <4> QED
        BY <4>2 DEF s, n, S
    <3> QED
      BY <3>1, <3>4
  <2>2. \A h \in Hosts : index'[h].pods \subseteq HomePods(h)
    BY <1>0, <1>4 DEF IndexTrue
  <2> QED
    BY <2>1, <2>2 DEF IndexTrue, Tells, Fresh, HomePods
<1>7. ASSUME NEW q \in Questions
      PROVE  /\ question[q] = NoQuestion => question'[q] = NoQuestion
             /\ question[q] # NoQuestion =>
                  /\ question[q] \in Asked /\ question'[q] \in Asked
                  /\ question'[q].at = question[q].at /\ question'[q].wait = question[q].wait
                  /\ question'[q].got = question[q].got /\ question'[q].age = question[q].age + 1
  <2>1. CASE question[q] = NoQuestion
    BY <2>1 DEF Tick
  <2>2. CASE question[q] # NoQuestion
    BY <1>0, <2>2, ReachLemma DEF Tick, MeshType, Asked
  <2> QED
    BY <2>1, <2>2
<1>8. question' \in [Questions -> Asked \cup {NoQuestion}]
  BY <1>7 DEF Tick
<1>9. QuestionTrue'
  <2>1. ASSUME NEW q \in Questions, question'[q] # NoQuestion
        PROVE  LET y == question'[q] IN
               /\ y.at \notin y.wait /\ \A p \in y.got : Home[p] # y.at /\ Home[p] \notin y.wait
               /\ lost' > y.age =>
                    \A p \in {x \in MeshPods : Home[x] \notin y.wait} :
                      moved'[p] > IndexRefresh + y.age => (p \in y.got <=> p \in running')
    <3> DEFINE z == question[q]
               S == {x \in MeshPods : Home[x] \notin z.wait}
               n == IndexRefresh + z.age
    <3>1. /\ z # NoQuestion /\ z \in Asked /\ question'[q].at = z.at /\ question'[q].wait = z.wait
          /\ question'[q].got = z.got /\ question'[q].age = z.age + 1 /\ question'[q] \in Asked
      BY <1>7, <2>1
    <3>2. /\ z.age \in Nat /\ z.age <= Reach /\ n \in Nat /\ n <= Reach /\ S \in SUBSET MeshPods
          /\ IndexRefresh + question'[q].age = n + 1
      BY <3>1, ReachLemma DEF Asked
    <3>3. /\ z.at \notin z.wait /\ \A p \in z.got : Home[p] # z.at /\ Home[p] \notin z.wait
          /\ lost > z.age => Tells(z.got, S, n)
      BY <1>0, <3>1 DEF QuestionTrue
    <3>4. lost' > question'[q].age => lost > z.age
      BY <1>2, <3>1, <3>2
    <3>5. \A p \in z.got : Home[p] # z.at /\ Home[p] \notin z.wait
      BY <3>3
    <3> HIDE DEF S, n
    <3>6. lost' > question'[q].age =>
            \A p \in S : moved'[p] > n + 1 => (p \in z.got <=> p \in running')
      BY <1>0, <1>1, <3>2, <3>3, <3>4, TellsLater
    <3>7. {x \in MeshPods : Home[x] \notin question'[q].wait} = S
      BY <3>1 DEF S
    <3> QED
      BY <3>1, <3>2, <3>3, <3>6, <3>7
  <2> QED
    BY <2>1 DEF QuestionTrue, Tells
<1>10. ASSUME NEW h \in Hosts
       PROVE  /\ answers'[h] \in KeptAnswers
              /\ answers'[h].left > 0 => /\ answers[h].left > 0 /\ answers'[h].addrs = answers[h].addrs
                                         /\ KeptFor(answers'[h]) = KeptFor(answers[h]) + 1
                                         /\ KeptFor(answers'[h]) <= AnswerTTL
  <2> DEFINE a == answers[h]
  <2>1. /\ a \in KeptAnswers
        /\ answers'[h] = IF a.left > 1 THEN [a EXCEPT !.left = @ - 1] ELSE [addrs |-> {}, left |-> 0]
    BY <1>0 DEF Tick, MeshType
  <2>2. CASE a.left > 1
    BY <2>1, <2>2, ReachLemma DEF KeptAnswers, KeptFor
  <2>3. CASE ~(a.left > 1)
    BY <2>1, <2>3 DEF KeptAnswers
  <2> QED
    BY <2>2, <2>3
<1>11. answers' \in [Hosts -> KeptAnswers]
  BY <1>10 DEF Tick
<1>12. AnswersTrue'
  <2>1. ASSUME NEW h \in Hosts, answers'[h].left > 0
        PROVE  LET b == answers'[h] m == KeptFor(b) IN
               /\ m \in Nat /\ \A p \in b.addrs : Home[p] # h
               /\ lost' > PeerTimeout + m =>
                    \A p \in {x \in MeshPods : Home[x] # h} :
                      moved'[p] > IndexRefresh + PeerTimeout + m => (p \in b.addrs <=> p \in running')
    <3> DEFINE a == answers[h]
               b == answers'[h]
               k == KeptFor(a)
               S == {x \in MeshPods : Home[x] # h}
               n == IndexRefresh + PeerTimeout + k
    <3>1. a.left > 0 /\ b.addrs = a.addrs /\ KeptFor(b) = k + 1 /\ KeptFor(b) <= AnswerTTL
      BY <1>10, <2>1
    <3>2. k \in Nat /\ (\A p \in a.addrs : Home[p] # h) /\ (lost > PeerTimeout + k => Tells(a.addrs, S, n))
      BY <1>0, <3>1 DEF AnswersTrue
    <3>3. k + 1 <= AnswerTTL
      BY <3>1
    <3> HIDE DEF k
    <3>4. /\ PeerTimeout + k \in Nat /\ PeerTimeout + k <= Reach /\ n \in Nat /\ n <= Reach
          /\ PeerTimeout + (k + 1) = (PeerTimeout + k) + 1 /\ IndexRefresh + PeerTimeout + (k + 1) = n + 1
          /\ S \in SUBSET MeshPods
      BY <3>2, <3>3, ReachLemma
    <3>5. lost' > PeerTimeout + (k + 1) => lost > PeerTimeout + k
      BY <1>2, <3>4
    <3> HIDE DEF S, n, a, b
    <3>6. lost' > PeerTimeout + (k + 1) =>
            \A p \in S : moved'[p] > n + 1 => (p \in a.addrs <=> p \in running')
      BY <1>0, <1>1, <3>2, <3>4, <3>5, TellsLater
    <3>7. /\ k + 1 \in Nat /\ \A p \in b.addrs : Home[p] # h
      BY <3>1, <3>2
    <3>8. lost' > PeerTimeout + KeptFor(b) =>
            \A p \in S : moved'[p] > IndexRefresh + PeerTimeout + KeptFor(b) => (p \in b.addrs <=> p \in running')
      BY <3>1, <3>4, <3>6
    <3>9. KeptFor(b) \in Nat
      BY <3>1, <3>7
    <3> QED
      BY <3>7, <3>8, <3>9 DEF S, b
  <2> QED
    BY <2>1 DEF AnswersTrue, Tells, KeptFor
<1>13. MeshType'
  BY <1>0, <1>1, <1>2, <1>3, <1>5, <1>8, <1>11 DEF MeshType
<1>14. NamesFollow'
  BY <1>1 DEF NamesFollow, Silent
<1> QED
  BY <1>6, <1>9, <1>12, <1>13, <1>14 DEF MeshIInv

LEMMA MeshInitially == MeshInit => MeshIInv
BY ReachLemma DEF MeshInit, MeshType, Readings, KeptAnswers, IndexTrue, Fresh, QuestionTrue, AnswersTrue,
   NamesFollow, Silent, MeshIInv

LEMMA MeshStep == MeshIInv /\ [MeshNext]_meshVars => MeshIInv'
<1> SUFFICES ASSUME MeshIInv, [MeshNext]_meshVars PROVE MeshIInv'
  OBVIOUS
<1>1. CASE \E p \in MeshPods : PodMoves(p)
  BY <1>1, PodMovesStep
<1>2. CASE \E q \in Questions, h \in Askers : AskName(q, h)
  BY <1>2, AskStep
<1>3. CASE \E q \in Questions, h \in Hosts : PeerAnswers(q, h) \/ PeerLost(q, h)
  BY <1>3, PeerAnswersStep, PeerLostStep
<1>4. CASE \E q \in Questions : Merged(q)
  BY <1>4, MergedStep
<1>5. CASE Tick
  BY <1>5, TickStep
<1>6. CASE UNCHANGED meshVars
  BY <1>6, AnswersStay DEF MeshIInv, MeshType, NamesFollow, meshVars, IndexTrue, QuestionTrue, Tells, Fresh
<1> QED
  BY <1>1, <1>2, <1>3, <1>4, <1>5, <1>6 DEF MeshNext

LEMMA MeshInvariant == MeshSpec => []MeshIInv
BY MeshInitially, MeshStep, PTL DEF MeshSpec

\* Handle, Resolve, fromCache and toCache keep what a reading of docker, a
\* question to the peers and a kept answer are made of.
THEOREM MeshTypeCorrect == MeshSpec => []MeshType
<1>1. MeshIInv => MeshType
  BY DEF MeshIInv
<1> QED
  BY <1>1, MeshInvariant, PTL

\* Resolve never answers with an address that went longer ago than a reading, a
\* question and a kept answer may last together, nor leaves out a pod of
\* another host that has run that long, unless docker or a peer failed since.
THEOREM MeshCorrect == MeshSpec => []NamesFollow
<1>1. MeshIInv => NamesFollow
  BY DEF MeshIInv
<1> QED
  BY <1>1, MeshInvariant, PTL
-----------------------------------------------------------------------------
(* Forwarded. The argument: what a command may still do is told by its step.  *)
(* Until the request it has put and deleted nothing; at the request all that  *)
(* is built of what it loaded has been pushed; and what a prune would take by *)
(* then was shown in the plan or put by another since, because others only    *)
(* add to the store what the command hears of.                                *)

CommandSteps == {"idle", "probe", "diff", "ask", "push", "send", "release"}
Sayings == {"none", "failed", "no changes", "canceled", "refused", "applied", "deleted"}
Loaded == Drafts \cup {<<>>}
Commands ==
  [op : {"none", "apply", "delete"}, pc : CommandSteps, flags : Flags \cup {{}}, body : Loaded,
   doomed : SUBSET Res, left : SUBSET Res, pushed : SUBSET Res, put : Loaded,
   dropped : SUBSET Res, released : SUBSET Res, since : SUBSET Res, said : Sayings]

\* Every variable has its type.
ForwardedType ==
  /\ stored = [r \in Res |-> stored[r]] /\ current = [r \in Res |-> current[r]]
  /\ draft \in [Clients -> [text : Drafts, tree : 0 .. MaxEdits]] /\ cmd \in [Clients -> Commands]
  /\ calls \in 0 .. MaxCalls /\ edits \in 0 .. MaxEdits /\ cutoffs \in 0 .. MaxCutoffs

\* What there is in the store s, and that the plan foresaw what a prune of k would
\* take of it.
Living(s) == {r \in Res : s[r] # Absent}
Foreseen(s, k) == "prune" \in k.flags => Living(s) \ DOMAIN k.body \subseteq k.doomed \cup k.since

\* Nothing has been put, deleted or released.
Harmless(k) == k.put = <<>> /\ k.dropped = {} /\ k.released = {}
NeededOf(k) == Built \cap DOMAIN k.body
HookedOf(k) == Hooked \cap DOMAIN k.body

\* What has been done of k is what its step says.
DoneSoFar(k) ==
  /\ k.pc # "idle" => k.op # "none" /\ k.body \in Drafts /\ k.said = "none"
  /\ k.pc \in {"probe", "diff", "push", "release"} => k.op = "apply"
  /\ k.pc \in {"probe", "diff", "ask", "push"} => Harmless(k)
  /\ k.pc \in {"probe", "diff", "ask"} => k.left = NeededOf(k) /\ k.pushed = {}
  /\ k.pc = "push" => k.left \cup k.pushed = NeededOf(k)
  /\ k.pc = "send" /\ k.op = "apply" => Harmless(k) /\ k.pushed = NeededOf(k)
  /\ k.pc = "send" /\ k.op = "delete" => k.put = <<>> /\ k.released = {}
  /\ k.pc = "release" => k.put = k.body /\ k.left \cup k.released = HookedOf(k)

\* What SaidAndDone says of one command.
WellDone(k) ==
  /\ k.said \in {"no changes", "canceled", "refused"} =>
       k.pushed = {} /\ k.put = <<>> /\ k.dropped = {}
  /\ k.put # <<>> => k.put = k.body /\ Built \cap DOMAIN k.body = k.pushed
  /\ k.op = "apply" => k.dropped \subseteq k.doomed \cup k.since
  /\ k.op = "delete" => k.dropped \subseteq DOMAIN k.body
  /\ k.said = "applied" => k.put = k.body /\ k.released = Hooked \cap DOMAIN k.body
  /\ k.released # {} => k.put # <<>>

Shown(s, k) == k.op = "apply" /\ k.pc \in {"ask", "push", "send"} => Foreseen(s, k)

CommandTrue(s, k) == DoneSoFar(k) /\ WellDone(k) /\ Shown(s, k)
ForwardedIInv == ForwardedType /\ \A c \in Clients : CommandTrue(stored, cmd[c])

LEMMA LoadedDomain == ASSUME NEW b \in Loaded PROVE DOMAIN b \subseteq Res
BY ForwardedAssumption DEF Loaded

\* A command that ends keeps what it has done.
LEMMA EndsTrue ==
  ASSUME NEW s, NEW k \in Commands, DoneSoFar(k), WellDone(k), k.pc # "idle",
         NEW word \in Sayings,
         word \in {"no changes", "canceled", "refused"} => k.pc \in {"probe", "diff", "ask"},
         word = "applied" => k.pc = "release" /\ k.left = {}
  PROVE  LET r == [k EXCEPT !.pc = "idle", !.said = word] IN r \in Commands /\ CommandTrue(s, r)
<1> DEFINE r == [k EXCEPT !.pc = "idle", !.said = word]
<1>1. r \in Commands BY DEF Commands, CommandSteps
<1>2. /\ r.pc = "idle" /\ r.said = word /\ r.op = k.op /\ r.flags = k.flags /\ r.body = k.body
      /\ r.doomed = k.doomed /\ r.left = k.left /\ r.pushed = k.pushed /\ r.put = k.put
      /\ r.dropped = k.dropped /\ r.released = k.released /\ r.since = k.since
  BY DEF Commands
<1> HIDE DEF r
<1>3. DoneSoFar(r) BY <1>2 DEF DoneSoFar
<1>4. WellDone(r)
  BY <1>2 DEF DoneSoFar, Harmless, HookedOf, WellDone
<1>5. Shown(s, r) BY <1>2 DEF Shown
<1>. QED BY <1>1, <1>3, <1>4, <1>5 DEF CommandTrue, r

\* A step of one command, in which nothing comes to the store.
LEMMA OneGoes ==
  ASSUME ForwardedIInv, NEW c \in Clients, NEW r \in Commands, Goes(c, r),
         CommandTrue(stored', r), \A x \in Res : stored[x] = Absent => stored'[x] = Absent
  PROVE  cmd' \in [Clients -> Commands] /\ \A d \in Clients : CommandTrue(stored', cmd'[d])
<1>1. cmd' = [cmd EXCEPT ![c] = r] /\ cmd \in [Clients -> Commands]
  BY DEF Goes, ForwardedIInv, ForwardedType
<1>2. ASSUME NEW d \in Clients PROVE CommandTrue(stored', cmd'[d])
  <2>1. CASE d = c BY <1>1, <2>1
  <2>2. CASE d # c
    BY <1>1, <2>2 DEF ForwardedIInv, Living, CommandTrue, Shown, Foreseen
  <2>. QED BY <2>1, <2>2
<1>. QED BY <1>1, <1>2

\* A step that puts what k sends: all others hear of it.
LEMMA OneCarries ==
  ASSUME ForwardedIInv, NEW c \in Clients, NEW body \in Loaded, NEW to \in Commands,
         Carry(c, cmd[c], body, to),
         LET r == [to EXCEPT !.put = body, !.dropped = Pruned(cmd[c])] IN CommandTrue(stored', r)
  PROVE  /\ cmd' \in [Clients -> Commands] /\ stored' = [x \in Res |-> stored'[x]]
         /\ \A d \in Clients : CommandTrue(stored', cmd'[d])
<1> DEFINE r == [to EXCEPT !.put = body, !.dropped = Pruned(cmd[c])]
           tell(d) == [cmd[d] EXCEPT !.since = @ \cup DOMAIN body]
<1>1. cmd' = [d \in Clients |-> IF d = c THEN r ELSE tell(d)] BY DEF Carry, Telling
<1>2. /\ stored' = [x \in Res |-> stored'[x]]
      /\ \A x \in Res : stored'[x] # Absent => stored[x] # Absent \/ x \in DOMAIN body
  BY DEF Carry
<1>3. DOMAIN body \subseteq Res BY LoadedDomain
<1>4. r \in Commands BY DEF Commands, Pruned
<1>5. CommandTrue(stored', r) OBVIOUS
<1>6. ASSUME NEW d \in Clients PROVE tell(d) \in Commands /\ CommandTrue(stored', tell(d))
  <2>1. cmd[d] \in Commands /\ CommandTrue(stored, cmd[d]) BY DEF ForwardedIInv, ForwardedType
  <2> DEFINE k == cmd[d]
             t == [k EXCEPT !.since = @ \cup DOMAIN body]
  <2> HIDE DEF k
  <2>2. k \in Commands /\ CommandTrue(stored, k) BY <2>1 DEF k
  <2>3. t \in Commands BY <2>2, <1>3 DEF Commands
  <2>4. /\ t.pc = k.pc /\ t.said = k.said /\ t.op = k.op /\ t.flags = k.flags /\ t.body = k.body
        /\ t.doomed = k.doomed /\ t.left = k.left /\ t.pushed = k.pushed /\ t.put = k.put
        /\ t.dropped = k.dropped /\ t.released = k.released /\ t.since = k.since \cup DOMAIN body
    BY <2>2 DEF Commands
  <2> HIDE DEF t
  <2>5. DoneSoFar(t) BY <2>2, <2>4 DEF CommandTrue, DoneSoFar, Harmless, NeededOf, HookedOf
  <2>6. WellDone(t) BY <2>2, <2>4 DEF CommandTrue, WellDone
  <2>7. Living(stored') \subseteq Living(stored) \cup DOMAIN body BY <1>2 DEF Living
  <2>8. Foreseen(stored, k) => Foreseen(stored', t) BY <2>4, <2>7 DEF Foreseen
  <2>9. Shown(stored', t) BY <2>2, <2>4, <2>8 DEF CommandTrue, Shown
  <2>. QED BY <2>3, <2>5, <2>6, <2>9 DEF CommandTrue, t, k
<1> HIDE DEF r, tell
<1>7. cmd' \in [Clients -> Commands] BY <1>1, <1>4, <1>6
<1>8. \A d \in Clients : CommandTrue(stored', cmd'[d]) BY <1>1, <1>5, <1>6
<1>. QED BY <1>2, <1>7, <1>8

LEMMA CutOffTyped == ASSUME ForwardedIInv, CutOff PROVE cutoffs' \in 0 .. MaxCutoffs
BY ForwardedAssumption DEF CutOff, ForwardedIInv, ForwardedType

\* The command of c ends here.
LEMMA CommandEnds ==
  ASSUME ForwardedIInv, NEW c \in Clients, ~CmdAt(c, "idle"), NEW word \in Sayings,
         Ends(c, cmd[c], word), \A x \in Res : stored[x] = Absent => stored'[x] = Absent,
         word \in {"no changes", "canceled", "refused"} => cmd[c].pc \in {"probe", "diff", "ask"},
         word = "applied" => cmd[c].pc = "release" /\ cmd[c].left = {}
  PROVE  cmd' \in [Clients -> Commands] /\ \A d \in Clients : CommandTrue(stored', cmd'[d])
<1> DEFINE r == [cmd[c] EXCEPT !.pc = "idle", !.said = word]
<1>1. cmd[c] \in Commands /\ DoneSoFar(cmd[c]) /\ WellDone(cmd[c])
  BY DEF ForwardedIInv, ForwardedType, CommandTrue
<1>2. r \in Commands /\ CommandTrue(stored', r) BY <1>1, EndsTrue DEF CmdAt
<1>3. Goes(c, r) BY DEF Ends
<1> HIDE DEF r
<1>. QED BY <1>2, <1>3, OneGoes

LEMMA EditFilesTrue ==
  ASSUME ForwardedIInv, NEW c \in Clients, NEW text \in Drafts, EditFiles(c, text) PROVE ForwardedIInv'
BY ForwardedAssumption DEF EditFiles, ForwardedIInv, ForwardedType

LEMMA CommandStarts ==
  ASSUME ForwardedIInv, NEW c \in Clients, NEW op \in {"apply", "delete"}, NEW flags \in Flags,
         Command(c, op, flags)
  PROVE  ForwardedIInv'
<1> DEFINE pc == IF op = "apply" THEN "probe" ELSE IF "yes" \in flags THEN "send" ELSE "ask"
           b == draft[c].text
           r == [NoCmd EXCEPT !.op = op, !.flags = flags, !.body = b, !.left = Built \cap DOMAIN b, !.pc = pc]
<1>1. b \in Drafts /\ DOMAIN b \subseteq Res
  BY LoadedDomain DEF ForwardedIInv, ForwardedType, Loaded
<1>2. pc \in {"probe", "send", "ask"} /\ (pc = "probe" <=> op = "apply") OBVIOUS
<1>3. Goes(c, r) BY DEF Command
<1> HIDE DEF pc, b
<1>0. NoCmd \in [op : {"none"}, pc : {"idle"}, flags : {{}}, body : {<<>>}, doomed : {{}}, left : {{}},
                 pushed : {{}}, put : {<<>>}, dropped : {{}}, released : {{}}, since : {{}}, said : {"none"}]
  BY DEF NoCmd
<1>4. /\ r.op = op /\ r.pc = pc /\ r.body = b /\ r.left = Built \cap DOMAIN b
      /\ r.pushed = {} /\ r.put = <<>> /\ r.dropped = {} /\ r.released = {} /\ r.said = "none"
  BY <1>0
<1>5. r \in Commands BY <1>0, <1>1, <1>2 DEF Commands, CommandSteps, Sayings, Loaded
<1> HIDE DEF r
<1>6. DoneSoFar(r) BY <1>1, <1>2, <1>4 DEF DoneSoFar, Harmless, NeededOf
<1>7. WellDone(r) BY <1>4 DEF WellDone
<1>8. Shown(stored', r) BY <1>2, <1>4 DEF Shown
<1>9. cmd' \in [Clients -> Commands] /\ \A d \in Clients : CommandTrue(stored', cmd'[d])
  BY <1>3, <1>5, <1>6, <1>7, <1>8, OneGoes DEF Command, CommandTrue
<1>10. calls' \in 0 .. MaxCalls BY ForwardedAssumption DEF Command, ForwardedIInv, ForwardedType
<1>. QED BY <1>9, <1>10 DEF Command, ForwardedIInv, ForwardedType

LEMMA ProbeTrue == ASSUME ForwardedIInv, NEW c \in Clients, Probe(c) PROVE ForwardedIInv'
<1>1. cmd[c] \in Commands /\ CommandTrue(stored, cmd[c]) BY DEF ForwardedIInv, ForwardedType
<1>2. cmd' \in [Clients -> Commands] /\ \A d \in Clients : CommandTrue(stored', cmd'[d])
  <2>1. CASE Ends(c, cmd[c], "failed") BY <2>1, CommandEnds DEF Probe, CmdAt, Sayings
  <2>2. CASE Goes(c, [cmd[c] EXCEPT !.pc = "diff"])
    <3> DEFINE k == cmd[c]
               r == [k EXCEPT !.pc = "diff"]
    <3>1. k \in Commands /\ CommandTrue(stored, k) /\ k.pc = "probe" BY <1>1 DEF Probe, CmdAt
    <3> HIDE DEF k
    <3>2. r \in Commands BY <3>1 DEF Commands, CommandSteps
    <3>3. CommandTrue(stored, r)
      BY <3>1 DEF Commands, CommandTrue, DoneSoFar, WellDone, Shown, Harmless, NeededOf
    <3>4. Goes(c, r) /\ stored' = stored BY <2>2 DEF k, Probe
    <3> HIDE DEF r
    <3>. QED BY <3>2, <3>3, <3>4, OneGoes
  <2>. QED BY <2>1, <2>2 DEF Probe
<1>3. cutoffs' \in 0 .. MaxCutoffs BY CutOffTyped DEF Probe, ForwardedIInv, ForwardedType
<1>. QED BY <1>2, <1>3 DEF Probe, ForwardedIInv, ForwardedType

LEMMA DiffTrue == ASSUME ForwardedIInv, NEW c \in Clients, Diff(c) PROVE ForwardedIInv'
<1> DEFINE k == cmd[c]
           pc == IF Changes(k) /\ "yes" \notin k.flags THEN "ask" ELSE "push"
           r == [k EXCEPT !.doomed = Pruned(k), !.since = {}, !.pc = pc]
<1>1. k = cmd[c] /\ k \in Commands /\ CommandTrue(stored, k) /\ k.pc = "diff"
  BY DEF ForwardedIInv, ForwardedType, Diff, CmdAt
<1>2. \/ Goes(c, r) \/ Ends(c, k, "no changes") \/ Ends(c, k, "failed") BY DEF Diff
<1>3. stored' = stored BY DEF Diff
<1>4. Pruned(k) \subseteq Res BY DEF Pruned
<1>5. pc \in {"ask", "push"} OBVIOUS
<1>6. "prune" \in k.flags => Pruned(k) = Living(stored) \ DOMAIN k.body BY DEF Pruned, Living
<1>7. ASSUME Goes(c, r)
      PROVE  cmd' \in [Clients -> Commands] /\ \A d \in Clients : CommandTrue(stored', cmd'[d])
  <2> HIDE DEF k, pc
  <2>1. r \in Commands BY <1>1, <1>4, <1>5 DEF Commands, CommandSteps
  <2>2. /\ r.pc = pc /\ r.said = k.said /\ r.op = k.op /\ r.flags = k.flags /\ r.body = k.body
        /\ r.doomed = Pruned(k) /\ r.left = k.left /\ r.pushed = k.pushed /\ r.put = k.put
        /\ r.dropped = k.dropped /\ r.released = k.released /\ r.since = {}
    BY <1>1 DEF Commands
  <2> HIDE DEF r
  <2>3. DoneSoFar(r) BY <1>1, <1>5, <2>2 DEF CommandTrue, DoneSoFar, Harmless, NeededOf
  <2>4. WellDone(r) BY <1>1, <2>2 DEF CommandTrue, DoneSoFar, Harmless, WellDone
  <2>5. Foreseen(stored, r) BY <2>2, <1>6 DEF Foreseen
  <2>6. CommandTrue(stored', r) BY <2>3, <2>4, <2>5, <1>3 DEF CommandTrue, Shown
  <2>. QED BY <2>1, <2>6, <1>3, <1>7, OneGoes
<1>8. ASSUME NEW word \in {"no changes", "failed"}, Ends(c, k, word)
      PROVE  cmd' \in [Clients -> Commands] /\ \A d \in Clients : CommandTrue(stored', cmd'[d])
  BY <1>1, <1>3, <1>8, CommandEnds DEF CmdAt, Sayings
<1> HIDE DEF k, r
<1>9. cmd' \in [Clients -> Commands] /\ \A d \in Clients : CommandTrue(stored', cmd'[d])
  BY <1>2, <1>7, <1>8
<1>10. cutoffs' \in 0 .. MaxCutoffs
  <2>1. cutoffs' = cutoffs \/ CutOff BY DEF Diff
  <2>. QED BY <2>1, CutOffTyped DEF ForwardedIInv, ForwardedType
<1>. QED BY <1>9, <1>10 DEF Diff, ForwardedIInv, ForwardedType

LEMMA OperatorAnswers ==
  ASSUME ForwardedIInv, NEW c \in Clients, NEW answer \in {"yes", "no", "no terminal"},
         Answered(c, answer)
  PROVE  ForwardedIInv'
<1> DEFINE k == cmd[c]
           pc == IF k.op = "apply" THEN "push" ELSE "send"
           r == [k EXCEPT !.pc = pc]
<1>1. k = cmd[c] /\ k \in Commands /\ CommandTrue(stored, k) /\ k.pc = "ask"
  BY DEF ForwardedIInv, ForwardedType, Answered, CmdAt
<1>2. stored' = stored BY DEF Answered
<1>3. ASSUME answer = "yes"
      PROVE  cmd' \in [Clients -> Commands] /\ \A d \in Clients : CommandTrue(stored', cmd'[d])
  <2>0. Goes(c, r) BY <1>3 DEF Answered
  <2>. pc \in {"push", "send"} /\ (pc = "push" <=> k.op = "apply") OBVIOUS
  <2> HIDE DEF k, pc
  <2>1. r \in Commands BY <1>1 DEF Commands, CommandSteps
  <2>2. /\ r.pc = pc /\ r.said = k.said /\ r.op = k.op /\ r.flags = k.flags /\ r.body = k.body
        /\ r.doomed = k.doomed /\ r.left = k.left /\ r.pushed = k.pushed /\ r.put = k.put
        /\ r.dropped = k.dropped /\ r.released = k.released /\ r.since = k.since
    BY <1>1 DEF Commands
  <2> HIDE DEF r
  <2>3. DoneSoFar(r) BY <1>1, <2>2 DEF CommandTrue, DoneSoFar, Harmless, NeededOf
  <2>4. WellDone(r) BY <1>1, <2>2 DEF CommandTrue, WellDone
  <2>5. Shown(stored, r) BY <1>1, <2>2 DEF CommandTrue, Shown, Foreseen
  <2>. QED BY <2>0, <2>1, <2>3, <2>4, <2>5, <1>2, OneGoes DEF CommandTrue
<1>4. ASSUME answer # "yes"
      PROVE  cmd' \in [Clients -> Commands] /\ \A d \in Clients : CommandTrue(stored', cmd'[d])
  BY <1>4, <1>1, <1>2, CommandEnds DEF Answered, CmdAt, Sayings
<1> HIDE DEF k, r
<1>5. cmd' \in [Clients -> Commands] /\ \A d \in Clients : CommandTrue(stored', cmd'[d])
  BY <1>3, <1>4
<1>. QED BY <1>5 DEF Answered, ForwardedIInv, ForwardedType

LEMMA PushNextTrue == ASSUME ForwardedIInv, NEW c \in Clients, PushNext(c) PROVE ForwardedIInv'
<1> DEFINE k == cmd[c]
           sends == [k EXCEPT !.pc = "send"]
           pushes(x) == [k EXCEPT !.left = @ \ {x}, !.pushed = @ \cup {x}]
<1>1. k = cmd[c] /\ k \in Commands /\ CommandTrue(stored, k) /\ k.pc = "push"
  BY DEF ForwardedIInv, ForwardedType, PushNext, CmdAt
<1>2. \/ k.left = {} /\ Goes(c, sends)
      \/ \E x \in k.left : Goes(c, pushes(x))
      \/ Ends(c, k, "failed")
  BY DEF PushNext
<1>3. stored' = stored BY DEF PushNext
<1>4. ASSUME k.left = {}, Goes(c, sends)
      PROVE  cmd' \in [Clients -> Commands] /\ \A d \in Clients : CommandTrue(stored', cmd'[d])
  <2> DEFINE r == sends
  <2> HIDE DEF k
  <2>1. r \in Commands BY <1>1 DEF Commands, CommandSteps
  <2>2. /\ r.pc = "send" /\ r.said = k.said /\ r.op = k.op /\ r.flags = k.flags /\ r.body = k.body
        /\ r.doomed = k.doomed /\ r.left = k.left /\ r.pushed = k.pushed /\ r.put = k.put
        /\ r.dropped = k.dropped /\ r.released = k.released /\ r.since = k.since
    BY <1>1 DEF Commands
  <2> HIDE DEF r
  <2>3. DoneSoFar(r) BY <1>1, <1>4, <2>2 DEF CommandTrue, DoneSoFar, Harmless, NeededOf
  <2>4. WellDone(r) BY <1>1, <2>2 DEF CommandTrue, WellDone
  <2>5. Shown(stored, r) BY <1>1, <2>2 DEF CommandTrue, Shown, Foreseen
  <2>6. Goes(c, r) BY <1>4 DEF r
  <2>. QED BY <2>1, <2>3, <2>4, <2>5, <2>6, <1>3, OneGoes DEF CommandTrue
<1>5. ASSUME NEW x \in k.left, Goes(c, pushes(x))
      PROVE  cmd' \in [Clients -> Commands] /\ \A d \in Clients : CommandTrue(stored', cmd'[d])
  <2> DEFINE r == pushes(x)
  <2> HIDE DEF k
  <2>1. r \in Commands BY <1>1 DEF Commands
  <2>2. /\ r.pc = k.pc /\ r.said = k.said /\ r.op = k.op /\ r.flags = k.flags /\ r.body = k.body
        /\ r.doomed = k.doomed /\ r.left = k.left \ {x} /\ r.pushed = k.pushed \cup {x} /\ r.put = k.put
        /\ r.dropped = k.dropped /\ r.released = k.released /\ r.since = k.since
    BY <1>1 DEF Commands
  <2> HIDE DEF r
  <2>3. DoneSoFar(r) BY <1>1, <2>2 DEF CommandTrue, DoneSoFar, Harmless, NeededOf
  <2>4. WellDone(r) BY <1>1, <2>2 DEF CommandTrue, DoneSoFar, Harmless, WellDone
  <2>5. Shown(stored, r) BY <1>1, <2>2 DEF CommandTrue, Shown, Foreseen
  <2>6. Goes(c, r) BY <1>5 DEF r
  <2>. QED BY <2>1, <2>3, <2>4, <2>5, <2>6, <1>3, OneGoes DEF CommandTrue
<1>6. ASSUME Ends(c, k, "failed")
      PROVE  cmd' \in [Clients -> Commands] /\ \A d \in Clients : CommandTrue(stored', cmd'[d])
  BY <1>1, <1>3, <1>6, CommandEnds DEF CmdAt, Sayings
<1>7. current' = [y \in Res |-> current'[y]] BY DEF PushNext, ForwardedIInv, ForwardedType
<1>8. cutoffs' = cutoffs \/ CutOff BY DEF PushNext
<1>9. cutoffs' \in 0 .. MaxCutoffs BY <1>8, CutOffTyped DEF ForwardedIInv, ForwardedType
<1> HIDE DEF k, sends, pushes
<1>10. cmd' \in [Clients -> Commands] /\ \A d \in Clients : CommandTrue(stored', cmd'[d])
  BY <1>2, <1>4, <1>5, <1>6
<1>. QED BY <1>7, <1>9, <1>10 DEF PushNext, ForwardedIInv, ForwardedType

\* The request of an apply, whether its client hears the answer or not.
LEMMA Carried ==
  ASSUME ForwardedIInv, NEW c \in Clients, CmdAt(c, "send"), cmd[c].op = "apply",
         NEW to \in Commands, Carry(c, cmd[c], cmd[c].body, to),
         \/ to = [cmd[c] EXCEPT !.pc = "release", !.left = HookedOf(cmd[c])]
         \/ to = [cmd[c] EXCEPT !.pc = "idle", !.said = "failed"]
  PROVE  /\ cmd' \in [Clients -> Commands] /\ \A d \in Clients : CommandTrue(stored', cmd'[d])
         /\ stored' = [x \in Res |-> stored'[x]]
<1> DEFINE k == cmd[c]
           r == [to EXCEPT !.put = k.body, !.dropped = Pruned(k)]
<1>1. k = cmd[c] /\ k \in Commands /\ CommandTrue(stored, k) /\ k.pc = "send" /\ k.op = "apply"
  BY DEF ForwardedIInv, ForwardedType, CmdAt
<1>2. k.body \in Loaded BY <1>1 DEF Commands
<1>3. Pruned(k) \subseteq k.doomed \cup k.since
  BY <1>1 DEF CommandTrue, Shown, Foreseen, Pruned, Living
<1>4. CommandTrue(stored', r)
  <2>0. /\ DoneSoFar(k) /\ Harmless(k) /\ k.pushed = NeededOf(k) /\ k.body \in Drafts /\ k.said = "none"
    BY <1>1 DEF CommandTrue, DoneSoFar
  <2>1. /\ r.op = k.op /\ r.body = k.body /\ r.doomed = k.doomed /\ r.pushed = k.pushed
        /\ r.released = k.released /\ r.since = k.since
        /\ r.put = k.body /\ r.dropped = Pruned(k)
        /\ \/ r.pc = "release" /\ r.said = k.said /\ r.left = HookedOf(k)
           \/ r.pc = "idle" /\ r.said = "failed"
    BY <1>1 DEF Commands
  <2>2. k.body # <<>> BY <2>0, ForwardedAssumption
  <2> HIDE DEF k, r
  <2>3. DoneSoFar(r) BY <1>1, <2>0, <2>1 DEF DoneSoFar, Harmless, NeededOf, HookedOf
  <2>4. WellDone(r) BY <1>1, <1>3, <2>0, <2>1 DEF WellDone, Harmless, NeededOf
  <2>5. Shown(stored', r) BY <2>1 DEF Shown
  <2>. QED BY <2>3, <2>4, <2>5 DEF CommandTrue
<1>. QED BY <1>2, <1>4, OneCarries

LEMMA SendApplyTrue == ASSUME ForwardedIInv, NEW c \in Clients, SendApply(c) PROVE ForwardedIInv'
<1> DEFINE k == cmd[c]
           goes == [k EXCEPT !.pc = "release", !.left = HookedOf(k)]
           failed == [k EXCEPT !.pc = "idle", !.said = "failed"]
<1>1. k = cmd[c] /\ k \in Commands /\ CommandTrue(stored, k) /\ k.pc = "send" /\ k.op = "apply"
  BY DEF ForwardedIInv, ForwardedType, SendApply, CmdAt
<1>2. \/ Carry(c, k, k.body, goes) \/ Carry(c, k, k.body, failed)
      \/ Ends(c, k, "failed") /\ stored' = stored
  BY DEF SendApply, Ends, HookedOf
<1>3. HookedOf(k) \subseteq Res
  <2>1. k.body \in Loaded BY <1>1 DEF Commands
  <2>. QED BY <2>1, LoadedDomain DEF HookedOf
<1>4. goes \in Commands /\ failed \in Commands
  <2> HIDE DEF k
  <2>. QED BY <1>1, <1>3 DEF Commands, CommandSteps, Sayings
<1>5. stored = [x \in Res |-> stored[x]] BY DEF ForwardedIInv, ForwardedType
<1>6. /\ cmd' \in [Clients -> Commands] /\ \A d \in Clients : CommandTrue(stored', cmd'[d])
      /\ stored' = [x \in Res |-> stored'[x]]
  <2>1. CASE Carry(c, k, k.body, goes) BY <1>1, <1>4, <2>1, Carried DEF CmdAt
  <2>2. CASE Carry(c, k, k.body, failed) BY <1>1, <1>4, <2>2, Carried DEF CmdAt
  <2>3. CASE Ends(c, k, "failed") /\ stored' = stored
    BY <1>1, <1>5, <2>3, CommandEnds DEF CmdAt, Sayings
  <2> HIDE DEF k, goes, failed
  <2>. QED BY <1>2, <2>1, <2>2, <2>3
<1>7. cutoffs' = cutoffs \/ CutOff BY DEF SendApply
<1>8. cutoffs' \in 0 .. MaxCutoffs BY <1>7, CutOffTyped DEF ForwardedIInv, ForwardedType
<1> HIDE DEF k, goes, failed
<1>. QED BY <1>6, <1>8 DEF SendApply, ForwardedIInv, ForwardedType

LEMMA ReleaseNextTrue == ASSUME ForwardedIInv, NEW c \in Clients, ReleaseNext(c) PROVE ForwardedIInv'
<1> DEFINE k == cmd[c]
           releases(x) == [k EXCEPT !.left = @ \ {x}, !.released = @ \cup {x}]
<1>1. k = cmd[c] /\ k \in Commands /\ CommandTrue(stored, k) /\ k.pc = "release"
  BY DEF ForwardedIInv, ForwardedType, ReleaseNext, CmdAt
<1>2. \/ k.left = {} /\ Ends(c, k, "applied")
      \/ \E x \in k.left : Goes(c, releases(x))
      \/ Ends(c, k, "failed")
  BY DEF ReleaseNext
<1>3. stored' = stored BY DEF ReleaseNext
<1>4. ASSUME NEW x \in k.left, Goes(c, releases(x))
      PROVE  cmd' \in [Clients -> Commands] /\ \A d \in Clients : CommandTrue(stored', cmd'[d])
  <2> DEFINE r == releases(x)
  <2> HIDE DEF k
  <2>1. r \in Commands BY <1>1 DEF Commands
  <2>2. /\ r.pc = k.pc /\ r.said = k.said /\ r.op = k.op /\ r.flags = k.flags /\ r.body = k.body
        /\ r.doomed = k.doomed /\ r.left = k.left \ {x} /\ r.pushed = k.pushed /\ r.put = k.put
        /\ r.dropped = k.dropped /\ r.released = k.released \cup {x} /\ r.since = k.since
    BY <1>1 DEF Commands
  <2> HIDE DEF r
  <2>0. k.body # <<>> BY <1>1, ForwardedAssumption DEF CommandTrue, DoneSoFar
  <2>3. DoneSoFar(r) BY <1>1, <2>2 DEF CommandTrue, DoneSoFar, HookedOf
  <2>4. WellDone(r) BY <1>1, <2>0, <2>2 DEF CommandTrue, DoneSoFar, WellDone
  <2>5. Shown(stored, r) BY <1>1, <2>2 DEF CommandTrue, Shown, Foreseen
  <2>6. Goes(c, r) BY <1>4 DEF r
  <2>. QED BY <2>1, <2>3, <2>4, <2>5, <2>6, <1>3, OneGoes DEF CommandTrue
<1>5. ASSUME NEW word \in {"applied", "failed"}, word = "applied" => k.left = {}, Ends(c, k, word)
      PROVE  cmd' \in [Clients -> Commands] /\ \A d \in Clients : CommandTrue(stored', cmd'[d])
  BY <1>1, <1>3, <1>5, CommandEnds DEF CmdAt, Sayings
<1>6. cutoffs' = cutoffs \/ CutOff BY DEF ReleaseNext
<1>7. cutoffs' \in 0 .. MaxCutoffs BY <1>6, CutOffTyped DEF ForwardedIInv, ForwardedType
<1> HIDE DEF k, releases
<1>8. cmd' \in [Clients -> Commands] /\ \A d \in Clients : CommandTrue(stored', cmd'[d])
  BY <1>2, <1>4, <1>5
<1>. QED BY <1>7, <1>8 DEF ReleaseNext, ForwardedIInv, ForwardedType

LEMMA SendDeleteTrue == ASSUME ForwardedIInv, NEW c \in Clients, SendDelete(c) PROVE ForwardedIInv'
<1> DEFINE k == cmd[c]
           drops(x) == [k EXCEPT !.dropped = @ \cup {x}]
<1>1. k = cmd[c] /\ k \in Commands /\ CommandTrue(stored, k) /\ k.pc = "send" /\ k.op = "delete"
  BY DEF ForwardedIInv, ForwardedType, SendDelete, CmdAt
<1>2. \/ Ends(c, k, "deleted") /\ stored' = stored
      \/ \E x \in DOMAIN k.body \ k.dropped : stored' = [stored EXCEPT ![x] = Absent] /\ Goes(c, drops(x))
      \/ Ends(c, k, "failed") /\ stored' = stored
  BY DEF SendDelete
<1>3. DOMAIN k.body \subseteq Res
  <2>1. k.body \in Loaded BY <1>1 DEF Commands
  <2>. QED BY <2>1, LoadedDomain
<1>4. stored = [y \in Res |-> stored[y]] BY DEF ForwardedIInv, ForwardedType
<1>5. ASSUME NEW x \in DOMAIN k.body \ k.dropped, stored' = [stored EXCEPT ![x] = Absent], Goes(c, drops(x))
      PROVE  /\ cmd' \in [Clients -> Commands] /\ \A d \in Clients : CommandTrue(stored', cmd'[d])
             /\ stored' = [y \in Res |-> stored'[y]]
  <2> DEFINE r == drops(x)
  <2> HIDE DEF k
  <2>1. r \in Commands BY <1>1, <1>3 DEF Commands
  <2>2. /\ r.pc = k.pc /\ r.said = k.said /\ r.op = k.op /\ r.flags = k.flags /\ r.body = k.body
        /\ r.doomed = k.doomed /\ r.left = k.left /\ r.pushed = k.pushed /\ r.put = k.put
        /\ r.dropped = k.dropped \cup {x} /\ r.released = k.released /\ r.since = k.since
    BY <1>1 DEF Commands
  <2> HIDE DEF r
  <2>3. DoneSoFar(r) BY <1>1, <2>2 DEF CommandTrue, DoneSoFar
  <2>4. WellDone(r) BY <1>1, <2>2 DEF CommandTrue, DoneSoFar, WellDone
  <2>5. Shown(stored', r) BY <1>1, <2>2 DEF Shown
  <2>6. Goes(c, r) BY <1>5 DEF r
  <2>7. \A y \in Res : stored[y] = Absent => stored'[y] = Absent BY <1>4, <1>5
  <2>8. stored' = [y \in Res |-> stored'[y]] BY <1>4, <1>5
  <2>. QED BY <2>1, <2>3, <2>4, <2>5, <2>6, <2>7, <2>8, OneGoes DEF CommandTrue
<1>6. ASSUME NEW word \in {"deleted", "failed"}, Ends(c, k, word), stored' = stored
      PROVE  /\ cmd' \in [Clients -> Commands] /\ \A d \in Clients : CommandTrue(stored', cmd'[d])
             /\ stored' = [y \in Res |-> stored'[y]]
  BY <1>1, <1>4, <1>6, CommandEnds DEF CmdAt, Sayings
<1>7. cutoffs' = cutoffs \/ CutOff BY DEF SendDelete
<1>8. cutoffs' \in 0 .. MaxCutoffs BY <1>7, CutOffTyped DEF ForwardedIInv, ForwardedType
<1> HIDE DEF k, drops
<1>9. /\ cmd' \in [Clients -> Commands] /\ \A d \in Clients : CommandTrue(stored', cmd'[d])
      /\ stored' = [y \in Res |-> stored'[y]]
  BY <1>2, <1>5, <1>6
<1>. QED BY <1>8, <1>9 DEF SendDelete, ForwardedIInv, ForwardedType

LEMMA ForwardedStarts == ForwardedInit => ForwardedIInv
<1> SUFFICES ASSUME ForwardedInit PROVE ForwardedIInv OBVIOUS
<1>1. NoCmd \in Commands BY DEF NoCmd, Commands, CommandSteps, Sayings, Loaded
<1>2. CommandTrue(stored, NoCmd) BY DEF NoCmd, CommandTrue, DoneSoFar, WellDone, Shown
<1>3. cmd \in [Clients -> Commands] /\ \A c \in Clients : cmd[c] = NoCmd BY <1>1 DEF ForwardedInit
<1>4. ForwardedType BY <1>3, ForwardedAssumption DEF ForwardedInit, ForwardedType
<1>. QED BY <1>2, <1>3, <1>4 DEF ForwardedIInv

LEMMA ForwardedStep == ForwardedIInv /\ [ForwardedNext]_forwardedVars => ForwardedIInv'
BY EditFilesTrue, CommandStarts, OperatorAnswers, ProbeTrue, DiffTrue, PushNextTrue, SendApplyTrue,
   ReleaseNextTrue, SendDeleteTrue DEF forwardedVars, ForwardedIInv, ForwardedType, ForwardedNext

LEMMA ForwardedInvariant == ForwardedSpec => []ForwardedIInv
BY ForwardedStarts, ForwardedStep, PTL DEF ForwardedSpec

\* Every variable has its type, in every reachable state: commands, files and store.
THEOREM ForwardedTypeCorrect == ForwardedSpec => []ForwardedType
<1>1. ForwardedIInv => ForwardedType BY DEF ForwardedIInv
<1>. QED BY <1>1, ForwardedInvariant, PTL

\* Whatever other clients put meanwhile, whatever becomes of a client's files and
\* whichever session breaks: an apply or a delete sent to a host says only what it has
\* done, puts what it loaded after pushing all of it that is built, and deletes
\* nothing that neither its plan nor another client's put accounts for.
THEOREM ForwardedCorrect == ForwardedSpec => []SaidAndDone
<1>1. ForwardedIInv => SaidAndDone
  BY DEF ForwardedIInv, CommandTrue, WellDone, SaidAndDone
<1>. QED BY <1>1, ForwardedInvariant, PTL

-----------------------------------------------------------------------------
(* Ingress. The argument: a route that is not the replicas that run has        *)
(* somebody on the way to publish it, or an event that will; a route without   *)
(* its ingress has its delete on the way. A worker that retires a replica has  *)
(* published another; whoever scales down found every replica in the route, or *)
(* is crossed by another.                                                      *)

FleetTasks == {"deployment", "restart"}
WorkerRecords ==
  [pc : {"rest", "asleep", "outcome", "fleet", "fleetEnd", "retire", "resolve", "invoke", "note", "unroute"},
   task : {"none", "ingress"} \cup FleetTasks, try : Nat, ups : SUBSET Names, todo : SUBSET Names,
   size : Nat, then : {"end", "retire", "clean", "broken"}]
Events == [kind : {"route", "unroute"}, size : {0}] \cup [kind : {"scale", "roll"}, size : Nat \ {0}]

\* A worker's record is one the code could be in.
Sound(w, r) ==
  /\ r.pc = "unroute" => w = "loop"
  /\ r.pc \in {"fleet", "fleetEnd", "retire"} \/ r.then = "retire" => r.task \in FleetTasks
  /\ r.task = "deployment" /\ r.pc \notin {"rest", "asleep", "outcome"} => r.size > 0
  /\ r.pc = "retire" => r.then = "retire"
  /\ r.pc \in {"rest", "asleep"} => r.todo = {}
  /\ r.pc \in {"rest", "asleep", "outcome"} => r.then # "retire"
  /\ r.pc = "outcome" => r.then \in {"clean", "broken"}
  /\ r.pc # "rest" => r.task # "none"

IngressType ==
  /\ declared \in BOOLEAN /\ want \in Nat /\ queue \in Seq(Events)
  /\ up \subseteq Names /\ IsFiniteSet(up) /\ route \subseteq Names
  /\ status \in {"none", "clean", "broken"}
  /\ worker \in [Workers -> WorkerRecords] /\ \A w \in Workers : Sound(w, worker[w])
  /\ orders \in 0 .. MaxOrders /\ failures \in 0 .. MaxFailures
  /\ misled \in BOOLEAN /\ crossed \in BOOLEAN

\* Replicas come of a deployment.
NoneWanted ==
  want = 0 => /\ up = {} /\ \A w \in Workers : worker[w].task \notin FleetTasks
              /\ \A i \in DOMAIN queue : queue[i].kind \in {"route", "unroute"}

Routing == \E i \in DOMAIN queue : queue[i].kind = "route"
\* A delete that is behind an ingress that is there has the put after it.
PutLast ==
  declared => /\ Doing("loop", "unroute") => Routing
              /\ \A i \in DOMAIN queue : queue[i].kind = "unroute" =>
                   \E j \in DOMAIN queue : j > i /\ queue[j].kind = "route"

\* Somebody will publish the route.
Publishing == Routing \/ \E w \in Workers : worker[w].pc \in {"fleet", "retire", "resolve", "invoke"}

NoteDue == status = "none" /\ route # {} => \E w \in Workers : Doing(w, "note")
RouteDue == ~misled /\ declared /\ up # {} /\ route # up => Publishing
DeleteDue == ~misled /\ ~declared /\ route # {} => Unrouting

Undisturbed == ~misled /\ ~crossed /\ ~Unrouting /\ route # {}
\* A worker on the way to retire has another replica, and past the publish it is routed to.
Replaced(w) ==
  worker[w].then = "retire" =>
    /\ ~crossed /\ worker[w].pc \in {"resolve", "invoke", "note", "retire"} =>
         up \ worker[w].todo # {}
    /\ Undisturbed /\ worker[w].pc \in {"note", "retire"} => route \cap (up \ worker[w].todo) # {}
Current(w) == ~crossed /\ worker[w].task \in FleetTasks => worker[w].todo \subseteq up
\* w has added a replica and not published it yet.
Adding(w) ==
  \/ worker[w].pc = "fleet" /\ worker[w].task = "deployment" /\ Cardinality(up) <= worker[w].size
  \/ worker[w].pc \in {"resolve", "invoke"} /\ worker[w].task \in FleetTasks
AllRouted == Undisturbed => up \subseteq route \/ \E w \in Workers : Adding(w)

IngressIInv ==
  /\ IngressType /\ NoneWanted /\ PutLast /\ NoteDue /\ RouteDue /\ DeleteDue
  /\ \A w \in Workers : Replaced(w) /\ Current(w)
  /\ AllRouted /\ RollKeepsRoute

\* What a goroutine is left with when its task ends: k is what it had.
TaskEnded(k, r) ==
  /\ r.pc \in {"rest", "asleep", "outcome"} /\ r.then \in {"end", "clean", "broken"}
  /\ r.task \in {"none", k.task} /\ r.todo \subseteq k.todo
  /\ r.pc \in {"rest", "asleep"} => r.todo = {}
  /\ r.pc = "outcome" => r.then \in {"clean", "broken"}
  /\ r.pc # "rest" => r.task # "none"

\* w's record changes; of the others at most one at rest is put to sleep for a retry.
Moves(w) ==
  /\ worker' \in [Workers -> WorkerRecords]
  /\ \A v \in Workers \ {w} :
       \/ worker'[v] = worker[v]
       \/ worker[v].pc = "rest" /\ TaskEnded(worker[w], worker'[v]) /\ worker'[v].todo = {}

LEMMA WorkerFields ==
  ASSUME NEW k \in WorkerRecords
  PROVE  /\ k.pc \in {"rest", "asleep", "outcome", "fleet", "fleetEnd", "retire", "resolve", "invoke", "note",
                      "unroute"}
         /\ k.task \in {"none", "ingress", "deployment", "restart"} /\ k.try \in Nat /\ k.ups \subseteq Names
         /\ k.todo \subseteq Names /\ k.size \in Nat /\ k.then \in {"end", "retire", "clean", "broken"}
BY DEF WorkerRecords, FleetTasks

LEMMA RestTyped ==
  /\ Rest \in WorkerRecords /\ Rest.pc = "rest" /\ Rest.task = "none" /\ Rest.then = "end" /\ Rest.todo = {}
  /\ Rest.try = 1 /\ Rest.ups = {} /\ Rest.size = 0
BY DEF Rest, WorkerRecords

LEMMA Stepped ==
  ASSUME worker \in [Workers -> WorkerRecords], NEW w \in Workers, NEW r \in WorkerRecords, Step(w, r)
  PROVE  Moves(w) /\ worker'[w] = r /\ \A v \in Workers \ {w} : worker'[v] = worker[v]
BY DEF Step, Moves

LEMMA EndEffect ==
  ASSUME IngressType, NEW w \in Workers, NEW res \in {"ok", "transient", "failed"}, End(w, res),
         worker[w].pc # "rest"
  PROVE  /\ Moves(w) /\ TaskEnded(worker[w], worker'[w])
         /\ worker[w].task \in FleetTasks /\ worker'[w].then = "clean" => res = "ok"
<1> DEFINE me == worker[w]
           again == [Rest EXCEPT !.pc = "asleep", !.task = me.task, !.try = me.try + 1]
           over == [me EXCEPT !.pc = "outcome", !.then = IF res = "ok" THEN "clean" ELSE "broken"]
<1>1. worker \in [Workers -> WorkerRecords] /\ me \in WorkerRecords /\ me.task # "none"
  BY DEF IngressType, Sound
<1>2. again \in WorkerRecords /\ TaskEnded(me, again) /\ again.todo = {} /\ again.then = "end"
  <2>1. me.task \in {"none", "ingress", "deployment", "restart"} /\ me.try + 1 \in Nat
    BY <1>1, WorkerFields
  <2> DEFINE t == me.task
             n == me.try + 1
  <2>0. t \in {"none", "ingress", "deployment", "restart"} /\ n \in Nat BY <2>1
  <2>a. again = [Rest EXCEPT !.pc = "asleep", !.task = t, !.try = n] OBVIOUS
  <2>b. {} \subseteq me.todo /\ t # "none" /\ me.task = t BY <1>1
  <2> HIDE DEF t, n, again, me
  <2>2. /\ again \in WorkerRecords /\ again.pc = "asleep" /\ again.task = t
        /\ again.todo = {} /\ again.then = "end"
    BY <2>0, <2>a, RestTyped DEF WorkerRecords, FleetTasks
  <2>. QED BY <2>2, <2>b DEF TaskEnded
<1>3. over \in WorkerRecords /\ TaskEnded(me, over) /\ (over.then = "clean" => res = "ok")
  BY <1>1, WorkerFields DEF WorkerRecords, TaskEnded, FleetTasks
<1>4. TaskEnded(me, Rest) BY <1>1, WorkerFields, RestTyped DEF TaskEnded
<1>5. CASE Step(w, Rest) BY <1>1, <1>4, <1>5, RestTyped, Stepped
<1>6. CASE Step(w, again) BY <1>1, <1>2, <1>6, Stepped
<1>7. CASE Step(w, over) BY <1>1, <1>3, <1>7, Stepped
<1>8. ASSUME NEW r \in Retriers, Doing(r, "rest"), worker' = [worker EXCEPT ![w] = Rest, ![r] = again],
             w \notin Retriers
      PROVE  /\ Moves(w) /\ TaskEnded(worker[w], worker'[w])
             /\ worker[w].task \in FleetTasks /\ worker'[w].then = "clean" => res = "ok"
  <2>1. r \in Workers /\ r # w BY <1>8 DEF Workers
  <2>2. worker'[w] = Rest /\ worker'[r] = again /\ \A v \in Workers \ {w, r} : worker'[v] = worker[v]
    BY <1>1, <1>8, <2>1
  <2>3. worker' \in [Workers -> WorkerRecords] BY <1>1, <1>2, <1>8, <2>1, RestTyped
  <2>4. worker[r].pc = "rest" BY <1>8 DEF Doing
  <2> HIDE DEF again, over
  <2>5. \A v \in Workers \ {w} :
          \/ worker'[v] = worker[v]
          \/ worker[v].pc = "rest" /\ TaskEnded(worker[w], worker'[v]) /\ worker'[v].todo = {}
    BY <1>2, <2>1, <2>2, <2>4
  <2>6. Moves(w) BY <2>3, <2>5 DEF Moves
  <2>7. Rest.then = "end" BY RestTyped
  <2>. QED BY <1>4, <2>2, <2>6, <2>7
<1> HIDE DEF again, over
<1>. QED BY <1>5, <1>6, <1>7, <1>8 DEF End, again, over

\* The others keep what the invariant says of one worker, but for what it says of the replicas.
LEMMA OthersSound ==
  ASSUME IngressType, NEW w \in Workers, Moves(w), NEW v \in Workers \ {w}
  PROVE  /\ Sound(v, worker'[v]) /\ (worker[v].pc # "rest" => worker'[v] = worker[v])
         /\ worker'[v].task \in FleetTasks => worker[v].task \in FleetTasks \/ worker[w].task \in FleetTasks
         /\ worker'[v].then = "retire" => worker'[v] = worker[v]
         /\ \/ worker'[v] = worker[v]
            \/ worker'[v].todo = {} /\ worker'[v].pc \in {"rest", "asleep", "outcome"}
BY DEF IngressType, TaskEnded, Sound, FleetTasks, Moves

LEMMA TypeKept ==
  ASSUME IngressType, NEW w \in Workers, Moves(w), Sound(w, worker'[w])
  PROVE  worker' \in [Workers -> WorkerRecords] /\ \A v \in Workers : Sound(v, worker'[v])
BY OthersSound DEF Moves

\* What is said of replicas survives a step that leaves them alone.
LEMMA Calm ==
  ASSUME IngressIInv, NEW w \in Workers, Moves(w), up' = up, crossed' = crossed,
         Undisturbed' => Undisturbed /\ route' = route, Replaced(w)', Current(w)',
         Undisturbed' /\ Adding(w) => Adding(w)' \/ up \subseteq route
  PROVE  (\A v \in Workers : Replaced(v)' /\ Current(v)') /\ AllRouted' /\ RollKeepsRoute'
<1>1. ASSUME NEW v \in Workers \ {w} PROVE Replaced(v)' /\ Current(v)'
  BY OthersSound DEF IngressIInv, Replaced, Current
<1>2. AllRouted'
  <2> SUFFICES ASSUME Undisturbed', ~(up \subseteq route) PROVE \E v \in Workers : Adding(v)'
    BY DEF AllRouted
  <2>1. PICK v \in Workers : Adding(v) BY DEF IngressIInv, AllRouted
  <2>2. CASE v = w BY <2>1, <2>2
  <2>3. CASE v # w
    BY <2>1, <2>3, OthersSound DEF Adding, IngressIInv
  <2>. QED BY <2>2, <2>3
<1>3. RollKeepsRoute' BY DEF RollKeepsRoute, Undisturbed, IngressIInv
<1>. QED BY <1>1, <1>2, <1>3

LEMMA QueueAppended ==
  ASSUME IngressType, NEW e \in Events, queue' = Append(queue, e)
  PROVE  /\ queue' \in Seq(Events) /\ Len(queue) + 1 \in DOMAIN queue' /\ queue'[Len(queue) + 1] = e
         /\ \A i \in DOMAIN queue : i \in DOMAIN queue' /\ queue'[i] = queue[i] /\ i < Len(queue) + 1
         /\ \A i \in DOMAIN queue' : i \in DOMAIN queue \/ i = Len(queue) + 1
BY DEF IngressType

LEMMA Taken ==
  ASSUME IngressType, queue # <<>>, queue' = Tail(queue)
  PROVE  /\ queue' \in Seq(Events) /\ 1 \in DOMAIN queue /\ queue[1] \in Events /\ Head(queue) = queue[1]
         /\ \A i \in DOMAIN queue' : i + 1 \in DOMAIN queue /\ queue'[i] = queue[i + 1] /\ i \in Nat \ {0}
         /\ \A i \in DOMAIN queue : i = 1 \/ (i - 1 \in DOMAIN queue' /\ queue'[i - 1] = queue[i])
         /\ \A i \in DOMAIN queue : i \in Nat \ {0}
<1>1. queue \in Seq(Events) /\ Len(queue) \in Nat /\ DOMAIN queue = 1 .. Len(queue) BY DEF IngressType
<1>2. Len(queue) # 0 BY <1>1
<1>3. /\ queue' \in Seq(Events) /\ Len(queue') = Len(queue) - 1 /\ DOMAIN queue' = 1 .. Len(queue) - 1
      /\ \A i \in 1 .. Len(queue) - 1 : queue'[i] = queue[i + 1]
  BY <1>1, <1>2
<1>4. 1 \in DOMAIN queue /\ queue[1] \in Events /\ Head(queue) = queue[1] BY <1>1, <1>2
<1>5. \A i \in DOMAIN queue : i \in Nat \ {0} BY <1>1
<1>6. \A i \in DOMAIN queue : i = 1 \/ (i - 1 \in DOMAIN queue' /\ queue'[i - 1] = queue[i])
  <2> TAKE i \in DOMAIN queue
  <2> SUFFICES ASSUME i # 1 PROVE i - 1 \in DOMAIN queue' /\ queue'[i - 1] = queue[i] OBVIOUS
  <2>1. i - 1 \in 1 .. Len(queue) - 1 /\ (i - 1) + 1 = i BY <1>1
  <2>. QED BY <1>3, <2>1
<1>7. \A i \in DOMAIN queue' : i + 1 \in DOMAIN queue /\ queue'[i] = queue[i + 1] /\ i \in Nat \ {0}
  BY <1>1, <1>3
<1>. QED BY <1>3, <1>4, <1>5, <1>6, <1>7

LEMMA EventFields ==
  ASSUME NEW e \in Events
  PROVE  /\ e.kind \in {"route", "unroute", "scale", "roll"} /\ e.size \in Nat
         /\ e.kind \notin {"route", "unroute"} => e.size > 0
BY DEF Events

LEMMA EventsAre ==
  /\ Event("route", 0) \in Events /\ Event("route", 0).kind = "route"
  /\ Event("unroute", 0) \in Events /\ Event("unroute", 0).kind = "unroute"
  /\ \A f \in Fleets : f \in Events /\ f.kind \in {"scale", "roll"} /\ f.size \in Nat \ {0}
BY IngressAssumption DEF Event, Events

\* Nobody moves and nothing is taken off the queue.
LEMMA StillCalm ==
  ASSUME IngressIInv, worker' = worker, up' = up, route' = route, crossed' = crossed, misled' = misled,
         Unrouting => Unrouting'
  PROVE  (\A v \in Workers : Replaced(v)' /\ Current(v)') /\ AllRouted' /\ RollKeepsRoute'
BY Calm DEF Workers, Moves, IngressIInv, IngressType, Undisturbed, Replaced, Current, Adding

LEMMA OrderTrue ==
  ASSUME IngressIInv, NEW e \in Events, Order(e), declared' \in BOOLEAN, want' \in Nat,
         \/ declared' = TRUE /\ e.kind = "route" /\ want' = want
         \/ declared' = FALSE /\ e.kind = "unroute" /\ want' = want
         \/ declared' = declared /\ e.kind \in {"scale", "roll"} /\ want' # 0
  PROVE  IngressIInv'
<1>0. IngressType BY DEF IngressIInv
<1>1. /\ queue' = Append(queue, e) /\ orders' \in 0 .. MaxOrders
      /\ UNCHANGED <<up, route, status, worker, failures, misled, crossed>>
  BY <1>0, IngressAssumption DEF Order, IngressType
<1>2. /\ queue' \in Seq(Events) /\ Len(queue) + 1 \in DOMAIN queue' /\ queue'[Len(queue) + 1] = e
      /\ \A i \in DOMAIN queue : i \in DOMAIN queue' /\ queue'[i] = queue[i] /\ i < Len(queue) + 1
      /\ \A i \in DOMAIN queue' : i \in DOMAIN queue \/ i = Len(queue) + 1
  BY <1>0, <1>1, QueueAppended
<1>3. Routing => Routing' BY <1>2 DEF Routing
<1>4. Unrouting => Unrouting' BY <1>1, <1>2 DEF Unrouting, Doing
<1>5. IngressType' BY <1>0, <1>1, <1>2 DEF IngressType, Sound
<1>6. NoneWanted' BY <1>1, <1>2 DEF NoneWanted, IngressIInv
<1>7. PutLast'
  <2>1. CASE e.kind = "route"
    BY <1>2, <2>1, <1>0 DEF Routing, IngressType, PutLast
  <2>2. CASE e.kind \in {"scale", "roll"} /\ declared' = declared
    <3>1. PutLast BY DEF IngressIInv
    <3>2. ASSUME declared, NEW i \in DOMAIN queue', queue'[i].kind = "unroute"
          PROVE  \E j \in DOMAIN queue' : j > i /\ queue'[j].kind = "route"
      BY <1>2, <2>2, <3>2, <3>1 DEF PutLast
    <3>3. Doing("loop", "unroute")' <=> Doing("loop", "unroute") BY <1>1 DEF Doing
    <3>. QED BY <1>3, <2>2, <3>1, <3>2, <3>3 DEF PutLast
  <2>. QED BY <2>1, <2>2 DEF PutLast
<1>8. NoteDue' BY <1>1 DEF NoteDue, IngressIInv, Doing
<1>9. Publishing => Publishing' BY <1>1, <1>3 DEF Publishing
<1>10. e.kind = "route" => Publishing' BY <1>2 DEF Publishing, Routing
<1>11. RouteDue' BY <1>1, <1>9, <1>10 DEF RouteDue, IngressIInv
<1>12. e.kind = "unroute" => Unrouting' BY <1>2 DEF Unrouting
<1>13. DeleteDue' BY <1>1, <1>4, <1>12 DEF DeleteDue, IngressIInv
<1>14. (\A v \in Workers : Replaced(v)' /\ Current(v)') /\ AllRouted' /\ RollKeepsRoute'
  BY <1>1, <1>4, StillCalm
<1>. QED BY <1>5, <1>6, <1>7, <1>8, <1>11, <1>13, <1>14 DEF IngressIInv

LEMMA OperatorsTrue ==
  ASSUME IngressIInv, PutIngress \/ DropIngress \/ \E f \in Fleets : PutDeployment(f)
  PROVE  IngressIInv'
BY EventsAre, OrderTrue DEF IngressIInv, IngressType, PutIngress, DropIngress, PutDeployment

LEMMA AskRestartTrue == ASSUME IngressIInv, AskRestart PROVE IngressIInv'
<1> DEFINE r == [Rest EXCEPT !.pc = "fleet", !.task = "restart", !.todo = up]
<1>0. IngressType BY DEF IngressIInv
<1>1. /\ want > 0 /\ worker["restart"].pc = "rest" /\ orders' \in 0 .. MaxOrders /\ Step("restart", r)
      /\ UNCHANGED <<declared, want, queue, up, route, status, failures, misled, crossed>>
  BY <1>0, IngressAssumption DEF AskRestart, Doing, IngressType
<1>2. "restart" \in Workers /\ worker \in [Workers -> WorkerRecords] /\ up \subseteq Names
  BY <1>0 DEF Workers, IngressType
<1>3. /\ r \in WorkerRecords /\ r.pc = "fleet" /\ r.task = "restart" /\ r.todo = up /\ r.then = "end"
  BY <1>2, RestTyped DEF WorkerRecords, FleetTasks
<1> HIDE DEF r
<1>4. /\ Moves("restart") /\ worker'["restart"] = r
      /\ \A v \in Workers \ {"restart"} : worker'[v] = worker[v]
  BY <1>1, <1>2, <1>3, Stepped
<1>5. Sound("restart", r) BY <1>3 DEF Sound, FleetTasks
<1>6. worker' \in [Workers -> WorkerRecords] /\ \A v \in Workers : Sound(v, worker'[v])
  BY <1>0, <1>2, <1>4, <1>5, TypeKept
<1>7. IngressType' BY <1>0, <1>1, <1>6 DEF IngressType
<1>8. NoneWanted' BY <1>0, <1>1 DEF NoneWanted, IngressType
<1>9. Doing("loop", "unroute")' <=> Doing("loop", "unroute") BY <1>4 DEF Doing, Workers
<1>10. PutLast' BY <1>1, <1>9 DEF PutLast, IngressIInv, Routing
<1>11. \A v \in Workers : Doing(v, "note") => Doing(v, "note")' BY <1>1, <1>4 DEF Doing
<1>12. NoteDue' BY <1>1, <1>11 DEF NoteDue, IngressIInv
<1>13. RouteDue' BY <1>2, <1>3, <1>4 DEF RouteDue, Publishing
<1>14. Unrouting' <=> Unrouting BY <1>1, <1>9 DEF Unrouting
<1>15. DeleteDue' BY <1>1, <1>14 DEF DeleteDue, IngressIInv
<1>16. Replaced("restart")' /\ Current("restart")' BY <1>1, <1>3, <1>4 DEF Replaced, Current
<1>17. ~Adding("restart") BY <1>1 DEF Adding
<1>18. Undisturbed' => Undisturbed BY <1>1, <1>14 DEF Undisturbed
<1>19. (\A v \in Workers : Replaced(v)' /\ Current(v)') /\ AllRouted' /\ RollKeepsRoute'
  BY <1>1, <1>2, <1>4, <1>16, <1>17, <1>18, Calm
<1>. QED BY <1>7, <1>8, <1>10, <1>12, <1>13, <1>15, <1>19 DEF IngressIInv

LEMMA TakeEventTrue == ASSUME IngressIInv, TakeEvent PROVE IngressIInv'
<1> DEFINE ev == queue[1]
           r == CASE ev.kind = "route" -> [Rest EXCEPT !.pc = "resolve", !.task = "ingress"]
                  [] ev.kind = "unroute" -> [Rest EXCEPT !.pc = "unroute", !.task = "ingress"]
                  [] OTHER -> [Rest EXCEPT !.pc = "fleet", !.task = "deployment", !.size = ev.size,
                                           !.todo = IF ev.kind = "roll" THEN up ELSE {}]
<1>0. IngressType BY DEF IngressIInv
<1>1. /\ queue # <<>> /\ queue' = Tail(queue) /\ worker["loop"].pc = "rest" /\ Head(queue) = queue[1]
      /\ UNCHANGED <<declared, want, up, route, status, orders, failures, misled, crossed>>
  BY <1>0, Taken DEF TakeEvent, Doing
<1>2. /\ queue' \in Seq(Events) /\ 1 \in DOMAIN queue /\ ev \in Events
      /\ \A i \in DOMAIN queue' : i + 1 \in DOMAIN queue /\ queue'[i] = queue[i + 1] /\ i \in Nat \ {0}
      /\ \A i \in DOMAIN queue : i = 1 \/ (i - 1 \in DOMAIN queue' /\ queue'[i - 1] = queue[i])
      /\ \A i \in DOMAIN queue : i \in Nat \ {0}
  BY <1>0, <1>1, Taken
<1>3. Step("loop", r) BY <1>1 DEF TakeEvent
<1>4. ev.kind \in {"route", "unroute", "scale", "roll"} /\ ev.size \in Nat
      /\ (ev.kind \notin {"route", "unroute"} => ev.size > 0)
  BY <1>2, EventFields
<1>5. up \subseteq Names /\ "loop" \in Workers /\ worker \in [Workers -> WorkerRecords]
  BY <1>0 DEF IngressType, Workers
<1> HIDE DEF ev
<1>6. /\ r \in WorkerRecords /\ r.then = "end" /\ r.todo \subseteq up
      /\ ev.kind = "route" => r.pc = "resolve" /\ r.task = "ingress"
      /\ ev.kind = "unroute" => r.pc = "unroute" /\ r.task = "ingress"
      /\ ev.kind \in {"scale", "roll"} => r.pc = "fleet" /\ r.task = "deployment" /\ r.size > 0
  BY RestTyped, <1>4, <1>5 DEF WorkerRecords, FleetTasks
<1> HIDE DEF r
<1>7. /\ Moves("loop") /\ worker'["loop"] = r
      /\ \A v \in Workers \ {"loop"} : worker'[v] = worker[v]
  BY <1>3, <1>5, <1>6, Stepped
<1>8. Sound("loop", r) BY <1>4, <1>6 DEF Sound, FleetTasks
<1>9. worker' \in [Workers -> WorkerRecords] /\ \A v \in Workers : Sound(v, worker'[v])
  BY <1>0, <1>5, <1>7, <1>8, TypeKept
<1>10. IngressType' BY <1>0, <1>1, <1>2, <1>9 DEF IngressType
<1>11. NoneWanted'
  BY <1>1, <1>2, <1>6, <1>7 DEF NoneWanted, IngressIInv, ev, FleetTasks
<1>12. PutLast'
  <2> SUFFICES ASSUME declared'
               PROVE  /\ Doing("loop", "unroute")' => Routing'
                      /\ \A i \in DOMAIN queue' : queue'[i].kind = "unroute" =>
                           \E j \in DOMAIN queue' : j > i /\ queue'[j].kind = "route"
    BY DEF PutLast
  <2>1. \A i \in DOMAIN queue : queue[i].kind = "unroute" =>
          \E j \in DOMAIN queue : j > i /\ queue[j].kind = "route"
    BY <1>1 DEF PutLast, IngressIInv
  <2>2. ASSUME NEW i \in DOMAIN queue, queue[i].kind = "unroute"
        PROVE  \E j \in DOMAIN queue' : j > i - 1 /\ queue'[j].kind = "route"
    <3>1. PICK j \in DOMAIN queue : j > i /\ queue[j].kind = "route" BY <2>1, <2>2
    <3>2. j # 1 /\ j - 1 > i - 1 BY <1>2, <3>1
    <3>. QED BY <1>2, <3>1, <3>2
  <2>3. Doing("loop", "unroute")' => Routing'
    BY <1>4, <1>6, <1>7, <1>2, <2>2 DEF Doing, Routing, ev
  <2>4. ASSUME NEW i \in DOMAIN queue', queue'[i].kind = "unroute"
        PROVE  \E j \in DOMAIN queue' : j > i /\ queue'[j].kind = "route"
    BY <1>2, <2>4, <2>2
  <2>. QED BY <2>3, <2>4
<1>13. NoteDue'
  BY <1>1, <1>7 DEF Doing, NoteDue, IngressIInv
<1>14. Publishing => Publishing'
  <2>1. ASSUME Routing PROVE Publishing'
    BY <2>1, <1>5, <1>6, <1>7, <1>2 DEF Routing, Publishing, ev
  <2>2. ASSUME NEW v \in Workers, worker[v].pc \in {"fleet", "retire", "resolve", "invoke"} PROVE Publishing'
    BY <1>1, <1>7, <2>2 DEF Publishing
  <2>. QED BY <2>1, <2>2 DEF Publishing
<1>15. RouteDue' BY <1>1, <1>14 DEF RouteDue, IngressIInv
<1>16. Unrouting => Unrouting'
  <2>1. ~Doing("loop", "unroute") BY <1>1 DEF Doing
  <2>2. ASSUME NEW i \in DOMAIN queue, queue[i].kind = "unroute" PROVE Unrouting'
    BY <1>6, <1>7, <2>2, <1>2 DEF Unrouting, Doing, ev
  <2>. QED BY <2>1, <2>2 DEF Unrouting
<1>17. DeleteDue' BY <1>1, <1>16 DEF DeleteDue, IngressIInv
<1>18. Replaced("loop")' /\ Current("loop")' BY <1>1, <1>6, <1>7 DEF Replaced, Current
<1>19. ~Adding("loop") BY <1>1 DEF Adding
<1>20. Undisturbed' => Undisturbed BY <1>1, <1>16 DEF Undisturbed
<1>21. (\A v \in Workers : Replaced(v)' /\ Current(v)') /\ AllRouted' /\ RollKeepsRoute'
  BY <1>1, <1>5, <1>7, <1>18, <1>19, <1>20, Calm
<1>. QED BY <1>10, <1>11, <1>12, <1>13, <1>15, <1>17, <1>21 DEF IngressIInv

LEMMA StepTyped ==
  ASSUME NEW k \in WorkerRecords,
         NEW p \in {"rest", "asleep", "outcome", "fleet", "fleetEnd", "retire", "resolve", "invoke", "note"}
  PROVE  /\ [k EXCEPT !.pc = p] \in WorkerRecords /\ [k EXCEPT !.pc = p].pc = p
         /\ [k EXCEPT !.pc = p].task = k.task /\ [k EXCEPT !.pc = p].then = k.then
         /\ [k EXCEPT !.pc = p].todo = k.todo /\ [k EXCEPT !.pc = p].ups = k.ups
         /\ [k EXCEPT !.pc = p].size = k.size
BY DEF WorkerRecords

Publisher(r) == r.pc \in {"fleet", "retire", "resolve", "invoke"}

\* A step that moves a worker on and leaves route and replicas as they are.
LEMMA WorkerMoves ==
  ASSUME IngressIInv, NEW w \in Workers, Moves(w), Sound(w, worker'[w]),
         worker'[w].task \in FleetTasks => worker[w].task \in FleetTasks,
         UNCHANGED <<declared, want, up, route, orders, crossed>>,
         \/ queue' = queue
         \/ declared /\ queue' = Append(queue, Event("route", 0)),
         misled' \in BOOLEAN, misled => misled', failures' \in 0 .. MaxFailures,
         worker[w].pc # "unroute", worker'[w].pc # "unroute",
         status' \in {"none", "clean", "broken"},
         status' = "none" => status = "none" /\ (Doing(w, "note") => Doing(w, "note")'),
         Publisher(worker[w]) => Publisher(worker'[w]) \/ misled' \/ ~declared \/ up = {},
         Replaced(w)', Current(w)', Undisturbed' /\ Adding(w) => Adding(w)' \/ up \subseteq route
  PROVE  IngressIInv'
<1>0. IngressType BY DEF IngressIInv
<1>1. worker' \in [Workers -> WorkerRecords] /\ \A v \in Workers : Sound(v, worker'[v])
  BY <1>0, TypeKept
<1>2. /\ queue' \in Seq(Events)
      /\ Routing => Routing'
      /\ \A i \in DOMAIN queue' : queue'[i].kind # "route" => i \in DOMAIN queue /\ queue[i] = queue'[i]
      /\ \A i \in DOMAIN queue : i \in DOMAIN queue' /\ queue[i] = queue'[i]
      /\ queue' # queue => Routing' /\ declared
  <2>1. CASE queue' = queue BY <1>0, <2>1 DEF IngressType, Routing
  <2>2. CASE declared /\ queue' = Append(queue, Event("route", 0))
    BY <1>0, <2>2, QueueAppended, EventsAre DEF Routing
  <2>. QED BY <2>1, <2>2
<1>3. IngressType' BY <1>0, <1>1, <1>2 DEF IngressType
<1>4. \A v \in Workers \ {w} : worker'[v].task \in FleetTasks =>
        worker[v].task \in FleetTasks \/ worker[w].task \in FleetTasks
  BY <1>0, OthersSound
<1>5. \A v \in Workers \ {w} : worker[v].pc # "rest" => worker'[v] = worker[v] BY <1>0, OthersSound
<1>6. NoneWanted'
  BY <1>2, <1>4 DEF IngressIInv, NoneWanted
<1>7. Doing("loop", "unroute")' <=> Doing("loop", "unroute")
  <2>1. "loop" \in Workers BY DEF Workers
  <2>2. CASE w = "loop" BY <2>2 DEF Doing
  <2>3. CASE w # "loop"
    BY <2>1, <2>3 DEF Doing, TaskEnded, Moves
  <2>. QED BY <2>2, <2>3
<1>8. PutLast'
  <2>1. PutLast BY DEF IngressIInv
  <2>2. ASSUME declared, NEW i \in DOMAIN queue', queue'[i].kind = "unroute"
        PROVE  \E j \in DOMAIN queue' : j > i /\ queue'[j].kind = "route"
    BY <1>2, <2>2, <2>1 DEF PutLast
  <2>. QED BY <1>2, <1>7, <2>1, <2>2 DEF PutLast
<1>9. NoteDue'
  BY <1>5 DEF NoteDue, IngressIInv, Doing
<1>10. RouteDue'
  <2> SUFFICES ASSUME ~misled', declared, up # {}, route # up PROVE Publishing' BY DEF RouteDue
  <2>1. Publishing BY DEF RouteDue, IngressIInv
  <2>2. CASE Routing BY <1>2, <2>2 DEF Publishing
  <2>3. ASSUME NEW v \in Workers, Publisher(worker[v]) PROVE Publishing'
    BY <2>3, <1>5 DEF Publishing, Publisher
  <2>. QED BY <2>1, <2>2, <2>3 DEF Publishing, Publisher
<1>11. Unrouting' <=> Unrouting
  BY <1>2, <1>7 DEF Unrouting
<1>12. DeleteDue' BY <1>11 DEF DeleteDue, IngressIInv
<1>13. Undisturbed' => Undisturbed BY <1>11 DEF Undisturbed
<1>14. (\A v \in Workers : Replaced(v)' /\ Current(v)') /\ AllRouted' /\ RollKeepsRoute' BY <1>13, Calm
<1>. QED BY <1>3, <1>6, <1>8, <1>9, <1>10, <1>12, <1>14 DEF IngressIInv

\* The end of a task, or of a publish before a replica is retired.
LEMMA AfterEffect ==
  ASSUME IngressType, NEW w \in Workers, NEW res \in {"ok", "transient", "failed"}, After(w, res),
         worker[w].pc # "rest"
  PROVE  /\ Moves(w) /\ Sound(w, worker'[w])
         /\ worker'[w].task \in FleetTasks => worker[w].task \in FleetTasks
         /\ \/ /\ worker[w].then = "retire" /\ worker'[w].pc = "retire" /\ worker'[w].then = "retire"
               /\ worker'[w].todo = worker[w].todo
            \/ worker[w].then # "retire" /\ TaskEnded(worker[w], worker'[w])
<1>1. worker \in [Workers -> WorkerRecords] /\ worker[w] \in WorkerRecords /\ Sound(w, worker[w])
  BY DEF IngressType
<1>2. CASE worker[w].then = "retire"
  <2> DEFINE r == [worker[w] EXCEPT !.pc = "retire"]
  <2>1. Step(w, r) BY <1>2 DEF After, GoTo
  <2>2. /\ r \in WorkerRecords /\ r.pc = "retire" /\ r.task = worker[w].task /\ r.then = "retire"
        /\ r.todo = worker[w].todo /\ r.size = worker[w].size
    BY <1>1, <1>2, StepTyped
  <2> HIDE DEF r
  <2>3. Moves(w) /\ worker'[w] = r BY <1>1, <2>1, <2>2, Stepped
  <2>4. Sound(w, r) BY <1>1, <1>2, <2>2 DEF Sound, FleetTasks
  <2>. QED BY <1>2, <2>2, <2>3, <2>4
<1>3. CASE worker[w].then # "retire"
  BY <1>3, EndEffect DEF After, TaskEnded, Sound, FleetTasks
<1>. QED BY <1>2, <1>3

\* A worker whose task has ended has no replica to retire.
LEMMA EndedQuiet ==
  ASSUME IngressIInv, NEW w \in Workers, TaskEnded(worker[w], worker'[w]), up' = up, crossed => crossed'
  PROVE  Replaced(w)' /\ Current(w)'
BY DEF IngressIInv, TaskEnded, FleetTasks, Current, Replaced

LEMMA WakeTrue == ASSUME IngressIInv, NEW w \in Workers, Wake(w) PROVE IngressIInv'
<1>0. IngressType /\ worker \in [Workers -> WorkerRecords] /\ worker[w] \in WorkerRecords /\ Sound(w, worker[w])
  BY DEF IngressIInv, IngressType
<1>1. /\ w \in Retriers /\ worker[w].pc = "asleep" /\ w # "loop"
      /\ UNCHANGED <<declared, want, queue, up, route, status, orders, failures, misled, crossed>>
  BY IngressAssumption DEF Wake, Doing
<1>2. worker[w].todo = {} /\ worker[w].then # "retire" /\ want \in Nat BY <1>0, <1>1 DEF Sound, IngressType
<1> DEFINE k == worker[w]
           resolve == [k EXCEPT !.pc = "resolve"]
           fleet == [k EXCEPT !.pc = "fleet", !.size = want]
<1>3. \E r \in WorkerRecords : Step(w, r) /\ Sound(w, r) /\ r.todo = {} /\ r.then # "retire" /\ r.pc # "unroute"
                                /\ (r.task \in FleetTasks => k.task \in FleetTasks)
  <2>1. CASE k.task = "ingress" /\ declared
    <3>1. Step(w, resolve) BY <2>1 DEF Wake
    <3>2. /\ resolve \in WorkerRecords /\ resolve.pc = "resolve" /\ resolve.task = k.task
          /\ resolve.then = k.then /\ resolve.todo = k.todo
      BY <1>0, StepTyped
    <3> HIDE DEF resolve
    <3>3. Sound(w, resolve) BY <1>2, <2>1, <3>2 DEF Sound, FleetTasks
    <3>. QED BY <1>2, <2>1, <3>1, <3>2, <3>3 DEF FleetTasks
  <2>2. CASE k.task = "ingress" /\ ~declared
    BY <2>2, RestTyped DEF Wake, Sound, FleetTasks
  <2>3. CASE k.task # "ingress"
    <3>1. Step(w, fleet) BY <2>3 DEF Wake
    <3>2. /\ fleet \in WorkerRecords /\ fleet.pc = "fleet" /\ fleet.task = k.task /\ fleet.then = k.then
          /\ fleet.todo = k.todo /\ fleet.size = want
      BY <1>0, <1>2 DEF WorkerRecords
    <3>3. k.task \in FleetTasks /\ want # 0
      <4>1. k.task \in FleetTasks BY <1>0, <1>1, <2>3, WorkerFields DEF Sound, FleetTasks
      <4>. QED BY <4>1 DEF IngressIInv, NoneWanted
    <3> HIDE DEF fleet, k
    <3>4. Sound(w, fleet) BY <1>2, <3>2, <3>3 DEF Sound, FleetTasks, k
    <3>. QED BY <1>2, <3>1, <3>2, <3>3, <3>4 DEF k
  <2>. QED BY <2>1, <2>2, <2>3
<1>4. PICK r \in WorkerRecords : /\ Step(w, r) /\ Sound(w, r) /\ r.todo = {} /\ r.then # "retire"
                                 /\ r.pc # "unroute" /\ (r.task \in FleetTasks => worker[w].task \in FleetTasks)
  BY <1>3
<1>5. Moves(w) /\ worker'[w] = r BY <1>0, <1>4, Stepped
<1>6. Replaced(w)' /\ Current(w)' BY <1>4, <1>5 DEF Replaced, Current
<1>7. ~Adding(w) /\ ~Publisher(worker[w]) /\ ~Doing(w, "note") BY <1>1 DEF Adding, Publisher, Doing
<1>8. misled' \in BOOLEAN /\ failures' \in 0 .. MaxFailures /\ status' \in {"none", "clean", "broken"}
  BY <1>0, <1>1 DEF IngressType
<1>9. worker[w].pc # "unroute" BY <1>1
<1>. QED BY <1>1, <1>4, <1>5, <1>6, <1>7, <1>8, <1>9, WorkerMoves

LEMMA FleetEndTrue == ASSUME IngressIInv, NEW w \in Workers, FleetEnd(w) PROVE IngressIInv'
BY EndEffect, EndedQuiet, WorkerMoves DEF IngressIInv, FleetEnd, Doing, TaskEnded, Sound, FleetTasks,
   Adding, Publisher, IngressType

LEMMA NoteTrue == ASSUME IngressIInv, NEW w \in Workers, Note(w) PROVE IngressIInv'
<1>0. IngressType BY DEF IngressIInv
<1>1. /\ worker[w].pc = "note" /\ After(w, "ok") /\ status' = "clean"
      /\ UNCHANGED <<declared, want, queue, up, route, orders, failures, misled, crossed>>
  BY DEF Note, Doing
<1>2. /\ Moves(w) /\ Sound(w, worker'[w])
      /\ worker'[w].task \in FleetTasks => worker[w].task \in FleetTasks
      /\ \/ /\ worker[w].then = "retire" /\ worker'[w].pc = "retire" /\ worker'[w].then = "retire"
            /\ worker'[w].todo = worker[w].todo
         \/ worker[w].then # "retire" /\ TaskEnded(worker[w], worker'[w])
  BY <1>0, <1>1, AfterEffect
<1>3. worker'[w].pc # "unroute" BY <1>2 DEF TaskEnded
<1>5. Replaced(w)' /\ Current(w)'
  <2>1. CASE worker[w].then = "retire"
    <3>1. Replaced(w) /\ Current(w) BY DEF IngressIInv
    <3>3. Unrouting => Unrouting'
      BY <1>0, <1>1, <1>2, OthersSound DEF Workers, Unrouting, Doing
    <3>4. Undisturbed' => Undisturbed BY <1>1, <3>3 DEF Undisturbed
    <3>. QED BY <1>1, <1>2, <2>1, <3>1, <3>4 DEF Replaced, Current
  <2>2. CASE worker[w].then # "retire" BY <1>1, <1>2, <2>2, EndedQuiet
  <2>. QED BY <2>1, <2>2
<1>6. ~Adding(w) /\ ~Publisher(worker[w]) BY <1>1 DEF Adding, Publisher
<1>7. misled' \in BOOLEAN /\ failures' \in 0 .. MaxFailures /\ status' \in {"none", "clean", "broken"}
  BY <1>0, <1>1 DEF IngressType
<1>. QED BY <1>1, <1>2, <1>3, <1>5, <1>6, <1>7, WorkerMoves

LEMMA UnroutingKept ==
  ASSUME IngressType, NEW w \in Workers, Moves(w), worker[w].pc # "unroute", queue' = queue
  PROVE  Unrouting => Unrouting'
BY OthersSound DEF Workers, Unrouting, Doing

LEMMA ResolveTrue == ASSUME IngressIInv, NEW w \in Workers, Resolve(w) PROVE IngressIInv'
<1>0. IngressType /\ worker \in [Workers -> WorkerRecords] /\ worker[w] \in WorkerRecords /\ Sound(w, worker[w])
  BY DEF IngressIInv, IngressType
<1>1. /\ worker[w].pc = "resolve" /\ misled' = (misled \/ (worker[w].task # "ingress" /\ up = {}))
      /\ UNCHANGED <<declared, want, queue, up, route, status, orders, failures, crossed>>
  BY DEF Resolve, Doing
<1>2. misled' \in BOOLEAN /\ failures' \in 0 .. MaxFailures /\ status' \in {"none", "clean", "broken"}
  BY <1>0, <1>1 DEF IngressType
<1>3. Replaced(w) /\ Current(w) BY DEF IngressIInv
<1>4. ~Doing(w, "note") BY <1>1 DEF Doing
<1>5. CASE want = 0 \/ up = {}
  <2>1. After(w, "transient") BY <1>5 DEF Resolve
  <2>2. /\ Moves(w) /\ Sound(w, worker'[w])
        /\ worker'[w].task \in FleetTasks => worker[w].task \in FleetTasks
        /\ \/ /\ worker[w].then = "retire" /\ worker'[w].pc = "retire" /\ worker'[w].then = "retire"
              /\ worker'[w].todo = worker[w].todo
           \/ worker[w].then # "retire" /\ TaskEnded(worker[w], worker'[w])
    BY <1>0, <1>1, <2>1, AfterEffect
  <2>3. worker'[w].pc # "unroute" BY <2>2 DEF TaskEnded
  <2>4. up = {} BY <1>5 DEF IngressIInv, NoneWanted
  <2>5. worker[w].task \in FleetTasks => misled' BY <1>1, <2>4 DEF FleetTasks
  <2>6. Replaced(w)' /\ Current(w)'
    <3>1. CASE worker[w].then = "retire"
      <4>1. misled' BY <1>0, <2>5, <3>1 DEF Sound
      <4>. QED BY <1>1, <1>3, <2>2, <3>1, <4>1 DEF Replaced, Current, Undisturbed
    <3>2. CASE worker[w].then # "retire" BY <1>1, <2>2, <3>2, EndedQuiet
    <3>. QED BY <3>1, <3>2
  <2>7. up \subseteq route BY <2>4
  <2>. QED BY <1>1, <1>2, <1>4, <2>2, <2>3, <2>4, <2>6, <2>7, WorkerMoves
<1>6. CASE ~(want = 0 \/ up = {})
  <2> DEFINE r == [worker[w] EXCEPT !.pc = "invoke", !.ups = up]
  <2>1. Step(w, r) BY <1>6 DEF Resolve
  <2>2. up \subseteq Names BY <1>0 DEF IngressType
  <2>3. /\ r \in WorkerRecords /\ r.pc = "invoke" /\ r.task = worker[w].task /\ r.then = worker[w].then
        /\ r.todo = worker[w].todo /\ r.size = worker[w].size
    BY <1>0, <2>2 DEF WorkerRecords
  <2> HIDE DEF r
  <2>4. Moves(w) /\ worker'[w] = r BY <1>0, <2>1, <2>3, Stepped
  <2>5. Sound(w, r) BY <1>0, <1>1, <2>3 DEF Sound, FleetTasks
  <2>6. Adding(w) => Adding(w)' BY <1>1, <2>3, <2>4 DEF Adding
  <2>7. Publisher(worker'[w]) BY <2>3, <2>4 DEF Publisher
  <2>8. Replaced(w)' /\ Current(w)' BY <1>1, <1>3, <2>3, <2>4 DEF Replaced, Current
  <2>9. worker'[w].pc # "unroute" /\ (worker'[w].task \in FleetTasks => worker[w].task \in FleetTasks)
    BY <2>3, <2>4
  <2>. QED BY <1>1, <1>2, <1>4, <2>4, <2>5, <2>6, <2>7, <2>8, <2>9, WorkerMoves
<1>. QED BY <1>5, <1>6

LEMMA OutcomeTrue == ASSUME IngressIInv, NEW w \in Workers, Outcome(w) PROVE IngressIInv'
<1>0. IngressType /\ worker \in [Workers -> WorkerRecords] /\ worker[w] \in WorkerRecords /\ Sound(w, worker[w])
  BY DEF IngressIInv, IngressType
<1>1. /\ worker[w].pc = "outcome" /\ Step(w, Rest)
      /\ UNCHANGED <<declared, want, up, route, orders, failures, crossed>>
      /\ \/ status' = worker[w].then /\ queue' = queue /\ misled' = misled
         \/ /\ misled' = (misled \/ worker[w].then = "broken") /\ status' = status
            /\ queue' \in {queue, Retriggered}
  BY DEF Outcome, Doing
<1>a. worker[w].then \in {"clean", "broken"} BY <1>0, <1>1 DEF Sound
<1>b. status' \in {"none", "clean", "broken"} /\ (status' = "none" => status = "none")
  BY <1>0, <1>1, <1>a DEF IngressType
<1>c. misled \in BOOLEAN /\ failures \in 0 .. MaxFailures BY <1>0 DEF IngressType
<1>d. failures' \in 0 .. MaxFailures BY <1>1, <1>c
<1>e. misled' = misled \/ misled' = (misled \/ worker[w].then = "broken") BY <1>1
<1>2. misled' \in BOOLEAN /\ (misled => misled') /\ failures' \in 0 .. MaxFailures
  BY <1>c, <1>d, <1>e
<1>3. queue' = queue \/ (declared /\ queue' = Append(queue, Event("route", 0))) BY <1>1 DEF Retriggered
<1>4. Moves(w) /\ worker'[w] = Rest BY <1>0, <1>1, RestTyped, Stepped
<1>5. Sound(w, Rest) BY RestTyped DEF Sound, FleetTasks
<1>6. Replaced(w)' /\ Current(w)' BY <1>4, RestTyped DEF Replaced, Current
<1>7. ~Adding(w) /\ ~Publisher(worker[w]) /\ ~Doing(w, "note") BY <1>1 DEF Adding, Publisher, Doing
<1>8. worker'[w].pc # "unroute" /\ worker'[w].task \notin FleetTasks BY <1>4, RestTyped DEF FleetTasks
<1>9. worker[w].pc # "unroute" BY <1>1
<1>. QED BY <1>1, <1>2, <1>b, <1>3, <1>4, <1>5, <1>6, <1>7, <1>8, <1>9, WorkerMoves

\* The plugin took the route, or failed.
LEMMA InvokeTrue == ASSUME IngressIInv, NEW w \in Workers, Invoke(w) PROVE IngressIInv'
<1>0. IngressType /\ worker \in [Workers -> WorkerRecords] /\ worker[w] \in WorkerRecords /\ Sound(w, worker[w])
  BY DEF IngressIInv, IngressType
<1>1. /\ worker[w].pc = "invoke"
      /\ UNCHANGED <<declared, want, queue, up, status, orders, crossed>>
  BY DEF Invoke, Doing
<1>2. Replaced(w) /\ Current(w) BY DEF IngressIInv
<1>3. CASE Fails /\ After(w, "failed") /\ misled' = TRUE /\ UNCHANGED route
  <2>1. /\ Moves(w) /\ Sound(w, worker'[w])
        /\ worker'[w].task \in FleetTasks => worker[w].task \in FleetTasks
        /\ \/ /\ worker[w].then = "retire" /\ worker'[w].pc = "retire" /\ worker'[w].then = "retire"
              /\ worker'[w].todo = worker[w].todo
           \/ worker[w].then # "retire" /\ TaskEnded(worker[w], worker'[w])
    BY <1>0, <1>1, <1>3, AfterEffect
  <2>2. worker'[w].pc # "unroute" BY <2>1 DEF TaskEnded
  <2>3. Replaced(w)' /\ Current(w)'
    BY <1>1, <1>2, <1>3, <2>1, EndedQuiet DEF Replaced, Current, Undisturbed
  <2>4. failures' \in 0 .. MaxFailures /\ status' \in {"none", "clean", "broken"} /\ misled' \in BOOLEAN
    BY <1>0, <1>1, <1>3, IngressAssumption DEF IngressType, Fails
  <2>5. ~Undisturbed' /\ ~Doing(w, "note") BY <1>1, <1>3 DEF Undisturbed, Doing
  <2>6. UNCHANGED route /\ misled' BY <1>3
  <2>. QED BY <1>1, <2>1, <2>2, <2>3, <2>4, <2>5, <2>6, WorkerMoves
<1>4. CASE route' = worker[w].ups /\ misled' = (worker[w].ups # up \/ ~declared) /\ GoTo(w, "note")
           /\ UNCHANGED failures
  <2> DEFINE r == [worker[w] EXCEPT !.pc = "note"]
  <2>1. Step(w, r) BY <1>4 DEF GoTo
  <2>2. /\ r \in WorkerRecords /\ r.pc = "note" /\ r.task = worker[w].task /\ r.then = worker[w].then
        /\ r.todo = worker[w].todo /\ r.size = worker[w].size
    BY <1>0, StepTyped
  <2> HIDE DEF r
  <2>3. Moves(w) /\ worker'[w] = r /\ \A v \in Workers \ {w} : worker'[v] = worker[v]
    BY <1>0, <2>1, <2>2, Stepped
  <2>4. Sound(w, r) BY <1>0, <1>1, <2>2 DEF Sound, FleetTasks
  <2>5. worker' \in [Workers -> WorkerRecords] /\ \A v \in Workers : Sound(v, worker'[v])
    BY <1>0, <2>3, <2>4, TypeKept
  <2>6. route' \subseteq Names /\ misled' \in BOOLEAN BY <1>0, <1>4, WorkerFields DEF IngressType
  <2>7. IngressType' BY <1>0, <1>1, <1>4, <2>5, <2>6 DEF IngressType
  <2>8. NoneWanted' BY <1>1, <2>2, <2>3 DEF NoneWanted, IngressIInv
  <2>9. PutLast'
    BY <2>2, <2>3, <1>1 DEF Doing, Workers, PutLast, IngressIInv, Routing
  <2>10. NoteDue' BY <2>2, <2>3 DEF NoteDue, Doing
  <2>11. ~misled' => route' = up /\ declared BY <1>4
  <2>12. RouteDue' /\ DeleteDue' BY <1>1, <2>11 DEF RouteDue, DeleteDue
  <2>13. ASSUME NEW v \in Workers PROVE Replaced(v)' /\ Current(v)'
    BY <1>1, <2>2, <2>3, <2>11 DEF IngressIInv, Undisturbed, Replaced, Current
  <2>14. AllRouted' BY <1>1, <2>11 DEF AllRouted, Undisturbed
  <2>15. RollKeepsRoute' BY <1>1, <2>11 DEF RollKeepsRoute
  <2>. QED BY <2>7, <2>8, <2>9, <2>10, <2>12, <2>13, <2>14, <2>15 DEF IngressIInv
<1>. QED BY <1>3, <1>4 DEF Invoke

LEMMA UnrouteTrue == ASSUME IngressIInv, NEW w \in Workers, Unroute(w) PROVE IngressIInv'
<1>0. IngressType /\ worker \in [Workers -> WorkerRecords] /\ worker[w] \in WorkerRecords /\ Sound(w, worker[w])
  BY DEF IngressIInv, IngressType
<1>1. /\ worker[w].pc = "unroute" /\ \E res \in {"ok", "transient", "failed"} : End(w, res)
      /\ UNCHANGED <<declared, want, queue, up, orders, crossed>>
      /\ \/ /\ route' = (IF status = "none" THEN route ELSE {}) /\ status' = "none"
            /\ UNCHANGED failures
            /\ misled' = (misled \/ \E v \in Workers \ {w} : worker[v].pc \in {"invoke", "note"})
         \/ status # "none" /\ Fails /\ misled' = TRUE /\ UNCHANGED <<route, status>>
  BY DEF Unroute, Doing
<1>2. w = "loop" BY <1>0, <1>1 DEF Sound
<1>3. Moves(w) /\ TaskEnded(worker[w], worker'[w]) BY <1>0, <1>1, EndEffect
<1>4. Sound(w, worker'[w]) BY <1>3 DEF TaskEnded, Sound, FleetTasks
<1>5. worker' \in [Workers -> WorkerRecords] /\ \A v \in Workers : Sound(v, worker'[v])
  BY <1>0, <1>3, <1>4, TypeKept
<1>6. \A v \in Workers \ {w} : worker[v].pc # "rest" => worker'[v] = worker[v] BY <1>0, <1>3, OthersSound
<1>7. IngressType'
  <2>1. route' \subseteq Names /\ misled' \in BOOLEAN /\ status' \in {"none", "clean", "broken"}
    BY <1>0, <1>1 DEF IngressType
  <2>2. failures' \in 0 .. MaxFailures BY <1>0, <1>1, IngressAssumption DEF IngressType, Fails
  <2>. QED BY <1>0, <1>1, <1>5, <2>1, <2>2 DEF IngressType
<1>8. NoneWanted'
  <2>1. \A v \in Workers : worker'[v].task \in FleetTasks =>
          worker[v].task \in FleetTasks \/ worker[w].task \in FleetTasks
    BY <1>3, <1>0, OthersSound DEF TaskEnded, FleetTasks
  <2>. QED BY <1>1, <2>1 DEF NoneWanted, IngressIInv
<1>9. PutLast /\ NoteDue BY DEF IngressIInv
<1>10. PutLast'
  <2>1. ~Doing("loop", "unroute")' BY <1>2, <1>3 DEF Doing, TaskEnded
  <2>. QED BY <1>1, <1>9, <2>1 DEF PutLast
<1>11. status' = "none" /\ route' # {} => \E v \in Workers \ {w} : worker[v].pc = "note"
  BY <1>1, <1>9 DEF NoteDue, Doing
<1>12. NoteDue' BY <1>6, <1>11 DEF NoteDue, Doing
<1>13. RouteDue'
  <2>1. declared => Routing BY <1>1, <1>2, <1>9 DEF PutLast, Doing
  <2>. QED BY <1>1, <2>1 DEF RouteDue, Publishing, Routing
<1>14. ~misled' => route' = {} BY <1>1, <1>11
<1>15. DeleteDue' BY <1>14 DEF DeleteDue
<1>16. Replaced(w)' /\ Current(w)' BY <1>1, <1>3, EndedQuiet
<1>17. ~Undisturbed' BY <1>14 DEF Undisturbed
<1>18. (\A v \in Workers : Replaced(v)' /\ Current(v)') /\ AllRouted' /\ RollKeepsRoute'
  BY <1>1, <1>3, <1>16, <1>17, Calm
<1>. QED BY <1>7, <1>8, <1>10, <1>12, <1>13, <1>15, <1>18 DEF IngressIInv

\* A step that turns replicas over.
LEMMA FleetMoves ==
  ASSUME IngressIInv, NEW w \in Workers, worker[w].pc \in {"fleet", "retire"}, Moves(w),
         Sound(w, worker'[w]), worker'[w].pc # "unroute",
         UNCHANGED <<declared, want, queue, route, status, orders>>,
         misled' \in BOOLEAN, misled => misled', failures' \in 0 .. MaxFailures,
         crossed' = (crossed \/ Crossed(w)), up' \subseteq Names, IsFiniteSet(up'),
         Publisher(worker'[w]) \/ misled' \/ ~declared \/ up' = {},
         Replaced(w)', Current(w)',
         Undisturbed /\ (up \subseteq route \/ Adding(w)) /\ ~misled' =>
           (up' \subseteq route \/ Adding(w)') /\ route \cap up' # {}
  PROVE  IngressIInv'
<1>0. IngressType /\ Sound(w, worker[w]) BY DEF IngressIInv, IngressType
<1>1. worker' \in [Workers -> WorkerRecords] /\ \A v \in Workers : Sound(v, worker'[v])
  BY <1>0, TypeKept
<1>2. \A v \in Workers \ {w} : worker[v].pc # "rest" => worker'[v] = worker[v] BY <1>0, OthersSound
<1>3. IngressType' BY <1>0, <1>1 DEF IngressType
<1>4. NoneWanted'
  <2>1. worker[w].task \in FleetTasks BY <1>0 DEF Sound
  <2>. QED BY <2>1 DEF NoneWanted, IngressIInv
<1>5. Doing("loop", "unroute")' <=> Doing("loop", "unroute")
  <2>1. "loop" \in Workers BY DEF Workers
  <2>2. CASE w = "loop" BY <2>2 DEF Doing
  <2>3. CASE w # "loop"
    BY <2>1, <2>3 DEF Doing, TaskEnded, Moves
  <2>. QED BY <2>2, <2>3
<1>6. PutLast' BY <1>5 DEF PutLast, Routing, IngressIInv
<1>7. NoteDue' BY <1>2 DEF NoteDue, IngressIInv, Doing
<1>8. RouteDue' BY DEF RouteDue, Publishing, Publisher
<1>9. Unrouting' <=> Unrouting BY <1>5 DEF Unrouting
<1>10. DeleteDue' BY <1>9 DEF DeleteDue, IngressIInv
<1>11. ASSUME NEW v \in Workers \ {w}, ~crossed'
       PROVE  worker[v].task \notin FleetTasks \/ worker[v].pc \in {"rest", "asleep"}
  BY <1>11 DEF Crossed, FleetTasks
<1>12. ASSUME NEW v \in Workers \ {w} PROVE Replaced(v)' /\ Current(v)'
  <2>0. Sound(v, worker[v]) BY <1>0 DEF IngressType
  <2>1. CASE crossed' BY <2>1 DEF Replaced, Current, Undisturbed
  <2>2. CASE ~crossed'
    BY <1>11, <2>0, <2>2, <1>0, OthersSound DEF Sound, Replaced, Current
  <2>. QED BY <2>1, <2>2 DEF Replaced, Current
<1>13. ASSUME Undisturbed' PROVE Undisturbed /\ (up \subseteq route \/ Adding(w)) /\ ~misled'
  <2>1. Undisturbed /\ ~misled' /\ ~crossed' BY <1>9, <1>13 DEF Undisturbed
  <2>2. ASSUME NEW v \in Workers, Adding(v), v # w PROVE FALSE
    BY <2>2, <1>11, <2>1 DEF Adding, FleetTasks
  <2>. QED BY <2>1, <2>2 DEF AllRouted, IngressIInv
<1>14. AllRouted' BY <1>13 DEF AllRouted
<1>15. RollKeepsRoute' BY <1>13 DEF RollKeepsRoute, Undisturbed
<1>. QED BY <1>3, <1>4, <1>6, <1>7, <1>8, <1>10, <1>12, <1>14, <1>15 DEF IngressIInv

LEMMA RetireTrue == ASSUME IngressIInv, NEW w \in Workers, Retire(w) PROVE IngressIInv'
<1>0. /\ IngressType /\ worker \in [Workers -> WorkerRecords] /\ worker[w] \in WorkerRecords
      /\ Sound(w, worker[w]) /\ Replaced(w) /\ Current(w)
  BY DEF IngressIInv, IngressType
<1> DEFINE N(n) == [worker[w] EXCEPT !.pc = "fleet", !.todo = @ \ {n}, !.ups = {}]
<1>1. PICK n \in worker[w].todo : up' = up \ {n} /\ Step(w, N(n)) BY DEF Retire, AnyOf
<1>2. /\ worker[w].pc = "retire" /\ crossed' = (crossed \/ Crossed(w))
      /\ UNCHANGED <<declared, want, queue, route, status, orders, failures, misled>>
  BY DEF Retire, Doing
<1> DEFINE r == N(n)
<1>3. worker[w].todo \subseteq Names BY <1>0, WorkerFields
<1>4. /\ r \in WorkerRecords /\ r.pc = "fleet" /\ r.todo = worker[w].todo \ {n} /\ r.task = worker[w].task
      /\ r.size = worker[w].size /\ r.then = worker[w].then
  BY <1>0, <1>3 DEF WorkerRecords
<1>5. Step(w, r) BY <1>1
<1> HIDE DEF r
<1>6. Moves(w) /\ worker'[w] = r BY <1>0, <1>4, <1>5, Stepped
<1>7. Sound(w, worker'[w]) BY <1>0, <1>2, <1>4, <1>6 DEF Sound, FleetTasks
<1>8. Replaced(w)' BY <1>4, <1>6 DEF Replaced
<1>9. Current(w)' BY <1>0, <1>1, <1>2, <1>4, <1>6 DEF Current
<1>10. up' \subseteq Names /\ IsFiniteSet(up') BY <1>0, <1>1, FS_RemoveElement DEF IngressType
<1>11. misled' \in BOOLEAN /\ failures' \in 0 .. MaxFailures BY <1>0, <1>2 DEF IngressType
<1>12. ~Adding(w) BY <1>2 DEF Adding
<1>13. Undisturbed => route \cap (up \ worker[w].todo) # {} BY <1>0, <1>2 DEF Replaced, Sound
<1>14. Publisher(worker'[w]) /\ worker'[w].pc # "unroute" BY <1>4, <1>6 DEF Publisher
<1>15. Undisturbed /\ (up \subseteq route \/ Adding(w)) => up' \subseteq route /\ route \cap up' # {}
  BY <1>1, <1>12, <1>13
<1>. QED BY <1>2, <1>6, <1>7, <1>8, <1>9, <1>10, <1>11, <1>14, <1>15, FleetMoves

LEMMA AnyOfIs == ASSUME NEW ns, NEW n \in AnyOf(ns) PROVE n \in ns
BY DEF AnyOf

LEMMA UnusedIs == ASSUME NEW n \in Unused PROVE n \in Names /\ n \notin up
BY DEF Unused

LEMMA FleetTrue == ASSUME IngressIInv, NEW w \in Workers, Fleet(w) PROVE IngressIInv'
<1> DEFINE me == worker[w]
<1>0. /\ IngressType /\ worker \in [Workers -> WorkerRecords] /\ me \in WorkerRecords
      /\ Sound(w, me) /\ Replaced(w) /\ Current(w) /\ RollKeepsRoute /\ DeleteDue
  BY DEF IngressIInv, IngressType
<1>1. /\ me.pc = "fleet" /\ me.task \in FleetTasks /\ crossed' = (crossed \/ Crossed(w))
      /\ misled' = (misled \/ failures' # failures)
      /\ UNCHANGED <<declared, want, queue, route, status, orders>>
  BY <1>0 DEF Fleet, Doing, Sound
<1>2. /\ up \subseteq Names /\ IsFiniteSet(up) /\ Cardinality(up) \in Nat /\ me.size \in Nat
      /\ me.todo \subseteq Names /\ (me.task = "deployment" => me.size > 0)
  BY <1>0, <1>1, FS_CardinalityType, WorkerFields DEF IngressType, Sound
<1>3. misled' \in BOOLEAN /\ (misled => misled') BY <1>0, <1>1 DEF IngressType
<1>4. Undisturbed => route \cap up # {} /\ declared
  BY <1>0 DEF Undisturbed, RollKeepsRoute, DeleteDue
<1>5. ~Miscounted(me) \/ (Miscounted(me) /\ Cardinality(up) < me.size) \/ (Miscounted(me) /\ Cardinality(up) > me.size)
  BY <1>2 DEF Miscounted
<1>6. ASSUME Fails, End(w, "failed"), UNCHANGED up PROVE IngressIInv'
  <2>1. Moves(w) /\ TaskEnded(me, worker'[w]) BY <1>0, <1>1, <1>6, EndEffect
  <2>2. Sound(w, worker'[w]) /\ worker'[w].pc # "unroute" BY <2>1 DEF TaskEnded, Sound, FleetTasks
  <2>3. failures' \in 0 .. MaxFailures /\ failures' # failures
    BY <1>0, <1>6, IngressAssumption DEF IngressType, Fails
  <2>4. Replaced(w)' /\ Current(w)' BY <1>1, <1>6, <2>1, EndedQuiet
  <2>5. misled' /\ up' \subseteq Names /\ IsFiniteSet(up') BY <1>1, <1>2, <1>6, <2>3
  <2>. QED BY <1>1, <1>3, <2>1, <2>2, <2>3, <2>4, <2>5, FleetMoves
\* A step that does not fail, to a record that keeps the task.
<1>7. ASSUME NEW r \in WorkerRecords, Step(w, r), r.task = me.task, r.size = me.size,
             r.pc \in {"fleet", "fleetEnd", "retire", "resolve"}, r.pc = "retire" => r.then = "retire",
             UNCHANGED failures, up' \subseteq Names, IsFiniteSet(up'),
             Publisher(r) \/ ~declared \/ up' = {}, ~crossed' => r.todo \subseteq up',
             ~crossed' /\ r.then = "retire" /\ r.pc # "fleet" => up' \ r.todo # {},
             Undisturbed => r.pc # "retire",
             Undisturbed /\ (up \subseteq route \/ Adding(w)) =>
               (\/ up' \subseteq route \/ r.pc = "resolve"
                \/ r.pc = "fleet" /\ r.task = "deployment" /\ Cardinality(up') <= r.size)
               /\ route \cap up' # {}
      PROVE  IngressIInv'
  BY <1>0, <1>7, Stepped, <1>1, <1>2, UnroutingKept, <1>3, FleetMoves DEF Sound, FleetTasks, IngressType,
     Undisturbed, Replaced, Current, Adding
<1>8. CASE Miscounted(me) /\ Cardinality(up) < me.size
  <2>1. ASSUME NEW n \in AnyOf(Unused), up' = up \cup {n}, Step(w, me), UNCHANGED failures PROVE IngressIInv'
    <3>1. n \in Names /\ n \notin up BY <2>1, AnyOfIs, UnusedIs
    <3>2. IsFiniteSet(up') /\ Cardinality(up') = Cardinality(up) + 1 BY <1>2, <2>1, <3>1, FS_AddElement
    <3>3. Cardinality(up') <= me.size BY <1>2, <1>8, <3>2
    <3>4. me.task = "deployment" BY <1>8 DEF Miscounted
    <3>5. ~crossed' => me.todo \subseteq up' BY <1>0, <1>1, <2>1 DEF Current
    <3>6. up' \subseteq Names BY <1>2, <2>1, <3>1
    <3>7. Publisher(me) BY <1>1 DEF Publisher
    <3>8. Undisturbed => route \cap up' # {} BY <1>4, <2>1
    <3> HIDE DEF me
    <3>. QED BY <1>0, <1>1, <1>7, <2>1, <3>2, <3>3, <3>4, <3>5, <3>6, <3>7, <3>8
  <2>. QED BY <1>2, <1>6, <1>8, <2>1 DEF Fleet
<1>9. CASE Miscounted(me) /\ Cardinality(up) > me.size
  <2> DEFINE N(n) == [me EXCEPT !.todo = @ \ {n}]
  <2>1. PICK n \in AnyOf(up) : up' = up \ {n} /\ Step(w, N(n)) /\ UNCHANGED failures BY <1>2, <1>9 DEF Fleet
  <2> DEFINE r == N(n)
  <2>2. n \in up BY AnyOfIs
  <2>3. /\ r \in WorkerRecords /\ r.pc = "fleet" /\ r.task = "deployment" /\ r.size = me.size
        /\ r.todo = me.todo \ {n} /\ me.task = "deployment"
    BY <1>0, <1>1, <1>2, <1>9 DEF WorkerRecords, Miscounted
  <2>4. IsFiniteSet(up') /\ Cardinality(up') = Cardinality(up) - 1 BY <1>2, <2>1, <2>2, FS_RemoveElement
  <2>5. up' # {}
    <3>1. Cardinality(up') # 0 BY <1>2, <1>9, <2>3, <2>4
    <3>. QED BY <3>1, FS_EmptySet
  <2>6. ~Adding(w) BY <1>1, <1>2, <1>9 DEF Adding
  <2>7. Undisturbed /\ (up \subseteq route \/ Adding(w)) => up' \subseteq route /\ route \cap up' # {}
    BY <2>1, <2>5, <2>6
  <2>8. ~crossed' => r.todo \subseteq up' BY <1>0, <1>1, <2>1, <2>3 DEF Current
  <2>9. up' \subseteq Names /\ Step(w, r) /\ UNCHANGED failures BY <1>2, <2>1
  <2> HIDE DEF r
  <2>10. Publisher(r) BY <2>3 DEF Publisher
  <2>. QED BY <1>7, <2>3, <2>4, <2>7, <2>8, <2>9, <2>10
<1>10. CASE ~Miscounted(me) /\ me.todo # {}
  <2>1. ASSUME NEW n \in AnyOf(Unused), up' = up \cup {n}, Publish(w, "retire"), UNCHANGED failures
        PROVE  IngressIInv'
    <3>1. n \in Names /\ n \notin up BY <2>1, AnyOfIs, UnusedIs
    <3>2. IsFiniteSet(up') /\ up' \subseteq Names /\ up' # {} BY <1>2, <2>1, <3>1, FS_AddElement
    <3> DEFINE r == IF declared THEN [me EXCEPT !.pc = "resolve", !.then = "retire"]
                                ELSE [me EXCEPT !.pc = "retire", !.then = "retire"]
    <3>3. Step(w, r) BY <2>1, <3>2 DEF Publish
    <3>4. /\ r \in WorkerRecords /\ r.pc = (IF declared THEN "resolve" ELSE "retire") /\ r.then = "retire"
          /\ r.task = me.task /\ r.size = me.size /\ r.todo = me.todo
      BY <1>0 DEF WorkerRecords
    <3> HIDE DEF r
    <3>5. ~crossed' => me.todo \subseteq up BY <1>0, <1>1 DEF Current
    <3>6. ~crossed' => r.todo \subseteq up' /\ up' \ r.todo # {} BY <2>1, <3>1, <3>4, <3>5
    <3>7. Undisturbed => route \cap up' # {} /\ r.pc = "resolve" BY <1>4, <2>1, <3>4
    <3>8. Publisher(r) /\ r.pc \in {"fleet", "fleetEnd", "retire", "resolve"} BY <3>4 DEF Publisher
    <3>. QED BY <1>7, <2>1, <3>2, <3>3, <3>4, <3>6, <3>7, <3>8
  <2>. QED BY <1>6, <1>10, <2>1 DEF Fleet
<1>11. CASE ~Miscounted(me) /\ me.todo = {}
  <2>1. UNCHANGED <<up, failures>> /\ Publish(w, "end") BY <1>11 DEF Fleet
  <2> DEFINE r == IF up = {} \/ ~declared THEN [me EXCEPT !.then = "end", !.pc = "fleetEnd"]
                                          ELSE [me EXCEPT !.pc = "resolve", !.then = "end"]
  <2>2. Step(w, r) BY <2>1 DEF Publish
  <2>3. /\ r \in WorkerRecords /\ r.pc = (IF up = {} \/ ~declared THEN "fleetEnd" ELSE "resolve")
        /\ r.then = "end" /\ r.task = me.task /\ r.size = me.size /\ r.todo = me.todo
    BY <1>0 DEF WorkerRecords
  <2> HIDE DEF r
  <2>4. Publisher(r) \/ ~declared \/ up' = {} BY <2>1, <2>3 DEF Publisher
  <2>5. ~crossed' => r.todo \subseteq up' BY <1>11, <2>3
  <2>6. Undisturbed => r.pc = "resolve" /\ route \cap up' # {} BY <1>4, <2>1, <2>3
  <2>7. up' \subseteq Names /\ IsFiniteSet(up') /\ UNCHANGED failures BY <1>2, <2>1
  <2>8. r.pc \in {"fleet", "fleetEnd", "retire", "resolve"} /\ r.pc # "retire" BY <2>3
  <2>. QED BY <1>7, <2>2, <2>3, <2>4, <2>5, <2>6, <2>7, <2>8
<1>. QED BY <1>5, <1>8, <1>9, <1>10, <1>11

LEMMA IngressStarts == IngressInit => IngressIInv
<1> SUFFICES ASSUME IngressInit PROVE IngressIInv OBVIOUS
<1>1. worker \in [Workers -> WorkerRecords] /\ \A w \in Workers : worker[w] = Rest
  BY RestTyped DEF IngressInit
<1>2. \A w \in Workers : Sound(w, worker[w]) BY <1>1, RestTyped DEF Sound, FleetTasks
<1>3. IngressType
  <2>1. IsFiniteSet({}) BY FS_EmptySet
  <2>2. 0 \in 0 .. MaxOrders /\ 0 \in 0 .. MaxFailures BY IngressAssumption
  <2>3. queue \in Seq(Events) BY DEF IngressInit
  <2>4. /\ declared = FALSE /\ want = 0 /\ up = {} /\ route = {} /\ status = "none" /\ orders = 0
        /\ failures = 0 /\ misled = FALSE /\ crossed = FALSE
    BY DEF IngressInit
  <2>. QED BY <1>1, <1>2, <2>1, <2>2, <2>3, <2>4 DEF IngressType
<1>4. NoneWanted BY <1>1, RestTyped DEF IngressInit, NoneWanted, FleetTasks
<1>5. PutLast /\ NoteDue /\ RouteDue /\ DeleteDue
  BY DEF IngressInit, PutLast, NoteDue, RouteDue, DeleteDue
<1>6. \A w \in Workers : Replaced(w) /\ Current(w)
  BY <1>1, RestTyped DEF Replaced, Current, FleetTasks
<1>7. AllRouted /\ RollKeepsRoute BY DEF IngressInit, AllRouted, Undisturbed, RollKeepsRoute
<1>. QED BY <1>3, <1>4, <1>5, <1>6, <1>7 DEF IngressIInv

LEMMA IngressStep == IngressIInv /\ [IngressNext]_ingressVars => IngressIInv'
<1> SUFFICES ASSUME IngressIInv, [IngressNext]_ingressVars PROVE IngressIInv' OBVIOUS
<1>1. CASE UNCHANGED ingressVars
  BY <1>1 DEF ingressVars, IngressIInv, IngressType, NoneWanted, PutLast, NoteDue, RouteDue, DeleteDue,
              Replaced, Current, AllRouted, RollKeepsRoute, Routing, Unrouting, Publishing, Doing,
              Undisturbed, Adding
<1>2. ASSUME NEW w \in Workers, Wake(w) \/ Outcome(w) \/ Resolve(w) \/ Invoke(w) \/ Note(w)
                                \/ Unroute(w) \/ Fleet(w) \/ FleetEnd(w) \/ Retire(w)
      PROVE  IngressIInv'
  BY <1>2, WakeTrue, OutcomeTrue, ResolveTrue, InvokeTrue, NoteTrue, UnrouteTrue, FleetTrue, FleetEndTrue,
     RetireTrue
<1>. QED BY <1>1, <1>2, OperatorsTrue, AskRestartTrue, TakeEventTrue DEF IngressNext

\* With nothing under way the route is the replicas that run, or none if there is no
\* ingress, unless a failure was reported or a list went out of date since; and unless
\* a restart and a reconcile crossed, or the ingress's delete waits behind the roll, the
\* router never has dead replicas only: for any fleets, retries, failures and orders.
THEOREM IngressCorrect == IngressSpec => []RoutesTrue
<1>1. IngressIInv => RoutesTrue
  <2> SUFFICES ASSUME IngressIInv PROVE RoutesTrue OBVIOUS
  <2>1. RollKeepsRoute /\ RouteDue /\ DeleteDue BY DEF IngressIInv
  <2>2. AtRest => ~Publishing /\ ~Unrouting
    <3> SUFFICES ASSUME AtRest PROVE ~Publishing /\ ~Unrouting OBVIOUS
    <3>1. queue = <<>> /\ \A w \in Workers : worker[w].pc = "rest" BY DEF AtRest, Doing
    <3>2. DOMAIN queue = {} BY <3>1
    <3>3. "loop" \in Workers BY DEF Workers
    <3>. QED BY <3>1, <3>2, <3>3 DEF Publishing, Unrouting, Routing, Doing
  <2>3. RouteFollows BY <2>1, <2>2 DEF RouteFollows, RouteDue, DeleteDue
  <2>. QED BY <2>1, <2>3 DEF RoutesTrue
<1>2. IngressSpec => []IngressIInv BY IngressStarts, IngressStep, PTL DEF IngressSpec
<1>. QED BY <1>1, <1>2, PTL

-----------------------------------------------------------------------------
(* Assets. The argument: a materialisation that ran alone has on disk what it *)
(* wrote, so what it records is what is there; and from the moment a workload *)
(* is stamped to the handling of the last change there is always someone on   *)
(* the way who will put the stamped contents back if another one goes through *)
(* the files before: the last event waiting, then the reconciler itself.      *)

AssetPcs == {"off", "asleep", "stamp", "files", "ask", "bytes", "tag", "write"}
AtFile == {"ask", "bytes", "tag", "write"}
AtFiles == {"files"} \cup AtFile
AssetSpecs == UNION {[K -> AssetFile] : K \in SUBSET AssetKeys}
Writer == [pc : AssetPcs, files : AssetSpecs \cup {NoAsset}, user : BOOLEAN,
           todo : SUBSET AssetKeys, key : AssetKeys \cup {0}, body : Nat,
           done : SUBSET (AssetKeys \X Nat), failed : SUBSET AssetKeys, alone : BOOLEAN]

\* Every variable has its type.
AssetsType ==
  /\ site \in Nat \ {0}
  /\ cached \in [bytes : Nat, tag : Nat]
  /\ asset \in AssetSpecs \cup {NoAsset}
  /\ stamp \subseteq AssetKeys \X Nat
  /\ changes \in Seq(AssetSpecs \cup {NoAsset})
  /\ disk \in [AssetKeys -> Nat] /\ digests \in [AssetKeys -> Nat]
  /\ writer \in [Writers -> Writer]
  /\ applies \in Nat /\ mishaps \in Nat
  /\ soiled \in BOOLEAN /\ drifted \in BOOLEAN

\* Contents of keys that a materialisation of fs may show: one for each key, and
\* of a file written in the manifest no other than that.
Shows(ds, fs) ==
  /\ \A d \in ds : /\ d[1] \in DOMAIN fs /\ d[2] # 0
                   /\ fs[d[1]].src = "inline" => d[2] = fs[d[1]].v
  /\ \A d, e \in ds : d[1] = e[1] => d = e

Keyed(ds) == {d[1] : d \in ds}

\* A materialisation: each file is still to do, in hand, failed or done.
Sorted(r) ==
  /\ r.files # NoAsset /\ Shows(r.done, r.files)
  /\ r.pc = "files" => DOMAIN r.files = r.todo \cup r.failed \cup Keyed(r.done)
  /\ r.pc # "files" => /\ DOMAIN r.files = r.todo \cup r.failed \cup Keyed(r.done) \cup {r.key}
                       /\ r.key \notin r.todo \cup r.failed \cup Keyed(r.done)
                       /\ r.pc # "ask" => r.body # 0
                       /\ r.pc # "write" => r.files[r.key].src = "url"
                       /\ r.pc = "write" /\ r.files[r.key].src = "inline" =>
                            r.body = r.files[r.key].v
  /\ Keyed(r.done) \cap (r.todo \cup r.failed) = {} /\ r.todo \cap r.failed = {}
  /\ \A k \in r.failed : r.files[k].src = "url"

\* What goes to the stamp; and who may be where.
KeptFiles(r) == IF r.files = NoAsset THEN r.done = {} ELSE Shows(r.done, r.files)
WriterOK(w, r) ==
  /\ r.pc \in AtFiles => Sorted(r)
  /\ r.pc = "stamp" => w \in Appliers /\ KeptFiles(r)
  /\ r.pc = "asleep" => w = "retried"

\* Whoever may still count on the disk being its own.
Holds(r) == r.pc \in AtFiles \/ (r.pc = "stamp" /\ r.files # NoAsset)
Alone(w) ==
  Holds(writer[w]) /\ writer[w].alone =>
    /\ writer["retried"].pc # "asleep" /\ \A v \in Writers \ {w} : ~Holds(writer[v])
    /\ writer[w].pc \in AtFiles => \A d \in writer[w].done : disk[d[1]] = d[2]
    /\ writer[w].pc = "stamp" => \A k \in AssetKeys : digests[k] = Digest(writer[w].done, k)

StatusKept == ~soiled /\ (\A w \in Writers : writer[w].pc \notin AtFiles) => digests = disk

\* The content the stored asset gives to a key, the URL being what it is.
Due(k) == IF asset[k].src = "inline" THEN asset[k].v ELSE site
StampDue == \A s \in stamp : s[1] \in DOMAIN asset /\ s[2] = Due(s[1])

\* Behind other changes, or in the reconciler's hands, or settled.
Coming == changes # <<>> /\ asset # NoAsset /\ changes[Len(changes)] = asset /\ StampDue
GoesRight(r) ==
  /\ \A k \in DOMAIN asset : \/ k \in r.todo \cup r.failed \/ disk[k] = Due(k)
                             \/ r.pc # "files" /\ k = r.key
  /\ r.pc \in AtFile \ {"ask"} => r.body = Due(r.key)
InHand ==
  LET me == writer["reconciler"] IN
  /\ changes = <<>> /\ asset # NoAsset /\ me.pc \in AtFiles /\ me.files = asset /\ StampDue
  /\ GoesRight(me)
Settled ==
  /\ changes = <<>> /\ writer["reconciler"].pc = "off"
  /\ soiled \/ \A s \in stamp : disk[s[1]] = s[2]
StampKept ==
  ~drifted /\ stamp # {} =>
    /\ writer["retried"].pc = "off" /\ \A w \in Appliers : ~Holds(writer[w])
    /\ Coming \/ InHand \/ Settled

AssetsIInv ==
  /\ AssetsType /\ (\A w \in Writers : WriterOK(w, writer[w]))
  /\ (\A w \in Writers : Alone(w)) /\ StatusKept /\ StampKept

LEMMA AsWriters ==
  /\ "reconciler" \in Writers /\ "retried" \in Writers /\ Appliers \subseteq Writers
  /\ "reconciler" \notin Appliers /\ "retried" \notin Appliers
  /\ \A w \in Writers : w \in Appliers \/ w = "reconciler" \/ w = "retried"
BY AssetsAssumption DEF Writers

LEMMA AsOff ==
  /\ Off \in Writer /\ Off.pc = "off" /\ Off.files = NoAsset /\ Off.todo = {} /\ Off.done = {}
  /\ Off.failed = {} /\ Off.alone = TRUE /\ Off.key = 0 /\ Off.body = 0 /\ Off.user = FALSE
BY DEF Off, Writer, AssetPcs

LEMMA AsSpecs ==
  \A fs \in AssetSpecs : /\ DOMAIN fs \subseteq AssetKeys
                         /\ \A k \in DOMAIN fs : /\ fs[k] \in AssetFile /\ fs[k].v \in Nat
                                                 /\ fs[k].src \in {"inline", "url"}
                                                 /\ fs[k].src = "inline" => fs[k].v # 0
                                                 /\ fs[k].strict \in BOOLEAN
<1> TAKE fs \in AssetSpecs
<1>1. PICK K \in SUBSET AssetKeys : fs \in [K -> AssetFile]
  BY DEF AssetSpecs
<1>2. DOMAIN fs = K /\ \A k \in K : fs[k] \in AssetFile
  BY <1>1
<1>3. \A f \in AssetFile : /\ f.v \in Nat /\ f.src \in {"inline", "url"}
                           /\ (f.src = "inline" => f.v # 0) /\ f.strict \in BOOLEAN
  BY DEF AssetFile
<1> QED BY <1>1, <1>2, <1>3

LEMMA AsBodies ==
  \A b \in AssetBodies : b.user \in BOOLEAN /\ (b.asset # NoAsset => b.asset \in AssetSpecs)
BY AssetsAssumption DEF AssetSpecs

\* Digest of contents that has one for each key.
LEMMA AsDigest ==
  ASSUME NEW ds \in SUBSET (AssetKeys \X Nat), \A d, e \in ds : d[1] = e[1] => d = e
  PROVE  /\ \A d \in ds : Digest(ds, d[1]) = d[2]
         /\ \A k \in AssetKeys : k \notin Keyed(ds) => Digest(ds, k) = 0
         /\ \A k \in AssetKeys : Digest(ds, k) \in Nat
         /\ \A k \in AssetKeys : Digest(ds, k) # 0 => \E d \in ds : d[1] = k /\ d[2] = Digest(ds, k)
<1>1. ASSUME NEW d \in ds PROVE Digest(ds, d[1]) = d[2]
  BY <1>1 DEF Digest
<1>2. ASSUME NEW k \in AssetKeys, k \notin Keyed(ds) PROVE Digest(ds, k) = 0
  <2>1. ~\E d \in ds : d[1] = k BY <1>2 DEF Keyed
  <2> QED BY <2>1 DEF Digest
<1>3. ASSUME NEW k \in AssetKeys, Digest(ds, k) # 0
      PROVE  \E d \in ds : d[1] = k /\ d[2] = Digest(ds, k)
  BY <1>2, <1>3, <1>1 DEF Keyed
<1>4. ASSUME NEW k \in AssetKeys PROVE Digest(ds, k) \in Nat
  <2>1. CASE k \in Keyed(ds)
    BY <2>1, <1>1 DEF Keyed
  <2>2. CASE k \notin Keyed(ds) BY <1>2, <2>2
  <2> QED BY <2>1, <2>2
<1> QED BY <1>1, <1>2, <1>3, <1>4

LEMMA AsInit ==
  ASSUME AssetsInit
  PROVE  AssetsIInv
<1> USE DEF AssetsInit
<1>1. \A w \in Writers : writer[w] = Off
  OBVIOUS
<1>2. AssetsType
  <2>1. <<>> \in Seq(AssetSpecs \cup {NoAsset}) OBVIOUS
  <2>2. writer \in [Writers -> Writer] BY AsOff
  <2>3. [bytes |-> 0, tag |-> 0] \in [bytes : Nat, tag : Nat] OBVIOUS
  <2>4. [k \in AssetKeys |-> 0] \in [AssetKeys -> Nat] OBVIOUS
  <2>5. site \in Nat \ {0} /\ asset \in AssetSpecs \cup {NoAsset} /\ changes \in Seq(AssetSpecs \cup {NoAsset})
    BY <2>1
  <2>6. stamp \subseteq AssetKeys \X Nat /\ applies \in Nat /\ mishaps \in Nat
        /\ soiled \in BOOLEAN /\ drifted \in BOOLEAN
    OBVIOUS
  <2>7. disk \in [AssetKeys -> Nat] /\ digests \in [AssetKeys -> Nat] /\ cached \in [bytes : Nat, tag : Nat]
    BY <2>3, <2>4
  <2> QED BY <2>2, <2>5, <2>6, <2>7 DEF AssetsType
<1>3. \A w \in Writers : WriterOK(w, writer[w]) /\ Alone(w)
  BY <1>1, AsOff DEF WriterOK, Alone, Holds, AtFiles, AtFile
<1>4. StatusKept /\ StampKept
  BY DEF StatusKept, StampKept
<1> QED BY <1>2, <1>3, <1>4 DEF AssetsIInv

\* The effect of a turn.
LEMMA AsTurned ==
  ASSUME AssetsType, NEW w \in Writers, NEW r \in Writer, Turn(w, r)
  PROVE  /\ writer' \in [Writers -> Writer] /\ writer'[w] = r
         /\ \A v \in Writers \ {w} : writer'[v] = writer[v]
BY DEF AssetsType, Turn

\* The effect of a start: one goes through the files, and none is alone any more
\* but the one that found no other.
Started(w, fs) ==
  /\ writer' \in [Writers -> Writer]
  /\ writer'[w].pc = "files" /\ writer'[w].files = fs /\ writer'[w].todo = DOMAIN fs
  /\ writer'[w].done = {} /\ writer'[w].failed = {}
  /\ writer'[w].alone = TRUE => \A v \in Writers \ {w} : writer[v].pc = "off"
  /\ \A v \in Writers \ {w} :
       /\ writer'[v].pc = writer[v].pc /\ writer'[v].files = writer[v].files
       /\ writer'[v].todo = writer[v].todo /\ writer'[v].key = writer[v].key
       /\ writer'[v].body = writer[v].body /\ writer'[v].done = writer[v].done
       /\ writer'[v].failed = writer[v].failed
       /\ writer[v].pc # "off" => writer'[v].alone = FALSE

LEMMA AsStarted ==
  ASSUME AssetsType, NEW w \in Writers, NEW fs \in AssetSpecs, NEW u, u \in BOOLEAN, Start(w, fs, u)
  PROVE  Started(w, fs)
<1> DEFINE others == {v \in Writers \ {w} : Busy(v)}
           mine == [Off EXCEPT !.pc = "files", !.files = fs, !.user = u, !.todo = DOMAIN fs,
                               !.alone = others = {}]
<1>1. DOMAIN fs \subseteq AssetKeys BY AsSpecs
<1>2. mine \in Writer
  BY <1>1 DEF Off, Writer, AssetPcs
<1>3. /\ mine.pc = "files" /\ mine.files = fs /\ mine.todo = DOMAIN fs /\ mine.done = {}
      /\ mine.failed = {} /\ mine.alone = (others = {})
  BY DEF Off
<1>4. \A v \in Writers : writer[v] \in Writer
  BY DEF AssetsType
<1>5. writer' = [v \in Writers |-> IF v = w THEN mine
                   ELSE IF Busy(v) THEN [writer[v] EXCEPT !.alone = FALSE] ELSE writer[v]]
  BY DEF Start
<1> HIDE DEF mine
<1>6. ASSUME NEW v \in Writers \ {w}
      PROVE  /\ writer'[v] \in Writer
             /\ writer'[v].pc = writer[v].pc /\ writer'[v].files = writer[v].files
             /\ writer'[v].todo = writer[v].todo /\ writer'[v].key = writer[v].key
             /\ writer'[v].body = writer[v].body /\ writer'[v].done = writer[v].done
             /\ writer'[v].failed = writer[v].failed
             /\ writer[v].pc # "off" => writer'[v].alone = FALSE
  <2>1. writer[v] \in Writer BY <1>4
  <2>2. CASE Busy(v)
    BY <1>5, <2>2, <2>1 DEF Writer
  <2>3. CASE ~Busy(v)
    <3>1. writer'[v] = writer[v] BY <1>5, <2>3
    <3> QED BY <2>1, <2>3, <3>1 DEF Busy
  <2> QED BY <2>2, <2>3
<1>7. writer'[w] = mine BY <1>5
<1>8. \A v \in Writers : writer'[v] \in Writer BY <1>2, <1>6, <1>7
<1>9. writer' \in [Writers -> Writer] BY <1>5, <1>8
<1>10. writer'[w].alone = TRUE => \A v \in Writers \ {w} : writer[v].pc = "off"
  BY <1>3, <1>7 DEF Busy
<1> QED BY <1>3, <1>6, <1>7, <1>9, <1>10 DEF Started

\* A step of a materialisation that leaves the disk alone.
LEMMA AsMoved ==
  ASSUME AssetsIInv, NEW w \in Writers, NEW r \in Writer, Turn(w, r),
         writer[w].pc \in AtFiles, r.pc \in AtFiles, Sorted(r),
         r.done = writer[w].done, r.alone = writer[w].alone, r.files = writer[w].files,
         UNCHANGED <<site, asset, stamp, changes, disk, digests>>,
         drifted' = FALSE => drifted = FALSE, drifted' \in BOOLEAN,
         drifted' = FALSE /\ w = "reconciler" /\ InHand => GoesRight(r)
  PROVE  /\ writer' \in [Writers -> Writer]
         /\ \A v \in Writers : WriterOK(v, writer'[v]) /\ Alone(v)'
         /\ StatusKept' /\ StampKept'
<1>1. /\ writer' \in [Writers -> Writer] /\ writer'[w] = r
      /\ \A v \in Writers \ {w} : writer'[v] = writer[v]
  BY AsTurned DEF AssetsIInv
<1>2. r.pc # "stamp" /\ r.pc # "asleep" /\ r.pc # "off" /\ writer[w].pc # "off" /\ writer[w].pc # "stamp"
  BY DEF AtFiles, AtFile
<1>3. \A v \in Writers : WriterOK(v, writer'[v])
  BY <1>1, <1>2 DEF AssetsIInv, WriterOK
<1>4. \A v \in Writers : Holds(writer'[v]) = Holds(writer[v])
  BY <1>1, <1>2 DEF Holds
<1>45. writer'["retried"].pc = "asleep" => writer["retried"].pc = "asleep"
  BY <1>1, <1>2, AsWriters
<1>5. ASSUME NEW v \in Writers PROVE Alone(v)'
  <2>1. Alone(v) BY DEF AssetsIInv
  <2>2. CASE v = w
    BY <1>1, <1>2, <1>4, <1>45, <2>1, <2>2 DEF Alone
  <2>3. CASE v # w
    <3>1. writer'[v] = writer[v] BY <1>1, <2>3
    <3> QED BY <1>4, <1>45, <2>1, <3>1 DEF Alone
  <2> QED BY <2>2, <2>3
<1>6. StatusKept'
  BY <1>1 DEF StatusKept
<1>7. ASSUME ~drifted', stamp # {}
      PROVE  /\ writer'["retried"].pc = "off" /\ \A v \in Appliers : ~Holds(writer'[v])
             /\ Coming' \/ InHand'
  <2>1. ~drifted BY <1>7
  <2>2. /\ writer["retried"].pc = "off" /\ \A v \in Appliers : ~Holds(writer[v])
        /\ Coming \/ InHand \/ Settled
    BY <1>7, <2>1 DEF AssetsIInv, StampKept
  <2>3. Holds(writer[w]) BY DEF Holds
  <2>4. w = "reconciler"
    BY <1>2, <2>2, <2>3, AsWriters
  <2>5. ~Settled BY <1>2, <2>4 DEF Settled
  <2>6. writer'["retried"].pc = "off" /\ \A v \in Appliers : ~Holds(writer'[v])
    BY <1>1, <1>4, <2>2, <2>4, AsWriters
  <2>7. CASE Coming
    <3>1. Coming' BY <2>7 DEF Coming, StampDue, Due
    <3> QED BY <2>6, <3>1
  <2>8. CASE InHand
    BY <1>7, <2>4, <2>8, <1>1, <2>6 DEF GoesRight, Due, InHand, StampDue
  <2> QED BY <2>2, <2>5, <2>7, <2>8
<1>8. StampKept'
  BY <1>7 DEF StampKept
<1> QED BY <1>1, <1>3, <1>5, <1>6, <1>8

LEMMA AsNextFile ==
  ASSUME AssetsIInv, NEW w \in Writers, NextFile(w)
  PROVE  AssetsIInv'
<1> DEFINE me == writer[w]
<1>0. AssetsType BY DEF AssetsIInv
<1>1. me \in Writer BY <1>0 DEF AssetsType
<1>2. me.pc = "files" /\ Sorted(me)
  BY DEF NextFile, Is, AssetsIInv, WriterOK, AtFiles
<1> DEFINE f(k) == me.files[k]
           mine(k) == [me EXCEPT !.todo = @ \ {k}, !.key = k, !.body = f(k).v,
                                 !.pc = IF f(k).src = "url" THEN "ask" ELSE "write"]
<1>3. PICK k \in me.todo : Turn(w, mine(k))
  BY DEF NextFile
<1>4. me.files \in AssetSpecs /\ DOMAIN me.files = me.todo \cup me.failed \cup Keyed(me.done)
  BY <1>1, <1>2 DEF Sorted, Writer
<1>5. k \in DOMAIN me.files /\ k \in AssetKeys BY <1>4, AsSpecs
<1>6. /\ f(k).v \in Nat /\ f(k).src \in {"inline", "url"} /\ (f(k).src = "inline" => f(k).v # 0)
  BY <1>4, <1>5, AsSpecs
<1>7. mine(k) \in Writer
  <2>1. f(k).v \in Nat /\ (IF f(k).src = "url" THEN "ask" ELSE "write") \in AssetPcs
    BY <1>6 DEF AssetPcs
  <2> HIDE DEF f
  <2> QED BY <1>1, <1>5, <2>1 DEF Writer
<1>8. /\ mine(k).pc = (IF f(k).src = "url" THEN "ask" ELSE "write") /\ mine(k).files = me.files
      /\ mine(k).todo = me.todo \ {k} /\ mine(k).key = k /\ mine(k).body = f(k).v
      /\ mine(k).done = me.done /\ mine(k).failed = me.failed /\ mine(k).alone = me.alone
  <2> HIDE DEF f
  <2> QED BY <1>1 DEF Writer
<1> DEFINE r == mine(k)
<1> HIDE DEF mine
<1>9. r.pc \in AtFile /\ r.pc # "files" /\ (r.pc # "ask" => r.pc = "write" /\ f(k).src = "inline")
      /\ (r.pc # "write" => f(k).src = "url")
  BY <1>6, <1>8 DEF AtFile
<1>10. Sorted(r)
  BY <1>2, <1>8, <1>4, <1>5, <1>6, <1>9 DEF Sorted
<1>11. InHand /\ w = "reconciler" => GoesRight(r)
  <2> HAVE InHand /\ w = "reconciler"
  <2>1. asset = me.files /\ GoesRight(me) BY DEF InHand
  <2>2. ASSUME NEW j \in DOMAIN asset
        PROVE  j \in r.todo \cup r.failed \/ disk[j] = Due(j) \/ (r.pc # "files" /\ j = r.key)
    BY <1>2, <2>1, <2>2, <1>8, <1>9 DEF GoesRight
  <2>3. r.pc \in AtFile \ {"ask"} => r.body = Due(r.key)
    BY <1>8, <1>9, <2>1 DEF Due
  <2> QED BY <2>2, <2>3 DEF GoesRight
<1>12. UNCHANGED <<site, cached, asset, stamp, changes, disk, digests, applies, mishaps, soiled, drifted>>
  BY DEF NextFile
<1>13. /\ writer' \in [Writers -> Writer]
       /\ \A v \in Writers : WriterOK(v, writer'[v]) /\ Alone(v)'
       /\ StatusKept' /\ StampKept'
  BY <1>2, <1>9, <1>0, <1>3, <1>7, <1>8, <1>10, <1>11, <1>12, AsMoved DEF AtFiles, AssetsType
<1>14. AssetsType'
  BY <1>0, <1>12, <1>13 DEF AssetsType
<1> QED BY <1>13, <1>14 DEF AssetsIInv, WriterOK

\* A materialisation cut short by a strict URL, or left without its status.
LEMMA AsCut ==
  ASSUME AssetsIInv, NEW w \in Writers, writer[w].pc \in AtFiles, Turn(w, Off), soiled' = TRUE,
         \A k \in DOMAIN writer[w].files \cup Keyed(writer[w].done) : disk'[k] = disk[k],
         UNCHANGED <<site, asset, stamp, changes, digests, drifted>>
  PROVE  /\ writer' \in [Writers -> Writer]
         /\ \A v \in Writers : WriterOK(v, writer'[v]) /\ Alone(v)'
         /\ StatusKept' /\ StampKept'
<1>1. /\ writer' \in [Writers -> Writer] /\ writer'[w] = Off
      /\ \A v \in Writers \ {w} : writer'[v] = writer[v]
  BY AsTurned, AsOff DEF AssetsIInv
<1>2. Off.pc \notin AtFiles /\ writer[w].pc # "off" /\ ~Holds(Off) /\ Off.pc = "off"
  BY AsOff DEF AtFiles, AtFile, Holds
<1>3. \A v \in Writers : WriterOK(v, writer'[v])
  BY <1>1, <1>2 DEF AssetsIInv, WriterOK
<1>4. \A v \in Writers : Holds(writer'[v]) => Holds(writer[v]) /\ writer'[v] = writer[v]
  BY <1>1, <1>2
<1>5. ASSUME NEW v \in Writers PROVE Alone(v)'
  <2>1. Alone(v) /\ Holds(writer[w]) BY DEF AssetsIInv, Holds
  <2>2. Holds(writer'[v]) => v # w /\ Holds(writer[v]) /\ writer'[v] = writer[v]
    BY <1>1, <1>2, <1>4
  <2>3. ~(Holds(writer'[v]) /\ writer'[v].alone)
    BY <2>1, <2>2 DEF Alone
  <2>. QED BY <2>3 DEF Alone
<1>6. StatusKept'
  BY DEF StatusKept
<1>7. ASSUME ~drifted', stamp # {}
      PROVE  /\ writer'["retried"].pc = "off" /\ \A v \in Appliers : ~Holds(writer'[v])
             /\ Coming' \/ Settled'
  <2>1. /\ writer["retried"].pc = "off" /\ \A v \in Appliers : ~Holds(writer[v])
        /\ Coming \/ InHand \/ Settled
    BY <1>7 DEF AssetsIInv, StampKept
  <2>2. w = "reconciler"
    BY <1>2, <2>1, AsWriters DEF Holds
  <2>3. writer'["retried"].pc = "off" /\ \A v \in Appliers : ~Holds(writer'[v])
    BY <1>1, <1>4, <2>1, <2>2, AsWriters
  <2>4. CASE Coming
    <3>1. Coming' BY <2>4 DEF Coming, StampDue, Due
    <3> QED BY <2>3, <3>1
  <2>5. CASE changes = <<>>
    <3>1. Settled' BY <1>1, <1>2, <2>2, <2>5 DEF Settled
    <3> QED BY <2>3, <3>1
  <2> QED BY <2>1, <2>4, <2>5 DEF InHand, Settled
<1>8. StampKept'
  BY <1>7 DEF StampKept
<1> QED BY <1>1, <1>3, <1>5, <1>6, <1>8

\* What a file in hand is.
LEMMA AsInHand ==
  ASSUME AssetsIInv, NEW w \in Writers, writer[w].pc \in AtFile
  PROVE  /\ writer[w] \in Writer /\ Sorted(writer[w]) /\ writer[w].key \in AssetKeys
         /\ writer[w].files \in AssetSpecs /\ writer[w].key \in DOMAIN writer[w].files
BY AsSpecs DEF AssetsIInv, AssetsType, WriterOK, AtFiles, Sorted, Writer, AtFile

LEMMA AsNotHad ==
  ASSUME AssetsIInv, NEW w \in Writers, writer[w].pc = "ask", NotHad(w),
         UNCHANGED <<site, asset, stamp, changes, disk, digests>>
  PROVE  /\ writer' \in [Writers -> Writer]
         /\ \A v \in Writers : WriterOK(v, writer'[v]) /\ Alone(v)'
         /\ StatusKept' /\ StampKept' /\ soiled' \in BOOLEAN /\ drifted' \in BOOLEAN
<1> DEFINE me == writer[w]
           r == [me EXCEPT !.pc = "files", !.failed = @ \cup {me.key}]
<1>0. AssetsType /\ drifted' = drifted /\ soiled \in BOOLEAN /\ drifted \in BOOLEAN
  BY DEF AssetsIInv, AssetsType, NotHad
<1>1. /\ me \in Writer /\ Sorted(me) /\ me.key \in AssetKeys
      /\ me.files \in AssetSpecs /\ me.key \in DOMAIN me.files
  BY AsInHand DEF AtFile
<1>2. me.pc \in AtFiles BY DEF AtFiles, AtFile
<1>3. CASE me.files[me.key].strict
  <2>1. Turn(w, Off) /\ soiled' = TRUE BY <1>3 DEF NotHad
  <2> QED BY <1>0, <1>2, <2>1, AsCut
<1>4. CASE ~me.files[me.key].strict
  <2>1. Turn(w, r) /\ soiled' = soiled BY <1>4 DEF NotHad
  <2>2. r \in Writer BY <1>1 DEF Writer, AssetPcs
  <2>3. /\ r.pc = "files" /\ r.files = me.files /\ r.todo = me.todo /\ r.done = me.done
        /\ r.failed = me.failed \cup {me.key} /\ r.alone = me.alone /\ r.key = me.key
    BY <1>1 DEF Writer
  <2> HIDE DEF r
  <2>4. Sorted(r)
    BY <1>1, <2>3 DEF Sorted
  <2>5. InHand /\ w = "reconciler" => GoesRight(r)
    <3> HAVE InHand /\ w = "reconciler"
    <3>1. asset = me.files /\ GoesRight(me) BY DEF InHand
    <3>2. \A j \in DOMAIN asset : j \in r.todo \cup r.failed \/ disk[j] = Due(j)
      BY <2>3, <3>1 DEF GoesRight
    <3>3. r.pc \notin AtFile BY <2>3 DEF AtFile
    <3> QED BY <3>2, <3>3 DEF GoesRight
  <2>6. r.pc \in AtFiles BY <2>3 DEF AtFiles
  <2> QED BY <1>0, <1>2, <2>1, <2>2, <2>3, <2>4, <2>5, <2>6, AsMoved
<1> QED BY <1>3, <1>4

\* The URL's file in hand goes on: to the cache's two writes, then to the disk.
LEMMA AsOn ==
  ASSUME AssetsIInv, NEW w \in Writers, writer[w].pc \in {"ask", "bytes", "tag"},
         NEW pc \in {"bytes", "tag", "write"}, NEW v \in Nat \ {0},
         Turn(w, [writer[w] EXCEPT !.pc = pc, !.body = v]),
         UNCHANGED <<site, asset, stamp, changes, disk, digests>>,
         drifted' = FALSE => drifted = FALSE, drifted' \in BOOLEAN,
         drifted' = FALSE => v = site \/ (writer[w].pc # "ask" /\ v = writer[w].body)
  PROVE  /\ writer' \in [Writers -> Writer]
         /\ \A u \in Writers : WriterOK(u, writer'[u]) /\ Alone(u)'
         /\ StatusKept' /\ StampKept'
<1> DEFINE me == writer[w]
           r == [me EXCEPT !.pc = pc, !.body = v]
<1>1. /\ me \in Writer /\ Sorted(me) /\ me.key \in AssetKeys
      /\ me.files \in AssetSpecs /\ me.key \in DOMAIN me.files
  BY AsInHand DEF AtFile
<1>2. me.pc \in AtFiles /\ me.pc \in AtFile BY DEF AtFiles, AtFile
<1>3. r \in Writer BY <1>1 DEF Writer, AssetPcs
<1>4. /\ r.pc = pc /\ r.files = me.files /\ r.todo = me.todo /\ r.done = me.done
      /\ r.failed = me.failed /\ r.alone = me.alone /\ r.key = me.key /\ r.body = v
  BY <1>1 DEF Writer
<1>5. Turn(w, r) OBVIOUS
<1> HIDE DEF r
<1>6. /\ DOMAIN me.files = me.todo \cup me.failed \cup Keyed(me.done) \cup {me.key}
      /\ me.key \notin me.todo \cup me.failed \cup Keyed(me.done)
      /\ me.files[me.key].src = "url" /\ me.files # NoAsset /\ Shows(me.done, me.files)
      /\ Keyed(me.done) \cap (me.todo \cup me.failed) = {} /\ me.todo \cap me.failed = {}
      /\ \A k \in me.failed : me.files[k].src = "url"
  BY <1>1 DEF Sorted
<1>7. r.pc # "files" /\ r.pc \in AtFiles /\ r.pc \in AtFile /\ r.pc # "ask"
  BY <1>4 DEF AtFiles, AtFile
<1>8. Sorted(r)
  BY <1>4, <1>6, <1>7 DEF Sorted
<1>9. ASSUME drifted' = FALSE, w = "reconciler", InHand PROVE GoesRight(r)
  <2>1. asset = me.files /\ GoesRight(me) BY <1>9 DEF InHand
  <2>2. \A j \in DOMAIN asset : j \in me.todo \cup me.failed \/ disk[j] = Due(j) \/ j = me.key
    BY <2>1 DEF GoesRight
  <2>3. Due(r.key) = site BY <1>4, <1>6, <2>1 DEF Due
  <2>4. v = site
    <3>1. CASE me.pc # "ask" /\ v = me.body
      <4>1. me.body = Due(me.key) BY <1>2, <2>1, <3>1 DEF GoesRight
      <4> QED BY <1>4, <2>3, <3>1, <4>1
    <3> QED BY <1>9, <3>1
  <2> QED BY <1>4, <1>7, <2>2, <2>3, <2>4 DEF GoesRight
<1> QED BY <1>2, <1>3, <1>4, <1>5, <1>7, <1>8, <1>9, AsMoved

LEMMA AsAsk ==
  ASSUME AssetsIInv, NEW w \in Writers, Ask(w)
  PROVE  AssetsIInv'
<1> DEFINE me == writer[w]
           served(v) == /\ Turn(w, [me EXCEPT !.pc = "write", !.body = v])
                        /\ drifted' = (drifted \/ v # site) /\ UNCHANGED soiled
           Goal == /\ writer' \in [Writers -> Writer]
                   /\ \A u \in Writers : WriterOK(u, writer'[u]) /\ Alone(u)'
                   /\ StatusKept' /\ StampKept' /\ soiled' \in BOOLEAN /\ drifted' \in BOOLEAN
<1>0. /\ AssetsType /\ soiled \in BOOLEAN /\ drifted \in BOOLEAN /\ cached.bytes \in Nat
      /\ site \in Nat \ {0} /\ mishaps \in Nat
  BY DEF AssetsIInv, AssetsType
<1>1. me.pc = "ask" BY DEF Ask, Is
<1>2. UNCHANGED <<site, cached, asset, stamp, changes, disk, digests, applies>>
  BY DEF Ask
<1>3. ASSUME served(cached.bytes), cached.bytes # 0 PROVE Goal
  <2>1. drifted' \in BOOLEAN /\ soiled' \in BOOLEAN /\ (drifted' = FALSE => drifted = FALSE /\ cached.bytes = site)
    BY <1>0, <1>3
  <2>2. cached.bytes \in Nat \ {0} BY <1>0, <1>3
  <2>3. Turn(w, [writer[w] EXCEPT !.pc = "write", !.body = cached.bytes]) BY <1>3
  <2>4. me.pc \in {"ask", "bytes", "tag"} /\ "write" \in {"bytes", "tag", "write"} BY <1>1
  <2> HIDE DEF served
  <2> QED BY <1>2, <2>1, <2>2, <2>3, <2>4, AsOn
<1>4. ASSUME NotHad(w) PROVE Goal
  BY <1>1, <1>2, <1>4, AsNotHad
<1>5. ASSUME Turn(w, [me EXCEPT !.pc = "bytes", !.body = site]), UNCHANGED <<soiled, drifted>>
      PROVE  Goal
  BY <1>1, <1>0, <1>2, <1>5, AsOn
<1>6. Goal /\ mishaps' \in Nat
  <2>1. \/ served(cached.bytes) /\ cached.bytes # 0
        \/ NotHad(w)
        \/ Turn(w, [me EXCEPT !.pc = "bytes", !.body = site]) /\ UNCHANGED <<soiled, drifted>>
    BY DEF Ask
  <2>2. mishaps' \in Nat BY <1>0 DEF Ask, Mishap
  <2> HIDE DEF served, Goal
  <2> QED BY <1>3, <1>4, <1>5, <2>1, <2>2
<1>7. AssetsType'
  BY <1>0, <1>2, <1>6 DEF AssetsType
<1> QED BY <1>6, <1>7 DEF AssetsIInv, WriterOK

LEMMA AsCacheBytes ==
  ASSUME AssetsIInv, NEW w \in Writers, CacheBytes(w)
  PROVE  AssetsIInv'
<1> DEFINE me == writer[w]
<1>0. AssetsType /\ drifted \in BOOLEAN /\ mishaps \in Nat /\ cached \in [bytes : Nat, tag : Nat]
  BY DEF AssetsIInv, AssetsType
<1>1. me.pc = "bytes" /\ Turn(w, [me EXCEPT !.pc = "tag"])
      /\ UNCHANGED <<site, asset, stamp, changes, disk, digests, applies, soiled, drifted>>
  BY DEF CacheBytes, Is
<1>2. me \in Writer /\ Sorted(me) BY <1>1, AsInHand DEF AtFile
<1>3. me.body \in Nat \ {0} BY <1>1, <1>2 DEF Sorted, Writer
<1>4. [me EXCEPT !.pc = "tag"] = [me EXCEPT !.pc = "tag", !.body = me.body]
  BY <1>2 DEF Writer
<1>5. Turn(w, [me EXCEPT !.pc = "tag", !.body = me.body]) BY <1>1, <1>4
<1>6. /\ writer' \in [Writers -> Writer]
      /\ \A u \in Writers : WriterOK(u, writer'[u]) /\ Alone(u)'
      /\ StatusKept' /\ StampKept'
  BY <1>1, <1>0, <1>3, <1>5, AsOn
<1>7. cached' \in [bytes : Nat, tag : Nat] /\ mishaps' \in Nat
  BY <1>0, <1>3 DEF CacheBytes, Mishap
<1>8. AssetsType'
  BY <1>0, <1>1, <1>6, <1>7 DEF AssetsType
<1> QED BY <1>6, <1>8 DEF AssetsIInv, WriterOK

LEMMA AsCacheTag ==
  ASSUME AssetsIInv, NEW w \in Writers, CacheTag(w)
  PROVE  AssetsIInv'
<1> DEFINE me == writer[w]
<1>0. AssetsType /\ drifted \in BOOLEAN /\ mishaps \in Nat /\ cached \in [bytes : Nat, tag : Nat]
  BY DEF AssetsIInv, AssetsType
<1>1. me.pc = "tag" /\ Turn(w, [me EXCEPT !.pc = "write"])
      /\ UNCHANGED <<site, asset, stamp, changes, disk, digests, applies, soiled, drifted>>
  BY DEF CacheTag, Is
<1>2. me \in Writer /\ Sorted(me) BY <1>1, AsInHand DEF AtFile
<1>3. me.body \in Nat \ {0} BY <1>1, <1>2 DEF Sorted, Writer
<1>4. [me EXCEPT !.pc = "write"] = [me EXCEPT !.pc = "write", !.body = me.body]
  BY <1>2 DEF Writer
<1>5. Turn(w, [me EXCEPT !.pc = "write", !.body = me.body]) BY <1>1, <1>4
<1>6. /\ writer' \in [Writers -> Writer]
      /\ \A u \in Writers : WriterOK(u, writer'[u]) /\ Alone(u)'
      /\ StatusKept' /\ StampKept'
  BY <1>1, <1>0, <1>3, <1>5, AsOn
<1>7. cached' \in [bytes : Nat, tag : Nat] /\ mishaps' \in Nat
  BY <1>0, <1>3 DEF CacheTag, Mishap
<1>8. AssetsType'
  BY <1>0, <1>1, <1>6, <1>7 DEF AssetsType
<1> QED BY <1>6, <1>8 DEF AssetsIInv, WriterOK

LEMMA AsWrite ==
  ASSUME AssetsIInv, NEW w \in Writers, Write(w)
  PROVE  AssetsIInv'
<1> DEFINE me == writer[w]
           r == [me EXCEPT !.pc = "files", !.done = @ \cup {<<me.key, me.body>>}, !.body = 0]
<1>0. AssetsType /\ disk \in [AssetKeys -> Nat] BY DEF AssetsIInv, AssetsType
<1>1. /\ me.pc = "write" /\ Turn(w, r) /\ disk' = [disk EXCEPT ![me.key] = me.body]
      /\ UNCHANGED <<site, cached, asset, stamp, changes, digests, applies, mishaps, soiled, drifted>>
  BY DEF Write, Is
<1>2. /\ me \in Writer /\ Sorted(me) /\ me.key \in AssetKeys
      /\ me.files \in AssetSpecs /\ me.key \in DOMAIN me.files
  BY <1>1, AsInHand DEF AtFile
<1>3. me.body \in Nat /\ <<me.key, me.body>> \in AssetKeys \X Nat BY <1>2 DEF Writer
<1>4. r \in Writer BY <1>2, <1>3 DEF Writer, AssetPcs
<1>5. /\ r.pc = "files" /\ r.files = me.files /\ r.todo = me.todo /\ r.failed = me.failed
      /\ r.done = me.done \cup {<<me.key, me.body>>} /\ r.alone = me.alone
  BY <1>2 DEF Writer
<1> HIDE DEF r
<1>6. /\ DOMAIN me.files = me.todo \cup me.failed \cup Keyed(me.done) \cup {me.key}
      /\ me.key \notin me.todo \cup me.failed \cup Keyed(me.done) /\ me.body # 0
      /\ (me.files[me.key].src = "inline" => me.body = me.files[me.key].v)
      /\ me.files # NoAsset /\ Shows(me.done, me.files)
      /\ Keyed(me.done) \cap (me.todo \cup me.failed) = {} /\ me.todo \cap me.failed = {}
      /\ \A k \in me.failed : me.files[k].src = "url"
  BY <1>1, <1>2 DEF Sorted
<1>7. Keyed(r.done) = Keyed(me.done) \cup {me.key}
  <2> DEFINE new == <<me.key, me.body>>
  <2>1. new[1] = me.key OBVIOUS
  <2> HIDE DEF new
  <2>2. r.done = me.done \cup {new} BY <1>5 DEF new
  <2> QED BY <2>1, <2>2 DEF Keyed
<1>8. \A d \in me.done : d[1] # me.key BY <1>6 DEF Keyed
<1>9. Shows(r.done, r.files)
  BY <1>2, <1>5, <1>6, <1>8 DEF Shows
<1>10. Sorted(r) BY <1>5, <1>6, <1>7, <1>9 DEF Sorted
<1>11. /\ writer' \in [Writers -> Writer] /\ writer'[w] = r
       /\ \A v \in Writers \ {w} : writer'[v] = writer[v]
  BY <1>0, <1>1, <1>4, AsTurned
<1>12. r.pc \in AtFiles /\ me.pc \in AtFiles /\ Holds(r) /\ Holds(me)
  BY <1>1, <1>5 DEF AtFiles, AtFile, Holds
<1>13. \A v \in Writers : WriterOK(v, writer'[v])
  BY <1>5, <1>10, <1>11 DEF WriterOK, AssetsIInv
<1>14. \A v \in Writers : Holds(writer'[v]) = Holds(writer[v])
  BY <1>11, <1>12 DEF Holds
<1>15. /\ disk' \in [AssetKeys -> Nat] /\ disk'[me.key] = me.body
       /\ \A k \in AssetKeys : k # me.key => disk'[k] = disk[k]
  BY <1>0, <1>1, <1>2, <1>3
<1>16. ASSUME NEW v \in Writers PROVE Alone(v)'
  <2>1. Alone(v) BY DEF AssetsIInv
  <2>2. CASE v = w
    <3>1. ASSUME r.alone, NEW d \in r.done PROVE disk'[d[1]] = d[2]
      <4>1. me.done \subseteq AssetKeys \X Nat BY <1>2 DEF Writer
      <4>2. CASE d \in me.done
        <5>1. disk[d[1]] = d[2] BY <1>5, <1>12, <2>1, <2>2, <3>1, <4>2 DEF Alone
        <5> QED BY <1>8, <1>15, <4>1, <4>2, <5>1
      <4>3. CASE d = <<me.key, me.body>> BY <1>15, <4>3
      <4> QED BY <1>5, <3>1, <4>2, <4>3
    <3>2. r.alone => \A u \in Writers \ {w} : ~Holds(writer'[u])
      BY <1>5, <1>12, <1>14, <2>1, <2>2 DEF Alone
    <3>3. writer'["retried"].pc = "asleep" => writer["retried"].pc = "asleep"
      BY <1>5, <1>11, AsWriters
    <3>4. r.alone => writer["retried"].pc # "asleep"
      BY <1>5, <1>12, <2>1, <2>2 DEF Alone
    <3> QED BY <1>5, <1>11, <2>2, <3>1, <3>2, <3>3, <3>4 DEF Alone
  <2>3. CASE v # w
    BY <1>11, <2>3, <1>12, <2>1 DEF Alone
  <2> QED BY <2>2, <2>3
<1>17. StatusKept'
  BY <1>11, <1>12 DEF StatusKept
<1>18. ASSUME ~drifted', stamp' # {}
       PROVE  /\ writer'["retried"].pc = "off" /\ \A v \in Appliers : ~Holds(writer'[v])
              /\ Coming' \/ InHand'
  <2>1. /\ writer["retried"].pc = "off" /\ \A v \in Appliers : ~Holds(writer[v])
        /\ Coming \/ InHand \/ Settled
    BY <1>1, <1>18 DEF AssetsIInv, StampKept
  <2>2. w = "reconciler" BY <1>1, <1>12, <2>1, AsWriters
  <2>3. ~Settled BY <1>1, <2>2 DEF Settled
  <2>4. writer'["retried"].pc = "off" /\ \A v \in Appliers : ~Holds(writer'[v])
    BY <1>11, <1>14, <2>1, <2>2, AsWriters
  <2>5. CASE Coming
    <3>1. Coming' BY <1>1, <2>5 DEF Coming, StampDue, Due
    <3> QED BY <2>4, <3>1
  <2>6. CASE InHand
    <3>1. asset = me.files /\ GoesRight(me) BY <2>2, <2>6 DEF InHand
    <3>2. me.body = Due(me.key) BY <1>1, <3>1 DEF GoesRight, AtFile
    <3>3. ASSUME NEW j \in DOMAIN asset PROVE j \in r.todo \cup r.failed \/ disk'[j] = Due(j)
      BY <1>2, <3>1, AsSpecs, <1>5, <1>15, <3>2 DEF GoesRight
    <3>4. \A j : Due(j)' = Due(j) BY <1>1 DEF Due
    <3>5. GoesRight(writer["reconciler"])'
      BY <1>1, <1>5, <1>11, <2>2, <3>3, <3>4 DEF GoesRight, AtFile
    <3>6. StampDue' BY <1>1, <2>6 DEF InHand, StampDue, Due
    <3>7. InHand'
      BY <1>1, <1>5, <1>11, <1>12, <2>2, <2>6, <3>5, <3>6 DEF InHand
    <3> QED BY <2>4, <3>7
  <2> QED BY <2>1, <2>3, <2>5, <2>6
<1>19. StampKept' BY <1>18 DEF StampKept
<1>20. AssetsType' BY <1>0, <1>1, <1>11, <1>15 DEF AssetsType
<1> QED BY <1>13, <1>16, <1>17, <1>19, <1>20 DEF AssetsIInv, WriterOK

LEMMA AsNewContent ==
  ASSUME AssetsIInv, NewContent
  PROVE  AssetsIInv'
BY DEF NewContent, AssetsIInv, AssetsType, WriterOK, Alone, StatusKept, StampKept

LEMMA AsDeleteAsset ==
  ASSUME AssetsIInv, DeleteAsset
  PROVE  AssetsIInv'
BY DEF DeleteAsset, AssetsIInv, AssetsType, WriterOK, Alone, StatusKept, StampKept

\* A start, by whoever was not at it.
LEMMA AsStarts ==
  ASSUME AssetsIInv, NEW w \in Writers, NEW fs \in AssetSpecs, fs # NoAsset, NEW u, u \in BOOLEAN,
         Start(w, fs, u)
  PROVE  /\ writer' \in [Writers -> Writer]
         /\ \A v \in Writers : WriterOK(v, writer'[v]) /\ Alone(v)'
         /\ StatusKept'
         /\ writer'[w].pc = "files" /\ writer'[w].files = fs /\ writer'[w].todo = DOMAIN fs
         /\ \A v \in Writers \ {w} : writer'[v].pc = writer[v].pc
                                     /\ Holds(writer'[v]) = Holds(writer[v])
<1>1. /\ writer' \in [Writers -> Writer]
      /\ writer'[w].pc = "files" /\ writer'[w].files = fs /\ writer'[w].todo = DOMAIN fs
      /\ writer'[w].done = {} /\ writer'[w].failed = {}
      /\ writer'[w].alone = TRUE => \A v \in Writers \ {w} : writer[v].pc = "off"
      /\ \A v \in Writers \ {w} :
           /\ writer'[v].pc = writer[v].pc /\ writer'[v].files = writer[v].files
           /\ writer'[v].todo = writer[v].todo /\ writer'[v].key = writer[v].key
           /\ writer'[v].body = writer[v].body /\ writer'[v].done = writer[v].done
           /\ writer'[v].failed = writer[v].failed
           /\ writer[v].pc # "off" => writer'[v].alone = FALSE
  <2>1. AssetsType BY DEF AssetsIInv
  <2>2. Started(w, fs) BY <2>1, AsStarted
  <2> QED BY <2>2 DEF Started
<1>2. WriterOK(w, writer'[w])
  BY <1>1 DEF Keyed, Shows, Sorted, WriterOK
<1>3. ASSUME NEW v \in Writers \ {w} PROVE WriterOK(v, writer'[v])
  <2>1. WriterOK(v, writer[v]) BY DEF AssetsIInv
  <2> QED BY <1>1, <2>1 DEF WriterOK, Sorted, KeptFiles
<1>4. \A v \in Writers \ {w} : writer'[v].pc = writer[v].pc /\ Holds(writer'[v]) = Holds(writer[v])
  BY <1>1 DEF Holds
<1>5. ASSUME NEW v \in Writers PROVE Alone(v)'
  <2>1. CASE v = w
    <3>1. ASSUME writer'[w].alone, NEW x \in Writers \ {w} PROVE ~Holds(writer'[x])
      BY <1>1, <3>1 DEF Writer, Holds, AtFiles, AtFile
    <3>2. writer'[w].alone => writer'["retried"].pc # "asleep"
      <4>1. CASE w = "retried" BY <1>1, <4>1
      <4>2. ASSUME w # "retried", writer'[w].alone PROVE writer'["retried"].pc # "asleep"
        BY <1>1, <4>2, AsWriters DEF Writer
      <4> QED BY <4>1, <4>2
    <3> QED BY <1>1, <2>1, <3>1, <3>2 DEF Alone
  <2>2. CASE v # w
    <3>1. CASE writer[v].pc = "off"
      <4>1. writer'[v].pc = "off" BY <1>1, <2>2, <3>1
      <4> QED BY <4>1 DEF Alone, Holds, AtFiles, AtFile
    <3>2. CASE writer[v].pc # "off"
      <4>1. writer'[v].alone = FALSE BY <1>1, <2>2, <3>2
      <4> QED BY <4>1 DEF Alone
    <3> QED BY <3>1, <3>2
  <2> QED BY <2>1, <2>2
<1>6. StatusKept'
  BY <1>1 DEF StatusKept, AtFiles
<1> QED BY <1>1, <1>2, <1>3, <1>4, <1>5, <1>6

LEMMA AsRequest ==
  ASSUME AssetsIInv, NEW w \in Writers, NEW b \in AssetBodies, Request(w, b)
  PROVE  AssetsIInv'
<1>0. AssetsType BY DEF AssetsIInv
<1>1. /\ w \in Appliers /\ writer[w].pc = "off" /\ applies' = applies + 1
      /\ drifted' = (drifted \/ (b.asset # NoAsset))
      /\ UNCHANGED <<site, cached, asset, stamp, changes, disk, digests, mishaps, soiled>>
  BY DEF Request, Busy
<1>2. CASE b.asset = NoAsset
  <2> DEFINE r == [Off EXCEPT !.pc = "stamp", !.user = b.user]
  <2>1. Turn(w, r) BY <1>2 DEF Request
  <2>2. b.user \in BOOLEAN BY AsBodies
  <2>3. r \in Writer BY <2>2 DEF Off, Writer, AssetPcs
  <2>4. r.pc = "stamp" /\ r.files = NoAsset /\ r.done = {} BY DEF Off
  <2> HIDE DEF r
  <2>5. /\ writer' \in [Writers -> Writer] /\ writer'[w] = r
        /\ \A v \in Writers \ {w} : writer'[v] = writer[v]
    BY <1>0, <2>1, <2>3, AsTurned
  <2>6. ~Holds(r) /\ ~Holds(writer[w]) /\ r.pc \notin AtFiles /\ writer[w].pc \notin AtFiles
    BY <1>1, <2>4 DEF Holds, AtFiles, AtFile
  <2>7. WriterOK(w, r) BY <1>1, <2>4, <2>6 DEF WriterOK, KeptFiles
  <2>8. \A v \in Writers : WriterOK(v, writer'[v])
    BY <2>5, <2>7 DEF AssetsIInv
  <2>9. ASSUME NEW v \in Writers PROVE Alone(v)'
    BY <2>5, <2>6, <2>4, AsWriters, <1>1 DEF AssetsIInv, Alone
  <2>10. StatusKept'
    BY <1>1, <2>5, <2>6 DEF AssetsIInv, StatusKept
  <2>11. StampKept'
    BY <1>1, <2>5, AsWriters, <2>6 DEF StampKept, AssetsIInv, Coming, InHand, Settled, StampDue, Due,
       GoesRight
  <2>12. drifted' \in BOOLEAN /\ applies' \in Nat BY <1>0, <1>1 DEF AssetsType
  <2>13. AssetsType' BY <1>0, <1>1, <2>5, <2>12 DEF AssetsType
  <2> QED BY <2>8, <2>9, <2>10, <2>11, <2>13 DEF AssetsIInv, WriterOK
<1>3. CASE b.asset # NoAsset
  <2>1. Start(w, b.asset, b.user) BY <1>3 DEF Request
  <2>2. b.asset \in AssetSpecs /\ b.user \in BOOLEAN BY <1>3, AsBodies
  <2>3. /\ writer' \in [Writers -> Writer]
        /\ \A v \in Writers : WriterOK(v, writer'[v]) /\ Alone(v)'
        /\ StatusKept'
    BY <1>3, <2>1, <2>2, AsStarts
  <2>4. drifted' = TRUE BY <1>0, <1>1, <1>3 DEF AssetsType
  <2>5. StampKept' BY <2>4 DEF StampKept
  <2>6. applies' \in Nat BY <1>0, <1>1 DEF AssetsType
  <2>7. AssetsType' BY <1>0, <1>1, <2>3, <2>4, <2>6 DEF AssetsType
  <2> QED BY <2>3, <2>5, <2>7 DEF AssetsIInv, WriterOK
<1> QED BY <1>2, <1>3

LEMMA AsRetryAsset ==
  ASSUME AssetsIInv, RetryAsset
  PROVE  AssetsIInv'
<1>0. AssetsType /\ "retried" \in Writers BY AsWriters DEF AssetsIInv
<1>1. /\ writer["retried"].pc = "asleep"
      /\ UNCHANGED <<site, cached, asset, stamp, changes, disk, digests, applies, mishaps, soiled, drifted>>
  BY DEF RetryAsset, Is
<1>2. StampKept'
  BY <1>1 DEF AssetsIInv, StampKept
<1>3. CASE asset = NoAsset
  <2>1. Turn("retried", Off) BY <1>3 DEF RetryAsset
  <2>2. /\ writer' \in [Writers -> Writer] /\ writer'["retried"] = Off
        /\ \A v \in Writers \ {"retried"} : writer'[v] = writer[v]
    BY <1>0, <2>1, AsOff, AsTurned
  <2>3. /\ ~Holds(Off) /\ Off.pc \notin AtFiles /\ Off.pc = "off"
        /\ ~Holds(writer["retried"]) /\ writer["retried"].pc \notin AtFiles
    BY <1>1, AsOff DEF Holds, AtFiles, AtFile
  <2>4. \A v \in Writers : WriterOK(v, writer'[v])
    BY <2>2, <2>3 DEF AssetsIInv, WriterOK
  <2>5. ASSUME NEW v \in Writers PROVE Alone(v)'
    BY <2>2, <2>3, <1>1 DEF AssetsIInv, Alone
  <2>6. StatusKept'
    BY <1>1, <2>2, <2>3 DEF AssetsIInv, StatusKept
  <2>7. AssetsType' BY <1>0, <1>1, <2>2 DEF AssetsType
  <2> QED BY <1>2, <2>4, <2>5, <2>6, <2>7 DEF AssetsIInv, WriterOK
<1>4. CASE asset # NoAsset
  <2>1. Start("retried", asset, FALSE) BY <1>4 DEF RetryAsset
  <2>2. asset \in AssetSpecs BY <1>0, <1>4 DEF AssetsType
  <2>3. /\ writer' \in [Writers -> Writer]
        /\ \A v \in Writers : WriterOK(v, writer'[v]) /\ Alone(v)'
        /\ StatusKept'
    BY <1>0, <1>4, <2>1, <2>2, AsStarts
  <2>4. AssetsType' BY <1>0, <1>1, <2>3 DEF AssetsType
  <2> QED BY <1>2, <2>3, <2>4 DEF AssetsIInv, WriterOK
<1> QED BY <1>3, <1>4

LEMMA AsHandleAsset ==
  ASSUME AssetsIInv, HandleAsset
  PROVE  AssetsIInv'
<1>0. /\ AssetsType /\ "reconciler" \in Writers /\ "retried" \in Writers
      /\ changes \in Seq(AssetSpecs \cup {NoAsset})
  BY AsWriters DEF AssetsIInv, AssetsType
<1>1. /\ changes # <<>> /\ writer["reconciler"].pc = "off" /\ changes' = Tail(changes)
      /\ UNCHANGED <<site, cached, asset, stamp, applies, drifted>> /\ mishaps' \in Nat
  <2>1. mishaps \in Nat BY <1>0 DEF AssetsType
  <2>2. mishaps' = mishaps \/ mishaps' = mishaps + 1 BY DEF HandleAsset, RemoveFiles, Mishap
  <2>. QED BY <2>1, <2>2 DEF HandleAsset, Busy
<1>2. /\ Head(changes) = changes[1] /\ Head(changes) \in AssetSpecs \cup {NoAsset}
      /\ changes' \in Seq(AssetSpecs \cup {NoAsset}) /\ Len(changes) \in Nat /\ Len(changes) >= 1
      /\ Len(changes') = Len(changes) - 1
      /\ Len(changes) > 1 => /\ changes' # <<>> /\ changes'[Len(changes')] = changes[Len(changes)]
      /\ Len(changes) = 1 => changes' = <<>>
  <2>1. Len(changes) \in Nat /\ Len(changes) # 0 BY <1>0, <1>1, EmptySeq
  <2>2. changes' \in Seq(AssetSpecs \cup {NoAsset}) /\ Len(changes') = Len(changes) - 1
        /\ \A i \in 1..Len(changes') : changes'[i] = changes[i + 1]
    BY <1>0, <1>1, HeadTailProperties
  <2>3. Head(changes) = changes[1] /\ Head(changes) \in AssetSpecs \cup {NoAsset}
    BY <1>0, <1>1, HeadTailProperties
  <2>4. Len(changes) > 1 => changes' # <<>> /\ changes'[Len(changes')] = changes[Len(changes)]
    BY <2>1, <2>2
  <2>5. Len(changes) = 1 => changes' = <<>> BY <2>2, EmptySeq
  <2> QED BY <2>1, <2>2, <2>3, <2>4, <2>5
<1>3. ~drifted /\ stamp # {} => /\ Coming /\ writer["retried"].pc = "off"
                               /\ \A v \in Appliers : ~Holds(writer[v])
  BY <1>1 DEF AssetsIInv, StampKept, InHand, Settled
<1>4. Coming /\ Len(changes) > 1 => Coming'
  BY <1>1, <1>2 DEF Coming, StampDue, Due
<1>5. CASE Head(changes) = NoAsset
  <2>1. RemoveFiles BY <1>5 DEF HandleAsset
  <2>2. /\ disk' = [k \in AssetKeys |-> 0] /\ soiled' \in BOOLEAN
        /\ digests' = [k \in AssetKeys |-> 0] \/ (soiled' = TRUE /\ digests' = digests)
    BY <2>1 DEF RemoveFiles
  <2>3. ASSUME NEW v \in Writers
        PROVE  /\ writer'[v] \in Writer
               /\ writer'[v].pc = writer[v].pc /\ writer'[v].files = writer[v].files
               /\ writer'[v].todo = writer[v].todo /\ writer'[v].key = writer[v].key
               /\ writer'[v].body = writer[v].body /\ writer'[v].done = writer[v].done
               /\ writer'[v].failed = writer[v].failed
               /\ writer[v].pc # "off" => writer'[v].alone = FALSE
    <3>1. writer[v] \in Writer BY <1>0 DEF AssetsType
    <3>2. writer'[v] = IF Busy(v) THEN [writer[v] EXCEPT !.alone = FALSE] ELSE writer[v]
      BY <2>1 DEF RemoveFiles
    <3>3. CASE Busy(v)
      BY <3>2, <3>3, <3>1 DEF Writer
    <3>4. CASE ~Busy(v) BY <3>1, <3>2, <3>4 DEF Busy
    <3> QED BY <3>3, <3>4
  <2>4. writer' \in [Writers -> Writer] BY <2>1, <2>3 DEF RemoveFiles
  <2>5. ASSUME NEW v \in Writers PROVE WriterOK(v, writer'[v])
    <3>1. WriterOK(v, writer[v]) BY DEF AssetsIInv
    <3> QED BY <2>3, <3>1 DEF WriterOK, Sorted, KeptFiles
  <2>6. ASSUME NEW v \in Writers PROVE Alone(v)'
    <3>1. CASE writer[v].pc = "off"
      <4>1. writer'[v].pc = "off" BY <2>3, <3>1
      <4> QED BY <4>1 DEF Alone, Holds, AtFiles, AtFile
    <3>2. CASE writer[v].pc # "off"
      <4>1. writer'[v].alone = FALSE BY <2>3, <3>2
      <4> QED BY <4>1 DEF Alone
    <3> QED BY <3>1, <3>2
  <2>7. StatusKept' BY <2>2 DEF StatusKept
  <2>8. StampKept'
    <3> SUFFICES ASSUME ~drifted', stamp' # {}
                 PROVE  /\ writer'["retried"].pc = "off" /\ \A v \in Appliers : ~Holds(writer'[v])
                        /\ Coming'
      BY DEF StampKept
    <3>1. /\ Coming /\ writer["retried"].pc = "off" /\ \A v \in Appliers : ~Holds(writer[v])
      BY <1>1, <1>3
    <3>2. Len(changes) # 1 BY <1>2, <1>5, <3>1 DEF Coming
    <3>3. Coming' BY <1>2, <1>4, <3>1, <3>2
    <3>4. \A v \in Appliers : ~Holds(writer'[v]) BY <2>3, <3>1, AsWriters DEF Holds
    <3>5. writer'["retried"].pc = "off" BY <1>0, <2>3, <3>1
    <3> QED BY <3>3, <3>4, <3>5
  <2>9. AssetsType'
    BY <2>2, <1>0, <1>1, <1>2, <2>4 DEF AssetsType
  <2> QED BY <2>5, <2>6, <2>7, <2>8, <2>9 DEF AssetsIInv, WriterOK
<1>6. CASE Head(changes) # NoAsset
  <2> DEFINE fs == Head(changes)
  <2>1. Start("reconciler", fs, FALSE) /\ UNCHANGED <<disk, digests, soiled>>
    BY <1>6 DEF HandleAsset
  <2>2. fs \in AssetSpecs /\ fs # NoAsset BY <1>2, <1>6
  <2>3. /\ writer' \in [Writers -> Writer]
        /\ \A v \in Writers : WriterOK(v, writer'[v]) /\ Alone(v)'
        /\ StatusKept'
        /\ writer'["reconciler"].pc = "files" /\ writer'["reconciler"].files = fs
        /\ writer'["reconciler"].todo = DOMAIN fs
        /\ \A v \in Writers \ {"reconciler"} : writer'[v].pc = writer[v].pc
                                               /\ Holds(writer'[v]) = Holds(writer[v])
    BY <1>0, <2>1, <2>2, AsStarts
  <2>4. StampKept'
    <3> SUFFICES ASSUME ~drifted', stamp' # {}
                 PROVE  /\ writer'["retried"].pc = "off" /\ \A v \in Appliers : ~Holds(writer'[v])
                        /\ Coming' \/ InHand'
      BY DEF StampKept
    <3>1. /\ Coming /\ writer["retried"].pc = "off" /\ \A v \in Appliers : ~Holds(writer[v])
      BY <1>1, <1>3
    <3>2. writer'["retried"].pc = "off" /\ \A v \in Appliers : ~Holds(writer'[v])
      BY <2>3, <3>1, AsWriters
    <3>3. CASE Len(changes) > 1 BY <1>4, <3>1, <3>2, <3>3
    <3>4. CASE Len(changes) = 1
      BY <1>2, <3>1, <3>4, <1>1, <2>3, <3>2 DEF Coming, GoesRight, AtFile, StampDue, Due, InHand, AtFiles
    <3> QED BY <1>2, <3>3, <3>4
  <2>5. AssetsType' BY <1>0, <1>1, <1>2, <2>1, <2>3 DEF AssetsType
  <2> QED BY <2>3, <2>4, <2>5 DEF AssetsIInv, WriterOK
<1> QED BY <1>5, <1>6

\* What a materialisation has to show: the contents written, and for a file that
\* failed the one that was there.
All(w) == writer[w].done \cup {<<k, disk[k]>> : k \in {j \in writer[w].failed : disk[j] # 0}}

LEMMA AsAll ==
  ASSUME AssetsIInv, NEW w \in Writers, Record(w)
  PROVE  /\ writer[w].pc = "files" /\ writer[w] \in Writer /\ writer[w].files \in AssetSpecs
         /\ writer[w].files # NoAsset /\ writer[w].todo = {}
         /\ DOMAIN writer[w].files = writer[w].failed \cup Keyed(writer[w].done)
         /\ \A k \in writer[w].failed : writer[w].files[k].src = "url"
         /\ All(w) \subseteq AssetKeys \X Nat /\ Shows(All(w), writer[w].files)
         /\ disk' \in [AssetKeys -> Nat] /\ digests' \in [AssetKeys -> Nat]
         /\ \A k \in AssetKeys : digests'[k] = Digest(All(w), k)
         /\ \A k \in DOMAIN writer[w].files : k \in AssetKeys /\ disk'[k] = disk[k]
         /\ writer[w].alone => digests' = disk'
<1> DEFINE me == writer[w]
           left == {j \in me.failed : disk[j] # 0}
           olds == {<<k, disk[k]>> : k \in left}
<1>0. AssetsType /\ disk \in [AssetKeys -> Nat] BY DEF AssetsIInv, AssetsType
<1>1. me.pc = "files" /\ me.todo = {} /\ me \in Writer /\ Sorted(me)
  BY <1>0 DEF Record, Is, AssetsType, AssetsIInv, WriterOK, AtFiles
<1>2. /\ me.files \in AssetSpecs /\ me.files # NoAsset /\ Shows(me.done, me.files)
      /\ DOMAIN me.files = me.failed \cup Keyed(me.done) /\ Keyed(me.done) \cap me.failed = {}
      /\ \A k \in me.failed : me.files[k].src = "url"
  BY <1>1 DEF Sorted, Writer
<1>3. DOMAIN me.files \subseteq AssetKeys /\ me.done \subseteq AssetKeys \X Nat
  BY <1>1, <1>2, AsSpecs DEF Writer
<1>4. All(w) = me.done \cup olds BY DEF All
<1>5. \A d \in olds : d[1] \in left /\ d[2] = disk[d[1]] /\ d \in AssetKeys \X Nat /\ d = <<d[1], disk[d[1]]>>
  BY <1>0, <1>2, <1>3
<1>6. \A k \in left : \E d \in olds : d[1] = k /\ d[2] = disk[k]
  <2> TAKE k \in left
  <2>1. <<k, disk[k]>> \in olds OBVIOUS
  <2> QED BY <2>1
<1> HIDE DEF olds
<1>7. All(w) \subseteq AssetKeys \X Nat BY <1>3, <1>4, <1>5
<1>8. \A d \in me.done : d[1] \in Keyed(me.done) /\ d[1] \notin me.failed
  BY <1>2 DEF Keyed
<1>9. Shows(All(w), me.files)
  <2>1. ASSUME NEW d \in All(w)
        PROVE  d[1] \in DOMAIN me.files /\ d[2] # 0
               /\ (me.files[d[1]].src = "inline" => d[2] = me.files[d[1]].v)
    BY <1>2, <1>5, <1>4 DEF Shows
  <2>2. ASSUME NEW d \in All(w), NEW e \in All(w), d[1] = e[1] PROVE d = e
    BY <1>2, <2>2, <1>5, <1>8, <1>4 DEF Shows
  <2> QED BY <2>1, <2>2 DEF Shows
<1>10. \A d, e \in All(w) : d[1] = e[1] => d = e BY <1>9 DEF Shows
<1>11. /\ disk' = [k \in AssetKeys |-> IF k \in DOMAIN me.files THEN disk[k] ELSE 0]
       /\ digests' = [k \in AssetKeys |-> Digest(All(w), k)]
  BY DEF Record, All
<1>12. \A k \in AssetKeys : Digest(All(w), k) \in Nat BY <1>7, <1>10, AsDigest
<1>13. disk' \in [AssetKeys -> Nat] /\ digests' \in [AssetKeys -> Nat]
  BY <1>0, <1>11, <1>12
<1>14. /\ \A k \in AssetKeys : digests'[k] = Digest(All(w), k)
       /\ \A k \in DOMAIN me.files : k \in AssetKeys /\ disk'[k] = disk[k]
       /\ \A k \in AssetKeys \ DOMAIN me.files : disk'[k] = 0
  BY <1>3, <1>11
<1>15. ASSUME me.alone PROVE digests' = disk'
  <2>1. \A d \in me.done : disk[d[1]] = d[2]
    BY <1>1, <1>15 DEF AssetsIInv, Alone, Holds, AtFiles
  <2>2. ASSUME NEW k \in AssetKeys PROVE digests'[k] = disk'[k]
    <3>1. CASE k \in Keyed(All(w))
      BY <3>1, <1>7, <1>10, <1>14, AsDigest, <1>4, <1>5, <2>1, <1>9 DEF Keyed, Shows
    <3>2. CASE k \notin Keyed(All(w))
      <4>1. digests'[k] = 0 BY <1>7, <1>10, <1>14, <3>2, AsDigest
      <4>2. CASE k \in DOMAIN me.files
        BY <1>4, <3>2, <1>2, <4>2, <1>6, <1>14, <4>1 DEF Keyed
      <4> QED BY <1>14, <4>1, <4>2
    <3> QED BY <3>1, <3>2
  <2> QED BY <1>13, <2>2
<1> QED BY <1>1, <1>2, <1>7, <1>9, <1>13, <1>14, <1>15

LEMMA AsRecordFails ==
  ASSUME AssetsIInv, NEW w \in Writers, RecordFails(w)
  PROVE  AssetsIInv'
<1> DEFINE me == writer[w]
<1>1. me.pc = "files" /\ Turn(w, Off) /\ soiled' = TRUE
  BY DEF RecordFails, Is
<1>2. UNCHANGED <<site, cached, asset, stamp, changes, digests, applies, drifted>> /\ mishaps' \in Nat
  BY DEF RecordFails, Mishap, AssetsIInv, AssetsType
<1>3. disk' = [k \in AssetKeys |-> IF k \in DOMAIN me.files THEN disk[k] ELSE 0]
  BY DEF RecordFails
<1>4. /\ me \in Writer /\ me.files \in AssetSpecs /\ me.todo = {}
      /\ DOMAIN me.files = me.failed \cup Keyed(me.done) /\ me.pc \in AtFiles
  BY <1>1 DEF AssetsIInv, AssetsType, WriterOK, Sorted, Writer, AtFiles, RecordFails
<1>5. DOMAIN me.files \subseteq AssetKeys BY <1>4, AsSpecs
<1>6. \A k \in DOMAIN me.files \cup Keyed(me.done) : disk'[k] = disk[k]
  BY <1>3, <1>4, <1>5
<1>7. disk' \in [AssetKeys -> Nat]
  BY <1>3 DEF AssetsIInv, AssetsType
<1>8. /\ writer' \in [Writers -> Writer]
      /\ \A v \in Writers : WriterOK(v, writer'[v]) /\ Alone(v)'
      /\ StatusKept' /\ StampKept'
  BY <1>1, <1>2, <1>4, <1>6, AsCut
<1>9. AssetsType'
  BY <1>1, <1>2, <1>7, <1>8 DEF AssetsIInv, AssetsType
<1> QED BY <1>8, <1>9 DEF AssetsIInv, WriterOK

\* How a materialisation ends.
LEMMA AsEnds ==
  ASSUME AssetsIInv, NEW w \in Writers, Record(w)
  PROVE  /\ writer' \in [Writers -> Writer]
         /\ \/ /\ w \in Appliers /\ writer'[w].pc = "stamp" /\ writer'[w].files = writer[w].files
               /\ writer'[w].done = All(w) /\ writer'[w].alone = writer[w].alone
            \/ w \notin Appliers /\ writer'[w].pc = "off"
         /\ \A v \in Writers \ {w} :
              \/ writer'[v] = writer[v]
              \/ /\ v = "retried" /\ writer[v].pc = "off" /\ writer'[v].pc = "asleep"
                 /\ w = "reconciler"
                 /\ \E k \in writer[w].failed : disk[k] = 0
<1> DEFINE me == writer[w]
           r == [me EXCEPT !.pc = "stamp", !.done = All(w)]
           z == [Off EXCEPT !.pc = "asleep"]
<1>0. AssetsType /\ me \in Writer /\ All(w) \subseteq AssetKeys \X Nat /\ "retried" \in Writers
  BY AsAll, AsWriters DEF AssetsIInv
<1>1. \/ w \in Appliers /\ Turn(w, r)
      \/ w \notin Appliers /\ Turn(w, Off)
      \/ /\ w = "reconciler" /\ All(w) = {} /\ me.failed # {} /\ ~Busy("retried")
         /\ writer' = [writer EXCEPT ![w] = Off, !["retried"] = z]
  BY DEF Record, All
<1>2. CASE w \in Appliers /\ Turn(w, r)
  <2>1. r \in Writer BY <1>0 DEF Writer, AssetPcs
  <2>2. r.pc = "stamp" /\ r.files = me.files /\ r.done = All(w) /\ r.alone = me.alone
    BY <1>0 DEF Writer
  <2> HIDE DEF r
  <2> QED BY <1>0, <1>2, <2>1, <2>2, AsTurned
<1>3. CASE w \notin Appliers /\ Turn(w, Off)
  BY <1>0, <1>3, AsOff, AsTurned
<1>4. CASE /\ w = "reconciler" /\ All(w) = {} /\ me.failed # {} /\ ~Busy("retried")
           /\ writer' = [writer EXCEPT ![w] = Off, !["retried"] = z]
  <2>1. z \in Writer /\ z.pc = "asleep" BY DEF Off, Writer, AssetPcs
  <2>2. writer \in [Writers -> Writer] BY <1>0 DEF AssetsType
  <2> HIDE DEF z
  <2>3. /\ writer' \in [Writers -> Writer] /\ writer'[w] = Off /\ writer'["retried"] = z
        /\ \A v \in Writers \ {w, "retried"} : writer'[v] = writer[v]
    BY <1>0, <1>4, <2>1, <2>2, AsOff, AsWriters
  <2>4. PICK k \in me.failed : TRUE BY <1>4
  <2>5. disk[k] = 0
    BY <2>4, <1>4 DEF All
  <2>6. writer["retried"].pc = "off" BY <1>4 DEF Busy
  <2> QED BY <1>4, <2>1, <2>3, <2>4, <2>5, <2>6, AsOff, AsWriters
<1> QED BY <1>1, <1>2, <1>3, <1>4

LEMMA AsRecord ==
  ASSUME AssetsIInv, NEW w \in Writers, Record(w)
  PROVE  AssetsIInv'
<1> DEFINE me == writer[w]
<1>0. AssetsType /\ "retried" \in Writers /\ "reconciler" \in Writers
  BY AsWriters DEF AssetsIInv
<1>1. /\ me.pc = "files" /\ me \in Writer /\ me.files \in AssetSpecs
      /\ me.files # NoAsset /\ me.todo = {}
      /\ \A k \in me.failed : me.files[k].src = "url"
      /\ All(w) \subseteq AssetKeys \X Nat /\ Shows(All(w), me.files)
      /\ disk' \in [AssetKeys -> Nat] /\ digests' \in [AssetKeys -> Nat]
      /\ \A k \in AssetKeys : digests'[k] = Digest(All(w), k)
      /\ \A k \in DOMAIN me.files : k \in AssetKeys /\ disk'[k] = disk[k]
      /\ me.alone => digests' = disk'
  BY AsAll
<1>2. /\ writer' \in [Writers -> Writer]
      /\ \/ /\ w \in Appliers /\ writer'[w].pc = "stamp" /\ writer'[w].files = me.files
            /\ writer'[w].done = All(w) /\ writer'[w].alone = me.alone
         \/ w \notin Appliers /\ writer'[w].pc = "off"
      /\ \A v \in Writers \ {w} :
           \/ writer'[v] = writer[v]
           \/ /\ v = "retried" /\ writer[v].pc = "off" /\ writer'[v].pc = "asleep"
              /\ w = "reconciler" /\ \E k \in me.failed : disk[k] = 0
  BY AsEnds
<1>3. /\ soiled' = ~me.alone /\ drifted' = (drifted \/ \E k \in me.failed : disk[k] # site)
      /\ UNCHANGED <<site, cached, asset, stamp, changes, applies, mishaps>>
  BY DEF Record
<1>4. Holds(me) BY <1>1 DEF Holds, AtFiles
<1>5. \A v \in Writers \ {w} : Holds(writer'[v]) => Holds(writer[v]) /\ writer'[v] = writer[v]
  BY <1>2 DEF Holds, AtFiles, AtFile
<1>6. ASSUME NEW v \in Writers PROVE WriterOK(v, writer'[v])
  <2>1. CASE v = w
    BY <1>1, <1>2, <2>1 DEF WriterOK, KeptFiles, AtFiles, AtFile
  <2>2. CASE v # w
    <3>1. WriterOK(v, writer[v]) BY DEF AssetsIInv
    <3> QED BY <1>2, <2>2, <3>1 DEF WriterOK, AtFiles, AtFile
  <2> QED BY <2>1, <2>2
<1>7. ASSUME NEW v \in Writers PROVE Alone(v)'
  <2>1. CASE v = w
    <3> SUFFICES ASSUME Holds(writer'[w]), writer'[w].alone
                 PROVE  /\ writer'["retried"].pc # "asleep" /\ \A u \in Writers \ {w} : ~Holds(writer'[u])
                        /\ writer'[w].pc \notin AtFiles
                        /\ \A k \in AssetKeys : digests'[k] = Digest(writer'[w].done, k)
      BY <2>1 DEF Alone
    <3>1. writer'[w].pc # "off" BY DEF Holds, AtFiles, AtFile
    <3>2. w \in Appliers /\ writer'[w].pc = "stamp" /\ writer'[w].done = All(w) /\ me.alone
      BY <1>2, <3>1
    <3>3. writer["retried"].pc # "asleep" /\ \A u \in Writers \ {w} : ~Holds(writer[u])
      BY <1>4, <3>2 DEF AssetsIInv, Alone
    <3>4. writer'["retried"].pc # "asleep" BY <1>0, <1>2, <3>2, <3>3, AsWriters
    <3>5. \A u \in Writers \ {w} : ~Holds(writer'[u]) BY <1>5, <3>3
    <3> QED BY <1>1, <3>2, <3>4, <3>5 DEF AtFiles, AtFile
  <2>2. CASE v # w
    BY <1>4, <2>2, <1>5 DEF AssetsIInv, Alone
  <2> QED BY <2>1, <2>2
<1>8. StatusKept' BY <1>1, <1>3 DEF StatusKept
<1>9. ASSUME ~drifted', stamp' # {}
      PROVE  /\ writer'["retried"].pc = "off" /\ \A v \in Appliers : ~Holds(writer'[v])
             /\ Coming' \/ Settled'
  <2>1. /\ writer["retried"].pc = "off" /\ \A v \in Appliers : ~Holds(writer[v])
        /\ Coming \/ InHand \/ Settled
        /\ \A k \in me.failed : disk[k] = site
    BY <1>3, <1>9 DEF AssetsIInv, StampKept
  <2>2. w = "reconciler" /\ w \notin Appliers /\ w # "retried"
    BY <1>1, <1>4, <2>1, AsWriters
  <2>3. site # 0 BY <1>0 DEF AssetsType
  <2>4. writer'["retried"].pc = "off" BY <1>0, <1>2, <2>1, <2>2, <2>3
  <2>5. \A v \in Appliers : ~Holds(writer'[v]) BY <1>5, <2>1, <2>2, AsWriters
  <2>6. CASE Coming
    <3>1. Coming' BY <1>3, <2>6 DEF Coming, StampDue, Due
    <3> QED BY <2>4, <2>5, <3>1
  <2>7. CASE InHand
    <3>1. asset = me.files /\ GoesRight(me) /\ changes = <<>> /\ StampDue BY <2>2, <2>7 DEF InHand
    <3>2. ASSUME NEW s \in stamp PROVE disk'[s[1]] = s[2]
      BY <3>1, <3>2, <1>1, <2>1 DEF StampDue, GoesRight, Due
    <3>3. writer'["reconciler"].pc = "off" BY <1>2, <2>2
    <3>4. Settled' BY <1>3, <3>1, <3>2, <3>3 DEF Settled
    <3> QED BY <2>4, <2>5, <3>4
  <2>8. ~Settled BY <1>1, <2>2 DEF Settled
  <2> QED BY <2>1, <2>6, <2>7, <2>8
<1>10. StampKept' BY <1>9 DEF StampKept
<1>11. AssetsType'
  BY <1>0, <1>1, <1>3, <1>2 DEF AssetsType, Writer
<1> QED BY <1>6, <1>7, <1>8, <1>10, <1>11 DEF AssetsIInv, WriterOK

\* What a workload is stamped with, and the apply that stamps it.
Of(w, k) == IF Digest(writer[w].done, k) # 0 THEN Digest(writer[w].done, k) ELSE digests[k]

\* The stamp of an apply that brings the files is of those it put there, and what
\* the URL serves if it is not late.
LEMMA AsStampDue ==
  ASSUME AssetsIInv, NEW w \in Writers, writer[w].pc = "stamp", writer[w].files # NoAsset,
         writer[w].alone, NEW k \in Refs, Of(w, k) # 0,
         writer[w].files[k].src = "url" /\ k \in DOMAIN writer[w].files => Of(w, k) = site
  PROVE  /\ k \in DOMAIN writer[w].files
         /\ Of(w, k) = IF writer[w].files[k].src = "inline" THEN writer[w].files[k].v ELSE site
<1> DEFINE me == writer[w]
<1>1. me \in Writer /\ Shows(me.done, me.files) /\ me.done \subseteq AssetKeys \X Nat
      /\ me.files \in AssetSpecs
  BY DEF AssetsIInv, AssetsType, WriterOK, KeptFiles, Writer
<1>2. \A j \in AssetKeys : digests[j] = Digest(me.done, j)
  BY DEF AssetsIInv, Alone, Holds
<1>3. k \in AssetKeys BY AssetsAssumption
<1>4. Of(w, k) = Digest(me.done, k) BY <1>2, <1>3 DEF Of
<1>5. \A d, e \in me.done : d[1] = e[1] => d = e BY <1>1 DEF Shows
<1>6. PICK d \in me.done : d[1] = k /\ d[2] = Digest(me.done, k)
  BY <1>1, <1>3, <1>4, <1>5, AsDigest
<1>7. k \in DOMAIN me.files /\ (me.files[k].src = "inline" => Of(w, k) = me.files[k].v)
  BY <1>1, <1>4, <1>6 DEF Shows
<1>8. me.files[k].src \in {"inline", "url"} BY <1>1, <1>7, AsSpecs
<1> QED BY <1>7, <1>8

LEMMA AsStamp ==
  ASSUME AssetsIInv, NEW w \in Writers, Stamp(w)
  PROVE  AssetsIInv'
<1> DEFINE me == writer[w]
           late == \/ ~me.alone \/ soiled
                   \/ \E k \in Refs :
                        \/ asset' # NoAsset /\ k \in DOMAIN asset' /\ asset'[k].src = "url"
                           /\ Of(w, k) # site
                        \/ Digest(me.done, k) = 0
                           /\ (changes # <<>> \/ \E v \in Writers \ {w} : Busy(v))
           refused == UNCHANGED <<asset, changes, stamp, drifted>>
           passed == /\ (me.user => \A k \in Refs : Of(w, k) # 0)
                     /\ asset' = IF me.files = NoAsset THEN asset ELSE me.files
                     /\ changes' = IF me.files = NoAsset THEN changes ELSE Append(changes, me.files)
                     /\ stamp' = IF me.user THEN {<<k, Of(w, k)>> : k \in Refs} ELSE stamp
                     /\ drifted' = IF me.user THEN late ELSE drifted
<1>0. AssetsType /\ me \in Writer /\ Refs \subseteq AssetKeys /\ drifted \in BOOLEAN /\ soiled \in BOOLEAN
  BY AssetsAssumption DEF AssetsIInv, AssetsType
<1>1. /\ me.pc = "stamp" /\ Turn(w, Off)
      /\ UNCHANGED <<site, cached, disk, digests, applies, mishaps, soiled>>
  BY DEF Stamp, Is
<1>2. refused \/ passed
  <2>1. refused \/ (/\ ~(me.user /\ ~\A k \in Refs : Of(w, k) # 0)
                    /\ asset' = IF me.files = NoAsset THEN asset ELSE me.files
                    /\ changes' = IF me.files = NoAsset THEN changes ELSE Append(changes, me.files)
                    /\ stamp' = IF me.user THEN {<<k, Of(w, k)>> : k \in Refs} ELSE stamp
                    /\ drifted' = IF me.user THEN late ELSE drifted)
    BY DEF Stamp, Of
  <2> HIDE DEF refused, late
  <2> QED BY <2>1
<1>3. /\ writer' \in [Writers -> Writer] /\ writer'[w] = Off
      /\ \A v \in Writers \ {w} : writer'[v] = writer[v]
  BY <1>0, <1>1, AsOff, AsTurned
<1>4. /\ w \in Appliers /\ KeptFiles(me) /\ ~Holds(Off) /\ Off.pc \notin AtFiles /\ Off.pc = "off"
      /\ me.pc \notin AtFiles
  BY <1>1, AsOff DEF AssetsIInv, WriterOK, Holds, AtFiles, AtFile
<1>5. \A v \in Writers : WriterOK(v, writer'[v])
  <2>1. WriterOK(w, Off) BY <1>4, AsOff DEF WriterOK
  <2> QED BY <1>3, <2>1 DEF AssetsIInv
<1>6. \A v \in Writers : Holds(writer'[v]) => Holds(writer[v]) /\ writer'[v] = writer[v]
  BY <1>3, <1>4
<1>7. writer'["retried"] = writer["retried"] /\ writer'["reconciler"] = writer["reconciler"]
  BY <1>3, <1>4, AsWriters
<1>8. ASSUME NEW v \in Writers PROVE Alone(v)'
  <2>1. Alone(v) BY DEF AssetsIInv
  <2> QED BY <1>1, <1>6, <1>7, <2>1 DEF Alone
<1>9. StatusKept'
  BY <1>3, <1>4, <1>1 DEF AssetsIInv, StatusKept
<1>10. \A k \in Refs : Of(w, k) \in Nat
  <2> TAKE k \in Refs
  <2>1. me.done \subseteq AssetKeys \X Nat /\ k \in AssetKeys /\ digests[k] \in Nat
    BY <1>0 DEF Writer, AssetsType
  <2>2. \A d, e \in me.done : d[1] = e[1] => d = e BY <1>4 DEF KeptFiles, Shows
  <2>3. Digest(me.done, k) \in Nat BY <2>1, <2>2, AsDigest
  <2> QED BY <2>1, <2>3 DEF Of
<1>11. AssetsType'
  <2>1. CASE refused BY <1>0, <1>1, <1>3, <2>1 DEF AssetsType
  <2>2. CASE passed
    <3>1. me.files \in AssetSpecs \cup {NoAsset} BY <1>0 DEF Writer
    <3>2. asset' \in AssetSpecs \cup {NoAsset} BY <1>0, <2>2, <3>1 DEF AssetsType
    <3>3. changes' \in Seq(AssetSpecs \cup {NoAsset}) BY <1>0, <2>2, <3>1 DEF AssetsType
    <3>4. stamp' \subseteq AssetKeys \X Nat
      BY <1>0, <1>10, <2>2 DEF AssetsType
    <3>5. drifted' \in BOOLEAN
      <4>1. late \in BOOLEAN OBVIOUS
      <4> HIDE DEF late
      <4> QED BY <1>0, <2>2, <4>1
    <3> QED BY <1>0, <1>1, <1>3, <3>2, <3>3, <3>4, <3>5 DEF AssetsType
  <2> QED BY <1>2, <2>1, <2>2
<1>12. ASSUME UNCHANGED <<asset, changes, stamp, drifted>> PROVE StampKept'
  BY <1>12, <1>1, <1>7, <1>6, AsWriters DEF StampKept, AssetsIInv, Coming, InHand, Settled, StampDue, Due,
     GoesRight
<1>13. ASSUME passed, ~me.user, ~drifted', stamp' # {} PROVE UNCHANGED <<asset, changes, stamp, drifted>>
  BY <1>13, <1>4, <1>1 DEF AssetsIInv, StampKept, Holds
<1>14. ASSUME passed, me.user, ~drifted', stamp' # {}
       PROVE  /\ writer'["retried"].pc = "off" /\ \A v \in Appliers : ~Holds(writer'[v])
              /\ Coming' \/ Settled'
  <2>1. ~late /\ \A k \in Refs : Of(w, k) # 0 BY <1>14
  <2>2. stamp' = {<<k, Of(w, k)>> : k \in Refs} BY <1>14
  <2>3. PICK k0 \in Refs : TRUE BY <1>14, <2>2
  <2>4. me.alone /\ ~soiled BY <2>1
  <2>5. CASE me.files = NoAsset
    BY <1>4, <2>5, <2>1, <2>3, AsWriters, <1>3, <2>4, <1>1, <2>2, <1>14, <1>7 DEF KeptFiles, Digest, Busy,
       Holds, AtFiles, AtFile, AssetsIInv, StatusKept, Of, Settled
  <2>6. CASE me.files # NoAsset
    <3>1. asset' = me.files /\ changes' = Append(changes, me.files) BY <1>14, <2>6
    <3>2. ASSUME NEW k \in Refs
          PROVE  k \in DOMAIN asset' /\ Of(w, k) = IF asset'[k].src = "inline" THEN asset'[k].v ELSE site
      <4>1. me.files[k].src = "url" /\ k \in DOMAIN me.files => Of(w, k) = site
        BY <2>1, <2>6, <3>1
      <4> HIDE DEF late, passed
      <4> QED BY <1>1, <2>1, <2>4, <2>6, <3>1, <4>1, AsStampDue
    <3>3. StampDue' BY <1>1, <2>2, <3>2 DEF StampDue, Due
    <3>4. Holds(me) BY <1>1, <2>6 DEF Holds
    <3>5. writer["retried"].pc # "asleep" /\ \A v \in Writers \ {w} : ~Holds(writer[v])
      BY <2>4, <3>4 DEF AssetsIInv, Alone
    <3>6. \A v \in Writers : ~Holds(writer'[v]) BY <1>3, <1>4, <3>5
    <3>7. writer["retried"].pc = "off"
      BY <1>0, <1>4, <3>5, AsWriters DEF AssetsIInv, AssetsType, WriterOK, Holds, Writer, AssetPcs, AtFiles,
         AtFile
    <3>8. changes' # <<>> /\ changes'[Len(changes')] = me.files
      <4>1. changes \in Seq(AssetSpecs \cup {NoAsset}) /\ me.files \in AssetSpecs \cup {NoAsset}
        BY <1>0 DEF AssetsType, Writer
      <4> HIDE DEF late, passed
      <4> QED BY <3>1, <4>1, AppendProperties
    <3>9. Coming' BY <2>6, <3>1, <3>3, <3>8 DEF Coming
    <3> QED BY <1>7, <3>6, <3>7, <3>9, AsWriters
  <2> QED BY <2>5, <2>6
<1>15. StampKept'
  <2> SUFFICES ASSUME ~drifted', stamp' # {} PROVE StampKept'
    BY DEF StampKept
  <2>1. CASE refused BY <1>12, <2>1
  <2>2. CASE passed /\ ~me.user BY <1>12, <1>13, <2>2
  <2>3. CASE passed /\ me.user BY <1>14, <2>3 DEF StampKept
  <2> HIDE DEF refused, passed
  <2> QED BY <1>2, <2>1, <2>2, <2>3
<1> QED BY <1>5, <1>8, <1>9, <1>11, <1>15 DEF AssetsIInv, WriterOK

LEMMA AsStep ==
  ASSUME AssetsIInv, [AssetsNext]_assetsVars
  PROVE  AssetsIInv'
<1>1. CASE UNCHANGED assetsVars
  BY <1>1 DEF AssetsIInv, AssetsType, assetsVars, WriterOK, Alone, StatusKept, StampKept, Coming, InHand,
     Settled, StampDue, Due, GoesRight
<1>2. CASE NewContent BY <1>2, AsNewContent
<1>3. CASE DeleteAsset BY <1>3, AsDeleteAsset
<1>4. CASE HandleAsset BY <1>4, AsHandleAsset
<1>5. CASE RetryAsset BY <1>5, AsRetryAsset
<1>6. ASSUME NEW w \in Writers, NEW b \in AssetBodies, Request(w, b) PROVE AssetsIInv'
  BY <1>6, AsRequest
<1>7. ASSUME NEW w \in Writers,
             NextFile(w) \/ Ask(w) \/ CacheBytes(w) \/ CacheTag(w) \/ Write(w) \/ Record(w)
               \/ RecordFails(w) \/ Stamp(w)
      PROVE  AssetsIInv'
  BY <1>7, AsNextFile, AsAsk, AsCacheBytes, AsCacheTag, AsWrite, AsRecord, AsRecordFails, AsStamp
<1> QED BY <1>1, <1>2, <1>3, <1>4, <1>5, <1>6, <1>7 DEF AssetsNext

LEMMA AsTrue ==
  ASSUME AssetsIInv
  PROVE  AssetsTrue
<1>1. StatusTrue
  BY DEF AssetsIInv, StatusKept, StatusTrue, NothingWritten, Busy, AtFiles, AtFile
<1>2. StampTrue
  BY AsWriters DEF StampTrue, NothingWritten, Busy, AssetsIInv, StampKept, Coming, InHand, Settled, AtFiles,
     AtFile
<1> QED BY <1>1, <1>2 DEF AssetsTrue

\* With nothing under way the status has the digests of the files on disk, and a
\* workload's stamp is what it mounts (materializeAssetSpec, StampAssetDigests).
THEOREM AssetsCorrect == AssetsSpec => []AssetsTrue
<1>1. AssetsInit => AssetsIInv BY AsInit
<1>2. AssetsIInv /\ [AssetsNext]_assetsVars => AssetsIInv' BY AsStep
<1>3. AssetsIInv => AssetsTrue BY AsTrue
<1> QED BY <1>1, <1>2, <1>3, PTL DEF AssetsSpec

-----------------------------------------------------------------------------
(* Trail. The argument: what is written of an action is its start, then its    *)
(* end, each once, so no file holds a line twice or an end before its start;   *)
(* and a line that nothing excuses is in the raw file until there is a         *)
(* compressed one, and in that from then on, for the copy was taken after it.  *)

TrailEvents == {"started", "finished", "torn", "glued"}
TrailRecord ==
  [deed : Deeds \cup {"none"}, event : TrailEvents, day : 0 .. MaxDay, status : {"none", "succeeded", "failed"}]
TrailFile == [lines : Seq(TrailRecord), there : BOOLEAN]
DeedRecord ==
  [pc : {"new", "start", "work", "end", "done"}, rec : TrailRecord, told : {"none", "success", "refusal"}]

\* Every variable of the trail has its type.
TrailType ==
  /\ today \in Days /\ spoilt \in Nat
  /\ raw \in [Days -> TrailFile] /\ gz \in [Days -> TrailFile]
  /\ handle \in [day : 0 .. MaxDay, linked : BOOLEAN]
  /\ deed \in [Deeds -> DeedRecord]
  /\ cleaner \in [pc : {"idle", "copied", "renamed"}, day : 0 .. MaxDay, copy : Seq(TrailRecord)]
  /\ logged \in SUBSET TrailRecord /\ excused \in SUBSET TrailRecord

\* A line of an action that is that far.
Wrote(ds, now, r) ==
  /\ r.deed \in Deeds
  /\ \/ /\ r.event = "started" /\ ds[r.deed].pc \in {"work", "end", "done"} /\ r.day \in 1 .. now
        /\ ds[r.deed].rec.event = "finished" => r.day <= ds[r.deed].rec.day
     \/ r.event = "finished" /\ ds[r.deed].pc = "done" /\ r = ds[r.deed].rec

\* The lines of a day: written once each, on that day, starts before ends.
Clean(ds, now, d, ls) ==
  \A m \in DOMAIN ls : ls[m].deed # "none" =>
    /\ ls[m].day = d /\ Wrote(ds, now, ls[m])
    /\ \A n \in DOMAIN ls :
         /\ ls[n] = ls[m] => n = m
         /\ ls[n].deed = ls[m].deed /\ ls[m].event = "started" /\ ls[n].event = "finished" => m < n

\* The record an action has in hand, or had.
OnItsWay(e, a, now) ==
  /\ e.pc \in {"new", "start", "work"} => e.rec.event # "finished"
  /\ e.pc \in {"start", "end"} => e.rec.deed = a /\ e.rec.day \in 1 .. now
  /\ e.pc = "start" => e.rec.event = "started"
  /\ e.pc = "end" => e.rec.event = "finished"
  /\ e.rec.event = "finished" =>
       e.rec.deed = a /\ e.rec.day \in 1 .. now /\ (e.rec.status = "failed") = (e.told = "refusal")

FilesClean ==
  /\ \A d \in Days : Clean(deed, today, d, raw[d].lines) /\ Clean(deed, today, d, gz[d].lines)
  /\ Clean(deed, today, cleaner.day, cleaner.copy)
FilesThere == \A d \in Days : (raw[d].lines # <<>> => raw[d].there) /\ (gz[d].lines # <<>> => gz[d].there)
DeedsTrue == \A a \in Deeds : OnItsWay(deed[a], a, today)
CleanerTrue ==
  /\ cleaner.pc # "idle" => cleaner.day \in 1 .. today - 1
  /\ cleaner.pc = "idle" => cleaner = Idle
  /\ cleaner.pc = "renamed" => gz[cleaner.day].there

\* Where a record that was logged is to be found.
Among(r, ls) == \E m \in DOMAIN ls : ls[m] = r
Safe(r, rs, gs, cl) ==
  /\ IF gs[r.day].there THEN Among(r, gs[r.day].lines) ELSE Among(r, rs[r.day].lines)
  /\ cl.pc = "copied" /\ cl.day = r.day => Among(r, cl.copy)
LoggedTrue ==
  /\ \A r \in logged : r.day \in Days /\ Wrote(deed, today, r)
  /\ \A r \in logged \ excused : r.day < today - Retention \/ Safe(r, raw, gz, cleaner)

TrailIInv ==
  TrailType /\ FilesClean /\ FilesThere /\ DeedsTrue /\ CleanerTrue /\ LoggedTrue

LEMMA TornIs ==
  /\ Torn \in TrailRecord /\ Torn.deed = "none"
  /\ \A e \in TrailEvents : [Torn EXCEPT !.event = e] \in TrailRecord /\ [Torn EXCEPT !.event = e].deed = "none"
BY TrailAssumption DEF Torn, TrailRecord, TrailEvents

\* What was written stays written while actions and days go on.
LEMMA CleanStays ==
  ASSUME NEW ds, NEW now, NEW es, NEW next, \A r : Wrote(ds, now, r) => Wrote(es, next, r),
         NEW d, NEW ls, Clean(ds, now, d, ls)
  PROVE  Clean(es, next, d, ls)
BY DEF Clean

\* A line more, behind a torn one or not.
LEMMA CleanAppended ==
  ASSUME NEW ds, NEW es, NEW now, \A x : Wrote(ds, now, x) => Wrote(es, now, x),
         NEW d, NEW ls \in Seq(TrailRecord), Clean(ds, now, d, ls), NEW r \in TrailRecord,
         r.deed # "none" =>
           /\ r.day = d /\ Wrote(es, now, r)
           /\ \A m \in DOMAIN ls : /\ ls[m] # r
                                   /\ ~(r.event = "started" /\ ls[m].deed = r.deed /\ ls[m].event = "finished")
  PROVE  /\ Appended(ls, r) \in Seq(TrailRecord) /\ Appended(ls, r) # <<>>
         /\ Clean(es, now, d, Appended(ls, r))
         /\ \A x : x.deed # "none" /\ Among(x, ls) => Among(x, Appended(ls, r))
         /\ ~Glued(ls) => Among(r, Appended(ls, r))
<1> DEFINE q == Appended(ls, r)
<1>1. Clean(es, now, d, ls)
  BY CleanStays
<1>2. CASE Glued(ls)
  <2>1. /\ Len(ls) \in Nat \ {0} /\ DOMAIN ls = 1 .. Len(ls) /\ ls[Len(ls)] = Torn
        /\ q = [ls EXCEPT ![Len(ls)] = [Torn EXCEPT !.event = "glued"]]
    BY <1>2, EmptySeq, LenProperties DEF Glued, Appended
  <2>2. /\ q \in Seq(TrailRecord) /\ Len(q) = Len(ls) /\ DOMAIN q = 1 .. Len(ls)
        /\ \A m \in 1 .. Len(ls) - 1 : q[m] = ls[m]
        /\ q[Len(ls)].deed = "none" /\ ls[Len(ls)].deed = "none"
    BY <2>1, TornIs, ExceptSeq DEF TrailEvents
  <2>3. q # <<>>
    BY <2>1, <2>2
  <2>4. Clean(es, now, d, q)
    <3>1. \A m \in DOMAIN q : q[m].deed # "none" => m \in 1 .. Len(ls) - 1 /\ q[m] = ls[m] /\ m \in DOMAIN ls
      BY <2>1, <2>2
    <3>2. \A m, n \in DOMAIN q : q[m].deed # "none" /\ (q[n] = q[m] \/ q[n].deed = q[m].deed) => q[n].deed # "none"
      OBVIOUS
    <3>. QED  BY <1>1, <3>1, <3>2 DEF Clean
  <2>5. ASSUME NEW x, x.deed # "none", Among(x, ls) PROVE Among(x, q)
    <3>1. PICK m \in DOMAIN ls : ls[m] = x
      BY <2>5 DEF Among
    <3>2. m \in 1 .. Len(ls) - 1
      BY <2>1, <2>2, <2>5, <3>1
    <3>. QED  BY <2>2, <3>1, <3>2 DEF Among
  <2>. QED  BY <1>2, <2>2, <2>3, <2>4, <2>5
<1>3. CASE ~Glued(ls)
  <2>1. q = Append(ls, r)
    BY <1>3 DEF Appended
  <2>2. /\ q \in Seq(TrailRecord) /\ Len(q) = Len(ls) + 1 /\ DOMAIN q = 1 .. Len(ls) + 1 /\ Len(ls) \in Nat
        /\ DOMAIN ls = 1 .. Len(ls) /\ q[Len(ls) + 1] = r /\ \A m \in 1 .. Len(ls) : q[m] = ls[m]
    BY <2>1, AppendProperties, LenProperties
  <2>3. q # <<>> /\ Among(r, q)
    BY <2>2 DEF Among
  <2>4. \A x : Among(x, ls) => Among(x, q)
    BY <2>2 DEF Among
  <2>5. Clean(es, now, d, q)
    <3>1. SUFFICES ASSUME NEW m \in DOMAIN q, q[m].deed # "none"
                   PROVE  /\ q[m].day = d /\ Wrote(es, now, q[m])
                          /\ \A n \in DOMAIN q :
                               /\ q[n] = q[m] => n = m
                               /\ q[n].deed = q[m].deed /\ q[m].event = "started" /\ q[n].event = "finished" => m < n
      BY DEF Clean
    <3>2. CASE m = Len(ls) + 1
      <4>1. q[m] = r /\ \A n \in DOMAIN q : n = m \/ (n \in DOMAIN ls /\ q[n] = ls[n])
        BY <2>2, <3>2
      <4>. QED  BY <3>1, <4>1
    <3>3. CASE m # Len(ls) + 1
      <4>1. m \in DOMAIN ls /\ q[m] = ls[m] /\ ls[m].deed # "none"
        BY <2>2, <3>1, <3>3
      <4>2. /\ ls[m].day = d /\ Wrote(es, now, ls[m])
            /\ \A n \in DOMAIN ls :
                 /\ ls[n] = ls[m] => n = m
                 /\ ls[n].deed = ls[m].deed /\ ls[m].event = "started" /\ ls[n].event = "finished" => m < n
        BY <1>1, <4>1 DEF Clean
      <4>3. \A n \in DOMAIN q : (n \in DOMAIN ls /\ q[n] = ls[n]) \/ (n = Len(ls) + 1 /\ q[n] = r /\ m < n)
        BY <2>2, <4>1
      <4>4. r # ls[m]
        BY <4>1
      <4>. QED  BY <4>1, <4>2, <4>3, <4>4
    <3>. QED  BY <3>2, <3>3
  <2>. QED  BY <2>2, <2>3, <2>4, <2>5
<1>. QED  BY <1>2, <1>3

LEMMA TrailInitial == TrailInit => TrailIInv
<1>. SUFFICES ASSUME TrailInit PROVE TrailIInv
  OBVIOUS
<1>1. /\ 0 \in 0 .. MaxDay /\ 1 \in Days
  BY TrailAssumption DEF Days
<1>2. NoFile \in TrailFile /\ Idle.copy \in Seq(TrailRecord)
  BY DEF NoFile, TrailFile, Idle
<1>3. TrailType
  <2>1. cleaner \in [pc : {"idle", "copied", "renamed"}, day : 0 .. MaxDay, copy : Seq(TrailRecord)]
    BY <1>1, <1>2 DEF TrailInit, Idle
  <2>2. deed \in [Deeds -> DeedRecord]
    BY TornIs DEF TrailInit, DeedRecord
  <2>. QED  BY <1>1, <1>2, <2>1, <2>2 DEF TrailInit, TrailType
<1>4. FilesClean /\ FilesThere
  BY DEF TrailInit, FilesClean, FilesThere, Clean, NoFile, Idle
<1>5. DeedsTrue
  BY DEF TrailInit, DeedsTrue, OnItsWay, Torn
<1>6. CleanerTrue /\ LoggedTrue
  BY DEF TrailInit, CleanerTrue, LoggedTrue, Idle
<1>. QED  BY <1>3, <1>4, <1>5, <1>6 DEF TrailIInv

\* A step that leaves the files alone.
LEMMA FilesAlone ==
  ASSUME TrailIInv, UNCHANGED <<raw, gz, logged, excused>>, cleaner' = cleaner \/ cleaner' = Idle, today' \in Days,
         today <= today', \A r : Wrote(deed, today, r) => Wrote(deed', today', r)
  PROVE  FilesClean' /\ FilesThere' /\ CleanerTrue' /\ LoggedTrue'
<1>1. today \in Nat /\ today' \in Nat /\ Retention \in Nat
  BY TrailAssumption DEF TrailIInv, TrailType, Days
<1>2. FilesClean'
  <2>1. Clean(deed', today', cleaner.day, cleaner.copy) /\ Clean(deed', today', Idle.day, Idle.copy)
    BY CleanStays DEF TrailIInv, FilesClean, Idle, Clean
  <2>2. \A d \in Days : Clean(deed', today', d, raw[d].lines) /\ Clean(deed', today', d, gz[d].lines)
    BY CleanStays DEF TrailIInv, FilesClean
  <2>. QED  BY <2>1, <2>2 DEF FilesClean
<1>3. FilesThere'
  BY DEF TrailIInv, FilesThere
<1>4. CleanerTrue'
  BY <1>1 DEF TrailIInv, CleanerTrue, Idle
<1>5. LoggedTrue'
  <2>1. ASSUME NEW r \in logged \ excused PROVE r.day < today' - Retention \/ Safe(r, raw, gz, cleaner')
    <3>1. r.day \in Nat
      BY DEF TrailIInv, LoggedTrue, Days
    <3>2. r.day < today - Retention \/ Safe(r, raw, gz, cleaner)
      BY DEF TrailIInv, LoggedTrue
    <3>3. Safe(r, raw, gz, cleaner) => Safe(r, raw, gz, cleaner')
      BY DEF Safe, Idle
    <3>. QED  BY <1>1, <3>1, <3>2, <3>3
  <2>. QED  BY <2>1 DEF TrailIInv, LoggedTrue
<1>. QED  BY <1>2, <1>3, <1>4, <1>5

LEMMA NewStatus == ASSUME NEW a \in Deeds, NEW ev \in {"started", "finished"}, NEW st \in {"none", "succeeded", "failed"},
                          today \in Days
                   PROVE  /\ Stamped(a, ev, st) \in TrailRecord
                          /\ Stamped(a, ev, st).deed = a /\ Stamped(a, ev, st).event = ev
                          /\ Stamped(a, ev, st).day = today /\ Stamped(a, ev, st).status = st
BY TrailAssumption DEF Stamped, TrailRecord, TrailEvents, Days

LEMMA BeginKeeps == ASSUME NEW a \in Deeds, TrailIInv, BeginActivity(a) PROVE TrailIInv'
<1> DEFINE s == Stamped(a, "started", "none")
<1>1. /\ s \in TrailRecord /\ s.deed = a /\ s.event = "started" /\ s.day = today
  BY NewStatus DEF TrailIInv, TrailType
<1>2. /\ deed[a] \in DeedRecord /\ deed[a].pc = "new" /\ deed \in [Deeds -> DeedRecord] /\ today \in Days
      /\ deed' = [deed EXCEPT ![a] = [pc |-> "start", told |-> "none", rec |-> s]]
  BY DEF TrailIInv, TrailType, BeginActivity, DeedRecord
<1>3. deed'[a] = [pc |-> "start", told |-> "none", rec |-> s] /\ \A b \in Deeds : b # a => deed'[b] = deed[b]
  BY <1>2
<1> HIDE DEF s
<1>4. deed' \in [Deeds -> DeedRecord]
  BY <1>1, <1>2 DEF DeedRecord
<1>5. \A r : Wrote(deed, today, r) => Wrote(deed', today, r)
  BY <1>2, <1>3 DEF Wrote
<1>6. \A b \in Deeds : OnItsWay(deed'[b], b, today)
  <2>1. OnItsWay(deed'[a], a, today)
    BY <1>1, <1>2, <1>3 DEF OnItsWay, Days
  <2>. QED  BY <1>3, <2>1 DEF TrailIInv, DeedsTrue
<1>7. UNCHANGED <<today, raw, gz, handle, cleaner, logged, excused, spoilt>>
  BY DEF BeginActivity
<1>8. today <= today'
  BY <1>2, <1>7 DEF Days
<1>9. FilesClean' /\ FilesThere' /\ CleanerTrue' /\ LoggedTrue'
  BY <1>2, <1>5, <1>7, <1>8, FilesAlone
<1>. QED  BY <1>4, <1>6, <1>7, <1>9 DEF TrailIInv, TrailType, DeedsTrue

LEMMA FinishKeeps ==
  ASSUME NEW a \in Deeds, NEW told \in {"success", "refusal"}, TrailIInv, Finish(a, told) PROVE TrailIInv'
<1> DEFINE st == IF told = "refusal" THEN "failed" ELSE "succeeded"
           s == Stamped(a, "finished", st)
<1>1. /\ s \in TrailRecord /\ s.deed = a /\ s.event = "finished" /\ s.day = today /\ (s.status = "failed") = (told = "refusal")
  BY NewStatus DEF TrailIInv, TrailType
<1>2. /\ deed[a] \in DeedRecord /\ deed[a].pc = "work" /\ deed \in [Deeds -> DeedRecord] /\ today \in Days
      /\ deed' = [deed EXCEPT ![a] = [pc |-> "end", told |-> told, rec |-> s]]
  BY DEF TrailIInv, TrailType, Finish, DeedRecord
<1>3. deed'[a] = [pc |-> "end", told |-> told, rec |-> s] /\ \A b \in Deeds : b # a => deed'[b] = deed[b]
  BY <1>2
<1> HIDE DEF s
<1>4. deed' \in [Deeds -> DeedRecord]
  BY <1>1, <1>2 DEF DeedRecord
<1>5. \A r : Wrote(deed, today, r) => Wrote(deed', today, r)
  BY <1>1, <1>2, <1>3 DEF Wrote
<1>6. \A b \in Deeds : OnItsWay(deed'[b], b, today)
  <2>1. OnItsWay(deed'[a], a, today)
    BY <1>1, <1>2, <1>3 DEF OnItsWay, Days
  <2>. QED  BY <1>3, <2>1 DEF TrailIInv, DeedsTrue
<1>7. UNCHANGED <<today, raw, gz, handle, cleaner, logged, excused, spoilt>>
  BY DEF Finish
<1>8. today <= today'
  BY <1>2, <1>7 DEF Days
<1>9. FilesClean' /\ FilesThere' /\ CleanerTrue' /\ LoggedTrue'
  BY <1>2, <1>5, <1>7, <1>8, FilesAlone
<1>. QED  BY <1>4, <1>6, <1>7, <1>9 DEF TrailIInv, TrailType, DeedsTrue

LEMMA NextDayKeeps == ASSUME TrailIInv, NextDay PROVE TrailIInv'
<1>1. /\ today \in Days /\ today' \in Days /\ today' = today + 1 /\ today <= today'
      /\ UNCHANGED <<raw, gz, handle, deed, cleaner, logged, excused, spoilt>>
  BY TrailAssumption DEF TrailIInv, TrailType, NextDay, Days
<1>2. \A r : Wrote(deed, today, r) => Wrote(deed', today', r)
  BY <1>1 DEF Wrote, Days
<1>3. FilesClean' /\ FilesThere' /\ CleanerTrue' /\ LoggedTrue'
  BY <1>1, <1>2, FilesAlone
<1>4. DeedsTrue'
  BY <1>1 DEF TrailIInv, DeedsTrue, OnItsWay, Days
<1>. QED  BY <1>1, <1>3, <1>4 DEF TrailIInv, TrailType

LEMMA CrashKeeps == ASSUME TrailIInv, CrashTrail PROVE TrailIInv'
<1>1. /\ deed \in [Deeds -> DeedRecord] /\ today \in Days /\ today' = today /\ cleaner' = Idle
      /\ handle' = [day |-> 0, linked |-> FALSE] /\ spoilt' \in Nat /\ UNCHANGED <<raw, gz, logged, excused>>
      /\ \A a \in Deeds : deed[a] \in DeedRecord
  BY DEF TrailIInv, TrailType, CrashTrail, Spoil
<1>2. /\ deed' \in [Deeds -> DeedRecord]
      /\ \A a \in Deeds : /\ deed'[a].rec = deed[a].rec /\ deed'[a].told = deed[a].told
                          /\ IF deed[a].pc = "new" THEN deed'[a] = deed[a] ELSE deed'[a].pc = "done"
  <2>1. \A a \in Deeds : [deed[a] EXCEPT !.pc = "done"] \in DeedRecord /\ [deed[a] EXCEPT !.pc = "done"].pc = "done"
                         /\ [deed[a] EXCEPT !.pc = "done"].rec = deed[a].rec /\ [deed[a] EXCEPT !.pc = "done"].told = deed[a].told
    BY <1>1 DEF DeedRecord
  <2>2. deed' = [a \in Deeds |-> IF deed[a].pc = "new" THEN deed[a] ELSE [deed[a] EXCEPT !.pc = "done"]]
    BY DEF CrashTrail
  <2>. QED  BY <1>1, <2>1, <2>2
<1>3. \A r : Wrote(deed, today, r) => Wrote(deed', today', r)
  BY <1>1, <1>2 DEF Wrote
<1>4. FilesClean' /\ FilesThere' /\ CleanerTrue' /\ LoggedTrue'
  BY <1>1, <1>3, FilesAlone DEF Days
<1>5. DeedsTrue'
  BY <1>1, <1>2 DEF TrailIInv, DeedsTrue, OnItsWay
<1>6. cleaner' \in [pc : {"idle", "copied", "renamed"}, day : 0 .. MaxDay, copy : Seq(TrailRecord)]
  BY <1>1, TrailAssumption DEF Idle
<1>7. handle' \in [day : 0 .. MaxDay, linked : BOOLEAN]
  BY <1>1, TrailAssumption
<1>. QED  BY <1>1, <1>2, <1>4, <1>5, <1>6, <1>7 DEF TrailIInv, TrailType

\* A line is added at the end: what was listed stays, and the new record is after its start.
LEMMA AppendKeeps == ASSUME NEW a \in Deeds, TrailIInv, AppendLine(a) PROVE TrailIInv'
<1> DEFINE r == deed[a].rec
           h == OpenFor(r.day)
           d == r.day
           ls == raw[d].lines
<1>1. /\ deed \in [Deeds -> DeedRecord] /\ deed[a] \in DeedRecord /\ deed[a].pc \in {"start", "end"} /\ a # "none"
      /\ r \in TrailRecord /\ r.deed = a /\ d \in 1 .. today /\ d \in Days /\ today \in Days /\ Days \subseteq Nat
      /\ (deed[a].pc = "start" => r.event = "started") /\ (deed[a].pc = "end" => r.event = "finished")
  <2>1. OnItsWay(deed[a], a, today)
    BY DEF TrailIInv, DeedsTrue
  <2>2. today \in Days /\ MaxDay \in Nat /\ "none" \notin Deeds
    BY TrailAssumption DEF TrailIInv, TrailType
  <2>. QED  BY <2>1, <2>2 DEF TrailIInv, TrailType, AppendLine, DeedRecord, OnItsWay, Days
<1>2. /\ h.day = d /\ h \in [day : 0 .. MaxDay, linked : BOOLEAN]
      /\ (~(handle.day = d /\ ~handle.linked) => h.linked)
  BY <1>1 DEF TrailIInv, TrailType, OpenFor, Days
<1>3. /\ deed' \in [Deeds -> DeedRecord] /\ deed'[a].rec = r /\ deed'[a].told = deed[a].told
      /\ deed'[a].pc = (IF deed[a].pc = "start" THEN "work" ELSE "done")
      /\ \A b \in Deeds : b # a => deed'[b] = deed[b]
  <2>1. deed' = [deed EXCEPT ![a] = [deed[a] EXCEPT !.pc = IF deed[a].pc = "start" THEN "work" ELSE "done"]]
    BY DEF AppendLine, Onward
  <2>2. [deed[a] EXCEPT !.pc = IF deed[a].pc = "start" THEN "work" ELSE "done"] =
          [pc |-> IF deed[a].pc = "start" THEN "work" ELSE "done", rec |-> r, told |-> deed[a].told]
    BY <1>1 DEF DeedRecord
  <2>. QED  BY <1>1, <2>1, <2>2 DEF DeedRecord
<1>4. UNCHANGED <<today, gz, cleaner>> /\ handle' = h
  BY DEF AppendLine
<1>5. \A x : Wrote(deed, today, x) => Wrote(deed', today, x)
  BY <1>1, <1>3 DEF Wrote
<1>6. Wrote(deed', today, r)
  BY <1>1, <1>3 DEF Wrote
<1>7. /\ raw \in [Days -> TrailFile] /\ ls \in Seq(TrailRecord) /\ Clean(deed, today, d, ls)
  BY <1>1 DEF TrailIInv, TrailType, TrailFile, FilesClean
<1>8. \A m \in DOMAIN ls : /\ ls[m] # r
                           /\ ~(r.event = "started" /\ ls[m].deed = r.deed /\ ls[m].event = "finished")
  BY <1>1, <1>7 DEF Clean, Wrote
<1> DEFINE Grown(x) ==
             /\ Appended(ls, x) \in Seq(TrailRecord) /\ Appended(ls, x) # <<>>
             /\ Clean(deed', today, d, Appended(ls, x))
             /\ \A y : y.deed # "none" /\ Among(y, ls) => Among(y, Appended(ls, x))
<1>9. Grown(r) /\ (~Glued(ls) => Among(r, Appended(ls, r)))
  BY <1>1, <1>5, <1>6, <1>7, <1>8, CleanAppended
<1>10. Grown(Torn)
  BY <1>5, <1>7, CleanAppended, TornIs
<1> HIDE DEF Grown, ls, h, r, d
<1>11. \A x : WriteTo(h, x) =>
         raw' = IF h.linked THEN [raw EXCEPT ![d] = [there |-> TRUE, lines |-> Appended(ls, x)]] ELSE raw
  BY <1>2 DEF WriteTo, ls
<1>12. ASSUME NEW x, Grown(x), WriteTo(h, x)
       PROVE  /\ raw' \in [Days -> TrailFile] /\ \A e \in Days : e # d => raw'[e] = raw[e]
              /\ IF h.linked THEN raw'[d].there /\ raw'[d].lines = Appended(ls, x) ELSE raw'[d] = raw[d]
  <2>1. [there |-> TRUE, lines |-> Appended(ls, x)] \in TrailFile
    BY <1>12 DEF Grown, TrailFile
  <2>. QED  BY <1>1, <1>7, <1>11, <1>12, <2>1 DEF d
<1>13. /\ raw' \in [Days -> TrailFile] /\ \A e \in Days : e # d => raw'[e] = raw[e]
       /\ raw'[d] = raw[d] \/ (raw'[d].there /\ \E x : Grown(x) /\ raw'[d].lines = Appended(ls, x))
  BY <1>1, <1>7, <1>9, <1>10, <1>12 DEF AppendLine, h, r, d
<1>14. /\ \A e \in Days : Clean(deed', today, e, raw'[e].lines)
       /\ \A e \in Days : raw'[e].lines # <<>> => raw'[e].there
       /\ \A e \in Days : \A y : y.deed # "none" /\ Among(y, raw[e].lines) => Among(y, raw'[e].lines)
  <2>1. \A e \in Days : Clean(deed', today, e, raw[e].lines)
    BY <1>5, CleanStays DEF TrailIInv, FilesClean
  <2>2. \A e \in Days : raw[e].lines # <<>> => raw[e].there
    BY DEF TrailIInv, FilesThere
  <2>. QED  BY <1>13, <2>1, <2>2 DEF Grown, ls
<1>15. FilesClean' /\ FilesThere'
  <2>1. \A e \in Days : Clean(deed', today, e, gz[e].lines)
    BY <1>5, CleanStays DEF TrailIInv, FilesClean
  <2>2. Clean(deed', today, cleaner.day, cleaner.copy)
    BY <1>5, CleanStays DEF TrailIInv, FilesClean
  <2>. QED  BY <1>4, <1>14, <2>1, <2>2 DEF TrailIInv, FilesClean, FilesThere
<1>16. DeedsTrue'
  BY <1>1, <1>3, <1>4 DEF TrailIInv, DeedsTrue, OnItsWay, r
<1>17. CleanerTrue'
  BY <1>4 DEF TrailIInv, CleanerTrue
<1>18. /\ logged' \in SUBSET TrailRecord /\ excused' \in SUBSET TrailRecord /\ spoilt' \in Nat
       /\ logged' \subseteq logged \cup {r} /\ excused \subseteq excused'
  BY <1>1 DEF TrailIInv, TrailType, AppendLine, Spoil, r, d
<1>19. ASSUME r \in logged' \ excused', r \notin logged \ excused PROVE Safe(r, raw', gz, cleaner)
  <2>1. r \notin logged
    BY <1>18, <1>19
  <2>2. WriteTo(h, r) /\ ~Late(d) /\ ~Glued(raw[h.day].lines)
    BY <1>19, <2>1 DEF AppendLine, h, r, d
  <2>3. h.linked /\ ~gz[d].there /\ cleaner.day # d /\ ~Glued(ls)
    BY <1>2, <2>2 DEF Late, ls
  <2>4. Among(r, raw'[d].lines)
    BY <1>9, <1>12, <2>2, <2>3
  <2>. QED  BY <2>3, <2>4 DEF Safe, d
<1>20. \A y \in logged \ excused : Safe(y, raw, gz, cleaner) => Safe(y, raw', gz, cleaner)
  <2>1. ASSUME NEW y \in logged \ excused PROVE y.deed # "none" /\ y.day \in Days
    BY TrailAssumption DEF TrailIInv, LoggedTrue, Wrote
  <2>. QED  BY <1>14, <2>1 DEF Safe
<1>21. LoggedTrue'
  <2>1. \A y \in logged' : y.day \in Days /\ Wrote(deed', today, y)
    BY <1>1, <1>5, <1>6, <1>18 DEF TrailIInv, LoggedTrue, d
  <2>2. \A y \in logged' \ excused' : y.day < today - Retention \/ Safe(y, raw', gz, cleaner)
    BY <1>18, <1>19, <1>20 DEF TrailIInv, LoggedTrue
  <2>. QED  BY <1>4, <2>1, <2>2 DEF LoggedTrue
<1>. QED  BY <1>2, <1>3, <1>4, <1>13, <1>15, <1>16, <1>17, <1>18, <1>21 DEF TrailIInv, TrailType

LEMMA NoFileIs ==
  /\ NoFile \in TrailFile /\ NoFile.lines = <<>> /\ Idle.copy = <<>>
  /\ \A ds, now, e : Clean(ds, now, e, NoFile.lines) /\ Clean(ds, now, e, Idle.copy)
<1>1. NoFile.lines = <<>> /\ Idle.copy = <<>> /\ DOMAIN <<>> = {}
  BY DEF NoFile, Idle
<1>2. NoFile \in TrailFile
  BY DEF NoFile, TrailFile
<1>. QED  BY <1>1, <1>2 DEF Clean

LEMMA UnlinkedTyped ==
  ASSUME TrailIInv, NEW d \in Days, Unlinked(d) PROVE handle' \in [day : 0 .. MaxDay, linked : BOOLEAN]
<1>1. handle \in [day : 0 .. MaxDay, linked : BOOLEAN]
  BY DEF TrailIInv, TrailType
<1>. QED  BY <1>1 DEF Unlinked

LEMMA RemoveKeeps == ASSUME NEW d \in Days, TrailIInv, RemoveOld(d) PROVE TrailIInv'
<1>1. /\ NoFile \in TrailFile /\ \A ds, now, e : Clean(ds, now, e, NoFile.lines)
      /\ raw' = [raw EXCEPT ![d] = NoFile] /\ gz' = [gz EXCEPT ![d] = NoFile] /\ d < today - Retention
      /\ UNCHANGED <<today, deed, cleaner, logged, excused, spoilt>>
      /\ handle' \in [day : 0 .. MaxDay, linked : BOOLEAN] /\ cleaner = Idle
  BY NoFileIs, UnlinkedTyped DEF RemoveOld
<1>2. /\ raw' \in [Days -> TrailFile] /\ raw'[d] = NoFile /\ \A e \in Days : e # d => raw'[e] = raw[e]
      /\ gz' \in [Days -> TrailFile] /\ gz'[d] = NoFile /\ \A e \in Days : e # d => gz'[e] = gz[e]
  BY <1>1 DEF TrailIInv, TrailType
<1>3. FilesClean' /\ FilesThere'
  BY <1>1, <1>2 DEF TrailIInv, FilesClean, FilesThere, NoFile
<1>4. CleanerTrue'
  BY <1>1 DEF TrailIInv, CleanerTrue, Idle
<1>5. LoggedTrue'
  <2>1. ASSUME NEW r \in logged \ excused, Safe(r, raw, gz, cleaner), r.day # d PROVE Safe(r, raw', gz', cleaner)
    <3>1. r.day \in Days
      BY DEF TrailIInv, LoggedTrue
    <3>. QED  BY <1>2, <2>1, <3>1 DEF Safe
  <2>. QED  BY <1>1, <2>1 DEF TrailIInv, LoggedTrue
<1>. QED  BY <1>1, <1>2, <1>3, <1>4, <1>5 DEF TrailIInv, TrailType, DeedsTrue

\* The raw file of a day goes, of which there is a compressed one.
LEMMA RawGoes ==
  ASSUME TrailIInv, NEW d \in Days, gz[d].there, raw' = [raw EXCEPT ![d] = NoFile], Unlinked(d),
         cleaner' \in {cleaner, Idle}, UNCHANGED <<today, gz, deed, logged, excused, spoilt>>
  PROVE  TrailIInv'
<1>1. /\ NoFile \in TrailFile /\ \A ds, now, e : Clean(ds, now, e, NoFile.lines) /\ Clean(ds, now, e, Idle.copy)
      /\ handle' \in [day : 0 .. MaxDay, linked : BOOLEAN]
  BY NoFileIs, UnlinkedTyped
<1>2. raw' \in [Days -> TrailFile] /\ raw'[d] = NoFile /\ \A e \in Days : e # d => raw'[e] = raw[e]
  BY <1>1 DEF TrailIInv, TrailType
<1>3. FilesClean' /\ FilesThere'
  BY <1>1, <1>2 DEF TrailIInv, FilesClean, FilesThere, NoFile
<1>4. CleanerTrue' /\ cleaner' \in [pc : {"idle", "copied", "renamed"}, day : 0 .. MaxDay, copy : Seq(TrailRecord)]
  <2>1. Idle \in [pc : {"idle", "copied", "renamed"}, day : 0 .. MaxDay, copy : Seq(TrailRecord)]
    BY TrailAssumption DEF Idle
  <2>. QED  BY <2>1 DEF TrailIInv, TrailType, CleanerTrue, Idle
<1>5. LoggedTrue'
  <2>1. ASSUME NEW r \in logged \ excused, Safe(r, raw, gz, cleaner) PROVE Safe(r, raw', gz, cleaner')
    <3>1. r.day \in Days
      BY DEF TrailIInv, LoggedTrue
    <3>2. cleaner'.pc = "copied" => cleaner' = cleaner
      BY DEF Idle
    <3>. QED  BY <1>2, <2>1, <3>1, <3>2 DEF Safe
  <2>. QED  BY <2>1 DEF TrailIInv, LoggedTrue
<1>. QED  BY <1>1, <1>2, <1>3, <1>4, <1>5 DEF TrailIInv, TrailType, DeedsTrue

LEMMA CopyKeeps == ASSUME NEW d \in Days, TrailIInv, GzipCopy(d) PROVE TrailIInv'
<1>1. CASE gz[d].there
  BY <1>1, RawGoes DEF GzipCopy
<1>2. CASE ~gz[d].there
  <2>1. /\ cleaner' = [pc |-> "copied", day |-> d, copy |-> raw[d].lines]
        /\ UNCHANGED <<today, raw, gz, handle, deed, logged, excused, spoilt>>
        /\ d < today /\ today \in Nat /\ d \in Nat \ {0} /\ d \in 0 .. MaxDay /\ raw[d].lines \in Seq(TrailRecord)
    BY <1>2, TrailAssumption DEF GzipCopy, TrailIInv, TrailType, TrailFile, Days
  <2>2. cleaner' \in [pc : {"idle", "copied", "renamed"}, day : 0 .. MaxDay, copy : Seq(TrailRecord)]
    BY <2>1
  <2>3. FilesClean' /\ FilesThere'
    BY <2>1 DEF TrailIInv, FilesClean, FilesThere
  <2>4. CleanerTrue'
    BY <2>1 DEF CleanerTrue
  <2>5. LoggedTrue'
    BY <1>2, <2>1 DEF TrailIInv, LoggedTrue, Safe
  <2>. QED  BY <2>1, <2>2, <2>3, <2>4, <2>5 DEF TrailIInv, TrailType, DeedsTrue
<1>. QED  BY <1>1, <1>2

LEMMA RenameKeeps == ASSUME TrailIInv, GzipRename PROVE TrailIInv'
<1> DEFINE d == cleaner.day
           f == [there |-> TRUE, lines |-> cleaner.copy]
<1>1. /\ d \in Days /\ cleaner.pc = "copied" /\ f \in TrailFile
      /\ gz' = [gz EXCEPT ![d] = f] /\ cleaner' = [cleaner EXCEPT !.pc = "renamed"]
      /\ UNCHANGED <<today, raw, handle, deed, logged, excused, spoilt>>
  BY TrailAssumption DEF GzipRename, TrailIInv, TrailType, CleanerTrue, TrailFile, Days
<1>2. /\ cleaner' \in [pc : {"idle", "copied", "renamed"}, day : 0 .. MaxDay, copy : Seq(TrailRecord)]
      /\ cleaner'.pc = "renamed" /\ cleaner'.day = d /\ cleaner'.copy = cleaner.copy
  BY <1>1 DEF TrailIInv, TrailType
<1>3. gz' \in [Days -> TrailFile] /\ gz'[d] = f /\ \A e \in Days : e # d => gz'[e] = gz[e]
  BY <1>1 DEF TrailIInv, TrailType
<1>4. FilesClean' /\ FilesThere'
  BY <1>1, <1>2, <1>3 DEF TrailIInv, FilesClean, FilesThere
<1>5. CleanerTrue'
  BY <1>1, <1>2, <1>3 DEF TrailIInv, CleanerTrue
<1>6. LoggedTrue'
  <2>1. ASSUME NEW r \in logged \ excused, Safe(r, raw, gz, cleaner) PROVE Safe(r, raw, gz', cleaner')
    <3>1. r.day \in Days
      BY DEF TrailIInv, LoggedTrue
    <3>. QED  BY <1>1, <1>2, <1>3, <2>1, <3>1 DEF Safe
  <2>. QED  BY <1>1, <2>1 DEF TrailIInv, LoggedTrue
<1>. QED  BY <1>1, <1>2, <1>3, <1>4, <1>5, <1>6 DEF TrailIInv, TrailType, DeedsTrue

LEMMA GzipRemoveKeeps == ASSUME TrailIInv, GzipRemove PROVE TrailIInv'
<1>1. cleaner.day \in Days /\ gz[cleaner.day].there
  BY TrailAssumption DEF GzipRemove, TrailIInv, TrailType, CleanerTrue, Days
<1>. QED  BY <1>1, RawGoes DEF GzipRemove

LEMMA TrailPreserved == TrailIInv /\ [TrailNext]_trailVars => TrailIInv'
<1>. SUFFICES ASSUME TrailIInv, [TrailNext]_trailVars PROVE TrailIInv'
  OBVIOUS
<1>1. CASE UNCHANGED trailVars
  BY <1>1 DEF trailVars, TrailIInv, TrailType, FilesClean, FilesThere, DeedsTrue, CleanerTrue, LoggedTrue
<1>2. ASSUME NEW a \in Deeds, BeginActivity(a) PROVE TrailIInv'
  BY <1>2, BeginKeeps
<1>3. ASSUME NEW a \in Deeds, AppendLine(a) PROVE TrailIInv'
  BY <1>3, AppendKeeps
<1>4. ASSUME NEW a \in Deeds, NEW told \in {"success", "refusal"}, Finish(a, told) PROVE TrailIInv'
  BY <1>4, FinishKeeps
<1>5. ASSUME NEW d \in Days, RemoveOld(d) PROVE TrailIInv'
  BY <1>5, RemoveKeeps
<1>6. ASSUME NEW d \in Days, GzipCopy(d) PROVE TrailIInv'
  BY <1>6, CopyKeeps
<1>7. CASE GzipRename \/ GzipRemove
  BY <1>7, RenameKeeps, GzipRemoveKeeps
<1>8. CASE NextDay \/ CrashTrail
  BY <1>8, NextDayKeeps, CrashKeeps
<1>. QED  BY <1>1, <1>2, <1>3, <1>4, <1>5, <1>6, <1>7, <1>8 DEF TrailNext

\* The controller's trail of activity, its files and its writer keep their types.
THEOREM TrailTypeCorrect == TrailSpec => []TrailType
<1>1. TrailIInv => TrailType
  BY DEF TrailIInv
<1>. QED  BY <1>1, TrailInitial, TrailPreserved, PTL DEF TrailSpec

\* Of a line that each of two files has at most once, how often both have it.
LEMMA TwoFiles ==
  ASSUME NEW g \in Seq(TrailRecord), NEW w \in Seq(TrailRecord), NEW r,
         \A m, n \in DOMAIN g : g[m] = r /\ g[n] = r => m = n, \A m, n \in DOMAIN w : w[m] = r /\ w[n] = r => m = n
  PROVE  LET n == Cardinality({m \in DOMAIN (g \o w) : (g \o w)[m] = r})
         IN  /\ Among(r, g) \/ Among(r, w) => n \in {1, 2}
             /\ n = 2 => Among(r, g) /\ Among(r, w)
<1> DEFINE A == {m \in DOMAIN (g \o w) : (g \o w)[m] = r}
<1>1. /\ Len(g) \in Nat /\ Len(w) \in Nat /\ DOMAIN g = 1 .. Len(g) /\ DOMAIN w = 1 .. Len(w)
      /\ DOMAIN (g \o w) = 1 .. Len(g) + Len(w)
      /\ \A m \in 1 .. Len(g) + Len(w) : (g \o w)[m] = IF m <= Len(g) THEN g[m] ELSE w[m - Len(g)]
  BY ConcatProperties, LenProperties
<1>2. \A m \in A : \/ m \in DOMAIN g /\ g[m] = r
                   \/ m - Len(g) \in DOMAIN w /\ w[m - Len(g)] = r /\ m \in Nat
  BY <1>1
<1>3. (\A m \in DOMAIN g : g[m] = r => m \in A) /\ (\A m \in DOMAIN w : w[m] = r => m + Len(g) \in A)
  BY <1>1
<1>4. ASSUME ~Among(r, g), ~Among(r, w) PROVE Cardinality(A) = 0
  <2>1. A = {}
    BY <1>2, <1>4 DEF Among
  <2>. QED  BY <2>1, FS_EmptySet
<1>5. ASSUME NEW a \in DOMAIN g, g[a] = r, ~Among(r, w) PROVE Cardinality(A) = 1
  <2>1. A = {a}
    BY <1>1, <1>2, <1>3, <1>5 DEF Among
  <2>. QED  BY <2>1, FS_Singleton
<1>6. ASSUME NEW b \in DOMAIN w, w[b] = r, ~Among(r, g) PROVE Cardinality(A) = 1
  <2>1. \A m \in A : m - Len(g) = b /\ m = b + Len(g)
    <3>1. ASSUME NEW m \in A PROVE m - Len(g) = b /\ m \in Nat
      BY <1>2, <1>6 DEF Among
    <3>. QED  BY <1>1, <3>1
  <2>2. A = {b + Len(g)}
    BY <1>3, <1>6, <2>1
  <2>. QED  BY <2>2, FS_Singleton
<1>7. ASSUME NEW a \in DOMAIN g, g[a] = r, NEW b \in DOMAIN w, w[b] = r PROVE Cardinality(A) = 2
  <2>1. \A m \in A : m = a \/ m = b + Len(g)
    <3>1. ASSUME NEW m \in A PROVE m = a \/ (m - Len(g) = b /\ m \in Nat)
      BY <1>2, <1>7
    <3>. QED  BY <1>1, <3>1
  <2>2. A = {a} \cup {b + Len(g)} /\ b + Len(g) \notin {a}
    BY <1>1, <1>3, <1>7, <2>1
  <2> HIDE DEF A
  <2>3. IsFiniteSet({a}) /\ Cardinality({a}) = 1
    BY FS_Singleton
  <2>4. Cardinality({a} \cup {b + Len(g)}) = 1 + 1
    BY <2>2, <2>3, FS_AddElement
  <2>. QED  BY <2>2, <2>4
<1>8. /\ Among(r, g) \/ Among(r, w) => Cardinality(A) \in {1, 2}
      /\ Cardinality(A) = 2 => Among(r, g) /\ Among(r, w)
  <2> HIDE DEF A
  <2>. QED  BY <1>4, <1>5, <1>6, <1>7 DEF Among
<1>. QED  BY <1>8

\* A line of a day is one of its compressed file or of its raw one.
LEMMA LineOf ==
  ASSUME NEW g \in Seq(TrailRecord), NEW w \in Seq(TrailRecord), NEW i \in DOMAIN (g \o w)
  PROVE  /\ i \in Nat
         /\ (i \in DOMAIN g /\ (g \o w)[i] = g[i]) \/ (i - Len(g) \in DOMAIN w /\ (g \o w)[i] = w[i - Len(g)])
         /\ w = <<>> => i \in DOMAIN g /\ (g \o w)[i] = g[i]
         /\ g = <<>> => i \in DOMAIN w /\ (g \o w)[i] = w[i]
<1>1. /\ Len(g) \in Nat /\ Len(w) \in Nat /\ DOMAIN g = 1 .. Len(g) /\ DOMAIN w = 1 .. Len(w)
      /\ DOMAIN (g \o w) = 1 .. Len(g) + Len(w)
      /\ (g \o w)[i] = IF i <= Len(g) THEN g[i] ELSE w[i - Len(g)]
  BY ConcatProperties, LenProperties
<1>2. (g = <<>> => Len(g) = 0) /\ (w = <<>> => Len(w) = 0)
  BY EmptySeq
<1>. QED  BY <1>1, <1>2

\* The activity trail (activity.go, cleanup.go, reader.go) loses no record it has taken,
\* shows it once unless a compressed file and its original are both there, an end
\* before its start, and says of it what the client was told, through midnight,
\* compression half way, failed writes and crashes: for any actions, days and mishaps.
THEOREM TrailCorrect == TrailSpec => []TrailTrue
<1>1. TrailIInv => TrailTrue
  <2>. SUFFICES ASSUME TrailIInv PROVE TrailTrue
    OBVIOUS
  <2>1. ASSUME NEW r \in logged \ excused, ~(r.day < today - Retention)
        PROVE  LET n == Cardinality({m \in DOMAIN Lines(r.day) : Lines(r.day)[m] = r})
               IN  n = 1 \/ (n = 2 /\ Doubled(r.day))
    <3> DEFINE d == r.day
    <3>1. /\ d \in Days /\ r.deed # "none" /\ Safe(r, raw, gz, cleaner)
          /\ gz[d].lines \in Seq(TrailRecord) /\ raw[d].lines \in Seq(TrailRecord)
          /\ Clean(deed, today, d, gz[d].lines) /\ Clean(deed, today, d, raw[d].lines)
      BY <2>1, TrailAssumption DEF TrailIInv, LoggedTrue, Wrote, TrailType, TrailFile, FilesClean
    <3>2. /\ \A m, n \in DOMAIN gz[d].lines : gz[d].lines[m] = r /\ gz[d].lines[n] = r => m = n
          /\ \A m, n \in DOMAIN raw[d].lines : raw[d].lines[m] = r /\ raw[d].lines[n] = r => m = n
      BY <3>1 DEF Clean
    <3>3. Among(r, gz[d].lines) \/ Among(r, raw[d].lines)
      BY <3>1 DEF Safe
    <3>4. Among(r, gz[d].lines) /\ Among(r, raw[d].lines) => Doubled(d)
      BY <3>1 DEF TrailIInv, FilesThere, Among, Doubled
    <3>. QED  BY <3>1, <3>2, <3>3, <3>4, TwoFiles DEF Lines
  <2>2. ASSUME NEW p \in Listed, NEW q \in Listed, Entry(p).deed = Entry(q).deed, Entry(p).event = "started",
               Entry(q).event = "finished", ~Doubled(p[1])
        PROVE  Before(q, p)
    <3>. DEFINE LiesAt(x, f, i) == f \in Days /\ i \in DOMAIN Lines(f) /\ x = <<f, i>> /\ Entry(x) = Lines(f)[i] /\ Entry(x).deed # "none"
    <3>0. ASSUME NEW x \in Listed PROVE \E f, i : LiesAt(x, f, i)
      BY DEF Listed, Entry
    <3>1. PICK d, m : LiesAt(p, d, m)
      BY <3>0
    <3>2. PICK e, n : LiesAt(q, e, n)
      BY <3>0
    <3>3. ASSUME NEW f \in Days
          PROVE  /\ gz[f].lines \in Seq(TrailRecord) /\ raw[f].lines \in Seq(TrailRecord)
                 /\ Clean(deed, today, f, gz[f].lines) /\ Clean(deed, today, f, raw[f].lines)
      BY DEF TrailIInv, TrailType, TrailFile, FilesClean
    <3>4. ASSUME NEW f \in Days, NEW i \in DOMAIN Lines(f), Lines(f)[i].deed # "none"
          PROVE  Lines(f)[i].day = f /\ Wrote(deed, today, Lines(f)[i])
      <4>1. \/ i \in DOMAIN gz[f].lines /\ Lines(f)[i] = gz[f].lines[i]
            \/ i - Len(gz[f].lines) \in DOMAIN raw[f].lines /\ Lines(f)[i] = raw[f].lines[i - Len(gz[f].lines)]
        BY <3>3, LineOf DEF Lines
      <4>. QED  BY <3>3, <3>4, <4>1 DEF Clean
    <3>5. d <= e
      BY <2>2, <3>1, <3>2, <3>4 DEF Wrote
    <3>6. d = e => m < n
      <4>1. SUFFICES ASSUME d = e PROVE m < n
        OBVIOUS
      <4>2. gz[d].lines = <<>> \/ raw[d].lines = <<>>
        BY <2>2, <3>1 DEF TrailIInv, FilesThere, Doubled
      <4>3. PICK ls \in {gz[d].lines, raw[d].lines} :
              m \in DOMAIN ls /\ n \in DOMAIN ls /\ Lines(d)[m] = ls[m] /\ Lines(d)[n] = ls[n]
        <5>1. \A i \in DOMAIN Lines(d) :
                /\ raw[d].lines = <<>> => i \in DOMAIN gz[d].lines /\ Lines(d)[i] = gz[d].lines[i]
                /\ gz[d].lines = <<>> => i \in DOMAIN raw[d].lines /\ Lines(d)[i] = raw[d].lines[i]
          <6>1. gz[d].lines \in Seq(TrailRecord) /\ raw[d].lines \in Seq(TrailRecord)
            BY <3>1, <3>3
          <6>. QED  BY <6>1, LineOf DEF Lines
        <5>2. m \in DOMAIN Lines(d) /\ n \in DOMAIN Lines(d)
          BY <3>1, <3>2, <4>1
        <5>. QED  BY <4>2, <5>1, <5>2
      <4>. QED  BY <2>2, <3>1, <3>2, <3>3, <4>1, <4>3 DEF Clean
    <3>7. m \in Nat /\ n \in Nat
      BY <3>1, <3>2, <3>3, LineOf DEF Lines
    <3>. QED  BY <3>1, <3>2, <3>5, <3>6, <3>7 DEF Before, Days
  <2>3. ASSUME NEW r \in logged, r.event = "finished" PROVE (r.status = "failed") = (deed[r.deed].told = "refusal")
    BY <2>3 DEF TrailIInv, LoggedTrue, Wrote, DeedsTrue, OnItsWay
  <2>. QED  BY <2>1, <2>2, <2>3 DEF TrailTrue
<1>. QED  BY <1>1, TrailInitial, TrailPreserved, PTL DEF TrailSpec

=============================================================================
