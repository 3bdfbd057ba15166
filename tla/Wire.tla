-------------------------------- MODULE Wire --------------------------------
(* The WireGuard peers of one host (wire.go): the record is in etcd, and wg0, *)
(* the peers file and the kernel's routes are brought to match it, call by    *)
(* call, under one lock. A peer is known to etcd by its address and to wg0 by *)
(* its key; an address stands for its container subnet too.                   *)
EXTENDS Integers, FiniteSets

CONSTANTS
  Addresses, Keys, Endpoints,   \* of the other hosts; Endpoints has NoEndpoint
  NoEndpoint, NoPeer, NoAddress,
  MaxPeerOps, MaxCuts           \* bounds: adds and removals; failures and restarts

ASSUME WireAssumption ==
  /\ NoEndpoint \in Endpoints /\ NoAddress \notin Addresses
  /\ NoPeer \notin [key : Keys, ep : Endpoints] \cup [addr : Addresses \cup {NoAddress}, ep : Endpoints]
  /\ MaxPeerOps \in Nat /\ MaxCuts \in Nat

VARIABLES
  record,   \* etcd: [Addresses -> NoPeer or [key, ep]]
  conf,     \* the peers file, a set of [addr, key, ep]
  wg0,      \* [Keys -> NoPeer or [addr, ep]]; addr is NoAddress when another peer took it
  routes,   \* the container subnets routed over wg0
  hand,     \* who holds the lock: [pc, peers, said]
  synced,   \* history: the last apply went through, and nothing has happened since
  peerOps, cuts

wireVars == <<record, conf, wg0, routes, hand, synced, peerOps, cuts>>

FreeHand == [pc |-> "idle", peers |-> {}, said |-> "none"]
WireInit ==
  /\ record = [a \in Addresses |-> NoPeer] /\ conf = {} /\ wg0 = [k \in Keys |-> NoPeer]
  /\ routes = {} /\ hand = FreeHand /\ synced = TRUE /\ peerOps = 0 /\ cuts = 0

AtHand(pc) == hand.pc = pc
Then(pc) == hand' = [hand EXCEPT !.pc = pc]
Say(s) == hand' = [FreeHand EXCEPT !.said = s]
Cut == cuts < MaxCuts /\ cuts' = cuts + 1
Recorded == {[addr |-> a, key |-> record[a].key, ep |-> record[a].ep] :
               a \in {b \in Addresses : record[b] # NoPeer}}
WgKeys == {k \in Keys : wg0[k] # NoPeer}
-----------------------------------------------------------------------------
\* Variant: a key in use elsewhere is accepted.
AddPeerAnyKey(a, k, e) ==
  /\ AtHand("idle") /\ peerOps < MaxPeerOps /\ peerOps' = peerOps + 1
  /\ record' = [record EXCEPT ![a] = [key |-> k, ep |-> e]] /\ Then("list") /\ synced' = FALSE
  /\ UNCHANGED <<conf, wg0, routes, cuts>>

\* Add: the key may not be another address's; the same address takes a new key.
AddPeer(a, k, e) ==
  /\ AtHand("idle") /\ peerOps < MaxPeerOps /\ peerOps' = peerOps + 1
  /\ IF \E p \in Recorded : p.key = k /\ p.addr # a
     THEN Say("refused") /\ UNCHANGED <<record, synced>>
     ELSE /\ record' = [record EXCEPT ![a] = [key |-> k, ep |-> e]]
          /\ Then("list") /\ synced' = FALSE
  /\ UNCHANGED <<conf, wg0, routes, cuts>>

\* Remove: what is not recorded is not found, and then nothing is applied.
RemovePeer(a) ==
  /\ AtHand("idle") /\ peerOps < MaxPeerOps /\ peerOps' = peerOps + 1
  /\ IF record[a] = NoPeer THEN Say("not found") /\ UNCHANGED <<record, synced>>
     ELSE /\ record' = [record EXCEPT ![a] = NoPeer] /\ Then("list") /\ synced' = FALSE
  /\ UNCHANGED <<conf, wg0, routes, cuts>>

ListPeers ==
  /\ AtHand("list") /\ hand' = [hand EXCEPT !.pc = "write", !.peers = Recorded]
  /\ UNCHANGED <<record, conf, wg0, routes, synced, peerOps, cuts>>

\* The peers file is written beside and renamed.
WriteConf ==
  /\ AtHand("write") /\ conf' = hand.peers /\ Then("addconf")
  /\ UNCHANGED <<record, wg0, routes, synced, peerOps, cuts>>

\* wg addconf: adds and updates; an endpoint left out is kept, an allowed
\* address is taken from the peer that had it; nothing is removed.
Conf(w, ps) ==
  [k \in Keys |->
    LET mine == {p \in ps : p.key = k} IN
    IF mine # {}
    THEN LET p == CHOOSE p \in mine : TRUE IN
         [addr |-> p.addr, ep |-> IF p.ep = NoEndpoint /\ w[k] # NoPeer THEN w[k].ep ELSE p.ep]
    ELSE IF w[k] # NoPeer /\ \E p \in ps : p.addr = w[k].addr
    THEN [w[k] EXCEPT !.addr = NoAddress] ELSE w[k]]
AddConf ==
  /\ AtHand("addconf") /\ wg0' = Conf(wg0, hand.peers) /\ Then("trim")
  /\ UNCHANGED <<record, conf, routes, synced, peerOps, cuts>>

\* The peers wg0 has and etcd has not are removed one by one.
Trim ==
  LET extra == WgKeys \ {p.key : p \in hand.peers} IN
  /\ AtHand("trim")
  /\ IF extra = {} THEN Then("route") /\ UNCHANGED wg0
     ELSE \E k \in extra : wg0' = [wg0 EXCEPT ![k] = NoPeer] /\ UNCHANGED hand
  /\ UNCHANGED <<record, conf, routes, synced, peerOps, cuts>>

\* routes: those wanted are replaced one by one, then the others deleted.
Route ==
  LET wanted == {p.addr : p \in hand.peers} IN
  /\ AtHand("route")
  /\ IF wanted \ routes # {} THEN \E a \in wanted \ routes : routes' = routes \cup {a} /\ UNCHANGED <<hand, synced>>
     ELSE IF routes \ wanted # {}
     THEN \E a \in routes \ wanted : routes' = routes \ {a} /\ UNCHANGED <<hand, synced>>
     ELSE Say("applied") /\ synced' = TRUE /\ UNCHANGED routes
  /\ UNCHANGED <<record, conf, wg0, peerOps, cuts>>

\* Any call fails: 503, what was written stays written.
FailApply ==
  /\ Cut /\ ~AtHand("idle") /\ Say("unavailable")
  /\ UNCHANGED <<record, conf, wg0, routes, synced, peerOps>>
-----------------------------------------------------------------------------
\* The controller starts, after the host has or not: the PostUp of a host that
\* boots gives wg0 the file, its routes are gone; the controller applies what
\* etcd has, when it has anything.
StartUp(reboot) ==
  /\ Cut
  /\ IF reboot THEN wg0' = Conf([k \in Keys |-> NoPeer], conf) /\ routes' = {}
     ELSE UNCHANGED <<wg0, routes>>
  /\ hand' = IF Recorded = {} THEN FreeHand ELSE [FreeHand EXCEPT !.pc = "list"]
  /\ synced' = (Recorded = {} /\ synced)
  /\ UNCHANGED <<record, conf, peerOps>>

WireNext ==
  \/ \E a \in Addresses, k \in Keys, e \in Endpoints : AddPeer(a, k, e)
  \/ \E a \in Addresses : RemovePeer(a)
  \/ ListPeers \/ WriteConf \/ AddConf \/ Trim \/ Route \/ FailApply
  \/ \E reboot \in BOOLEAN : StartUp(reboot)

WireSpec == WireInit /\ [][WireNext]_wireVars
-----------------------------------------------------------------------------
\* No key belongs to two addresses, in etcd or on wg0. When an apply has gone
\* through, whatever failed or was cut short before it, wg0 has etcd's peers and
\* no others, each at its address with the endpoint recorded for it, the routes
\* are theirs, and a boot would bring the same peers back.
WireTrue ==
  /\ \A a, b \in Addresses : a # b /\ record[a] # NoPeer /\ record[b] # NoPeer
                             => record[a].key # record[b].key
  /\ synced =>
       /\ conf = Recorded /\ routes = {p.addr : p \in Recorded}
       /\ WgKeys = {p.key : p \in Recorded}
       /\ \A p \in Recorded : /\ wg0[p.key].addr = p.addr
                              /\ p.ep # NoEndpoint => wg0[p.key].ep = p.ep
=============================================================================
