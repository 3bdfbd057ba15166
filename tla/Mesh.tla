-------------------------------- MODULE Mesh --------------------------------
(* One .voodu name in the mesh DNS (meshdns, mesh_network.go): each host      *)
(* answers from a reading of its own docker and asks the other hosts at once  *)
(* for what it does not have, keeping their merged answer for a while.        *)
EXTENDS Integers, FiniteSets

CONSTANTS
  Hosts, Askers, Questions,          \* Askers: the hosts whose containers ask
  MeshPods, Home,                    \* the name's pods; [MeshPods -> Hosts]
  IndexRefresh, AnswerTTL, NegativeTTL, PeerTimeout,
  NoHost,
  MaxMoves, MaxLoss                  \* bounds: pods up or down, losses

ASSUME MeshAssumption ==
  /\ NoHost \notin Hosts /\ Askers \subseteq Hosts
  /\ \A p \in MeshPods : Home[p] \in Hosts
  /\ {IndexRefresh, AnswerTTL, NegativeTTL, PeerTimeout, MaxMoves, MaxLoss} \subseteq Nat
  /\ NegativeTTL <= AnswerTTL           \* 2 and 5 seconds in the code

VARIABLES
  running,    \* the pods that are up
  index,      \* [Hosts -> the last reading of docker: pods, age]
  answers,    \* [Hosts -> the answer kept from the others: addrs, left]
  question,   \* [Questions -> who asked, who has not answered, what came, its age]
  lost,       \* history: how long ago docker or a peer did not answer
  moved,      \* history: [MeshPods -> how long ago the pod came up or went]
  said,       \* history: the answer just given
  moves, losses

meshVars == <<running, index, answers, question, lost, moved, said, moves, losses>>

Reach == IndexRefresh + PeerTimeout + AnswerTTL
Later(n, most) == IF n < most THEN n + 1 ELSE n
Silent == [addrs |-> {}, from |-> NoHost]
NoQuestion == [at |-> NoHost, wait |-> {}, got |-> {}, age |-> 0]
MeshInit ==
  /\ running = {} /\ index = [h \in Hosts |-> [pods |-> {}, age |-> IndexRefresh]]
  /\ answers = [h \in Hosts |-> [addrs |-> {}, left |-> 0]]
  /\ question = [q \in Questions |-> NoQuestion]
  /\ lost = Reach + 1 /\ moved = [p \in MeshPods |-> Reach + 1]
  /\ said = Silent /\ moves = 0 /\ losses = 0

Lost == losses < MaxLoss /\ losses' = losses + 1 /\ lost' = 0

PodMoves(p) ==
  /\ moves < MaxMoves /\ moves' = moves + 1
  /\ running' = IF p \in running THEN running \ {p} ELSE running \cup {p}
  /\ moved' = [moved EXCEPT ![p] = 0] /\ said' = Silent
  /\ UNCHANGED <<index, answers, question, lost, losses>>
-----------------------------------------------------------------------------
\* Lookup: a reading that is old enough is taken anew; one that fails leaves the
\* last one, and what it says now may be older than the refresh.
Fresh(h) == index[h].age < IndexRefresh
Lookup(h, new) ==
  \/ /\ Fresh(h) /\ new = index[h].pods /\ UNCHANGED <<index, lost, losses>>
  \/ /\ ~Fresh(h) /\ new = {p \in running : Home[p] = h}
     /\ index' = [index EXCEPT ![h] = [pods |-> new, age |-> 0]] /\ UNCHANGED <<lost, losses>>
  \/ /\ ~Fresh(h) /\ Lost
     /\ new = index[h].pods /\ UNCHANGED index

Views(h) == {index[h].pods, {p \in running : Home[p] = h}}
Answer(h, addrs) == said' = [addrs |-> addrs, from |-> h]

\* Variant: reading the kept answer keeps it longer.
FromCacheSliding(h) ==
  /\ answers[h].left > 0 /\ answers' = [answers EXCEPT ![h].left = AnswerTTL]
  /\ Answer(h, answers[h].addrs)

\* fromCache: what is kept holds until its time is over.
FromCache(h) ==
  /\ answers[h].left > 0 /\ UNCHANGED answers
  /\ Answer(h, answers[h].addrs)

\* Handle, Resolve, for a container of h: its own pods alone, if it has any;
\* otherwise the kept answer, or every peer is asked.
AskName(q, h) ==
  /\ question[q] = NoQuestion
  /\ \E own \in Views(h) :
       /\ Lookup(h, own)
       /\ \/ /\ own # {} /\ Answer(h, own) /\ UNCHANGED <<question, answers>>
          \/ own = {} /\ FromCache(h) /\ UNCHANGED question
          \/ /\ own = {} /\ answers[h].left = 0 /\ said' = Silent
             /\ question' = [question EXCEPT ![q] =
                  [at |-> h, wait |-> Hosts \ {h}, got |-> {}, age |-> 0]]
             /\ UNCHANGED answers
  /\ UNCHANGED <<running, moved, moves>>

\* Handle, for a peer: its own pods, and it asks nobody.
PeerAnswers(q, h) ==
  /\ h \in question[q].wait
  /\ \E own \in Views(h) :
       /\ Lookup(h, own)
       /\ question' = [question EXCEPT ![q].wait = @ \ {h}, ![q].got = @ \cup own]
  /\ said' = Silent /\ UNCHANGED <<running, answers, moved, moves>>

\* A peer that is away, or late: the others' answers are merged without it.
PeerLost(q, h) ==
  /\ h \in question[q].wait /\ Lost
  /\ question' = [question EXCEPT ![q].wait = @ \ {h}]
  /\ said' = Silent /\ UNCHANGED <<running, index, answers, moved, moves>>

\* toCache: an empty answer is kept for the shorter time.
Merged(q) ==
  /\ question[q] # NoQuestion /\ question[q].wait = {}
  /\ LET h == question[q].at
         got == question[q].got IN
     /\ answers' = [answers EXCEPT ![h] =
          [addrs |-> got, left |-> IF got = {} THEN NegativeTTL ELSE AnswerTTL]]
     /\ Answer(h, got)
  /\ question' = [question EXCEPT ![q] = NoQuestion]
  /\ UNCHANGED <<running, index, lost, moved, moves, losses>>

\* Time goes on; a question does not outlive its timeout.
Tick ==
  /\ \A q \in Questions : question[q] # NoQuestion => question[q].age < PeerTimeout
  /\ question' = [q \in Questions |-> IF question[q] = NoQuestion THEN NoQuestion
                                      ELSE [question[q] EXCEPT !.age = @ + 1]]
  /\ index' = [h \in Hosts |-> [index[h] EXCEPT !.age = Later(@, IndexRefresh)]]
  /\ answers' = [h \in Hosts |-> IF answers[h].left > 1 THEN [answers[h] EXCEPT !.left = @ - 1]
                                  ELSE [addrs |-> {}, left |-> 0]]
  /\ moved' = [p \in MeshPods |-> Later(moved[p], Reach + 1)]
  /\ lost' = Later(lost, Reach + 1) /\ said' = Silent /\ UNCHANGED <<running, moves, losses>>

MeshNext ==
  \/ \E p \in MeshPods : PodMoves(p)
  \/ \E q \in Questions, h \in Askers : AskName(q, h)
  \/ \E q \in Questions, h \in Hosts : PeerAnswers(q, h) \/ PeerLost(q, h)
  \/ \E q \in Questions : Merged(q)
  \/ Tick

MeshSpec == MeshInit /\ [][MeshNext]_meshVars
-----------------------------------------------------------------------------
\* When nothing has been lost for as long as a reading, a question and a kept
\* answer may last together, an address that is answered was a running pod's no
\* longer ago than that, and a pod of another host that has run that long is in
\* every answer a host without pods of its own gives.
NamesFollow ==
  said.from # NoHost /\ lost > Reach =>
    /\ \A p \in said.addrs : p \in running \/ moved[p] <= Reach
    /\ (\A p \in said.addrs : Home[p] # said.from) =>
         \A p \in running : moved[p] > Reach => p \in said.addrs
=============================================================================
