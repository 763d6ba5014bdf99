---------------------------- MODULE MarketProofs ----------------------------
(***************************************************************************)
(* Proofs about GossipRouting and Transactions.  Offers find their way     *)
(* back, whatever the network: what the tracers of all hosts know about a  *)
(* message is a tree with its publisher at the root, which grows at the    *)
(* leaves only.  The transactions of a client use routing as routing       *)
(* allows, so that this holds for the composition too; and no transaction  *)
(* reports success and loses what it received.                             *)
(***************************************************************************)
EXTENDS Transactions, TLAPS

\* A host that knows a message published it itself, and is its own sender, or
\* has it from a host that knows it and is one link closer to the publisher;
\* and offers are only at hosts that know the message they answer.
TreeInv ==
    /\ \A n \in Nodes : \A m \in published[n] : m.by = n
    /\ \A n \in Nodes, m \in Messages :
         /\ senders[n][m] = n <=> m \in published[n]
         /\ senders[n][m] # None => m \in published[m.by]
         /\ senders[n][m] \notin {n, None} =>
              /\ senders[senders[n][m]][m] # None
              /\ hops[n][m] = hops[senders[n][m]][m] + 1

RoutingInv ==
    /\ RoutingTypeOK
    /\ TreeInv
    /\ \A s \in streams : senders[s.at][s.offer.id] # None

LEMMA RoutingInitInv == ASSUME RoutingInit PROVE RoutingInv
BY RoutingAssumption, Zenon DEF RoutingInit, RoutingInv, RoutingTypeOK, TreeInv

LEMMA QueryInv ==
  ASSUME RoutingInv, NEW n \in Askers, NEW root \in Roots, NEW k \in Seqnos,
         NEW new \in SUBSET MessagesOf(n, root, k), Query(n, root, k, new)
  PROVE  RoutingInv'
<1>1. n \in Nodes
  BY RoutingAssumption, Zenon
<1>2. new \subseteq Messages /\ \A m \in new : m.by = n /\ m.seq = k
  BY <1>1, RoutingAssumption DEF MessagesOf, Messages
<1>3. \A m \in new : m \notin published[n]
  BY <1>2, Zenon DEF Query
<1>4. \A x \in Nodes, m \in new : senders[x][m] = None
  BY <1>2, <1>3 DEF RoutingInv, TreeInv
<1>5. /\ published' \in [Nodes -> SUBSET Messages]
      /\ published'[n] = published[n] \cup new
      /\ \A x \in Nodes \ {n} : published'[x] = published[x]
  BY <1>1, <1>2, Zenon DEF Query, RoutingInv, RoutingTypeOK
<1>6. /\ senders' \in [Nodes -> [Messages -> Nodes \cup {None}]]
      /\ \A m \in Messages : senders'[n][m] = IF m \in new THEN n ELSE senders[n][m]
      /\ \A x \in Nodes \ {n} : senders'[x] = senders[x]
  BY <1>1, <1>2, Zenon DEF Query, RoutingInv, RoutingTypeOK
<1>7. streams' = streams /\ hops' = hops
  BY Zenon DEF Query
<1>8. RoutingTypeOK'
  BY <1>5, <1>6, <1>7, Zenon DEF RoutingInv, RoutingTypeOK
<1>9. \A x \in Nodes : \A m \in published'[x] : m.by = x
  BY <1>2, <1>5 DEF RoutingInv, TreeInv
<1>10. ASSUME NEW x \in Nodes, NEW m \in Messages
       PROVE  /\ senders'[x][m] = x <=> m \in published'[x]
              /\ senders'[x][m] # None => m \in published'[m.by]
  <2>1. CASE m \in new
    BY <1>1, <1>2, <1>4, <1>5, <1>6, <1>9, <2>1, RoutingAssumption DEF RoutingInv, TreeInv
  <2>2. CASE m \notin new
    <3>1. senders'[x][m] = senders[x][m] /\ m.by \in Nodes
      BY <1>6, <2>2, RoutingAssumption, Zenon DEF Messages
    <3>2. \A y \in Nodes : m \in published'[y] <=> m \in published[y]
      BY <1>5, <2>2, Zenon
    <3> QED BY <3>1, <3>2 DEF RoutingInv, TreeInv
  <2> QED BY <2>1, <2>2, Zenon
<1>11. ASSUME NEW x \in Nodes, NEW m \in Messages, senders'[x][m] \notin {x, None}
       PROVE  /\ senders'[senders'[x][m]][m] # None
              /\ hops'[x][m] = hops'[senders'[x][m]][m] + 1
  <2>1. m \notin new
    BY <1>1, <1>4, <1>6, <1>11
  <2>2. \A y \in Nodes : senders'[y][m] = senders[y][m]
    BY <1>6, <2>1, Zenon
  <2>3. senders[x][m] \in Nodes
    BY <1>6, <1>11, <2>2
  <2> QED BY <1>7, <1>11, <2>2, <2>3 DEF RoutingInv, TreeInv
<1>12. ASSUME NEW s \in streams'
       PROVE  senders'[s.at][s.offer.id] # None
  <2>1. s \in Streams /\ senders[s.at][s.offer.id] # None
    BY <1>7, Zenon DEF RoutingInv, RoutingTypeOK
  <2>2. s.at \in Nodes /\ s.offer.id \in Messages
    BY <2>1, Zenon DEF Streams, Offers
  <2> QED BY <1>1, <1>6, <2>1, <2>2, RoutingAssumption
<1> QED BY <1>8, <1>9, <1>10, <1>11, <1>12 DEF RoutingInv, TreeInv

LEMMA DeliverInv ==
  ASSUME RoutingInv, NEW n \in Nodes, NEW from \in Nodes, NEW m \in Messages,
         NEW opened, Deliver(n, from, m, opened)
  PROVE  RoutingInv'
<1>1. /\ senders[n][m] = None /\ senders[from][m] # None
      /\ from # n /\ from # None /\ n # None
  BY RoutingAssumption, Zenon DEF Deliver, Fresh, Sender
<1>2. /\ senders' \in [Nodes -> [Messages -> Nodes \cup {None}]]
      /\ senders'[n][m] = from
      /\ \A x \in Nodes, y \in Messages :
           <<x, y>> # <<n, m>> => senders'[x][y] = senders[x][y]
  BY Zenon DEF Deliver, Trace, RoutingInv, RoutingTypeOK
<1>3. /\ hops' \in [Nodes -> [Messages -> Nat]]
      /\ hops'[n][m] = hops[from][m] + 1
      /\ \A x \in Nodes, y \in Messages :
           <<x, y>> # <<n, m>> => hops'[x][y] = hops[x][y]
  BY DEF Deliver, RoutingInv, RoutingTypeOK
<1>4. streams' \subseteq streams \cup {[offer |-> [id |-> m, from |-> n], at |-> from]}
  BY Zenon DEF Deliver
<1>5. published' = published
  BY Zenon DEF Deliver
<1>6. RoutingTypeOK'
  <2>1. [offer |-> [id |-> m, from |-> n], at |-> from] \in Streams
    BY Zenon DEF Streams, Offers
  <2> QED BY <1>2, <1>3, <1>4, <1>5, <2>1, Zenon DEF RoutingInv, RoutingTypeOK
<1>7. ASSUME NEW x \in Nodes, NEW y \in Messages
      PROVE  /\ senders'[x][y] = x <=> y \in published'[x]
             /\ senders'[x][y] # None => y \in published'[y.by]
  BY <1>1, <1>2, <1>5 DEF RoutingInv, TreeInv
<1>8. ASSUME NEW x \in Nodes, NEW y \in Messages, senders'[x][y] \notin {x, None}
      PROVE  /\ senders'[senders'[x][y]][y] # None
             /\ hops'[x][y] = hops'[senders'[x][y]][y] + 1
  <2>1. CASE <<x, y>> = <<n, m>>
    BY <1>1, <1>2, <1>3, <2>1
  <2>2. CASE <<x, y>> # <<n, m>>
    <3>1. /\ senders'[x][y] = senders[x][y] /\ senders[x][y] \in Nodes
          /\ senders[senders[x][y]][y] # None
          /\ hops[x][y] = hops[senders[x][y]][y] + 1
      BY <1>2, <1>8, <2>2 DEF RoutingInv, TreeInv
    <3>2. <<senders[x][y], y>> # <<n, m>>
      BY <1>1, <3>1, Zenon
    <3> QED BY <1>2, <1>3, <2>2, <3>1, <3>2
  <2> QED BY <2>1, <2>2, Zenon
<1>9. ASSUME NEW s \in streams'
      PROVE  senders'[s.at][s.offer.id] # None
  <2>1. CASE s \in streams
    <3>1. s.at \in Nodes /\ s.offer.id \in Messages
      BY <2>1, Zenon DEF RoutingInv, RoutingTypeOK, Streams, Offers
    <3> QED BY <1>1, <1>2, <2>1, <3>1, Zenon DEF RoutingInv
  <2>2. CASE s \notin streams
    <3>1. s.at = from /\ s.offer.id = m
      BY <1>4, <2>2
    <3> QED BY <1>1, <1>2, <3>1, Zenon
  <2> QED BY <2>1, <2>2, Zenon
<1> QED BY <1>5, <1>6, <1>7, <1>8, <1>9 DEF RoutingInv, TreeInv

LEMMA OneLess == ASSUME NEW k \in Nat PROVE k < k + 1
OBVIOUS

\* Where handleOffer sends an offer on: to the sender, which knows the query
\* and is one link closer to its publisher.
LEMMA ForwardMoves ==
  ASSUME RoutingInv, NEW s \in streams, NEW opened, Forward(s, opened)
  PROVE  LET f == senders[s.at][s.offer.id]
         IN  /\ s.at \in Nodes /\ s.offer \in Offers /\ s.offer.id \in Messages
             /\ f \in Nodes /\ senders[f][s.offer.id] # None
             /\ hops[f][s.offer.id] < hops[s.at][s.offer.id]
             /\ streams' \subseteq streams \cup {[offer |-> s.offer, at |-> f]}
             /\ streams \ streams' \subseteq {s}
<1>1. s \in Streams /\ s.at \in Nodes /\ s.offer \in Offers /\ s.offer.id \in Messages
  BY Zenon DEF RoutingInv, RoutingTypeOK, Streams, Offers
<1> DEFINE f == senders[s.at][s.offer.id]
<1>2. f # None /\ f # s.at
  BY <1>1, Zenon DEF Forward, Published, RoutingInv, TreeInv
<1>0. PICK n \in Nodes, m \in Messages : n = s.at /\ m = s.offer.id
  BY <1>1, Zenon
<1>3. f \in Nodes
  <2>1. senders[n] \in [Messages -> Nodes \cup {None}]
    BY Zenon DEF RoutingInv, RoutingTypeOK
  <2>2. senders[n][m] \in Nodes \cup {None}
    BY <2>1, Zenon
  <2> QED BY <1>0, <1>2, <2>2, Zenon
<1>4. senders[f][s.offer.id] # None /\ hops[s.at][s.offer.id] = hops[f][s.offer.id] + 1
  <2>1. senders[n][m] \notin {n, None}
    BY <1>0, <1>2, Zenon
  <2>2. senders[senders[n][m]][m] # None /\ hops[n][m] = hops[senders[n][m]][m] + 1
    BY <2>1, Zenon DEF RoutingInv, TreeInv
  <2> QED BY <1>0, <2>2, Zenon
<1>5. hops[f][s.offer.id] < hops[s.at][s.offer.id]
  <2>1. hops[f][s.offer.id] \in Nat
    BY <1>1, <1>3, Zenon DEF RoutingInv, RoutingTypeOK
  <2> QED BY <1>4, <2>1, OneLess, Zenon
<1>6. [s EXCEPT !.at = f] = [offer |-> s.offer, at |-> f]
  BY <1>1 DEF Streams
<1>7. /\ streams' \subseteq streams \cup {[offer |-> s.offer, at |-> f]}
      /\ streams \ streams' \subseteq {s}
  BY <1>6, Zenon DEF Forward, Sender
<1> QED BY <1>1, <1>3, <1>4, <1>5, <1>7, Zenon

LEMMA ForwardInv ==
  ASSUME RoutingInv, NEW s \in streams, NEW opened, Forward(s, opened)
  PROVE  RoutingInv'
<1> DEFINE f == senders[s.at][s.offer.id]
           t == [offer |-> s.offer, at |-> f]
<1>1. /\ s.offer \in Offers /\ f \in Nodes /\ senders[f][s.offer.id] # None
      /\ streams' \subseteq streams \cup {t}
  BY ForwardMoves, Zenon
<1>2. published' = published /\ senders' = senders /\ hops' = hops
  BY Zenon DEF Forward
<1>3. t \in Streams /\ t.at = f /\ t.offer = s.offer
  BY <1>1, Zenon DEF Streams
<1>4. RoutingTypeOK'
  BY <1>1, <1>2, <1>3, Zenon DEF RoutingInv, RoutingTypeOK
<1>5. TreeInv'
  BY <1>2 DEF RoutingInv, TreeInv
<1>6. \A u \in streams' : senders'[u.at][u.offer.id] # None
  BY <1>1, <1>2, <1>3, Zenon DEF RoutingInv
<1> QED BY <1>4, <1>5, <1>6, Zenon DEF RoutingInv

LEMMA ArriveInv ==
  ASSUME RoutingInv, NEW s \in streams, Arrive(s)
  PROVE  RoutingInv'
BY DEF RoutingInv, RoutingTypeOK, TreeInv, Arrive

LEMMA RoutingNextInv ==
  ASSUME RoutingInv, [RoutingNext]_gossipVars
  PROVE  RoutingInv'
<1>1. CASE \E n \in Askers, root \in Roots, k \in Seqnos :
             \E new \in SUBSET MessagesOf(n, root, k) : Query(n, root, k, new)
  BY <1>1, QueryInv, Zenon
<1>2. CASE \E opened \in BOOLEAN : Gossip(opened)
  BY <1>2, DeliverInv, ForwardInv, Zenon DEF Gossip
<1>3. CASE \E s \in streams : Arrive(s)
  BY <1>3, ArriveInv, Zenon
<1>4. CASE UNCHANGED gossipVars
  BY <1>4 DEF gossipVars, RoutingInv, RoutingTypeOK, TreeInv
<1> QED BY <1>1, <1>2, <1>3, <1>4, Zenon DEF RoutingNext

\* In every network, however queries spread and offers are delayed or lost,
\* what the tracers remember is a tree rooted at the publisher
\* (routing.go: GossipTracer.Trace).
THEOREM RoutingInvariant == RoutingSpec => []RoutingInv
BY RoutingInitInv, RoutingNextInv, PTL DEF RoutingSpec

\* A host that receives an offer published the query or knows another host to
\* hand it to (routing.go: pump, handleOffer).
THEOREM OffersKnowTheWay == RoutingSpec => []KnowsWayBack
<1>1. ASSUME RoutingInv PROVE KnowsWayBack
  <2> SUFFICES ASSUME NEW s \in streams
               PROVE  \/ Published(s.at, s.offer.id)
                      \/ Sender(s.at, s.offer.id) \in Nodes \ {s.at}
    BY Zenon DEF KnowsWayBack
  <2>1. s.at \in Nodes /\ s.offer.id \in Messages
    BY <1>1, Zenon DEF RoutingInv, RoutingTypeOK, Streams, Offers
  <2>2. senders[s.at][s.offer.id] \in Nodes
    BY <1>1, <2>1 DEF RoutingInv, RoutingTypeOK
  <2> QED BY <1>1, <2>1, <2>2, Zenon DEF RoutingInv, TreeInv, Published, Sender
<1> QED BY <1>1, RoutingInvariant, PTL

\* Each hand-over brings an offer closer to the publisher of its query, so no
\* offer travels in circles (routing.go: handleOffer).
THEOREM OffersApproachPublisher == RoutingSpec => CloserToPublisher
<1> DEFINE Closer == \A s \in streams \ streams', t \in streams' \ streams :
                        s.offer = t.offer
                          => hops[t.at][s.offer.id] < hops[s.at][s.offer.id]
<1>1. ASSUME RoutingInv, [RoutingNext]_gossipVars PROVE [Closer]_gossipVars
  <2>1. ASSUME NEW s \in streams, NEW opened, Forward(s, opened) PROVE Closer
    BY <1>1, <2>1, ForwardMoves
  <2>2. CASE streams' \subseteq streams \/ streams \subseteq streams'
    BY <2>2, Zenon
  <2>3. CASE \E opened \in BOOLEAN : Gossip(opened)
    BY <2>1, <2>2, <2>3 DEF Gossip, Deliver
  <2>4. CASE ~ \E opened \in BOOLEAN : Gossip(opened)
    BY <1>1, <2>2, <2>4, Zenon DEF RoutingNext, Query, Arrive, gossipVars
  <2> QED BY <2>3, <2>4, Zenon
<1> QED BY <1>1, RoutingInvariant, PTL DEF RoutingSpec, CloserToPublisher
-----------------------------------------------------------------------------
LEMMA NextRoutes == ASSUME [Next]_vars PROVE [RoutingNext]_gossipVars
<1>1. ASSUME NEW opened \in BOOLEAN, Network(opened) PROVE RoutingNext
  BY <1>1, Zenon DEF Network, RoutingNext
<1>2. ASSUME NEW s \in streams, HandleOffer(s) PROVE RoutingNext
  BY <1>2, Zenon DEF HandleOffer, RoutingNext
<1>3. CASE PushBack
  BY <1>3, Zenon DEF PushBack
<1>4. ASSUME NEW t \in Txs, Start(t) \/ Worker(t) \/ Executor(t) \/ ContextEnds(t)
      PROVE  UNCHANGED gossipVars
  BY <1>4, Zenon DEF Start, Worker, Delay, ExecDone, Executor, ConfirmEnds, Execute,
              TakeResult, WaitEnds, Retrieve, ContextEnds
<1>5. ASSUME NEW t \in Txs, NEW k \in Seqnos,
             NEW new \in SUBSET MessagesOf(Client, Root[t], k), QueryNetwork(t, k, new)
      PROVE  RoutingNext
  <2>1. Client \in Askers /\ Root[t] \in Roots
    BY TransactionAssumption, Zenon
  <2> QED BY <1>5, <2>1, Zenon DEF QueryNetwork, RoutingNext
<1>6. ASSUME NEW t \in Txs, Call(t) PROVE [RoutingNext]_gossipVars
  <2>1. CASE \E k \in Seqnos : \E new \in SUBSET MessagesOf(Client, Root[t], k) :
               QueryNetwork(t, k, new)
    BY <1>5, <2>1, Zenon
  <2>2. CASE ~ \E k \in Seqnos : \E new \in SUBSET MessagesOf(Client, Root[t], k) :
                 QueryNetwork(t, k, new)
    BY <1>6, <2>2, Zenon DEF Call, SetReceiver, WithTriage, Triage, Exec, ReadOngoing,
                      TakeDone, ContextReturns, Close, QueryProvider
  <2> QED BY <2>1, <2>2, Zenon
<1>7. ASSUME NEW d \in deals, NEW res \in {"ok", "err"}, DealEnds(d, res)
      PROVE  UNCHANGED gossipVars
  BY <1>7, Zenon DEF DealEnds
<1>8. CASE UNCHANGED vars
  BY <1>8, Zenon DEF vars
<1> QED BY <1>1, <1>2, <1>3, <1>4, <1>6, <1>7, <1>8, Zenon DEF Next, PushBack

\* Whatever the transactions do, queries, gossip and offers are those of
\* content routing: the worker and the handlers only ever publish with Query
\* and read with handleOffer (tx.go: Query, Start; routing.go: handleOffer).
THEOREM MarketImplementsRouting == Spec => RoutingSpec
BY NextRoutes, PTL DEF Spec, Init, RoutingSpec

\* In the composition too, each offer is at a host that can pass it on.
COROLLARY MarketKnowsTheWay == Spec => []KnowsWayBack
BY MarketImplementsRouting, OffersKnowTheWay, PTL

\* In the composition too, each hand-over of an offer brings it closer to the
\* client.
COROLLARY MarketApproaches == Spec => CloserToPublisher
BY MarketImplementsRouting, OffersApproachPublisher, PTL

-----------------------------------------------------------------------------
\* An execution that returned without an error, and a transaction that reported
\* success, were committed.
Success(t) == exec[t].phase = "result" /\ exec[t].res = "ok"

CommitInv ==
    /\ exec = [t \in Txs |-> exec[t]]
    /\ done = [t \in Txs |-> done[t]]
    /\ committed = [t \in Txs |-> committed[t]]
    /\ bs = [r \in Roots |-> bs[r]]
    /\ \A t \in Txs :
         /\ "phase" \in DOMAIN exec[t]
         /\ exec[t] = [f \in DOMAIN exec[t] |-> exec[t][f]]
         /\ Success(t) => committed[t]
         /\ done[t] = "ok" => committed[t]

LEMMA CommitInit == ASSUME Init PROVE CommitInv
BY Zenon DEF Init, CommitInv, Success, NoExec

LEMMA CommitStays ==
  ASSUME CommitInv, UNCHANGED <<exec, done, committed, bs>>
  PROVE  CommitInv'
BY Zenon DEF CommitInv, Success

\* An execution moves on without having returned with success.
LEMMA ExecMoves ==
  ASSUME CommitInv, NEW t \in Txs, NEW e, e = [f \in DOMAIN e |-> e[f]],
         "phase" \in DOMAIN e, e.phase = "result" => e.res # "ok",
         exec' = [exec EXCEPT ![t] = e], UNCHANGED <<done, committed, bs>>
  PROVE  CommitInv'
<1>1. exec' = [u \in Txs |-> IF u = t THEN e ELSE exec[u]]
  BY Zenon DEF CommitInv
<1>2. exec' = [u \in Txs |-> exec'[u]]
  BY <1>1, Zenon
<1>3. ASSUME NEW u \in Txs
      PROVE  /\ "phase" \in DOMAIN exec'[u]
             /\ exec'[u] = [f \in DOMAIN exec'[u] |-> exec'[u][f]]
             /\ Success(u)' => committed[u]
  <2>1. CASE u = t
    <3>1. exec'[u] = e
      BY <1>1, <2>1, Zenon
    <3> QED BY <3>1, Zenon DEF Success
  <2>2. CASE u # t
    <3>1. exec'[u] = exec[u]
      BY <1>1, <2>2, Zenon
    <3> QED BY <3>1, Zenon DEF CommitInv, Success
  <2> QED BY <2>1, <2>2, Zenon
<1>4. UNCHANGED <<done, committed, bs>>
  OBVIOUS
<1> QED BY <1>2, <1>3, <1>4 DEF CommitInv

\* Each of the records that exec is set to.
LEMMA BeginMoves ==
  ASSUME NEW t \in Txs, NEW q
  PROVE  LET e == Begin(t, q)
         IN  /\ e = [f \in DOMAIN e |-> e[f]] /\ "phase" \in DOMAIN e
             /\ e.phase = "result" => e.res # "ok"
BY Zenon DEF Begin

LEMMA ErrMoves ==
  LET e == Returned("err")
  IN  /\ e = [f \in DOMAIN e |-> e[f]] /\ "phase" \in DOMAIN e
      /\ e.phase = "result" => e.res # "ok"
BY Zenon DEF Returned

LEMMA PhaseMoves ==
  ASSUME CommitInv, NEW t \in Txs, NEW p, p # "result",
         exec' = [exec EXCEPT ![t].phase = p], UNCHANGED <<done, committed, bs>>
  PROVE  CommitInv'
<1> DEFINE r == exec[t]
           e == [r EXCEPT !.phase = p]
<1>1. e = [f \in DOMAIN r |-> IF f = "phase" THEN p ELSE r[f]]
  BY Zenon DEF CommitInv
<1>2. /\ e = [f \in DOMAIN e |-> e[f]] /\ "phase" \in DOMAIN e
      /\ e.phase = "result" => e.res # "ok"
  BY <1>1 DEF CommitInv
<1>3. exec' = [exec EXCEPT ![t] = e]
  OBVIOUS
<1> HIDE DEF e
<1> QED BY <1>2, <1>3, ExecMoves, Zenon

LEMMA RunMoves ==
  ASSUME CommitInv, NEW t \in Txs, NEW q, NEW rest, Run(t, q, rest),
         UNCHANGED <<done, committed, bs>>
  PROVE  CommitInv'
<1> DEFINE e == Begin(t, q)
<1>1. exec' = [exec EXCEPT ![t] = e]
  BY Zenon DEF Run
<1>2. /\ e = [f \in DOMAIN e |-> e[f]] /\ "phase" \in DOMAIN e
      /\ e.phase = "result" => e.res # "ok"
  BY BeginMoves, Zenon
<1> HIDE DEF e
<1> QED BY <1>1, <1>2, ExecMoves, Zenon

\* The worker takes an offer, from either end.
LEMMA TakeMoves ==
  ASSUME CommitInv, NEW t \in Txs, NEW q, TakeBack(t, q) \/ TakeFront(t, q),
         UNCHANGED <<done, committed, bs>>
  PROVE  CommitInv'
<1>1. \/ \E x, rest : Run(t, x, rest)
      \/ exec' = exec
  BY Zenon DEF TakeBack, TakeFront, RunCheapest, Keep
<1> QED BY <1>1, RunMoves, CommitStays, Zenon

LEMMA WorkerMoves ==
  ASSUME CommitInv, NEW t \in Txs, Worker(t)
  PROVE  CommitInv'
<1>1. CASE Delay(t)
  <2>1. UNCHANGED <<done, committed, bs>>
    BY <1>1, Zenon DEF Delay
  <2>2. \/ \E q : exec' = [exec EXCEPT ![t] = Begin(t, q)]
        \/ exec' = exec
    BY <1>1, Zenon DEF Delay
  <2>3. ASSUME NEW q, exec' = [exec EXCEPT ![t] = Begin(t, q)] PROVE CommitInv'
    <3> DEFINE e == Begin(t, q)
    <3>1. /\ e = [f \in DOMAIN e |-> e[f]] /\ "phase" \in DOMAIN e
          /\ e.phase = "result" => e.res # "ok"
      BY BeginMoves, Zenon
    <3>2. exec' = [exec EXCEPT ![t] = e]
      BY <2>3, Zenon
    <3> HIDE DEF e
    <3> QED BY <2>1, <3>1, <3>2, ExecMoves, Zenon
  <2> QED BY <2>1, <2>2, <2>3, CommitStays, Zenon
<1>2. CASE ExecDone(t)
  <2>1. UNCHANGED <<committed, bs>>
    BY <1>2, Zenon DEF ExecDone, callVars
  <2>2. CASE exec[t].res = "err" /\ worker[t].q # <<>>
    BY <1>2, <2>1, <2>2, RunMoves, Zenon DEF ExecDone
  <2>3. CASE ~(exec[t].res = "err" /\ worker[t].q # <<>>)
    <3> DEFINE e == [phase |-> "drained"]
    <3>1. /\ exec[t].phase = "result"
          /\ done' = [done EXCEPT ![t] = exec[t].res]
          /\ exec' = [exec EXCEPT ![t] = e]
      BY <1>2, <2>3, Zenon DEF ExecDone
    <3>2. done' = [u \in Txs |-> IF u = t THEN exec[t].res ELSE done[u]]
      BY <3>1, Zenon DEF CommitInv
    <3>3. exec' = [u \in Txs |-> IF u = t THEN e ELSE exec[u]]
      BY <3>1, Zenon DEF CommitInv
    <3>4. /\ done' = [u \in Txs |-> done'[u]]
          /\ exec' = [u \in Txs |-> exec'[u]]
      BY <3>2, <3>3, Zenon
    <3>5. ASSUME NEW u \in Txs
          PROVE  /\ "phase" \in DOMAIN exec'[u]
                 /\ exec'[u] = [f \in DOMAIN exec'[u] |-> exec'[u][f]]
                 /\ Success(u)' => committed'[u]
                 /\ done'[u] = "ok" => committed'[u]
      <4>1. CASE u = t
        <5>1. exec'[u] = e /\ done'[u] = exec[t].res
          BY <3>2, <3>3, <4>1, Zenon
        <5>2. done'[u] = "ok" => committed'[u]
          BY <2>1, <3>1, <4>1, <5>1, Zenon DEF CommitInv, Success
        <5>3. e = [f \in DOMAIN e |-> e[f]] /\ "phase" \in DOMAIN e /\ e.phase # "result"
          OBVIOUS
        <5> HIDE DEF e
        <5> QED BY <5>1, <5>2, <5>3, Zenon DEF Success
      <4>2. CASE u # t
        <5>1. exec'[u] = exec[u] /\ done'[u] = done[u]
          BY <3>2, <3>3, <4>2, Zenon
        <5> QED BY <2>1, <5>1, Zenon DEF CommitInv, Success
      <4> QED BY <4>1, <4>2, Zenon
    <3> QED BY <2>1, <3>4, <3>5, Zenon DEF CommitInv
  <2> QED BY <2>2, <2>3, Zenon
<1> QED BY <1>1, <1>2, Zenon DEF Worker

\* Execute commits the transaction in the step in which it returns no error.
LEMMA ResultMoves ==
  ASSUME CommitInv, NEW t \in Txs, TakeResult(t)
  PROVE  CommitInv'
<1> DEFINE res == Head(results[t].q).res
           last == exec[t].i + 1 = exec[t].n
           more == [phase |-> "retrieve", quote |-> exec[t].quote,
                    i |-> exec[t].i + 1, n |-> exec[t].n, known |-> exec[t].known]
           e == IF res = "ok" /\ ~last THEN more ELSE Returned(res)
<1>1. /\ exec' = [exec EXCEPT ![t] = e]
      /\ committed' = [committed EXCEPT ![t] = @ \/ (res = "ok" /\ last)]
      /\ UNCHANGED <<done, bs>>
  BY Zenon DEF TakeResult
<1>2. /\ e = [f \in DOMAIN e |-> e[f]] /\ "phase" \in DOMAIN e
      /\ e.phase = "result" /\ e.res = "ok" => res = "ok" /\ last
  BY Zenon DEF Returned
<1> HIDE DEF e, res, last
<1>3. exec' = [u \in Txs |-> IF u = t THEN e ELSE exec[u]]
  BY <1>1, Zenon DEF CommitInv
<1>4. committed' = [u \in Txs |-> IF u = t THEN committed[t] \/ (res = "ok" /\ last)
                                    ELSE committed[u]]
  BY <1>1, Zenon DEF CommitInv
<1>5. exec' = [u \in Txs |-> exec'[u]] /\ committed' = [u \in Txs |-> committed'[u]]
  BY <1>3, <1>4, Zenon
<1>6. ASSUME NEW u \in Txs
      PROVE  /\ "phase" \in DOMAIN exec'[u]
             /\ exec'[u] = [f \in DOMAIN exec'[u] |-> exec'[u][f]]
             /\ Success(u)' => committed'[u]
             /\ done'[u] = "ok" => committed'[u]
  <2>1. CASE u = t
    <3>1. exec'[u] = e
      BY <1>3, <2>1, Zenon
    <3>2. committed'[u] = (committed[t] \/ (res = "ok" /\ last))
      BY <1>4, <2>1, Zenon
    <3>3. done[t] = "ok" => committed[t]
      BY Zenon DEF CommitInv
    <3>4. done'[u] = "ok" => committed'[u]
      BY <1>1, <2>1, <3>2, <3>3, Zenon
    <3>5. Success(u)' => committed'[u]
      BY <1>2, <3>1, <3>2, Zenon DEF Success
    <3> QED BY <1>2, <3>1, <3>4, <3>5, Zenon
  <2>2. CASE u # t
    <3>1. exec'[u] = exec[u] /\ committed'[u] = committed[u]
      BY <1>3, <1>4, <2>2, Zenon
    <3> QED BY <1>1, <3>1, Zenon DEF CommitInv, Success
  <2> QED BY <2>1, <2>2, Zenon
<1> QED BY <1>1, <1>5, <1>6, Zenon DEF CommitInv

LEMMA ExecutorMoves ==
  ASSUME CommitInv, NEW t \in Txs, Executor(t)
  PROVE  CommitInv'
<1>1. CASE ConfirmEnds(t) \/ WaitEnds(t)
  <2>1. exec' = [exec EXCEPT ![t] = Returned("err")] /\ UNCHANGED <<done, committed, bs>>
    BY <1>1, Zenon DEF ConfirmEnds, WaitEnds, callVars
  <2> QED BY <2>1, ErrMoves, ExecMoves, Zenon
<1>2. CASE Execute(t)
  <2>1. PICK n, known : exec' = [exec EXCEPT ![t] =
                          [phase |-> "retrieve", quote |-> exec[t].quote,
                           i |-> 0, n |-> n, known |-> known]]
    BY <1>2, Zenon DEF Execute
  <2> DEFINE e == [phase |-> "retrieve", quote |-> exec[t].quote,
                   i |-> 0, n |-> n, known |-> known]
  <2>2. UNCHANGED <<done, committed, bs>>
    BY <1>2, Zenon DEF Execute, callVars
  <2>3. e = [f \in DOMAIN e |-> e[f]] /\ "phase" \in DOMAIN e /\ e.phase # "result"
    OBVIOUS
  <2>4. exec' = [exec EXCEPT ![t] = e]
    BY <2>1, Zenon
  <2> HIDE DEF e
  <2> QED BY <2>2, <2>3, <2>4, ExecMoves, Zenon
<1>3. CASE \E ok \in BOOLEAN : Retrieve(t, ok)
  <2>1. UNCHANGED <<done, committed, bs>>
    BY <1>3, Zenon DEF Retrieve
  <2>2. \/ exec' = [exec EXCEPT ![t] = Returned("err")]
        \/ \E deal : exec' = [exec EXCEPT ![t] =
                        [phase |-> "ongoing", quote |-> exec[t].quote,
                         i |-> exec[t].i, n |-> exec[t].n,
                         known |-> exec[t].known, deal |-> deal]]
    BY <1>3, Zenon DEF Retrieve
  <2>3. CASE exec' = [exec EXCEPT ![t] = Returned("err")]
    BY <2>1, <2>3, ErrMoves, ExecMoves, Zenon
  <2>4. ASSUME NEW deal, exec' = [exec EXCEPT ![t] =
                        [phase |-> "ongoing", quote |-> exec[t].quote,
                         i |-> exec[t].i, n |-> exec[t].n,
                         known |-> exec[t].known, deal |-> deal]]
        PROVE  CommitInv'
    <3> DEFINE e == [phase |-> "ongoing", quote |-> exec[t].quote,
                     i |-> exec[t].i, n |-> exec[t].n,
                     known |-> exec[t].known, deal |-> deal]
    <3>1. e = [f \in DOMAIN e |-> e[f]] /\ "phase" \in DOMAIN e /\ e.phase # "result"
      OBVIOUS
    <3>2. exec' = [exec EXCEPT ![t] = e]
      BY <2>4, Zenon
    <3> HIDE DEF e
    <3> QED BY <2>1, <3>1, <3>2, ExecMoves, Zenon
  <2> QED BY <2>2, <2>3, <2>4, Zenon
<1>4. CASE TakeResult(t)
  BY <1>4, ResultMoves, Zenon
<1> QED BY <1>1, <1>2, <1>3, <1>4, Zenon DEF Executor

LEMMA CallMoves ==
  ASSUME CommitInv, NEW t \in Txs, Call(t)
  PROVE  CommitInv'
<1>1. CASE SetReceiver(t) \/ WithTriage(t) \/ TakeDone(t) \/ ContextReturns(t)
  <2>1. UNCHANGED <<exec, done, committed, bs>>
    BY <1>1, Zenon DEF SetReceiver, WithTriage, TakeDone, ContextReturns
  <2> QED BY <2>1, CommitStays, Zenon
<1>2. CASE Triage(t) \/ Exec(t) \/ ReadOngoing(t)
  <2>1. UNCHANGED <<done, committed, bs>>
    BY <1>2, Zenon DEF Triage, Exec, ReadOngoing, callVars
  <2>2. \/ exec' = exec
        \/ \E p \in {"confirm", "execute", "wait"} : exec' = [exec EXCEPT ![t].phase = p]
    BY <1>2, Zenon DEF Triage, Exec, ReadOngoing
  <2> QED BY <2>1, <2>2, PhaseMoves, CommitStays, Zenon
<1>3. CASE \E migrated \in BOOLEAN : Close(t, migrated)
  <2>1. /\ UNCHANGED <<exec, done, committed>>
        /\ bs' = bs \/ bs' = [bs EXCEPT ![Root[t]] = DumpStore(t)]
    BY <1>3, Zenon DEF Close
  <2>2. bs' = [r \in Roots |-> bs'[r]]
    BY <2>1, Zenon DEF CommitInv
  <2> QED BY <2>1, <2>2 DEF CommitInv, Success
<1>4. CASE \E opened \in BOOLEAN : QueryProvider(t, opened)
  <2>1. UNCHANGED <<done, committed, bs>>
    BY <1>4, Zenon DEF QueryProvider
  <2>2. exec' = exec \/ \E q : TakeFront(t, q)
    BY <1>4, Zenon DEF QueryProvider
  <2> QED BY <2>1, <2>2, TakeMoves, CommitStays, Zenon
<1>5. CASE \E k \in Seqnos : \E new \in SUBSET MessagesOf(Client, Root[t], k) :
             QueryNetwork(t, k, new)
  <2>1. UNCHANGED <<exec, done, committed, bs>>
    BY <1>5, Zenon DEF QueryNetwork
  <2> QED BY <2>1, CommitStays, Zenon
<1> QED BY <1>1, <1>2, <1>3, <1>4, <1>5, Zenon DEF Call

\* The worker that takes an offer is the one of a transaction.
ReceiverInv == receiver \in Txs \cup {None} /\ (rmu # None => receiver # None)

LEMMA ReceiverNext == ASSUME ReceiverInv, [Next]_vars PROVE ReceiverInv'
<1>1. ASSUME NEW t \in Txs, SetReceiver(t) PROVE ReceiverInv'
  BY <1>1, Zenon DEF SetReceiver, ReceiverInv
<1>2. ASSUME NEW s \in streams, HandleOffer(s) PROVE ReceiverInv'
  BY <1>2, Zenon DEF HandleOffer, ReceiverInv
<1>3. CASE PushBack
  BY <1>3, Zenon DEF PushBack, ReceiverInv
<1>4. ASSUME NEW t \in Txs, Start(t) \/ Worker(t) \/ Executor(t) \/ ContextEnds(t)
      PROVE  UNCHANGED <<receiver, rmu>>
  BY <1>4, Zenon DEF Start, Worker, Delay, ExecDone, Executor, ConfirmEnds, Execute,
              TakeResult, WaitEnds, Retrieve, ContextEnds
<1>5. ASSUME NEW t \in Txs, Call(t), ~SetReceiver(t) PROVE UNCHANGED <<receiver, rmu>>
  BY <1>5, Zenon DEF Call, WithTriage, Triage, Exec, ReadOngoing, TakeDone,
              ContextReturns, Close, QueryProvider, QueryNetwork
<1>6. CASE \/ \E opened \in BOOLEAN : Network(opened)
           \/ \E d \in deals, res \in {"ok", "err"} : DealEnds(d, res)
           \/ UNCHANGED vars
  BY <1>6, Zenon DEF Network, DealEnds, vars, txVars, ReceiverInv
<1> QED BY <1>1, <1>2, <1>3, <1>4, <1>5, <1>6, Zenon DEF Next, ReceiverInv

LEMMA CommitNext ==
  ASSUME CommitInv, ReceiverInv, [Next]_vars
  PROVE  CommitInv'
<1>1. CASE PushBack
  <2>1. TakeBack(receiver, Quote(rmu)) /\ receiver \in Txs
    BY <1>1, Zenon DEF PushBack, ReceiverInv
  <2>2. UNCHANGED <<done, committed, bs>>
    BY <1>1, Zenon DEF PushBack, callVars
  <2> QED BY <2>1, <2>2, TakeMoves, Zenon
<1>2. ASSUME NEW t \in Txs, Worker(t) \/ Executor(t) \/ Call(t) PROVE CommitInv'
  BY <1>2, WorkerMoves, ExecutorMoves, CallMoves, Zenon
<1>3. CASE \/ \E opened \in BOOLEAN : Network(opened)
           \/ \E s \in streams : HandleOffer(s)
           \/ \E t \in Txs : Start(t) \/ ContextEnds(t)
           \/ \E d \in deals, res \in {"ok", "err"} : DealEnds(d, res)
           \/ UNCHANGED vars
  <2>1. UNCHANGED <<exec, done, committed, bs>>
    BY <1>3, Zenon DEF Network, HandleOffer, Start, ContextEnds, DealEnds,
                vars, txVars, callVars
  <2> QED BY <2>1, CommitStays, Zenon
<1> QED BY <1>1, <1>2, <1>3, Zenon DEF Next

\* No transaction reports success before its result was committed, and the
\* handlers' lock is only held for a registered worker (tx.go: Execute, Start;
\* routing.go: handleOffer).
THEOREM CommitInvariant == Spec => [](CommitInv /\ ReceiverInv)
<1>1. ASSUME Init PROVE CommitInv /\ ReceiverInv
  BY <1>1, CommitInit, Zenon DEF Init, ReceiverInv
<1>2. ASSUME CommitInv /\ ReceiverInv, [Next]_vars PROVE (CommitInv /\ ReceiverInv)'
  BY <1>2, CommitNext, ReceiverNext, Zenon
<1> QED BY <1>1, <1>2, PTL DEF Spec

\* A caller becomes "closed" in the step of Close that moved its blocks.
CallerInv == caller = [t \in Txs |-> caller[t]]

LEMMA CallerMoves ==
  ASSUME [Next]_vars
  PROVE  \/ caller' = caller
         \/ \E u \in Txs : \E c \in {"starting", "registered", "ready", "triage",
                                      "exec", "loop", "wait", "finishing"} :
              caller' = [caller EXCEPT ![u] = c]
         \/ \E u \in Txs, migrated \in BOOLEAN : Close(u, migrated)
<1>1. ASSUME NEW t \in Txs, Worker(t) \/ Executor(t) \/ ContextEnds(t)
      PROVE  caller' = caller
  BY <1>1, Zenon DEF Worker, Delay, ExecDone, Executor, ConfirmEnds, Execute,
              TakeResult, WaitEnds, Retrieve, ContextEnds, callVars
<1>2. ASSUME NEW t \in Txs, Start(t) \/ Call(t),
             ~ \E migrated \in BOOLEAN : Close(t, migrated)
      PROVE  \/ caller' = caller
             \/ \E c \in {"starting", "registered", "ready", "triage",
                           "exec", "loop", "wait", "finishing"} :
                  caller' = [caller EXCEPT ![t] = c]
  BY <1>2, Zenon DEF Start, Call, SetReceiver, WithTriage, Triage, Exec, ReadOngoing,
              TakeDone, ContextReturns, QueryProvider, QueryNetwork, Asked, callVars
<1>3. CASE \/ \E opened \in BOOLEAN : Network(opened)
           \/ \E s \in streams : HandleOffer(s)
           \/ PushBack
           \/ \E d \in deals, res \in {"ok", "err"} : DealEnds(d, res)
           \/ UNCHANGED vars
  BY <1>3, Zenon DEF Network, HandleOffer, PushBack, DealEnds, vars, txVars, callVars
<1> QED BY <1>1, <1>2, <1>3, Zenon DEF Next

LEMMA CallerNext == ASSUME CallerInv, [Next]_vars PROVE CallerInv'
<1>1. ASSUME NEW u \in Txs, NEW c, caller' = [caller EXCEPT ![u] = c] PROVE CallerInv'
  BY <1>1, Zenon DEF CallerInv
<1>2. ASSUME NEW u \in Txs, NEW migrated \in BOOLEAN, Close(u, migrated)
      PROVE  \E c : caller' = [caller EXCEPT ![u] = c]
  BY <1>2, Zenon DEF Close
<1> QED BY <1>1, <1>2, CallerMoves, Zenon DEF CallerInv

\* What a transaction received before it reported success is in the global
\* blockstore when Close has returned, however many transactions there are
\* and however their calls interleave (tx.go: Execute, Close, dumpStore).
THEOREM NothingIsLost == Spec => Kept
<1> DEFINE Moved == \A t \in Txs :
              caller[t] = "finishing" /\ caller'[t] = "closed" /\ done[t] = "ok"
                => store[t] \subseteq bs'[Root[t]]
<1>1. ASSUME Init PROVE CallerInv
  BY <1>1, Zenon DEF Init, CallerInv
<1>2. Spec => []CallerInv
  BY <1>1, CallerNext, PTL DEF Spec
<1>3. ASSUME CommitInv, CallerInv, [Next]_vars PROVE [Moved]_vars
  <2> SUFFICES ASSUME NEW t \in Txs, caller[t] = "finishing",
                      caller'[t] = "closed", done[t] = "ok"
               PROVE  store[t] \subseteq bs'[Root[t]]
    OBVIOUS
  <2>1. ASSUME NEW u \in Txs, NEW c, c # "closed", caller' = [caller EXCEPT ![u] = c]
        PROVE  FALSE
    BY <1>3, <2>1, Zenon DEF CallerInv
  <2>2. PICK u \in Txs, migrated \in BOOLEAN : Close(u, migrated)
    BY <1>3, <2>1, CallerMoves, Zenon
  <2>3. caller' = [caller EXCEPT ![u] = IF migrated THEN "closed" ELSE "failed"]
    BY <2>2, Zenon DEF Close
  <2>4. u = t /\ migrated
    BY <1>3, <2>3, Zenon DEF CallerInv
  <2>5. bs' = [bs EXCEPT ![Root[t]] = DumpStore(t)]
    BY <2>2, <2>4, Zenon DEF Close
  <2>6. bs'[Root[t]] = DumpStore(t)
    BY <1>3, <2>5, TransactionAssumption, Zenon DEF CommitInv
  <2>7. committed[t]
    BY <1>3, Zenon DEF CommitInv
  <2> QED BY <2>6, <2>7, Zenon DEF DumpStore
<1> QED BY <1>2, <1>3, CommitInvariant, PTL DEF Spec, Kept
=============================================================================
