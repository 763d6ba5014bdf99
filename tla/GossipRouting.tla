--------------------------- MODULE GossipRouting ---------------------------
(***************************************************************************)
(* Content routing of pop (exchange/routing.go).  A node publishes a query *)
(* on the topic of each of its regions.  Pubsub, which is a library and is *)
(* modelled from how the tracer and the pump use it, hands a message to a  *)
(* node once, from one of the node's neighbours that already has it.  A    *)
(* node with the content answers the neighbour that it got the message     *)
(* from, and a node that receives an offer for a query it did not publish  *)
(* passes it on to the neighbour the query came from.                      *)
(***************************************************************************)
EXTENDS Integers, FiniteSets

CONSTANTS
    Nodes,      \* the hosts
    Askers,     \* the hosts that publish queries
    Links,      \* pairs <<a, b>> of connected hosts, in both directions
    Regions,    \* the regions, each of which is a pubsub topic
    RegionsOf,  \* the regions a host has joined
    Roots,      \* the contents
    Seqnos,     \* the numbers pubsub gives to the messages of a host, 1..n
    Holds,      \* the contents whose blocks a host has
    None        \* no host

VARIABLES
    published,  \* the messages a host published (GossipTracer.published)
    senders,    \* the neighbour a message came from (GossipTracer.senders)
    streams,    \* the offers on their way: written to a stream and not read
    hops        \* history: how many links a message crossed to a host

gossipVars == <<published, senders, streams, hops>>

ASSUME RoutingAssumption ==
    /\ None \notin Nodes
    /\ Askers \subseteq Nodes
    /\ Seqnos \subseteq Nat
    /\ Links \subseteq Nodes \X Nodes
    /\ RegionsOf \in [Nodes -> SUBSET Regions]
    /\ Holds \in [Nodes -> SUBSET Roots]

\* A message of a query: who asks, for what, on which topic, with the number
\* that makes its identifier unique.
Messages == [by: Askers, root: Roots, rg: Regions, seq: Seqnos]

\* An offer carries the identifier of the message it answers.
Offers == [id: Messages, from: Nodes]

Streams == [offer: Offers, at: Nodes]

RoutingTypeOK ==
    /\ published \in [Nodes -> SUBSET Messages]
    /\ senders \in [Nodes -> [Messages -> Nodes \cup {None}]]
    /\ streams \subseteq Streams
    /\ hops \in [Nodes -> [Messages -> Nat]]

RoutingInit ==
    /\ published = [n \in Nodes |-> {}]
    /\ senders = [n \in Nodes |-> [m \in Messages |-> None]]
    /\ streams = {}
    /\ hops = [n \in Nodes |-> [m \in Messages |-> 0]]

Published(n, m) == m \in published[n]
Sender(n, m) == senders[n][m]

\* The messages of a query of n, one for each region it has joined.
MessagesOf(n, root, k) ==
    {[by |-> n, root |-> root, rg |-> r, seq |-> k] : r \in RegionsOf[n]}

\* Query publishes on one topic after the other and returns the first error,
\* so only the messages in new are published.  The tracer sees each of them
\* published and then delivered to the host itself.
Query(n, root, k, new) ==
    /\ \A m \in published[n] : m.seq # k
    /\ new \subseteq MessagesOf(n, root, k)
    /\ published' = [published EXCEPT ![n] = @ \cup new]
    /\ senders' = [senders EXCEPT ![n] =
                     [m \in Messages |-> IF m \in new THEN n ELSE @[m]]]
    /\ UNCHANGED <<streams, hops>>

\* Mutant: the tracer stores the host of the event, not ReceivedFrom.
MutTrace(n, from) == n

\* Trace of a delivered message: the neighbour it was received from.
Trace(n, from) == from

\* Mutant: a duplicate is traced like a first delivery.
MutFresh(n, m) == ~Published(n, m)

\* Whether pubsub hands n the message as new.
Fresh(n, m) == Sender(n, m) = None

\* Whether handleQuery makes an offer.  The offer it remembers in deal.Mgr has
\* the terms of the default one.
HandleQuery(n, m) == m.root \in Holds[n]

\* Pubsub hands a message on and the tracer remembers the neighbour; a message
\* that a host has seen is a duplicate, which the tracer ignores.  The host's
\* pump asks handleQuery for an offer and writes it to a stream to the
\* neighbour; the delay of the stream stands for the time in the subscription
\* too.  Whoever lacks the content does not reply, and a stream that does not
\* open is only logged.  pump skips the messages of its own host.
Deliver(n, from, m, opened) ==
    /\ <<from, n>> \in Links
    /\ m.rg \in RegionsOf[n] \cap RegionsOf[from]
    /\ Sender(from, m) # None
    /\ Fresh(n, m)
    /\ senders' = [senders EXCEPT ![n][m] = Trace(n, from)]
    /\ hops' = [hops EXCEPT ![n][m] = hops[from][m] + 1]
    /\ streams' = IF HandleQuery(n, m) /\ opened
                    THEN streams \cup {[offer |-> [id |-> m, from |-> n], at |-> from]}
                    ELSE streams
    /\ UNCHANGED published

\* handleOffer at a host that did not publish the query: on to the sender,
\* or nowhere when there is none or no stream to it opens.
Forward(s, opened) ==
    LET n == s.at
        m == s.offer.id
    IN  /\ s \in streams
        /\ ~Published(n, m)
        /\ streams' = (streams \ {s}) \cup
                        IF Sender(n, m) # None /\ opened
                          THEN {[s EXCEPT !.at = Sender(n, m)]} ELSE {}
        /\ UNCHANGED <<published, senders, hops>>

\* handleOffer at the host that published the query: the offer is read.
Arrive(s) ==
    /\ s \in streams
    /\ Published(s.at, s.offer.id)
    /\ streams' = streams \ {s}
    /\ UNCHANGED <<published, senders, hops>>

Gossip(opened) ==
    \/ \E n, from \in Nodes, m \in Messages : Deliver(n, from, m, opened)
    \/ \E s \in streams : Forward(s, opened)

RoutingNext ==
    \/ \E n \in Askers, root \in Roots, k \in Seqnos :
         \E new \in SUBSET MessagesOf(n, root, k) : Query(n, root, k, new)
    \/ \E opened \in BOOLEAN : Gossip(opened)
    \/ \E s \in streams : Arrive(s)

RoutingSpec == RoutingInit /\ [][RoutingNext]_gossipVars

-----------------------------------------------------------------------------
(***************************************************************************)
(* Properties.                                                             *)
(***************************************************************************)

\* An offer is only ever at a host that published its query or that knows a
\* neighbour to hand it to: Sender never returns "no sender found" for an
\* offer that pump or handleOffer sent (routing.go: pump, handleOffer).
KnowsWayBack ==
    \A s \in streams :
        \/ Published(s.at, s.offer.id)
        \/ Sender(s.at, s.offer.id) \in Nodes \ {s.at}

\* handleOffer passes an offer only to a host that the query reached over
\* fewer links, so offers do not travel in circles (routing.go: handleOffer,
\* GossipTracer.Trace).
CloserToPublisher ==
    [][\A s \in streams \ streams', t \in streams' \ streams :
          s.offer = t.offer
            => hops[t.at][s.offer.id] < hops[s.at][s.offer.id]]_gossipVars
=============================================================================
