------------------------------ MODULE PeerMgr ------------------------------
(***************************************************************************)
(* The peers a node knows and the indexes they announce                    *)
(* (exchange/peermgr.go, and pumpIndexes of exchange/replication.go).      *)
(*                                                                         *)
(* When a connection is identified both ends send a Hey with their regions *)
(* and the root of their index.  The node emits an event for every region  *)
(* that it shares with the sender, and records the sender.  pumpIndexes    *)
(* reads the events and fetches the announced indexes one after the other. *)
(***************************************************************************)
EXTENDS Integers, Sequences, SequencesExt, FiniteSets

CONSTANTS
    Peers,      \* the other nodes
    Home,       \* the regions of this node, in the order of Options.Regions
    RegionsOf,  \* the regions of a peer
    Stocked,    \* the peers whose index lists other contents
    MaxFaults,  \* bound: how many calls fail and connections come and go
    None        \* no index root, nothing being fetched

ASSUME PeerAssumption ==
    /\ IsFiniteSet(Peers) /\ None \notin Peers
    /\ Home \in Seq(STRING) /\ IsInjective(Home)
    /\ RegionsOf \in [Peers -> SUBSET STRING]
    /\ Stocked \subseteq Peers
    /\ MaxFaults \in Nat

VARIABLES
    connected,  \* the peers with a connection
    index,      \* the peers whose index has the content that is dispatched
    heys,       \* the Hey messages on their way to this node
    peers,      \* the recorded peers (PeerMgr.peers)
    bus,        \* the HeyEvt that pumpIndexes has not read
    pump,       \* fetchDone is set, the fetch that runs, and the queue
    loaded,     \* the index roots given to LoadInterest
    faults      \* how many calls have failed and connections come or gone

peerVars == <<connected, index, heys, peers, bus, pump, loaded, faults>>

\* An index root: whose, and whether the content is in it.
Roots == [peer: Peers, has: BOOLEAN]
Heys == [peer: Peers, root: Roots \cup {None}]

\* The regions this node shares with a peer.
Shared(p) == SelectSeq(Home, LAMBDA r : r \in RegionsOf[p])

Fault == faults < MaxFaults /\ faults' = faults + 1

PeerTypeOK ==
    /\ connected \subseteq Peers /\ peers \subseteq Peers /\ index \subseteq Peers
    /\ heys \subseteq Heys
    /\ bus \in Seq(Heys) /\ pump.q \in Seq(Heys)
    /\ pump.set \in BOOLEAN /\ pump.fetch \in Heys \cup {None}
    /\ loaded \subseteq Roots
    /\ faults \in 0..MaxFaults

\* The peers in known have been recorded before and had no index to announce,
\* and allowed of the faults may happen.
PeerInit(known, allowed) ==
    /\ connected = known /\ peers = known /\ heys = {} /\ index = {}
    /\ bus = <<>> /\ loaded = {} /\ faults = MaxFaults - allowed
    /\ pump = [set |-> FALSE, fetch |-> None, q |-> <<>>]

-----------------------------------------------------------------------------
\* getHey: the root of an empty index is nil.
IndexRoot(p) ==
    IF p \in Stocked \cup index THEN [peer |-> p, has |-> p \in index] ELSE None

\* A connection is identified and the peer sends its Hey, with the root its
\* index has then.
Identified(p) ==
    /\ p \notin connected /\ Fault
    /\ connected' = connected \cup {p}
    /\ heys' = heys \cup {[peer |-> p, root |-> IndexRoot(p)]}
    /\ UNCHANGED <<index, peers, bus, pump, loaded>>

\* The connection drops.  A Hey that was read before is handled all the same.
Disconnected(p) ==
    /\ p \in connected /\ Fault
    /\ connected' = connected \ {p}
    /\ peers' = peers \ {p}
    /\ heys' \in {heys, {h \in heys : h.peer # p}}
    /\ UNCHANGED <<index, bus, pump, loaded>>

\* handleHey: an event for every shared region, and the peer is recorded.
HandleHey(h) ==
    /\ h \in heys
    /\ heys' = heys \ {h}
    /\ bus' = bus \o [i \in DOMAIN Shared(h.peer) |-> h]
    /\ peers' = IF Shared(h.peer) = <<>> THEN peers ELSE peers \cup {h.peer}
    /\ UNCHANGED <<connected, index, pump, loaded, faults>>

\* Mutant: the queue is not looked at after a fetch.
MutNextFetch == [pump EXCEPT !.fetch = None]

\* What pumpIndexes does after a fetch.  fetchDone stays set when the queue is
\* empty, so whatever is announced from then on is queued and not fetched.
NextFetch ==
    IF pump.q # <<>>
      THEN [pump EXCEPT !.fetch = Head(pump.q), !.q = Tail(pump.q)]
      ELSE [pump EXCEPT !.fetch = None]

\* case evt := <-sub.Out()
TakeEvent ==
    /\ bus # <<>>
    /\ bus' = Tail(bus)
    /\ pump' = IF Head(bus).root = None THEN pump
                 ELSE IF pump.set THEN [pump EXCEPT !.q = Append(@, Head(bus))]
                 ELSE [pump EXCEPT !.set = TRUE, !.fetch = Head(bus)]
    /\ UNCHANGED <<connected, index, heys, peers, loaded, faults>>

\* fetchIndex returns, and case res := <-fetchDone.  A peer that is not
\* connected does not answer.
FetchDone(ok) ==
    /\ pump.fetch # None
    /\ ok => pump.fetch.peer \in connected
    /\ IF ok \/ pump.fetch.peer \notin connected THEN UNCHANGED faults ELSE Fault
    /\ loaded' = IF ok THEN loaded \cup {pump.fetch.root} ELSE loaded
    /\ pump' = NextFetch
    /\ UNCHANGED <<connected, index, heys, peers, bus>>

PeerNext ==
    \/ \E p \in Peers : Identified(p) \/ Disconnected(p)
    \/ \E h \in heys : HandleHey(h)
    \/ TakeEvent
    \/ \E ok \in BOOLEAN : FetchDone(ok)

-----------------------------------------------------------------------------
\* One pass of the loop in Peers over a recorded peer and a region.
Add(acc, p, r, n, ignore) ==
    IF acc.full \/ p \in ignore THEN acc
      ELSE LET new == IF r \in RegionsOf[p] THEN Append(acc.found, p) ELSE acc.found
           IN  [found |-> new, full |-> Len(new) = n]

\* What Peers may return: the initial peers and then, region by region, the
\* recorded ones, in the order in which Go happens to range over the map.
PeersFor(n, ignore, init) ==
    LET first == SelectSeq(init, LAMBDA p : p \in peers /\ p \notin ignore)
        start == [found |-> first, full |-> Len(first) = n]
        Region(acc, r, order) ==
            FoldLeft(LAMBDA a, p : Add(a, p, r, n, ignore), acc, order)
        All(orders) ==
            FoldLeft(LAMBDA a, i : Region(a, Home[i], orders[i]), start,
                     [i \in 1..Len(Home) |-> i])
    IN  IF n = 0 THEN {<<>>}
          ELSE {All(orders).found :
                   orders \in [1..Len(Home) -> SetToSeqs(peers)]}

-----------------------------------------------------------------------------
\* What is queued while a fetch runs is fetched: "it keeps index roots into a
\* queue and iteratively fetches them" (replication.go: pumpIndexes).
QueueDrains == pump.fetch # None /\ pump.q # <<>> ~> pump.q = <<>>
=============================================================================
