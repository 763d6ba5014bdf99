---------------------------- MODULE Replication ----------------------------
(***************************************************************************)
(* Dispatching a content to caches (exchange/replication.go): Dispatch and *)
(* sendAllRequests of the publishing node, handleRequest of the caches,    *)
(* which are its peers, and the data transfers between them.               *)
(*                                                                         *)
(* All dispatches are of one content, which is the hard case: the stores   *)
(* that both ends keep are found by the root of the content.               *)
(***************************************************************************)
EXTENDS PeerMgr

CONSTANTS
    Calls,      \* the calls of the node that make transactions and dispatch
    InitPeers,  \* DispatchOptions.Peers of a call
    RF,         \* DispatchOptions.RF
    Attempts    \* DispatchOptions.BackoffAttempts

ASSUME ReplicationAssumption ==
    /\ None \notin Calls
    /\ InitPeers \in [Calls -> Seq(Peers)]
    /\ RF \in [Calls -> Nat] /\ Attempts \in [Calls -> Nat]

VARIABLES
    stores,     \* the transaction whose store the publisher uses for the root
    live,       \* the transactions whose store has not been deleted
    pulls,      \* the peers that may pull the content
    dispatch,   \* the goroutine of a call of Dispatch
    resChan,    \* its channel of confirmations
    sends,      \* the goroutines of sendAllRequests, by call and attempt
    handlers,   \* the calls of handleRequest at the caches
    storeOf,    \* the store a cache uses for the content
    full,       \* the stores at the caches that have the blocks
    bs,         \* the caches with the blocks in their global blockstore
    events,     \* the transfers whose completion the publisher has to see
    overlapped  \* history: the caches that pulled the content twice at a time

dispatchVars == <<stores, pulls, dispatch, resChan, sends>>
cacheVars == <<handlers, storeOf, full, bs, events, overlapped>>

\* A request, which also names the store that its handler creates.
Requests == [call: Calls, peer: Peers, at: Nat, i: Nat]

Running(d) == dispatch[d].phase \in {"begin", "wait"}

NoSend == [todo |-> <<>>, i |-> 1, waiting |-> FALSE]

ReplicationTypeOK ==
    /\ PeerTypeOK
    /\ stores \in Calls \cup {None} /\ live \subseteq Calls
    /\ pulls \subseteq Peers
    /\ \A d \in Calls :
         /\ dispatch[d].phase \in {"none", "begin", "wait", "closed"}
         /\ dispatch[d].attempt \in 0..Attempts[d] + 1 /\ dispatch[d].n \in 0..RF[d]
         /\ dispatch[d].rcv \subseteq Peers /\ dispatch[d].out \in Seq(Peers)
         /\ resChan[d] \in Seq(Peers)
    /\ \A h \in handlers : h.phase \in {"asked", "open", "pull", "got"}
    /\ storeOf \in [Peers -> Requests \cup {None}]
    /\ full \subseteq Requests /\ events \subseteq Requests
    /\ bs \subseteq Peers /\ overlapped \subseteq Peers

ReplicationInit(known, allowed) ==
    /\ PeerInit(known, allowed)
    /\ stores = None /\ live = {} /\ pulls = {}
    /\ dispatch = [d \in Calls |-> [phase |-> "none", attempt |-> 0, n |-> 0,
                                    rcv |-> {}, out |-> <<>>]]
    /\ resChan = [d \in Calls |-> <<>>]
    /\ sends = [d \in Calls |-> [k \in 0..Attempts[d] |-> NoSend]]
    /\ handlers = {} /\ full = {} /\ bs = {} /\ events = {}
    /\ overlapped = {}
    /\ storeOf = [p \in Peers |-> None]

-----------------------------------------------------------------------------
(***************************************************************************)
(* Dispatch.                                                               *)
(***************************************************************************)

\* Commit of a transaction: if there is anyone to dispatch to, Dispatch assigns
\* the store to the root and starts a goroutine.
Dispatch(d, tx) ==
    /\ stores' = IF RF[d] > 0 THEN tx ELSE stores
    /\ dispatch' = [dispatch EXCEPT ![d].phase = IF RF[d] > 0 THEN "begin" ELSE "closed"]
    /\ UNCHANGED <<pulls, resChan, sends>>

\* Mutant: a peer that was asked is asked again in the next round.
MutReceived(d, chosen) == {}

\* The peers that are not asked again.
Received(d, chosen) == dispatch[d].rcv \cup ToSet(chosen)

\* A pass of the loop, when the goroutine begins and when the timer fires:
\* authorize and ask the peers that are still needed.
Round(d) ==
    LET k == dispatch[d].attempt
    IN  /\ Running(d)
        /\ \/ /\ k > Attempts[d]
              /\ dispatch' = [dispatch EXCEPT ![d].phase = "closed"]
              /\ UNCHANGED <<pulls, sends>>
           \/ /\ k <= Attempts[d]
              /\ \E chosen \in PeersFor(RF[d] - dispatch[d].n, dispatch[d].rcv, InitPeers[d]) :
                   /\ pulls' = pulls \cup ToSet(chosen)
                   /\ dispatch' = [dispatch EXCEPT ![d].phase = "wait",
                                     ![d].attempt = k + 1,
                                     ![d].rcv = Received(d, chosen)]
                   /\ sends' = [sends EXCEPT ![d][k].todo = chosen]
        /\ UNCHANGED <<stores, resChan>>

\* case r := <-resChan
Confirmed(d) ==
    /\ dispatch[d].phase = "wait" /\ resChan[d] # <<>>
    /\ resChan' = [resChan EXCEPT ![d] = Tail(@)]
    /\ dispatch' = [dispatch EXCEPT ![d].n = @ + 1,
                       ![d].out = Append(@, Head(resChan[d])),
                       ![d].phase = IF dispatch[d].n + 1 = RF[d] THEN "closed" ELSE @]
    /\ UNCHANGED <<stores, pulls, sends>>

\* The request that sendAllRequests is busy with.
Asking(d, k) == [call |-> d, peer |-> Head(sends[d][k].todo), at |-> k, i |-> sends[d][k].i]

Skip(d, k) ==
    [sends EXCEPT ![d][k] = [todo |-> Tail(@.todo), i |-> @.i + 1, waiting |-> FALSE]]

\* sendAllRequests writes a request, or goes on if no stream opens.
SendRequest(d, k, opened) ==
    LET p == Head(sends[d][k].todo)
    IN  /\ sends[d][k].todo # <<>> /\ ~sends[d][k].waiting
        /\ opened => p \in connected
        /\ IF opened \/ p \notin connected THEN UNCHANGED faults ELSE Fault
        /\ sends' = IF opened THEN [sends EXCEPT ![d][k].waiting = TRUE] ELSE Skip(d, k)
        /\ handlers' = IF ~opened THEN handlers
                         ELSE handlers \cup {[id |-> Asking(d, k), phase |-> "asked",
                                              src |-> None, dst |-> None]}
        /\ UNCHANGED <<stores, pulls, dispatch, resChan, storeOf, full, bs, events, overlapped>>

\* The peer is gone and its response cannot be read.
ReadFailed(d, k) ==
    LET s == sends[d][k]
    IN  /\ s.waiting /\ Head(s.todo) \notin connected
        /\ sends' = Skip(d, k)
        /\ UNCHANGED <<stores, pulls, dispatch, resChan>>

\* The subscriber: every running dispatch counts every transfer of the root.
TransferCompleted(e) ==
    /\ e \in events
    /\ \A d \in Calls : Running(d) => Len(resChan[d]) < RF[d]
    /\ events' = events \ {e}
    /\ resChan' = [d \in Calls |-> IF Running(d) THEN Append(resChan[d], e.peer)
                                     ELSE resChan[d]]
    /\ UNCHANGED <<stores, pulls, dispatch, sends, handlers, storeOf, full, bs,
                   overlapped>>

-----------------------------------------------------------------------------
(***************************************************************************)
(* handleRequest at a cache.                                               *)
(***************************************************************************)

To(h, phase) == (handlers \ {h}) \cup {[h EXCEPT !.phase = phase]}
Return(h) == handlers \ {h}

\* Whether sendAllRequests still reads from the stream of a request.
Reading(h) ==
    LET s == sends[h.id.call][h.id.at] IN s.i = h.id.i /\ s.waiting

\* The response is written, or not, and the handler returns.  It is a proof if
\* the index has the content; if not, a new store is assigned to the root.
\* sendAllRequests reads the response and confirms for a peer with a proof.
Respond(h, written) ==
    LET d == h.id.call
        p == h.id.peer
        has == p \in index
        confirms == written /\ has /\ Reading(h)
    IN  /\ h \in handlers /\ h.phase = "asked"
        /\ ~written => p \notin connected
        /\ confirms => Len(resChan[d]) < RF[d]
        /\ resChan' = IF confirms THEN [resChan EXCEPT ![d] = Append(@, p)] ELSE resChan
        /\ sends' = IF written /\ Reading(h) THEN Skip(d, h.id.at) ELSE sends
        /\ IF written /\ ~has
             THEN /\ handlers' = To(h, "open")
                  /\ storeOf' = [storeOf EXCEPT ![p] = h.id]
                  /\ overlapped' = overlapped \cup
                        {g.id.peer : g \in {g \in handlers : g.id.peer = p /\ g.phase # "asked"}}
             ELSE handlers' = Return(h) /\ UNCHANGED <<storeOf, overlapped>>
        /\ UNCHANGED <<stores, pulls, dispatch, full, bs, events>>

\* ValidatePull at the publisher.
ValidatePull(p) == p \in pulls

\* OpenPullDataChannel: at either end TransportConfigurer looks the store of
\* the root up.
OpenPull(h) ==
    /\ h \in handlers /\ h.phase = "open"
    /\ handlers' = IF ~ValidatePull(h.id.peer) THEN Return(h)
                     ELSE (handlers \ {h}) \cup {[id |-> h.id, phase |-> "pull",
                             src |-> stores, dst |-> storeOf[h.id.peer]]}
    /\ UNCHANGED <<dispatchVars, storeOf, full, bs, events, overlapped>>

\* The transfer ends.  Blocks are only found in a store that still exists.
Pulled(h, ok) ==
    /\ h \in handlers /\ h.phase = "pull"
    /\ ok => h.src \in live
    /\ IF ok \/ h.src \notin live THEN UNCHANGED faults ELSE Fault
    /\ handlers' = IF ok THEN To(h, "got") ELSE Return(h)
    /\ full' = IF ok THEN full \cup {h.dst} ELSE full
    /\ events' = IF ok THEN events \cup {h.id} ELSE events
    /\ UNCHANGED <<dispatchVars, storeOf, bs, overlapped>>

\* Mutant: the ref is set although the blocks were not migrated.
MutSetRef(p, migrated) == index \cup {p}

SetRef(p, migrated) == IF migrated THEN index \cup {p} ELSE index

\* case datatransfer.Completed: the blocks of the store that the root has now
\* are migrated, the ref is set and the store of this request is deleted.
Migrate(h, migrated) ==
    LET p == h.id.peer
    IN  /\ h \in handlers /\ h.phase = "got"
        /\ IF migrated THEN UNCHANGED faults ELSE Fault
        /\ handlers' = Return(h)
        /\ bs' = IF migrated /\ storeOf[p] \in full THEN bs \cup {p} ELSE bs
        /\ index' = SetRef(p, migrated)
        /\ full' = IF migrated THEN full \ {h.id} ELSE full
        /\ UNCHANGED <<dispatchVars, storeOf, events, overlapped>>

-----------------------------------------------------------------------------
(***************************************************************************)
(* Properties.                                                             *)
(***************************************************************************)

\* A cache that lists a dispatched content has its blocks, unless it ever
\* handled two requests for it at a time: "if we fail migrating the blocks we
\* shouldn't set the ref" (replication.go: handleRequest, GetStore).
RefsHaveBlocks == \A p \in index : p \in bs \/ p \in overlapped

\* As long as no other dispatch of the content was started, no peer was named
\* and there is one region, the confirmations a dispatch counts are of as many
\* different peers (replication.go: Dispatch, sendAllRequests; Peers).
EnoughPeers ==
    \A d \in Calls :
        (/\ \A c \in Calls \ {d} : dispatch[c].phase = "none"
         /\ Len(Home) = 1 /\ InitPeers[d] = <<>>)
          => Cardinality(ToSet(dispatch[d].out)) = dispatch[d].n
=============================================================================
