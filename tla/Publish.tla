------------------------------ MODULE Publish ------------------------------
(***************************************************************************)
(* Publishing a content (node/popn.go, node/message.go and node/server.go, *)
(* Put, Commit and Close of exchange/tx.go): the commands that a client    *)
(* sends to the daemon and the POST handler, on top of Replication.        *)
(*                                                                         *)
(* A connection hands commands to the command server with csMu held.  Put  *)
(* and Status run right there, Commit and Get in a goroutine.  All of them *)
(* take txmu, which guards the one pending transaction of the node.        *)
(***************************************************************************)
EXTENDS Replication

CONSTANTS
    Kind,       \* "put", "commit", "get", "status" or "post"
    Scenarios   \* bound: the calls made together, the peers known when they
                \* begin, whether the node lists the content already, and how
                \* many faults may happen

ASSUME PublishAssumption ==
    /\ Kind \in [Calls -> {"put", "commit", "get", "status", "post"}]
    /\ \A s \in Scenarios :
         /\ s.calls \subseteq Calls /\ s.faults \in 0..MaxFaults /\ s.listed \in BOOLEAN
         /\ s.known \subseteq {p \in Peers \ Stocked : Shared(p) # <<>>}

VARIABLES
    at,     \* where a call is
    csMu,   \* the command that holds csMu, or None
    txmu,   \* the command that holds txmu, or None
    tx,     \* the pending transaction, named after the Put that made it
    own     \* whether the index of the node lists the content

nodeVars == <<at, csMu, txmu, tx, own>>
vars == <<peerVars, dispatchVars, live, cacheVars, nodeVars>>

TypeOK ==
    /\ ReplicationTypeOK
    /\ at \in [Calls -> {"new", "locking", "watching", "posted", "done"}]
    /\ csMu \in Calls \cup {None} /\ txmu \in Calls \cup {None}
    /\ tx \in Calls \cup {None}
    /\ own \in BOOLEAN

Init ==
    /\ \E s \in Scenarios :
         /\ ReplicationInit(s.known, s.faults)
         /\ at = [c \in Calls |-> IF c \in s.calls THEN "new" ELSE "done"]
         /\ own = s.listed
    /\ csMu = None /\ txmu = None /\ tx = None

Goto(c, where) == at' = [at EXCEPT ![c] = where]

-----------------------------------------------------------------------------
\* serveConn hands a command over: the first two run with csMu held.
GotMsg(c) ==
    /\ at[c] = "new" /\ Kind[c] # "post" /\ csMu = None
    /\ csMu' = IF Kind[c] \in {"put", "status"} THEN c ELSE None
    /\ Goto(c, IF Kind[c] = "commit" /\ Len(InitPeers[c]) > RF[c] THEN "done" ELSE "locking")
    /\ UNCHANGED <<peerVars, dispatchVars, live, cacheVars, txmu, tx, own>>

\* Put, with a file that can be read: it goes to the pending transaction.
Put(c) ==
    /\ Kind[c] = "put" /\ at[c] = "locking" /\ txmu = None
    /\ tx' = IF tx = None THEN c ELSE tx
    /\ live' = live \cup {tx'}
    /\ csMu' = None /\ Goto(c, "done")
    /\ UNCHANGED <<peerVars, dispatchVars, cacheVars, txmu, own>>

Status(c) ==
    /\ Kind[c] = "status" /\ at[c] = "locking" /\ txmu = None
    /\ csMu' = None /\ Goto(c, "done")
    /\ UNCHANGED <<peerVars, dispatchVars, live, cacheVars, txmu, tx, own>>

\* Mutant: Commit unlocks only when it succeeds.
MutUnlock(c, ok) == IF ok THEN None ELSE c

\* Commit unlocks on every path.
Unlock(c, ok) == None

\* Commit as far as WatchDispatch, for which it keeps the lock.
Commit(c) ==
    /\ Kind[c] = "commit" /\ at[c] = "locking" /\ txmu = None
    /\ \/ tx = None /\ Goto(c, "done") /\ txmu' = Unlock(c, FALSE) /\ UNCHANGED dispatchVars
       \/ tx # None /\ Goto(c, "watching") /\ txmu' = c /\ Dispatch(c, tx)
    /\ UNCHANGED <<peerVars, live, cacheVars, csMu, tx, own>>

\* The dispatch is over: SetRef, which fails if the content is listed and then
\* leaves the transaction pending, and Close, which deletes the store.
Committed(c) ==
    /\ at[c] = "watching" /\ dispatch[c].phase = "closed"
    /\ own' = TRUE
    /\ tx' = IF own THEN tx ELSE None
    /\ live' = IF own THEN live ELSE live \ {tx}
    /\ txmu' = Unlock(c, ~own) /\ Goto(c, "done")
    /\ UNCHANGED <<peerVars, dispatchVars, cacheVars, csMu>>

\* Get of the pending content returns with the lock held.
Get(c) ==
    /\ Kind[c] = "get" /\ at[c] = "locking" /\ txmu = None
    /\ txmu' = IF tx = None THEN None ELSE c
    /\ Goto(c, "done")
    /\ UNCHANGED <<peerVars, dispatchVars, live, cacheVars, csMu, tx, own>>

\* The POST handler has a transaction of its own and does not wait for the
\* dispatch.
Post(c) ==
    /\ Kind[c] = "post" /\ at[c] = "new"
    /\ live' = live \cup {c}
    /\ Dispatch(c, c)
    /\ Goto(c, "posted")
    /\ UNCHANGED <<peerVars, cacheVars, csMu, txmu, tx, own>>

\* SetRef, and the deferred Close whether it succeeded or not.
Posted(c) ==
    /\ at[c] = "posted"
    /\ own' = TRUE
    /\ live' = live \ {c}
    /\ Goto(c, "done")
    /\ UNCHANGED <<peerVars, dispatchVars, cacheVars, csMu, txmu, tx>>

-----------------------------------------------------------------------------
PeerStep ==
    /\ PeerNext
    /\ UNCHANGED <<dispatchVars, live, cacheVars, nodeVars>>

DispatchStep(d) ==
    /\ Round(d) \/ Confirmed(d) \/ \E k \in 0..Attempts[d] : ReadFailed(d, k)
    /\ UNCHANGED <<peerVars, live, cacheVars, nodeVars>>

SendStep(d) ==
    /\ \E k \in 0..Attempts[d], opened \in BOOLEAN : SendRequest(d, k, opened)
    /\ UNCHANGED <<connected, index, heys, peers, bus, pump, loaded, live, nodeVars>>

CacheStep(h) ==
    \/ /\ OpenPull(h) \/ \E written \in BOOLEAN : Respond(h, written)
       /\ UNCHANGED <<peerVars, live, nodeVars>>
    \/ /\ \E ok \in BOOLEAN : Pulled(h, ok)
       /\ UNCHANGED <<connected, index, heys, peers, bus, pump, loaded, live, nodeVars>>
    \/ /\ \E migrated \in BOOLEAN : Migrate(h, migrated)
       /\ UNCHANGED <<connected, heys, peers, bus, pump, loaded, live, nodeVars>>

EventStep(e) ==
    /\ TransferCompleted(e)
    /\ UNCHANGED <<peerVars, live, nodeVars>>

CallStep(c) == Put(c) \/ Status(c) \/ Commit(c) \/ Committed(c) \/ Get(c) \/ Posted(c)

Next ==
    \/ PeerStep
    \/ \E c \in Calls : GotMsg(c) \/ Post(c) \/ CallStep(c) \/ DispatchStep(c) \/ SendStep(c)
    \/ \E h \in handlers : CacheStep(h)
    \/ \E e \in events : EventStep(e)

Spec == Init /\ [][Next]_vars

\* Goroutines run, timers fire and transfers end.  Peers need not connect and
\* clients need not send anything.  No behaviour has infinitely many steps.
Progress ==
    \/ PeerStep /\ UNCHANGED connected
    \/ \E c \in Calls : CallStep(c) \/ DispatchStep(c) \/ SendStep(c)
    \/ \E h \in handlers : CacheStep(h)
    \/ \E e \in events : EventStep(e)

FairSpec == Spec /\ WF_vars(Progress)

-----------------------------------------------------------------------------
\* Get has left txmu locked.
Leaked == txmu # None /\ Kind[txmu] = "get"

\* Every command and every POST that was made returns, however the dispatches
\* go, unless a Get of the pending content was served (popn.go: Commit, Get;
\* replication.go: Dispatch; message.go: GotMsg).
CallsReturn == <>[](Leaked \/ \A c \in Calls : at[c] \in {"new", "done"})
=============================================================================
